-------------------------- MODULE ThreadPool_proof --------------------------
(***************************************************************************)
(* Proofs about the thread pool, for any finite sets of calling threads    *)
(* and workers and any max_size_.                                          *)
(***************************************************************************)
EXTENDS ThreadPool, FiniteSetTheorems, SequenceTheorems, TLAPS

CallerPcs == {"running", "locking", "pushing", "notifying"}
WorkerPcs == {"locking", "testing", "blocking", "waiting", "awake", "taking", "taken", "ended"}

(* mtx_ protects the queue: who is inside a critical section holds it, and   *)
(* what a worker has seen of the queue there stays true until it unlocks,    *)
(* although started_ is changed outside it.                                  *)
MutexInv ==
    /\ caller \in [Callers -> CallerPcs]
    /\ worker \in [Workers -> WorkerPcs]
    /\ handel \in [Workers -> Nat]
    /\ tasks \in Seq(Nat \ {0}) /\ resumed \in Seq(Nat)
    /\ created \in Nat
    /\ \A c \in Callers : caller[c] = "pushing" => mtx = c
    /\ \A w \in Workers :
         /\ worker[w] \in {"testing", "blocking", "awake", "taking"} => mtx = w
         /\ worker[w] = "blocking" => tasks = <<>>
         /\ worker[w] = "awake" => ~started \/ tasks # <<>>
         /\ worker[w] = "taking" => tasks # <<>>
         /\ handel[w] # 0 <=> worker[w] = "taken"

Resumed == {resumed[i] : i \in DOMAIN resumed}
Held == {handel[w] : w \in Workers} \ {0}
Holders == {w \in Workers : handel[w] # 0}

(* EachTakenOnce with names for its sets *)
OnceInv ==
    /\ Len(tasks) <= created
    /\ \A i \in 1 .. Len(tasks) : tasks[i] = created - Len(tasks) + i
    /\ \A v, w \in Workers : handel[v] # 0 /\ handel[v] = handel[w] => v = w
    /\ Resumed \cup Held = 1 .. created - Len(tasks)
    /\ Len(resumed) + Cardinality(Holders) = created - Len(tasks)

Notifying == {c \in Callers : caller[c] = "notifying"}
Coming == {w \in Workers : worker[w] \in {"locking", "testing", "awake", "taking"}}

(* the callers that have seen room in the queue and have not used it *)
Entering == {c \in Callers : caller[c] \in {"locking", "pushing"}}

Limit == MaxSize - 1 + Cardinality(Callers)

(* is a worker about to pop? *)
Popping == IF \E w \in Workers : worker[w] = "taking" THEN 1 ELSE 0

(* QueueBounded, strengthened by the callers that are entering: a size read  *)
(* while a worker pops is at most one too small.                             *)
RoomInv ==
    /\ Len(tasks) <= Limit
    /\ Len(tasks) - Popping + Cardinality(Entering) <= Limit

-----------------------------------------------------------------------------
(* Mutual exclusion, step by step. *)
LEMMA MutexInvariant == Spec => []MutexInv
  <1>1. Init => MutexInv
    BY PoolThreads DEF Init, MutexInv, CallerPcs, WorkerPcs
  <1>2. MutexInv /\ [Next]_vars => MutexInv'
    <2> SUFFICES ASSUME MutexInv, [Next]_vars PROVE MutexInv'
      OBVIOUS
    <2>0. created + 1 \in Nat \ {0} /\ Append(tasks, created + 1) \in Seq(Nat \ {0})
          /\ Append(tasks, created + 1) # <<>>
      <3>1. tasks \in Seq(Nat \ {0}) /\ created + 1 \in Nat \ {0}
        BY DEF MutexInv
      <3> QED
        BY <3>1, AppendProperties
    <2> USE PoolThreads DEF MutexInv, CallerPcs, WorkerPcs
    <2>1. ASSUME NEW c \in Callers, AwaitReady(c) PROVE MutexInv'
      BY <2>1 DEF AwaitReady, CallerTo
    <2>2. ASSUME NEW c \in Callers, EnqueueLock(c) PROVE MutexInv'
      BY <2>2 DEF EnqueueLock, CallerTo
    <2>3. ASSUME NEW c \in Callers, EnqueuePush(c) PROVE MutexInv'
      <3>1. mtx = c /\ \A w \in Workers : mtx # w
        BY <2>3 DEF EnqueuePush
      <3> QED
        BY <2>0, <2>3, <3>1 DEF EnqueuePush, CallerTo, Handle
    <2>4. ASSUME NEW c \in Callers, EnqueueNotify(c) PROVE MutexInv'
      BY <2>4 DEF EnqueueNotify, NotifyOne, Waiting, CallerTo, WorkerTo
    <2>5. ASSUME NEW w \in Workers, WorkerLock(w) PROVE MutexInv'
      BY <2>5 DEF WorkerLock, WorkerTo
    <2>6. ASSUME NEW w \in Workers, WorkerTests(w) PROVE MutexInv'
      BY <2>6 DEF WorkerTests, WorkerTo, MayGoOn
    <2>7. ASSUME NEW w \in Workers, WorkerWaits(w) PROVE MutexInv'
      BY <2>7 DEF WorkerWaits, WorkerTo
    <2>8. ASSUME NEW w \in Workers, SpuriousWakeup(w) PROVE MutexInv'
      BY <2>8 DEF SpuriousWakeup, WorkerTo, Waiting
    <2>9. ASSUME NEW w \in Workers, WorkerReturns(w) PROVE MutexInv'
      BY <2>9 DEF WorkerReturns, WorkerTo
    <2>10. ASSUME NEW w \in Workers, WorkerFront(w) PROVE MutexInv'
      BY <2>10 DEF WorkerFront, WorkerTo
    <2>11. ASSUME NEW w \in Workers, WorkerTakes(w) PROVE MutexInv'
      <3>1. Head(tasks) \in Nat \ {0} /\ Tail(tasks) \in Seq(Nat \ {0}) /\ mtx = w
        BY <2>11, HeadTailProperties DEF WorkerTakes
      <3> QED
        BY <2>11, <3>1 DEF WorkerTakes, WorkerTo, PopFront, Unlock
    <2>12. ASSUME NEW w \in Workers, WorkerResumes(w) PROVE MutexInv'
      <3>1. Append(resumed, handel[w]) \in Seq(Nat)
        BY AppendProperties
      <3> QED
        BY <2>12, <3>1 DEF WorkerResumes, WorkerTo
    <2>13. CASE Stop \/ Destruct
      BY <2>13 DEF Stop, Destruct
    <2>14. CASE NotifyAll
      BY <2>14 DEF NotifyAll
    <2>15. CASE Join
      BY <2>15 DEF Join
    <2>16. CASE UNCHANGED vars
      BY <2>16 DEF vars
    <2> QED
      BY <2>1, <2>2, <2>3, <2>4, <2>5, <2>6, <2>7, <2>8, <2>9, <2>10, <2>11, <2>12, <2>13,
         <2>14, <2>15, <2>16
      DEF Next, CallerStep, WorkerStep
  <1> QED
    BY <1>1, <1>2, PTL DEF Spec

(* Each coroutine once and in order, step by step. *)
LEMMA OnceInvariant == Spec => []OnceInv
  <1>1. Init => OnceInv
    <2> SUFFICES ASSUME Init PROVE OnceInv
      OBVIOUS
    <2>1. Len(tasks) = 0 /\ Len(resumed) = 0 /\ created = 0
      BY DEF Init
    <2>2. Resumed = {} /\ Held = {} /\ Holders = {}
      BY DEF Init, Resumed, Held, Holders
    <2>3. 1 .. created - Len(tasks) = {} /\ created - Len(tasks) = 0
      BY <2>1
    <2>4. \A v \in Workers : handel[v] = 0
      BY DEF Init
    <2> QED
      BY <2>1, <2>2, <2>3, <2>4, FS_EmptySet DEF OnceInv
  <1>2. MutexInv /\ OnceInv /\ [Next]_vars => OnceInv'
    <2> SUFFICES ASSUME MutexInv, OnceInv, [Next]_vars PROVE OnceInv'
      OBVIOUS
    <2>0. ASSUME UNCHANGED <<tasks, handel, created, resumed>> PROVE OnceInv'
      BY <2>0 DEF OnceInv, Resumed, Held, Holders
    <2>1. ASSUME NEW c \in Callers, EnqueuePush(c) PROVE OnceInv'
      <3>1. /\ created' = created + 1 /\ tasks' = Append(tasks, created + 1)
            /\ UNCHANGED <<handel, resumed>>
        BY <2>1 DEF EnqueuePush, Handle
      <3>2. tasks \in Seq(Nat \ {0}) /\ created \in Nat /\ created + 1 \in Nat \ {0} /\ Len(tasks) \in Nat
        BY DEF MutexInv
      <3>3. /\ Len(tasks') = Len(tasks) + 1
            /\ \A i \in 1 .. Len(tasks) : tasks'[i] = tasks[i]
            /\ tasks'[Len(tasks) + 1] = created + 1
        BY <3>1, <3>2, AppendProperties
      <3>4. created' - Len(tasks') = created - Len(tasks)
        BY <3>1, <3>2, <3>3
      <3>5. \A i \in 1 .. Len(tasks') : tasks'[i] = created' - Len(tasks') + i
        BY <3>1, <3>2, <3>3, <3>4 DEF OnceInv
      <3>6. Len(tasks') <= created'
        BY <3>1, <3>2, <3>3 DEF OnceInv
      <3>7. Resumed' = Resumed /\ Held' = Held /\ Holders' = Holders
        BY <3>1 DEF Resumed, Held, Holders
      <3> QED
        BY <3>1, <3>4, <3>5, <3>6, <3>7 DEF OnceInv
    <2>2. ASSUME NEW w \in Workers, WorkerTakes(w) PROVE OnceInv'
      <3> DEFINE m == created - Len(tasks)
      <3>1. /\ handel' = [handel EXCEPT ![w] = Head(tasks)] /\ tasks' = Tail(tasks)
            /\ UNCHANGED <<created, resumed>> /\ tasks # <<>> /\ handel[w] = 0
        BY <2>2 DEF WorkerTakes, PopFront, MutexInv
      <3>2. /\ tasks \in Seq(Nat \ {0}) /\ Len(tasks) \in Nat \ {0} /\ created \in Nat
            /\ Len(tasks) <= created /\ m \in Nat
        BY <3>1, EmptySeq DEF MutexInv, OnceInv
      <3>3. /\ Len(tasks') = Len(tasks) - 1 /\ Head(tasks) = tasks[1]
            /\ \A i \in 1 .. Len(tasks') : tasks'[i] = tasks[i + 1]
        BY <3>1, <3>2, HeadTailProperties
      <3>4. Head(tasks) = m + 1 /\ created' - Len(tasks') = m + 1
        BY <3>1, <3>2, <3>3 DEF OnceInv
      <3>5. \A i \in 1 .. Len(tasks') : tasks'[i] = created' - Len(tasks') + i
        BY <3>1, <3>2, <3>3 DEF OnceInv
      <3>6. Len(tasks') <= created'
        BY <3>1, <3>2, <3>3
      <3>7. Resumed \cup Held = 1 .. m /\ Len(resumed) + Cardinality(Holders) = m
        BY DEF OnceInv
      <3> HIDE DEF m
      <3>8. \A v \in Workers : handel[v] # m + 1
        <4>1. \A v \in Workers : handel[v] # 0 => handel[v] \in 1 .. m
          BY <3>7 DEF Held
        <4> QED
          BY <3>2, <4>1
      <3>9. \A v \in Workers : handel'[v] = IF v = w THEN m + 1 ELSE handel[v]
        BY <3>1, <3>4 DEF MutexInv
      <3>10. Resumed' = Resumed /\ Held' = Held \cup {m + 1} /\ Holders' = Holders \cup {w}
        <4>1. Held' = Held \cup {m + 1}
          BY <3>1, <3>2, <3>9 DEF Held
        <4> QED
          BY <3>1, <3>2, <3>9, <4>1 DEF Resumed, Holders
      <3>11. \A u, v \in Workers : handel'[u] # 0 /\ handel'[u] = handel'[v] => u = v
        BY <3>8, <3>9 DEF OnceInv
      <3>12. Resumed' \cup Held' = 1 .. m + 1
        <4>1. 1 .. m + 1 = (1 .. m) \cup {m + 1}
          BY <3>2
        <4> QED
          BY <3>7, <3>10, <4>1
      <3>13. Cardinality(Holders') = Cardinality(Holders) + 1 /\ Cardinality(Holders) \in Nat
        <4>1. IsFiniteSet(Holders) /\ w \notin Holders
          BY <3>1, PoolThreads, FS_Subset DEF Holders
        <4> QED
          BY <3>10, <4>1, FS_AddElement, FS_CardinalityType
      <3>14. Len(resumed') + Cardinality(Holders') = m + 1
        <4>1. Len(resumed) \in Nat /\ resumed' = resumed
          BY <3>1 DEF MutexInv
        <4> QED
          BY <3>7, <3>13, <4>1
      <3> QED
        BY <3>4, <3>5, <3>6, <3>11, <3>12, <3>14 DEF OnceInv
    <2>3. ASSUME NEW w \in Workers, WorkerResumes(w) PROVE OnceInv'
      <3>1. /\ handel' = [handel EXCEPT ![w] = 0] /\ resumed' = Append(resumed, handel[w])
            /\ UNCHANGED <<created, tasks>>
        BY <2>3 DEF WorkerResumes
      <3>2. PICK h \in Nat : h = handel[w]
        BY DEF MutexInv
      <3>3. h # 0
        BY <2>3, <3>2 DEF WorkerResumes, MutexInv
      <3>4. \A v \in Workers : handel'[v] = IF v = w THEN 0 ELSE handel[v]
        BY <3>1 DEF MutexInv
      <3>5. Held' \cup {h} = Held /\ Holders' = Holders \ {w}
        <4>1. Held' \cup {h} = Held
          BY <3>2, <3>3, <3>4 DEF Held
        <4> QED
          BY <3>4, <4>1 DEF Holders
      <3>6. /\ Resumed' = Resumed \cup {h}
            /\ Len(resumed') = Len(resumed) + 1 /\ Len(resumed) \in Nat
        <4>1. /\ Len(resumed') = Len(resumed) + 1 /\ Len(resumed) \in Nat
              /\ \A i \in 1 .. Len(resumed) : resumed'[i] = resumed[i]
              /\ resumed'[Len(resumed) + 1] = h
              /\ DOMAIN resumed' = 1 .. Len(resumed') /\ DOMAIN resumed = 1 .. Len(resumed)
          BY <3>1, <3>2, AppendProperties DEF MutexInv
        <4>2. DOMAIN resumed' = DOMAIN resumed \cup {Len(resumed) + 1}
          BY <4>1
        <4> QED
          BY <4>1, <4>2 DEF Resumed
      <3>7. \A u, v \in Workers : handel'[u] # 0 /\ handel'[u] = handel'[v] => u = v
        BY <3>4 DEF OnceInv
      <3>8. Resumed' \cup Held' = Resumed \cup Held
        BY <3>5, <3>6
      <3>9. Cardinality(Holders') = Cardinality(Holders) - 1 /\ Cardinality(Holders) \in Nat
        <4>1. IsFiniteSet(Holders) /\ w \in Holders
          BY <3>2, <3>3, PoolThreads, FS_Subset DEF Holders
        <4> QED
          BY <3>5, <4>1, FS_RemoveElement, FS_CardinalityType
      <3>10. Len(resumed') + Cardinality(Holders') = Len(resumed) + Cardinality(Holders)
        BY <3>6, <3>9
      <3> QED
        BY <3>1, <3>7, <3>8, <3>10 DEF OnceInv
    <2> QED
      BY <2>0, <2>1, <2>2, <2>3 DEF Next, CallerStep, WorkerStep, vars, AwaitReady, EnqueueLock,
         EnqueueNotify, WorkerLock, WorkerTests, WorkerWaits, SpuriousWakeup, WorkerReturns,
         WorkerFront, Stop, Destruct, NotifyAll, Join
  <1> QED
    BY <1>1, <1>2, MutexInvariant, PTL DEF Spec

(* the sets of threads that are counted *)
LEMMA Counts ==
  /\ IsFiniteSet(Notifying) /\ IsFiniteSet(Coming) /\ IsFiniteSet(Entering)
  /\ Cardinality(Notifying) \in Nat /\ Cardinality(Coming) \in Nat
  /\ Cardinality(Entering) \in Nat /\ Cardinality(Callers) \in Nat
  /\ Cardinality(Entering) <= Cardinality(Callers)
  <1>1. /\ IsFiniteSet(Notifying) /\ IsFiniteSet(Coming) /\ IsFiniteSet(Entering)
        /\ Cardinality(Entering) <= Cardinality(Callers)
    BY PoolThreads, FS_Subset DEF Notifying, Coming, Entering
  <1> QED
    BY <1>1, PoolThreads, FS_CardinalityType

LEMMA Joins ==
  ASSUME NEW S, IsFiniteSet(S), NEW x, x \notin S
  PROVE  Cardinality(S \cup {x}) = Cardinality(S) + 1
  BY FS_AddElement

LEMMA Leaves ==
  ASSUME NEW S, IsFiniteSet(S), NEW x \in S
  PROVE  Cardinality(S \ {x}) = Cardinality(S) - 1
  BY FS_RemoveElement

-----------------------------------------------------------------------------
(* No coroutine is lost or resumed twice, and they leave the queue in the    *)
(* order of enqueue, for any number of callers and workers (enqueue and the  *)
(* worker's loop in ThreadPool.cc).                                          *)
THEOREM AlwaysTakenOnce == Spec => []EachTakenOnce
  <1>1. MutexInv /\ OnceInv => EachTakenOnce
    <2> SUFFICES ASSUME MutexInv, OnceInv PROVE EachTakenOnce
      OBVIOUS
    <2>1. DOMAIN tasks = 1 .. Len(tasks)
      BY DEF MutexInv
    <2> QED
      BY <2>1 DEF OnceInv, EachTakenOnce, Resumed, Held, Holders
  <1> QED
    BY <1>1, MutexInvariant, OnceInvariant, PTL

(* A notification is never lost while a worker sleeps and a coroutine waits  *)
(* (the predicate of wait(), notify_one after the lock is released).         *)
THEOREM AlwaysNotified == Spec => []NoLostNotify
  <1>1. Init => NoLostNotify
    BY DEF Init, NoLostNotify, Waiting
  <1>2. MutexInv /\ NoLostNotify /\ [Next]_vars => NoLostNotify'
    <2> SUFFICES ASSUME MutexInv, NoLostNotify, [Next]_vars, Waiting' # {} PROVE NoLostNotify'
      BY DEF NoLostNotify
    <2> DEFINE Enough == Len(tasks) <= Cardinality(Notifying) + Cardinality(Coming)
    <2>a. (Enough' => NoLostNotify') /\ (Waiting # {} => Enough)
      BY DEF NoLostNotify, Notifying, Coming
    <2>b. /\ tasks \in Seq(Nat \ {0}) /\ Len(tasks) \in Nat
          /\ DOMAIN caller = Callers /\ DOMAIN worker = Workers
      BY DEF MutexInv
    <2>c. tasks' = <<>> => Enough'
      <3>1. tasks' = <<>> => Len(tasks') = 0
        OBVIOUS
      <3>2. IsFiniteSet(Notifying') /\ IsFiniteSet(Coming')
        BY PoolThreads, FS_Subset DEF Notifying, Coming
      <3>3. Cardinality(Notifying') \in Nat /\ Cardinality(Coming') \in Nat
        BY <3>2, FS_CardinalityType
      <3> QED
        BY <3>1, <3>3
    <2>0. ASSUME UNCHANGED tasks, Notifying' = Notifying, Coming' = Coming, Waiting # {} PROVE Enough'
      BY <2>a, <2>0
    <2> HIDE DEF Enough
    <2>1. ASSUME NEW c \in Callers, AwaitReady(c) \/ EnqueueLock(c) PROVE Enough'
      BY <2>0, <2>1, <2>b DEF AwaitReady, EnqueueLock, CallerTo, Notifying, Coming, Waiting
    <2>2. ASSUME NEW c \in Callers, EnqueuePush(c) PROVE Enough'
      <3>1. c \notin Notifying /\ Notifying' = Notifying \cup {c} /\ Coming' = Coming /\ Waiting # {}
        BY <2>2, <2>b DEF EnqueuePush, CallerTo, Notifying, Coming, Waiting
      <3>2. Cardinality(Notifying') = Cardinality(Notifying) + 1
        BY <3>1, Counts, Joins
      <3>3. Len(tasks') = Len(tasks) + 1
        BY <2>2, <2>b DEF EnqueuePush
      <3> QED
        BY <2>a, <2>b, <3>1, <3>2, <3>3, Counts DEF Enough
    <2>3. ASSUME NEW c \in Callers, EnqueueNotify(c) PROVE Enough'
      <3>1. PICK w \in Waiting : WorkerTo(w, "locking")
        BY <2>3 DEF EnqueueNotify, NotifyOne, Waiting
      <3>2. c \in Notifying /\ Notifying' = Notifying \ {c}
        BY <2>3, <2>b DEF EnqueueNotify, CallerTo, Notifying
      <3>3. w \notin Coming /\ Coming' = Coming \cup {w}
        BY <2>b, <3>1 DEF WorkerTo, Coming, Waiting
      <3>4. /\ Cardinality(Notifying') = Cardinality(Notifying) - 1
            /\ Cardinality(Coming') = Cardinality(Coming) + 1
        BY <3>2, <3>3, Counts, Joins, Leaves
      <3>5. tasks' = tasks
        BY <2>3 DEF EnqueueNotify
      <3> QED
        BY <2>a, <2>b, <3>1, <3>4, <3>5, Counts DEF Enough
    <2>4. ASSUME NEW w \in Workers, WorkerLock(w) \/ WorkerFront(w) PROVE Enough'
      BY <2>0, <2>4, <2>b DEF WorkerLock, WorkerFront, WorkerTo, Notifying, Coming, Waiting
    <2>5. ASSUME NEW w \in Workers, WorkerTests(w) PROVE Enough'
      <3>1. CASE MayGoOn
        BY <2>0, <2>5, <2>b, <3>1 DEF WorkerTests, WorkerTo, Notifying, Coming, Waiting
      <3>2. CASE ~MayGoOn
        BY <2>5, <2>c, <3>2 DEF WorkerTests, MayGoOn
      <3> QED
        BY <3>1, <3>2
    <2>6. ASSUME NEW w \in Workers, WorkerWaits(w) \/ WorkerReturns(w) PROVE Enough'
      BY <2>6, <2>c DEF WorkerWaits, WorkerReturns, MutexInv
    <2>7. ASSUME NEW w \in Workers, SpuriousWakeup(w) PROVE Enough'
      <3>1. w \notin Coming /\ Coming' = Coming \cup {w} /\ Notifying' = Notifying /\ Waiting # {}
        BY <2>7, <2>b DEF SpuriousWakeup, WorkerTo, Coming, Notifying, Waiting
      <3>2. Cardinality(Coming') = Cardinality(Coming) + 1 /\ tasks' = tasks
        BY <2>7, <3>1, Counts, Joins DEF SpuriousWakeup
      <3> QED
        BY <2>a, <2>b, <3>1, <3>2, Counts DEF Enough
    <2>8. ASSUME NEW w \in Workers, WorkerTakes(w) PROVE Enough'
      <3>1. w \in Coming /\ Coming' = Coming \ {w} /\ Notifying' = Notifying /\ Waiting # {}
        BY <2>8, <2>b DEF WorkerTakes, WorkerTo, Coming, Notifying, Waiting
      <3>2. Cardinality(Coming') = Cardinality(Coming) - 1
        BY <3>1, Counts, Leaves
      <3>3. tasks # <<>> /\ tasks' = Tail(tasks)
        BY <2>8 DEF WorkerTakes, PopFront, MutexInv
      <3>4. Len(tasks') = Len(tasks) - 1
        BY <2>b, <3>3
      <3> QED
        BY <2>a, <2>b, <3>1, <3>2, <3>4, Counts DEF Enough
    <2>9. ASSUME NEW w \in Workers, WorkerResumes(w) PROVE Enough'
      BY <2>0, <2>9, <2>b DEF WorkerResumes, WorkerTo, Notifying, Coming, Waiting
    <2>10. CASE Stop \/ Destruct \/ Join \/ UNCHANGED vars
      <3>1. UNCHANGED <<tasks, caller, worker>>
        BY <2>10 DEF Stop, Destruct, Join, vars
      <3>2. Notifying' = Notifying /\ Coming' = Coming /\ Waiting # {}
        BY <3>1 DEF Notifying, Coming, Waiting
      <3> QED
        BY <2>0, <2>a, <3>1, <3>2
    <2>11. ASSUME NotifyAll PROVE FALSE
      <3>1. PICK w \in Workers : worker'[w] = "waiting"
        BY DEF Waiting
      <3>2. worker'[w] = IF worker[w] = "waiting" THEN "locking" ELSE worker[w]
        BY <2>11 DEF NotifyAll
      <3> QED
        BY <3>1, <3>2
    <2> QED
      BY <2>a, <2>1, <2>2, <2>3, <2>4, <2>5, <2>6, <2>7, <2>8, <2>9, <2>10, <2>11
      DEF Next, CallerStep, WorkerStep
  <1> QED
    BY <1>1, <1>2, MutexInvariant, PTL DEF Spec

(* The queue never exceeds max_size_ by more than the callers that can test  *)
(* isFull at the same time, although it is read without the lock, as long as *)
(* a read during an update returns the old or the new size.                  *)
THEOREM AlwaysBounded == ASSUME ~TornSize PROVE Spec => []QueueBounded
  <1>1. Init => RoomInv
    <2> SUFFICES ASSUME Init PROVE RoomInv
      OBVIOUS
    <2>1. Len(tasks) = 0 /\ Popping = 0 /\ Entering = {}
      BY DEF Init, Popping, Entering
    <2>2. Limit \in Nat
      BY Counts, PoolBounds DEF Limit
    <2> QED
      BY <2>1, <2>2, FS_EmptySet DEF RoomInv
  <1>2. MutexInv /\ RoomInv /\ [Next]_vars => RoomInv'
    <2> SUFFICES ASSUME MutexInv, RoomInv, [Next]_vars PROVE RoomInv'
      OBVIOUS
    <2>a. /\ tasks \in Seq(Nat \ {0}) /\ Len(tasks) \in Nat
          /\ DOMAIN caller = Callers /\ DOMAIN worker = Workers
          /\ Limit \in Nat /\ Limit' = Limit /\ Popping \in {0, 1}
      BY Counts, PoolBounds DEF MutexInv, Limit, Popping
    <2>0. ASSUME UNCHANGED tasks, Entering' = Entering, Popping' = Popping PROVE RoomInv'
      BY <2>a, <2>0 DEF RoomInv
    <2>1. ASSUME NEW c \in Callers, AwaitReady(c) PROVE RoomInv'
      <3>1. PICK size \in SizesRead : size < MaxSize
        <4>1. PICK size \in SizesRead : ~Full(size)
          BY <2>1 DEF AwaitReady
        <4>2. SizesRead \subseteq Int
          BY <2>a, PoolBounds DEF SizesRead
        <4> QED
          BY <4>1, <4>2, PoolBounds DEF Full
      <3>2. Len(tasks) - Popping <= size /\ size \in Int
        BY <2>a, <3>1 DEF SizesRead, Popping, MutexInv
      <3>3. Cardinality(Entering') <= Cardinality(Callers) /\ Cardinality(Entering') \in Nat
        <4>1. IsFiniteSet(Entering') /\ Cardinality(Entering') <= Cardinality(Callers)
          BY PoolThreads, FS_Subset DEF Entering
        <4> QED
          BY <4>1, FS_CardinalityType
      <3>4. Popping' = Popping /\ tasks' = tasks
        BY <2>1 DEF AwaitReady, Popping
      <3>5. Limit = MaxSize - 1 + Cardinality(Callers)
        BY DEF Limit
      <3>6. Len(tasks) - Popping + Cardinality(Entering') <= Limit
        BY SMTT(20), <2>a, <3>1, <3>2, <3>3, <3>5, Counts, PoolBounds
      <3> QED
        BY <2>a, <3>4, <3>6 DEF RoomInv
    <2>2. ASSUME NEW c \in Callers, EnqueuePush(c) PROVE RoomInv'
      <3>1. c \in Entering /\ Entering' = Entering \ {c}
        BY <2>2, <2>a DEF EnqueuePush, CallerTo, Entering
      <3>2. Cardinality(Entering') = Cardinality(Entering) - 1 /\ Cardinality(Entering) >= 1
        <4>1. Cardinality(Entering) # 0
          BY <3>1, Counts, FS_EmptySet
        <4> QED
          BY <3>1, <4>1, Counts, Leaves
      <3>3. Popping = 0 /\ Popping' = 0
        <4>1. \A w \in Workers : worker[w] # "taking"
          BY <2>2, PoolThreads DEF EnqueuePush, MutexInv
        <4> QED
          BY <2>2, <4>1 DEF EnqueuePush, Popping
      <3>4. Len(tasks') = Len(tasks) + 1
        BY <2>2, <2>a DEF EnqueuePush
      <3> QED
        BY <2>a, <3>2, <3>3, <3>4, Counts DEF RoomInv
    <2>3. ASSUME NEW w \in Workers, WorkerTakes(w) PROVE RoomInv'
      <3>1. tasks # <<>> /\ tasks' = Tail(tasks) /\ Entering' = Entering
        BY <2>3 DEF WorkerTakes, PopFront, MutexInv, Entering
      <3>2. Len(tasks') = Len(tasks) - 1
        BY <2>a, <3>1
      <3>3. Popping = 1 /\ Popping' \in {0, 1}
        BY <2>3 DEF WorkerTakes, Popping
      <3>4. Popping' = 0
        <4>1. \A v \in Workers : v # w => worker[v] # "taking"
          BY <2>3 DEF WorkerTakes, MutexInv
        <4>2. \A v \in Workers : worker'[v] # "taking"
          BY <2>3, <2>a, <4>1 DEF WorkerTakes, WorkerTo
        <4> QED
          BY <4>2 DEF Popping
      <3> QED
        BY <2>a, <3>1, <3>2, <3>3, <3>4, Counts DEF RoomInv
    <2>4. ASSUME NEW w \in Workers, WorkerFront(w) PROVE RoomInv'
      <3>1. tasks' = tasks /\ Entering' = Entering /\ Popping' \in {0, 1}
        BY <2>4 DEF WorkerFront, Entering, Popping
      <3>2. Popping = 0
        <4>1. \A v \in Workers : worker[v] # "taking"
          BY <2>4 DEF WorkerFront, MutexInv
        <4> QED
          BY <4>1 DEF Popping
      <3> QED
        BY <2>a, <3>1, <3>2, Counts DEF RoomInv
    <2>5. ASSUME NEW w \in Workers,
                 \/ WorkerLock(w) \/ WorkerTests(w) \/ WorkerWaits(w) \/ WorkerReturns(w)
                 \/ SpuriousWakeup(w) \/ WorkerResumes(w)
          PROVE  RoomInv'
      <3>1. PICK p \in WorkerPcs \ {"taking"} : WorkerTo(w, p)
        BY <2>5 DEF WorkerLock, WorkerTests, WorkerWaits, WorkerReturns, SpuriousWakeup,
                    WorkerResumes, WorkerPcs
      <3>2. worker[w] # "taking" /\ UNCHANGED <<tasks, caller>>
        BY <2>5 DEF WorkerLock, WorkerTests, WorkerWaits, WorkerReturns, SpuriousWakeup,
                    WorkerResumes, Waiting
      <3>3. \A v \in Workers : worker'[v] = "taking" <=> worker[v] = "taking"
        BY <2>a, <3>1, <3>2 DEF WorkerTo
      <3>4. Popping' = Popping /\ Entering' = Entering
        BY <3>2, <3>3 DEF Popping, Entering
      <3> QED
        BY <2>0, <3>2, <3>4
    <2>6. ASSUME NEW c \in Callers, EnqueueLock(c) PROVE RoomInv'
      <3>1. Entering' = Entering /\ Popping' = Popping /\ tasks' = tasks
        BY <2>6, <2>a DEF EnqueueLock, CallerTo, Entering, Popping
      <3> QED
        BY <2>0, <3>1
    <2>7. ASSUME NEW c \in Callers, EnqueueNotify(c) PROVE RoomInv'
      <3>1. Entering' = Entering /\ tasks' = tasks
        BY <2>7, <2>a DEF EnqueueNotify, CallerTo, Entering
      <3>2. \A v \in Workers : worker'[v] = "taking" <=> worker[v] = "taking"
        BY <2>7, <2>a DEF EnqueueNotify, NotifyOne, WorkerTo, Waiting
      <3>3. Popping' = Popping
        BY <3>2 DEF Popping
      <3> QED
        BY <2>0, <3>1, <3>3
    <2>8. CASE NotifyAll
      <3>1. Entering' = Entering /\ tasks' = tasks
        BY <2>8 DEF NotifyAll, Entering
      <3>2. \A v \in Workers : worker'[v] = "taking" <=> worker[v] = "taking"
        BY <2>8 DEF NotifyAll
      <3>3. Popping' = Popping
        BY <3>2 DEF Popping
      <3> QED
        BY <2>0, <3>1, <3>3
    <2>9. CASE Stop \/ Destruct \/ Join \/ UNCHANGED vars
      <3>1. UNCHANGED <<tasks, caller, worker>>
        BY <2>9 DEF Stop, Destruct, Join, vars
      <3>2. Entering' = Entering /\ Popping' = Popping
        BY <3>1 DEF Entering, Popping
      <3> QED
        BY <2>0, <3>1, <3>2
    <2> QED
      BY <2>1, <2>2, <2>3, <2>4, <2>5, <2>6, <2>7, <2>8, <2>9 DEF Next, CallerStep, WorkerStep
  <1>3. RoomInv => QueueBounded
    BY DEF RoomInv, Limit, QueueBounded
  <1> QED
    BY <1>1, <1>2, <1>3, MutexInvariant, PTL DEF Spec

=============================================================================
