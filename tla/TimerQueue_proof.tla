-------------------------- MODULE TimerQueue_proof --------------------------
(***************************************************************************)
(* Proofs about the timers of a loop, for any number of threads, timers,   *)
(* cancels, delays and intervals and however long the loop runs.           *)
(***************************************************************************)
EXTENDS TimerQueue, FiniteSetTheorems, WellFoundedInduction, TLAPS

Ops == [op : {"add", "cancel"}, timer : Nat]

In(q, x) == \E i \in 1 .. Len(q) : q[i] = x

AddedOnce(q) == \A i, j \in 1 .. Len(q) : q[i] = q[j] /\ q[i].op = "add" => i = j

Adds(t) == In(pending, Op("add", t)) \/ In(tasks, Op("add", t))

(* Every number in use is that of a timer, and each part of the state is     *)
(* used in its own phase of the loop.                                        *)
BaseInv ==
    /\ timer \in Seq([exp : Nat, interval : Nat])
    /\ now \in Nat /\ readAt \in Nat
    /\ pending \in Seq(Ops) /\ tasks \in Seq(Ops)
    /\ expired \in Seq(Nat)
    /\ \A x : In(pending, x) \/ In(tasks, x) => x.timer \in Timers
    /\ active \subseteq Timers /\ ids \subseteq Timers
    /\ \A t : In(expired, t) => t \in Timers
    /\ pc # "callbacks" => expired = <<>>
    /\ pc = "callbacks" => running
    /\ pc # "functors" => tasks = <<>>

(* The strengthening of IndexesAgree and OneOwner: a timer is added by one   *)
(* queued functor at most.                                                   *)
OwnerInv ==
    /\ IndexesAgree
    /\ \A t \in active : ~Adds(t) /\ ~In(expired, t)
    /\ \A t : In(expired, t) => ~Adds(t)
    /\ \A i, j \in 1 .. Len(expired) : expired[i] = expired[j] => i = j
    /\ AddedOnce(pending) /\ AddedOnce(tasks)
    /\ \A t : ~(In(pending, Op("add", t)) /\ In(tasks, Op("add", t)))

-----------------------------------------------------------------------------
LEMMA RangeIsIn ==
  ASSUME NEW S, NEW q \in Seq(S)
  PROVE  \A x : x \in Range(q) <=> In(q, x)
  <1>1. DOMAIN q = 1 .. Len(q)
    OBVIOUS
  <1> QED
    BY <1>1 DEF Range, In

(* a functor is queued *)
LEMMA Queued ==
  ASSUME NEW q \in Seq(Ops), NEW x \in Ops
  PROVE  /\ Append(q, x) \in Seq(Ops)
         /\ \A y : In(Append(q, x), y) <=> In(q, y) \/ y = x
         /\ AddedOnce(q) /\ (x.op # "add" \/ ~In(q, x)) => AddedOnce(Append(q, x))
  <1> DEFINE r == Append(q, x)
  <1>1. /\ r \in Seq(Ops) /\ Len(r) = Len(q) + 1 /\ Len(q) \in Nat
        /\ \A i \in 1 .. Len(q) : r[i] = q[i]
        /\ r[Len(q) + 1] = x
    OBVIOUS
  <1> HIDE DEF r
  <1>2. ASSUME NEW y PROVE In(r, y) <=> In(q, y) \/ y = x
    BY <1>1 DEF In
  <1>3. ASSUME AddedOnce(q), x.op # "add" \/ ~In(q, x) PROVE AddedOnce(r)
    BY <1>1, <1>3 DEF AddedOnce, In
  <1> QED
    BY <1>1, <1>2, <1>3 DEF r

(* a functor is executed *)
LEMMA Executed ==
  ASSUME NEW q \in Seq(Ops), q # <<>>
  PROVE  /\ Head(q) \in Ops /\ In(q, Head(q)) /\ Tail(q) \in Seq(Ops)
         /\ \A y : In(Tail(q), y) => In(q, y)
         /\ \A y : In(q, y) => y = Head(q) \/ In(Tail(q), y)
         /\ AddedOnce(q) => /\ AddedOnce(Tail(q))
                            /\ Head(q).op = "add" => ~In(Tail(q), Head(q))
  <1> DEFINE r == Tail(q)
             h == Head(q)
  <1>1. /\ h = q[1] /\ h \in Ops /\ r \in Seq(Ops)
        /\ Len(q) \in Nat /\ Len(q) >= 1 /\ Len(r) = Len(q) - 1
        /\ \A i \in 1 .. Len(r) : r[i] = q[i + 1] /\ i + 1 \in 1 .. Len(q)
    OBVIOUS
  <1> HIDE DEF r, h
  <1>2. In(q, h)
    BY <1>1 DEF In
  <1>3. ASSUME NEW y, In(r, y) PROVE In(q, y)
    BY <1>1, <1>3 DEF In
  <1>4. ASSUME NEW y, In(q, y) PROVE y = h \/ In(r, y)
    <2>1. PICK i \in 1 .. Len(q) : q[i] = y
      BY <1>4 DEF In
    <2>2. CASE i = 1
      BY <1>1, <2>1, <2>2
    <2>3. CASE i # 1
      <3>1. i - 1 \in 1 .. Len(r) /\ (i - 1) + 1 = i
        BY <1>1, <2>1, <2>3
      <3>2. r[i - 1] = y
        BY <1>1, <2>1, <3>1
      <3> QED
        BY <3>1, <3>2 DEF In
    <2> QED
      BY <2>2, <2>3
  <1>5. ASSUME AddedOnce(q) PROVE AddedOnce(r) /\ (h.op = "add" => ~In(r, h))
    <2>1. AddedOnce(r)
      BY <1>1, <1>5 DEF AddedOnce
    <2>2. ASSUME h.op = "add", In(r, h) PROVE FALSE
      <3>1. PICK i \in 1 .. Len(r) : r[i] = h
        BY <2>2 DEF In
      <3>2. q[i + 1] = q[1] /\ i + 1 \in 1 .. Len(q) /\ 1 \in 1 .. Len(q) /\ i + 1 # 1
        BY <1>1, <3>1
      <3> QED
        BY <1>1, <1>5, <2>2, <3>2 DEF AddedOnce
    <2> QED
      BY <2>1, <2>2
  <1> QED
    BY <1>1, <1>2, <1>3, <1>4, <1>5 DEF r, h

(* addTimerInLoop(t) is queued in the sense of the specification *)
LEMMA AddQueuedIsAdds ==
  ASSUME pending \in Seq(Ops), tasks \in Seq(Ops), NEW t
  PROVE  AddQueued(t) <=> Adds(t)
  <1> DEFINE x == Op("add", t)
             s == pending \o tasks
  <1>1. /\ Len(s) = Len(pending) + Len(tasks) /\ Len(pending) \in Nat /\ Len(tasks) \in Nat
        /\ \A i \in 1 .. Len(s) : s[i] = IF i <= Len(pending) THEN pending[i]
                                         ELSE tasks[i - Len(pending)]
    OBVIOUS
  <1>2. AddQueued(t) <=> \E i \in 1 .. Len(s) : s[i] = x
    BY DEF AddQueued, Range
  <1>3. Adds(t) <=> In(pending, x) \/ In(tasks, x)
    BY DEF Adds
  <1> HIDE DEF x, s
  <1>4. ASSUME NEW i \in 1 .. Len(s), s[i] = x PROVE In(pending, x) \/ In(tasks, x)
    <2>1. CASE i <= Len(pending)
      BY <1>1, <1>4, <2>1 DEF In
    <2>2. CASE ~(i <= Len(pending))
      <3>1. i - Len(pending) \in 1 .. Len(tasks) /\ tasks[i - Len(pending)] = x
        BY <1>1, <1>4, <2>2
      <3> QED
        BY <3>1 DEF In
    <2> QED
      BY <2>1, <2>2
  <1>5. ASSUME In(pending, x) PROVE \E i \in 1 .. Len(s) : s[i] = x
    <2>1. PICK i \in 1 .. Len(pending) : pending[i] = x
      BY <1>5 DEF In
    <2>2. i \in 1 .. Len(s) /\ s[i] = x
      BY <1>1, <2>1
    <2> QED
      BY <2>2
  <1>6. ASSUME In(tasks, x) PROVE \E i \in 1 .. Len(s) : s[i] = x
    <2>1. PICK i \in 1 .. Len(tasks) : tasks[i] = x
      BY <1>6 DEF In
    <2>2. Len(pending) + i \in 1 .. Len(s) /\ s[Len(pending) + i] = x
      BY <1>1, <2>1
    <2> QED
      BY <2>2
  <1> QED
    BY <1>2, <1>3, <1>4, <1>5, <1>6

(* the constructor of Timer takes the next sequence number *)
LEMMA NewTimer ==
  ASSUME BaseInv, NEW new \in NewTimers, Construct(new)
  PROVE  /\ Len(timer') = Len(timer) + 1 /\ Len(timer) \in Nat
         /\ Len(timer') \notin Timers /\ Timers' = Timers \cup {Len(timer')}
         /\ timer' \in Seq([exp : Nat, interval : Nat])
         /\ \A t \in Timers : timer'[t] = timer[t]
         /\ timer'[Len(timer')] = new /\ new.exp \in Nat
  <1> DEFINE T == [exp : Nat, interval : Nat]
  <1>1. timer \in Seq(T) /\ now \in Nat /\ timer' = Append(timer, new)
    BY DEF BaseInv, Construct
  <1>2. new \in T /\ new.exp \in Nat
    BY <1>1, TimerKinds DEF NewTimers
  <1> HIDE DEF T
  <1>3. /\ Append(timer, new) \in Seq(T) /\ Len(Append(timer, new)) = Len(timer) + 1
        /\ Len(timer) \in Nat
        /\ \A t \in 1 .. Len(timer) : Append(timer, new)[t] = timer[t]
        /\ Append(timer, new)[Len(timer) + 1] = new
    BY <1>1, <1>2
  <1>4. Len(timer) + 1 \notin 1 .. Len(timer)
        /\ 1 .. Len(timer) + 1 = (1 .. Len(timer)) \cup {Len(timer) + 1}
    BY <1>3
  <1> QED
    BY <1>1, <1>2, <1>3, <1>4 DEF Timers, T

(* The timers due are taken out of both indexes into the batch. *)
LEMMA ExpiredTaken ==
  ASSUME BaseInv, OwnerInv, NEW due, due = {e \in timer_list : e[1] <= now}, GetExpiredTimers(due)
  PROVE  /\ expired' \in Seq(Nat)
         /\ \A t : In(expired', t) => t \in active /\ t \notin active'
         /\ \A t \in active : t \in active' \/ In(expired', t)
         /\ \A i, j \in 1 .. Len(expired') : expired'[i] = expired'[j] => i = j
         /\ active' \subseteq active
         /\ timer_list' = {<<timer[t].exp, t>> : t \in active'}
         /\ \A t : In(expired', t) => timer[t].exp <= now
  <1> DEFINE n == Cardinality(due)
  <1>1. \A e \in due : /\ e \in timer_list /\ e[2] \in active /\ e = <<timer[e[2]].exp, e[2]>>
    BY DEF OwnerInv, IndexesAgree
  <1>2. n \in Nat /\ IsFiniteSet(due)
    <2>1. Len(timer) \in Nat /\ active \subseteq 1 .. Len(timer)
      BY DEF BaseInv, Timers
    <2>2. IsFiniteSet(active)
      <3>1. IsFiniteSet(1 .. Len(timer))
        BY <2>1, FS_Interval
      <3> QED
        BY <2>1, <3>1, FS_Subset
    <2> DEFINE f == [t \in active |-> <<timer[t].exp, t>>]
    <2>3. f \in Surjection(active, timer_list)
      <3>1. \A t \in active : f[t] \in timer_list
        BY DEF OwnerInv, IndexesAgree
      <3>2. \A e \in timer_list : \E t \in active : f[t] = e
        BY DEF OwnerInv, IndexesAgree
      <3>3. f \in [active -> timer_list]
        BY <3>1
      <3> HIDE DEF f
      <3> QED
        BY <3>2, <3>3 DEF Surjection
    <2> HIDE DEF f
    <2>4. IsFiniteSet(timer_list)
      BY <2>2, <2>3, FS_Surjection
    <2> QED
      BY <2>4, FS_Subset, FS_CardinalityType
  <1>3. PICK entries \in [1 .. n -> due] :
             InOrder(entries) /\ expired' = [i \in 1 .. n |-> entries[i][2]]
    BY DEF GetExpiredTimers
  <1>4. active' = active \ {e[2] : e \in due} /\ timer_list' = timer_list \ due
    BY DEF GetExpiredTimers
  <1>5. \A t \in active : t \in Nat /\ timer[t].exp \in Nat
    <2>1. \A t \in active : t \in 1 .. Len(timer) /\ Len(timer) \in Nat
      BY DEF BaseInv, Timers
    <2> DEFINE T == [exp : Nat, interval : Nat]
    <2>2. timer \in Seq(T)
      BY DEF BaseInv
    <2> HIDE DEF T
    <2>3. \A t \in 1 .. Len(timer) : timer[t] \in T
      BY <2>2
    <2>4. \A x \in T : x.exp \in Nat
      BY DEF T
    <2> QED
      BY <2>1, <2>3, <2>4
  <1> HIDE DEF n
  <1>6. \A i \in 1 .. n : expired'[i] = entries[i][2] /\ entries[i] \in due
    BY <1>3
  <1>7. expired' \in Seq(Nat) /\ Len(expired') = n
    BY <1>1, <1>2, <1>3, <1>5
  <1>8. ASSUME NEW t, In(expired', t) PROVE t \in active /\ t \notin active'
    BY <1>1, <1>4, <1>6, <1>7, <1>8 DEF In
  <1>9. ASSUME NEW i \in 1 .. n, NEW j \in 1 .. n, expired'[i] = expired'[j] PROVE i = j
    <2>1. entries[i] = entries[j]
      BY <1>1, <1>6, <1>9
    <2>2. entries[i][1] \in Nat /\ entries[i][2] \in Nat
      BY <1>1, <1>5, <1>6
    <2>3. ~Before(entries[i], entries[j]) /\ ~Before(entries[j], entries[i])
      BY <2>1, <2>2 DEF Before
    <2>4. DOMAIN entries = 1 .. n
      BY <1>3
    <2>5. ~(i < j) /\ ~(j < i)
      BY <1>3, <2>3, <2>4 DEF InOrder
    <2> QED
      BY <1>2, <2>5
  <1>10. ASSUME NEW t \in active, t \notin active' PROVE In(expired', t)
    <2>1. entries \in Injection(1 .. n, due)
      <3>1. ASSUME NEW i \in 1 .. n, NEW j \in 1 .. n, entries[i] = entries[j] PROVE i = j
        <4>1. expired'[i] = expired'[j]
          BY <1>6, <3>1
        <4> QED
          BY <1>9, <4>1
      <3> QED
        BY <1>3, <3>1 DEF Injection, IsInjective
    <2>2. IsFiniteSet(1 .. n) /\ Cardinality(1 .. n) = n
      BY <1>2, FS_Interval
    <2>3. entries \in Surjection(1 .. n, due)
      BY <1>2, <2>1, <2>2, FS_Injection DEF n
    <2>4. PICK e \in due : e[2] = t
      BY <1>4, <1>10
    <2>5. PICK i \in 1 .. n : entries[i] = e
      BY <2>3 DEF Surjection
    <2> QED
      BY <1>6, <1>7, <2>4, <2>5 DEF In
  <1>11. timer_list' = {<<timer[t].exp, t>> : t \in active'}
    <2>1. \A t \in active : <<timer[t].exp, t>> \in due <=> t \in {e[2] : e \in due}
      BY <1>1
    <2> QED
      BY <1>4, <2>1 DEF OwnerInv, IndexesAgree
  <1>12. ASSUME NEW t, In(expired', t) PROVE timer[t].exp <= now
    <2>1. PICK i \in 1 .. n : entries[i][2] = t /\ entries[i] \in due
      BY <1>6, <1>7, <1>12 DEF In
    <2>2. entries[i][1] = timer[t].exp /\ entries[i][1] <= now
      BY <1>1, <2>1
    <2> QED
      BY <2>2
  <1> QED
    BY <1>4, <1>7, <1>8, <1>9, <1>10, <1>11, <1>12

(* the timers that exist have natural expirations and intervals *)
LEMMA TimerFields ==
  ASSUME BaseInv
  PROVE  /\ Len(timer) \in Nat
         /\ \A t \in Timers : timer[t].exp \in Nat /\ timer[t].interval \in Nat
  <1> DEFINE T == [exp : Nat, interval : Nat]
  <1>1. timer \in Seq(T)
    BY DEF BaseInv
  <1> HIDE DEF T
  <1>2. Len(timer) \in Nat /\ \A t \in 1 .. Len(timer) : timer[t] \in T
    BY <1>1
  <1>3. \A x \in T : x.exp \in Nat /\ x.interval \in Nat
    BY DEF T
  <1> QED
    BY <1>2, <1>3 DEF Timers

(* erase() keeps the two indexes together *)
LEMMA EraseKeepsOwners ==
  ASSUME BaseInv, OwnerInv, NEW t, Erase(t), UNCHANGED <<timer, expired, pending>>,
         \A u : Adds(u)' => Adds(u), AddedOnce(tasks)',
         \A u : ~(In(pending', Op("add", u)) /\ In(tasks', Op("add", u)))
  PROVE  active' \subseteq active /\ OwnerInv'
  <1>1. active' = active \ {t}
    BY DEF Erase
  <1>2. timer_list' = {<<timer[u].exp, u>> : u \in active'}
    BY <1>1 DEF Erase, OwnerInv, IndexesAgree
  <1>3. IndexesAgree'
    BY <1>2 DEF IndexesAgree
  <1> QED
    BY <1>1, <1>3 DEF OwnerInv

(* Reset() starts the repeating timers of the batch again. *)
LEMMA ResetKeepsOwners ==
  ASSUME BaseInv, OwnerInv, EndHandleRead
  PROVE  BaseInv' /\ OwnerInv'
  <1> DEFINE T == [exp : Nat, interval : Nat]
  <1>1. /\ Reset /\ expired' = <<>> /\ pc = "callbacks" /\ pc' = "handle" /\ readAt' = 0
        /\ UNCHANGED <<now, pending, tasks, ids>>
    BY DEF EndHandleRead
  <1>2. \A t \in Restarted : In(expired, t) /\ t \in Timers /\ t \notin active /\ ~Adds(t)
    <2>1. \A t \in Restarted : In(expired, t)
      BY DEF Restarted, Range, In, BaseInv
    <2> QED
      BY <2>1 DEF BaseInv, OwnerInv
  <1>3. Timers' = Timers /\ timer' \in Seq(T)
    <2>2. \A x \in T, y \in Nat : [x EXCEPT !.exp = y] \in T
      OBVIOUS
    <2>3. timer \in Seq(T) /\ readAt \in Nat
      BY DEF BaseInv
    <2> HIDE DEF T
    <2>1. \A t \in Timers : timer[t] \in T
      BY <2>3 DEF Timers
    <2>4. \A t \in Timers : readAt + timer[t].interval \in Nat
      BY <2>3, TimerFields
    <2>5. timer' \in [1 .. Len(timer) -> T]
      BY <1>1, <2>1, <2>2, <2>4 DEF Reset, Timers
    <2>6. Len(timer) \in Nat
      BY TimerFields
    <2>7. timer' \in Seq(T) /\ Len(timer') = Len(timer)
      BY <2>5, <2>6
    <2> QED
      BY <2>7 DEF Timers
  <1> HIDE DEF T
  <1>4. \A t \in active : timer'[t] = timer[t]
    BY <1>1, <1>2 DEF Reset, BaseInv
  <1>5. active' = active \cup Restarted
        /\ timer_list' = timer_list \cup {<<timer'[t].exp, t>> : t \in Restarted}
    BY <1>1 DEF Reset
  <1>6. IndexesAgree'
    BY <1>4, <1>5 DEF OwnerInv, IndexesAgree
  <1>7. \A t : ~In(expired', t)
    BY <1>1 DEF In
  <1>8. \A t : Adds(t)' <=> Adds(t)
    BY <1>1 DEF Adds
  <1>9. OwnerInv'
    BY <1>1, <1>2, <1>5, <1>6, <1>7, <1>8 DEF OwnerInv
  <1>10. BaseInv'
    BY <1>1, <1>2, <1>3, <1>5, <1>7 DEF BaseInv, T
  <1> QED
    BY <1>9, <1>10

(* a queued addTimerInLoop or cancelTimerInLoop *)
LEMMA FunctorKeepsOwners ==
  ASSUME BaseInv, OwnerInv, RunFunctor
  PROVE  BaseInv' /\ OwnerInv'
  <1> DEFINE h == Head(tasks)
  <1>t. PICK t : t = h.timer
    OBVIOUS
  <1>1. /\ pc = "functors" /\ tasks # <<>> /\ tasks' = Tail(tasks) /\ expired = <<>>
        /\ UNCHANGED <<now, pc, timer, running, expired, readAt, pending, ids>>
    BY DEF RunFunctor, BaseInv
  <1>2. /\ tasks \in Seq(Ops) /\ pending \in Seq(Ops) /\ AddedOnce(tasks)
        /\ \A x : In(pending, x) \/ In(tasks, x) => x.timer \in Timers
    BY DEF BaseInv, OwnerInv
  <1>3. /\ h \in Ops /\ In(tasks, h) /\ tasks' \in Seq(Ops)
        /\ \A y : In(tasks', y) => In(tasks, y)
        /\ AddedOnce(tasks') /\ (h.op = "add" => ~In(tasks', h))
    BY <1>1, <1>2, Executed
  <1>4. t \in Timers
    BY <1>t, <1>2, <1>3
  <1> HIDE DEF h
  <1>5. \A u : Adds(u)' => Adds(u)
    BY <1>1, <1>3 DEF Adds
  <1>6. \A u : ~(In(pending', Op("add", u)) /\ In(tasks', Op("add", u)))
    BY <1>1, <1>3 DEF OwnerInv
  <1>7. \A u : ~In(expired, u) /\ ~In(expired', u)
    BY <1>1 DEF In
  <1>8. CASE h.op = "add"
    <2>1. h = Op("add", t)
      BY <1>t, <1>3, <1>8 DEF Ops, Op
    <2>a. In(tasks, Op("add", t)) /\ ~In(tasks', Op("add", t))
      BY <1>3, <1>8, <2>1
    <2>b. ~In(pending', Op("add", t))
      BY <1>1, <2>a DEF OwnerInv
    <2>2. ~Adds(t)'
      BY <2>a, <2>b DEF Adds
    <2>3. /\ active' = active \cup {t}
          /\ timer_list' = timer_list \cup {<<timer[t].exp, t>>}
      BY <1>t, <1>8 DEF RunFunctor, Insert, h
    <2>4. IndexesAgree'
      BY <1>1, <2>3 DEF OwnerInv, IndexesAgree
    <2>c. \A u \in active' : ~Adds(u)'
      BY <1>5, <2>2, <2>3 DEF OwnerInv
    <2>d. AddedOnce(pending)' /\ AddedOnce(tasks)'
      BY <1>1, <1>3 DEF OwnerInv
    <2>e. Len(expired') = 0
      BY <1>1
    <2>5. OwnerInv'
      BY <1>6, <1>7, <2>4, <2>c, <2>d, <2>e DEF OwnerInv
    <2>6. BaseInv'
      BY <1>1, <1>2, <1>3, <1>4, <2>3 DEF BaseInv, Timers
    <2> QED
      BY <2>5, <2>6
  <1>9. CASE h.op # "add"
    <2>1. Erase(t)
      BY <1>t, <1>9 DEF RunFunctor, CancelTimerInLoop, h
    <2>2. active' \subseteq active /\ OwnerInv'
      BY <1>1, <1>3, <1>5, <1>6, <2>1, EraseKeepsOwners
    <2>3. BaseInv'
      BY <1>1, <1>2, <1>3, <2>2 DEF BaseInv, Timers
    <2> QED
      BY <2>2, <2>3
  <1> QED
    BY <1>8, <1>9

(* a new timer has no owner yet *)
LEMMA NoOwner ==
  ASSUME BaseInv, NEW n, n \notin Timers
  PROVE  n \notin active /\ ~Adds(n) /\ ~In(expired, n)
  <1>1. Op("add", n).timer = n
    BY DEF Op
  <1> QED
    BY <1>1 DEF BaseInv, Adds

LEMMA LoopAddsKeepsOwners ==
  ASSUME BaseInv, OwnerInv, LoopAdds
  PROVE  BaseInv' /\ OwnerInv'
  <1>1. PICK new \in NewTimers : Construct(new) /\ Insert(new.exp, Len(timer'))
    BY DEF LoopAdds
  <1>2. PICK n : n = Len(timer')
    OBVIOUS
  <1>3. /\ n \notin Timers /\ Timers' = Timers \cup {n}
        /\ timer' \in Seq([exp : Nat, interval : Nat])
        /\ \A t \in Timers : timer'[t] = timer[t]
        /\ timer'[n] = new
    BY <1>1, <1>2, NewTimer
  <1>4. n \notin active /\ ~Adds(n) /\ ~In(expired, n)
    BY <1>3, NoOwner
  <1>5. UNCHANGED <<now, pc, running, expired, readAt, pending, tasks>> /\ ids' = ids \cup {n}
    BY <1>2 DEF LoopAdds
  <1>6. active' = active \cup {n} /\ timer_list' = timer_list \cup {<<new.exp, n>>}
    BY <1>1, <1>2 DEF Insert
  <1>7. \A t \in active : timer'[t] = timer[t]
    BY <1>3 DEF BaseInv
  <1>8. IndexesAgree'
    BY SMTT(20), <1>3, <1>6, <1>7 DEF OwnerInv, IndexesAgree
  <1>9. \A t : Adds(t)' <=> Adds(t)
    BY <1>5 DEF Adds
  <1>10. OwnerInv'
    BY <1>4, <1>5, <1>6, <1>8, <1>9 DEF OwnerInv
  <1>11. BaseInv'
    BY <1>3, <1>5, <1>6 DEF BaseInv
  <1> QED
    BY <1>10, <1>11

LEMMA AddTimerKeepsOwners ==
  ASSUME BaseInv, OwnerInv, NEW c \in Threads, AddTimer(c)
  PROVE  BaseInv' /\ OwnerInv'
  <1>1. PICK new \in NewTimers : Construct(new) /\ ids' = ids
    BY DEF AddTimer
  <1>2. PICK n : n = Len(timer')
    OBVIOUS
  <1>3. /\ n \notin Timers /\ Timers' = Timers \cup {n} /\ n \in Nat
        /\ timer' \in Seq([exp : Nat, interval : Nat])
        /\ \A t \in Timers : timer'[t] = timer[t]
    BY <1>1, <1>2, NewTimer
  <1>4. n \notin active /\ ~Adds(n) /\ ~In(expired, n)
    BY <1>3, NoOwner
  <1>5. /\ UNCHANGED <<now, pc, running, expired, readAt, tasks, active, timer_list>>
        /\ pending' = Append(pending, Op("add", n))
    BY <1>2 DEF AddTimer, queue
  <1>6. \A t \in active : timer'[t] = timer[t]
    BY <1>3 DEF BaseInv
  <1>7. IndexesAgree'
    BY <1>5, <1>6 DEF OwnerInv, IndexesAgree
  <1>8. Op("add", n) \in Ops /\ Op("add", n).timer = n /\ \A t : Op("add", t) = Op("add", n) => t = n
    BY <1>3 DEF Ops, Op
  <1>9. pending \in Seq(Ops) /\ AddedOnce(pending) /\ ~In(pending, Op("add", n))
    BY <1>4 DEF BaseInv, OwnerInv, Adds
  <1>10. /\ pending' \in Seq(Ops) /\ AddedOnce(pending')
         /\ \A y : In(pending', y) <=> In(pending, y) \/ y = Op("add", n)
    BY <1>5, <1>8, <1>9, Queued
  <1>11. \A t : t # n => (Adds(t)' <=> Adds(t))
    BY <1>5, <1>8, <1>10 DEF Adds
  <1>12. \A t : ~(In(pending', Op("add", t)) /\ In(tasks', Op("add", t)))
    BY <1>4, <1>5, <1>8, <1>10 DEF OwnerInv, Adds
  <1>13. OwnerInv'
    BY <1>4, <1>5, <1>7, <1>10, <1>11, <1>12 DEF OwnerInv
  <1>14. \A x : In(pending', x) \/ In(tasks', x) => x.timer \in Timers'
    BY <1>3, <1>5, <1>8, <1>10 DEF BaseInv
  <1>15. BaseInv'
    BY <1>1, <1>2, <1>3, <1>5, <1>10, <1>14 DEF BaseInv
  <1> QED
    BY <1>13, <1>15

LEMMA CancelTimerKeepsOwners ==
  ASSUME BaseInv, OwnerInv, NEW c \in Threads, CancelTimer(c)
  PROVE  BaseInv' /\ OwnerInv'
  <1>1. PICK t \in ids : pending' = Append(pending, Op("cancel", t))
    BY DEF CancelTimer
  <1>2. UNCHANGED <<now, pc, timer, timer_list, active, running, expired, readAt, tasks, ids>>
    BY DEF CancelTimer, queue
  <1>3. t \in Timers /\ t \in Nat /\ pending \in Seq(Ops) /\ AddedOnce(pending)
    BY DEF BaseInv, OwnerInv, Timers
  <1>4. /\ Op("cancel", t) \in Ops /\ Op("cancel", t).timer = t /\ Op("cancel", t).op # "add"
        /\ \A u : Op("add", u) # Op("cancel", t)
    BY <1>3 DEF Ops, Op
  <1>5. /\ pending' \in Seq(Ops) /\ AddedOnce(pending')
        /\ \A y : In(pending', y) <=> In(pending, y) \/ y = Op("cancel", t)
    BY <1>1, <1>3, <1>4, Queued
  <1>6. \A u : Adds(u)' <=> Adds(u)
    BY <1>2, <1>4, <1>5 DEF Adds
  <1>7. \A u : ~(In(pending', Op("add", u)) /\ In(tasks', Op("add", u)))
    BY <1>2, <1>4, <1>5 DEF OwnerInv
  <1>8. OwnerInv'
    BY <1>2, <1>5, <1>6, <1>7 DEF OwnerInv, IndexesAgree
  <1>9. \A x : In(pending', x) \/ In(tasks', x) => x.timer \in Timers
    BY <1>2, <1>3, <1>4, <1>5 DEF BaseInv
  <1>10. BaseInv'
    BY SMTT(20), <1>2, <1>5, <1>9 DEF BaseInv, Timers
  <1> QED
    BY <1>8, <1>10

LEMMA HandleReadKeepsOwners ==
  ASSUME BaseInv, OwnerInv, BeginHandleRead
  PROVE  BaseInv' /\ OwnerInv'
  <1>1. PICK due : due = {e \in timer_list : e[1] <= now} /\ GetExpiredTimers(due)
    BY DEF BeginHandleRead
  <1>2. /\ expired' \in Seq(Nat)
        /\ \A t : In(expired', t) => t \in active /\ t \notin active'
        /\ \A i, j \in 1 .. Len(expired') : expired'[i] = expired'[j] => i = j
        /\ active' \subseteq active
        /\ timer_list' = {<<timer[t].exp, t>> : t \in active'}
    BY <1>1, ExpiredTaken
  <1>3. /\ pc = "timers" /\ pc' = "callbacks" /\ running' = TRUE /\ readAt' = now
        /\ UNCHANGED <<now, timer, pending, tasks, ids>>
    BY DEF BeginHandleRead
  <1>4. \A t : Adds(t)' <=> Adds(t)
    BY <1>3 DEF Adds
  <1>5. IndexesAgree'
    BY <1>2, <1>3 DEF IndexesAgree
  <1>6. OwnerInv'
    BY <1>2, <1>3, <1>4, <1>5 DEF OwnerInv
  <1>7. BaseInv'
    BY <1>2, <1>3 DEF BaseInv, Timers
  <1> QED
    BY <1>6, <1>7

LEMMA OwnersKept ==
  ASSUME BaseInv, OwnerInv, [Next]_vars
  PROVE  BaseInv' /\ OwnerInv'
  <1>0. ASSUME UNCHANGED <<timer, timer_list, active, expired, pending, tasks, running>>,
               now' \in Nat, readAt' \in Nat, ids' \subseteq Timers,
               pc' # "callbacks" => expired = <<>>,
               pc' = "callbacks" => running,
               pc' # "functors" => tasks = <<>>
        PROVE  BaseInv' /\ OwnerInv'
    <2>1. OwnerInv'
      BY <1>0 DEF OwnerInv, IndexesAgree, Adds
    <2>2. BaseInv'
      BY <1>0 DEF BaseInv, Timers
    <2> QED
      BY <2>1, <2>2
  <1>1. /\ now \in Nat /\ readAt \in Nat /\ ids \subseteq Timers
        /\ pc # "callbacks" => expired = <<>>
        /\ pc = "callbacks" => running
        /\ pc # "functors" => tasks = <<>>
    BY DEF BaseInv
  <1>2. CASE LoopAdds
    BY <1>2, LoopAddsKeepsOwners
  <1>3. CASE LoopCancels
    <2>1. PICK t \in ids : Erase(t)
      BY <1>3 DEF LoopCancels, CancelTimerInLoop
    <2>2. UNCHANGED <<now, pc, timer, running, expired, readAt, pending, tasks, ids>>
      BY <1>3 DEF LoopCancels
    <2>3. AddedOnce(tasks)' /\ \A u : ~(In(pending', Op("add", u)) /\ In(tasks', Op("add", u)))
      BY <2>2 DEF OwnerInv
    <2>4. \A u : Adds(u)' => Adds(u)
      BY <2>2 DEF Adds
    <2>5. active' \subseteq active /\ OwnerInv'
      BY <2>1, <2>2, <2>3, <2>4, EraseKeepsOwners
    <2>6. BaseInv'
      BY SMTT(20), <2>2, <2>5 DEF BaseInv, Timers
    <2> QED
      BY <2>5, <2>6
  <1>4. CASE \E c \in Threads : AddTimer(c) \/ ReadSequence(c) \/ CancelTimer(c)
    <2> PICK c \in Threads : AddTimer(c) \/ ReadSequence(c) \/ CancelTimer(c)
      BY <1>4
    <2>1. CASE ReadSequence(c)
      <3>1. ids' \subseteq Timers \cup {inAdd[c]} /\ (Alive(inAdd[c]) \/ ids' \subseteq Timers)
        BY <1>1, <2>1 DEF ReadSequence
      <3>2. Alive(inAdd[c]) => inAdd[c] \in Timers
        <4>1. pending \in Seq(Ops) /\ tasks \in Seq(Ops) /\ expired \in Seq(Nat)
          BY DEF BaseInv
        <4>2. AddQueued(inAdd[c]) => inAdd[c] \in Timers
          <5>1. AddQueued(inAdd[c]) => Adds(inAdd[c])
            BY <4>1, AddQueuedIsAdds
          <5> QED
            BY <5>1, NoOwner
        <4>3. inAdd[c] \in Range(expired) => In(expired, inAdd[c])
          BY <4>1, RangeIsIn
        <4> QED
          BY <4>2, <4>3, NoOwner DEF Alive
      <3> QED
        BY <1>0, <1>1, <2>1, <3>1, <3>2 DEF ReadSequence, queue
    <2> QED
      BY <2>1, AddTimerKeepsOwners, CancelTimerKeepsOwners
  <1>5. CASE Tick
    BY <1>0, <1>1, <1>5 DEF Tick, queue
  <1>6. CASE Poll
    BY <1>0, <1>1, <1>6 DEF Poll, queue
  <1>7. CASE WaitTimesOut \/ WaitWoken \/ WaitReturnsOther
    BY <1>0, <1>1, <1>7 DEF WaitTimesOut, WaitWoken, WaitReturnsOther, WaitReturns, queue
  <1>8. CASE NoneExpired
    BY <1>0, <1>1, <1>8 DEF NoneExpired, queue
  <1>9. CASE BeginHandleRead
    BY <1>9, HandleReadKeepsOwners
  <1>10. CASE RunTimer
    BY <1>0, <1>1, <1>10 DEF RunTimer
  <1>11. CASE EndHandleRead
    BY <1>11, ResetKeepsOwners
  <1>12. CASE BeginFunctors
    <2>1. /\ tasks = <<>> /\ tasks' = pending /\ pending' = <<>> /\ pc = "handle"
          /\ pc' = "functors"
          /\ UNCHANGED <<now, timer, timer_list, active, running, expired, readAt, ids>>
      BY <1>1, <1>12 DEF BeginFunctors, SwapFunctors, queue
    <2>2. \A x : ~In(pending', x) /\ ~In(tasks, x)
      BY <2>1 DEF In
    <2>3. \A t : Adds(t)' <=> Adds(t)
      BY <2>1, <2>2 DEF Adds
    <2>4. AddedOnce(pending')
      BY <2>1 DEF AddedOnce
    <2>5. OwnerInv'
      BY <2>1, <2>2, <2>3, <2>4 DEF OwnerInv, IndexesAgree
    <2>6. BaseInv'
      BY <2>1, <2>2 DEF BaseInv, Timers
    <2> QED
      BY <2>5, <2>6
  <1>13. CASE RunFunctor
    BY <1>13, FunctorKeepsOwners
  <1>14. CASE EndFunctors
    BY <1>0, <1>1, <1>14 DEF EndFunctors, queue
  <1>15. CASE UNCHANGED vars
    BY <1>0, <1>1, <1>15 DEF vars, queue
  <1> QED
    BY <1>2, <1>3, <1>4, <1>5, <1>6, <1>7, <1>8, <1>9, <1>10, <1>11, <1>12, <1>13, <1>14, <1>15
       DEF Next, LoopStep

LEMMA InitOwners ==
  Init => BaseInv /\ OwnerInv
  <1> SUFFICES ASSUME Init PROVE BaseInv /\ OwnerInv
    OBVIOUS
  <1>1. /\ timer = <<>> /\ timer_list = {} /\ active = {} /\ ids = {} /\ pc = "poll"
        /\ expired = <<>> /\ pending = <<>> /\ tasks = <<>> /\ now = 0 /\ readAt = 0
    BY DEF Init
  <1>2. \A x : ~In(pending, x) /\ ~In(tasks, x) /\ ~In(expired, x)
    BY <1>1 DEF In
  <1>3. BaseInv
    BY <1>1, <1>2 DEF BaseInv
  <1>4. OwnerInv
    BY <1>1, <1>2 DEF OwnerInv, IndexesAgree, AddedOnce, Adds
  <1> QED
    BY <1>3, <1>4

(* The two indexes of TimerQueue always agree, for any number of timers and *)
(* threads: insert, erase, getExpiredTimers and reset keep one entry of     *)
(* timer_list_ for each active timer, under its own expiration.             *)
THEOREM AlwaysIndexesAgree == Spec => []IndexesAgree
  <1>1. BaseInv /\ OwnerInv /\ [Next]_vars => (BaseInv /\ OwnerInv)'
    BY OwnersKept
  <1>2. OwnerInv => IndexesAgree
    BY DEF OwnerInv
  <1> QED
    BY InitOwners, <1>1, <1>2, PTL DEF Spec

(* No timer ever has two owners: a queued addTimerInLoop, the indexes and   *)
(* the batch of handleRead exclude one another, so insert never meets a     *)
(* timer it already holds and no callback destroys a timer that is running. *)
THEOREM AlwaysOneOwner == Spec => []OneOwner
  <1>1. BaseInv /\ OwnerInv /\ [Next]_vars => (BaseInv /\ OwnerInv)'
    BY OwnersKept
  <1>2. BaseInv /\ OwnerInv => OneOwner
    <2> SUFFICES ASSUME BaseInv, OwnerInv PROVE OneOwner
      OBVIOUS
    <2>1. pending \in Seq(Ops) /\ tasks \in Seq(Ops) /\ expired \in Seq(Nat)
      BY DEF BaseInv
    <2>2. \A t : AddQueued(t) <=> Adds(t)
      BY <2>1, AddQueuedIsAdds
    <2>3. \A t : t \in Range(expired) <=> In(expired, t)
      BY <2>1, RangeIsIn
    <2>4. \A t \in Range(expired) : In(expired, t)
      BY <2>3
    <2> QED
      BY <2>2, <2>3, <2>4 DEF OneOwner, OwnerInv
  <1> QED
    BY InitOwners, <1>1, <1>2, PTL DEF Spec

-----------------------------------------------------------------------------
(* The strengthening of CancelIsFinal: no queued functor adds the timer      *)
(* again.                                                                    *)
CancelInv ==
    /\ canceled \subseteq Timers
    /\ \A t \in canceled : t \notin active /\ ~Adds(t) /\ (In(expired, t) => t \in canceling)

(* cancelTimerInLoop, on the loop's thread or as a functor *)
LEMMA CancelIsRecorded ==
  ASSUME BaseInv, OwnerInv, CancelInv, NEW t \in Timers, CancelTimerInLoop(t),
         UNCHANGED <<timer, expired>>, \A u : Adds(u)' => Adds(u)
  PROVE  CancelInv'
  <1>1. pending \in Seq(Ops) /\ tasks \in Seq(Ops)
    BY DEF BaseInv
  <1>2. AddQueued(t) <=> Adds(t)
    BY <1>1, AddQueuedIsAdds
  <1>3. /\ active' = active \ {t}
        /\ canceling \subseteq canceling'
        /\ canceled' = IF Adds(t) THEN canceled ELSE canceled \cup {t}
    BY <1>2 DEF CancelTimerInLoop, Erase, CancelingWith
  <1>4. In(expired, t) => t \in canceling'
    <2> SUFFICES ASSUME In(expired, t) PROVE t \in canceling'
      OBVIOUS
    <2>1. expired # <<>>
      BY DEF In
    <2>2. running /\ t \notin active
      BY <2>1 DEF BaseInv, OwnerInv
    <2> QED
      BY <2>2 DEF CancelTimerInLoop, CancelingWith
  <1>5. Timers' = Timers
    BY DEF Timers
  <1>6. ASSUME NEW u \in canceled'
        PROVE  u \in Timers /\ u \notin active' /\ ~Adds(u)' /\ (In(expired', u) => u \in canceling')
    <2>1. CASE u \in canceled
      BY <1>3, <2>1 DEF CancelInv
    <2>2. CASE u \notin canceled
      BY <1>3, <1>4, <1>6, <2>2
    <2> QED
      BY <2>1, <2>2
  <1> QED
    BY <1>5, <1>6 DEF CancelInv

LEMMA CancelKept ==
  ASSUME BaseInv, OwnerInv, CancelInv, [Next]_vars
  PROVE  CancelInv'
  <1>0. ASSUME UNCHANGED <<timer, active, expired, canceling, canceled, pending, tasks>>
        PROVE  CancelInv'
    BY <1>0 DEF CancelInv, Adds, Timers
  <1>1. CASE LoopAdds
    <2>1. PICK new \in NewTimers : Construct(new) /\ Insert(new.exp, Len(timer'))
      BY <1>1 DEF LoopAdds
    <2>2. PICK n : n = Len(timer')
      OBVIOUS
    <2>3. n \notin Timers /\ Timers' = Timers \cup {n}
      BY <2>1, <2>2, NewTimer
    <2>4. active' = active \cup {n} /\ UNCHANGED <<expired, canceling, canceled, pending, tasks>>
      BY <1>1, <2>1, <2>2 DEF Insert, LoopAdds
    <2> QED
      BY <2>3, <2>4 DEF CancelInv, Adds
  <1>2. CASE LoopCancels
    <2>1. PICK t \in ids : CancelTimerInLoop(t)
      BY <1>2 DEF LoopCancels
    <2>2. UNCHANGED <<timer, expired, pending, tasks>> /\ t \in Timers
      BY <1>2 DEF LoopCancels, BaseInv
    <2>3. \A u : Adds(u)' => Adds(u)
      BY <2>2 DEF Adds
    <2> QED
      BY <2>1, <2>2, <2>3, CancelIsRecorded
  <1>3. ASSUME NEW c \in Threads, AddTimer(c) PROVE CancelInv'
    <2>1. PICK new \in NewTimers : Construct(new)
      BY <1>3 DEF AddTimer
    <2>2. PICK n : n = Len(timer')
      OBVIOUS
    <2>3. n \notin Timers /\ Timers' = Timers \cup {n} /\ n \in Nat
      BY <2>1, <2>2, NewTimer
    <2>4. /\ UNCHANGED <<active, expired, canceling, canceled, tasks>>
          /\ pending' = Append(pending, Op("add", n))
      BY <1>3, <2>2 DEF AddTimer, queue
    <2>5. Op("add", n) \in Ops /\ \A t : Op("add", t) = Op("add", n) => t = n
      BY <2>3 DEF Ops, Op
    <2>6. pending \in Seq(Ops)
      BY DEF BaseInv
    <2>7. \A y : In(pending', y) <=> In(pending, y) \/ y = Op("add", n)
      BY <2>4, <2>5, <2>6, Queued
    <2>8. \A t : t # n => (Adds(t)' <=> Adds(t))
      BY <2>4, <2>5, <2>7 DEF Adds
    <2> QED
      BY <2>3, <2>4, <2>8 DEF CancelInv
  <1>4. ASSUME NEW c \in Threads, ReadSequence(c) PROVE CancelInv'
    BY <1>0, <1>4 DEF ReadSequence, queue
  <1>5. ASSUME NEW c \in Threads, CancelTimer(c) PROVE CancelInv'
    <2>1. PICK t \in ids : pending' = Append(pending, Op("cancel", t))
      BY <1>5 DEF CancelTimer
    <2>2. UNCHANGED <<timer, active, expired, canceling, canceled, tasks>>
      BY <1>5 DEF CancelTimer, queue
    <2>3. t \in Nat /\ pending \in Seq(Ops)
      BY DEF BaseInv, Timers
    <2>4. Op("cancel", t) \in Ops /\ \A u : Op("add", u) # Op("cancel", t)
      BY <2>3 DEF Ops, Op
    <2>5. \A y : In(pending', y) <=> In(pending, y) \/ y = Op("cancel", t)
      BY <2>1, <2>3, <2>4, Queued
    <2>6. \A u : Adds(u)' <=> Adds(u)
      BY SMTT(20), <2>2, <2>4, <2>5 DEF Adds
    <2> QED
      BY <2>2, <2>6 DEF CancelInv, Timers
  <1>6. CASE Tick \/ Poll \/ WaitTimesOut \/ WaitWoken \/ WaitReturnsOther \/ NoneExpired
             \/ RunTimer \/ EndFunctors \/ UNCHANGED vars
    BY <1>0, <1>6 DEF Tick, Poll, WaitTimesOut, WaitWoken, WaitReturnsOther, WaitReturns,
                      NoneExpired, RunTimer, EndFunctors, vars, queue
  <1>7. CASE BeginHandleRead
    <2>1. PICK due : due = {e \in timer_list : e[1] <= now} /\ GetExpiredTimers(due)
      BY <1>7 DEF BeginHandleRead
    <2>2. active' \subseteq active /\ \A t : In(expired', t) => t \in active
      BY <2>1, ExpiredTaken
    <2>3. UNCHANGED <<timer, pending, tasks, canceled>>
      BY <1>7 DEF BeginHandleRead
    <2> QED
      BY <2>2, <2>3 DEF CancelInv, Adds, Timers
  <1>8. CASE EndHandleRead
    <2>1. /\ Reset /\ active' = active \cup Restarted /\ expired' = <<>>
          /\ UNCHANGED <<canceled, pending, tasks>>
      BY <1>8 DEF EndHandleRead, Reset
    <2>2. \A t \in Restarted : In(expired, t) /\ t \notin canceling
      BY DEF Restarted, Range, In, BaseInv
    <2>3. \A t : ~In(expired', t)
      BY <2>1 DEF In
    <2>4. Timers' = Timers
      <3>1. DOMAIN timer' = 1 .. Len(timer) /\ timer' \in Seq([exp : Nat, interval : Nat])
        BY <2>1, <1>8, ResetKeepsOwners DEF Reset, Timers, BaseInv
      <3>2. Len(timer) \in Nat
        BY TimerFields
      <3> QED
        BY <3>1, <3>2 DEF Timers
    <2> QED
      BY <2>1, <2>2, <2>3, <2>4 DEF CancelInv, Adds
  <1>9. CASE BeginFunctors
    <2>1. /\ tasks = <<>> /\ tasks' = pending /\ pending' = <<>>
          /\ UNCHANGED <<timer, active, expired, canceling, canceled>>
      BY <1>9 DEF BeginFunctors, SwapFunctors, queue, BaseInv
    <2>2. \A x : ~In(pending', x) /\ ~In(tasks, x)
      BY <2>1 DEF In
    <2> QED
      BY <2>1, <2>2 DEF CancelInv, Adds, Timers
  <1>10. CASE RunFunctor
    <2>1. /\ tasks # <<>> /\ tasks' = Tail(tasks) /\ tasks \in Seq(Ops)
          /\ UNCHANGED <<timer, expired, pending>>
      BY <1>10 DEF RunFunctor, BaseInv
    <2>2. /\ Head(tasks) \in Ops /\ In(tasks, Head(tasks))
          /\ \A y : In(tasks', y) => In(tasks, y)
      BY <2>1, Executed
    <2>3. \A u : Adds(u)' => Adds(u)
      BY <2>1, <2>2 DEF Adds
    <2>4. PICK t : t = Head(tasks).timer
      OBVIOUS
    <2>5. t \in Timers
      BY <2>2, <2>4 DEF BaseInv
    <2>6. CASE Head(tasks).op = "add"
      <3>1. Head(tasks) = Op("add", t)
        BY <2>2, <2>4, <2>6 DEF Ops, Op
      <3>2. Adds(t)
        BY <2>2, <3>1 DEF Adds
      <3>3. active' = active \cup {t} /\ UNCHANGED <<canceling, canceled>>
        BY <1>10, <2>4, <2>6 DEF RunFunctor, Insert
      <3> QED
        BY <2>1, <2>3, <3>2, <3>3 DEF CancelInv, Timers
    <2>7. CASE Head(tasks).op # "add"
      <3>1. CancelTimerInLoop(t)
        BY <1>10, <2>4, <2>7 DEF RunFunctor
      <3> QED
        BY <2>1, <2>3, <2>5, <3>1, CancelIsRecorded
    <2> QED
      BY <2>6, <2>7
  <1> QED
    BY <1>1, <1>2, <1>3, <1>4, <1>5, <1>6, <1>7, <1>8, <1>9, <1>10 DEF Next, LoopStep

(* cancelTimerInLoop is always final for a timer that was added: after the   *)
(* batch that is running the timer is in no index, also when its own         *)
(* callback or a batch-mate's cancelled it (canceling_timer_set_).           *)
THEOREM AlwaysCancelIsFinal == Spec => []CancelIsFinal
  <1> DEFINE I == BaseInv /\ OwnerInv /\ CancelInv
  <1>1. Init => I
    BY InitOwners DEF Init, CancelInv
  <1>2. I /\ [Next]_vars => I'
    BY OwnersKept, CancelKept
  <1>3. I => CancelIsFinal
    BY DEF CancelInv, CancelIsFinal, Range, In
  <1> QED
    BY <1>1, <1>2, <1>3, PTL DEF Spec

-----------------------------------------------------------------------------
(* a timer with an owner, or done with *)
Kept(t) ==
    \/ Adds(t) \/ t \in active \/ In(expired, t)
    \/ t \in canceled \/ (timer[t].interval = 0 /\ t \in fired)

(* The strengthening of NoTimerLost: the part of the batch behind done has   *)
(* run, and what reset will find in canceling_timer_set_ was cancelled.      *)
LostInv ==
    /\ \A t \in Timers : Kept(t)
    /\ done \in Nat
    /\ \A i \in 1 .. Len(expired) : i <= done => expired[i] \in fired
    /\ \A t : In(expired, t) /\ t \in canceling => t \in canceled

(* cancelTimerInLoop, on the loop's thread or as a functor *)
LEMMA CancelLosesNone ==
  ASSUME BaseInv, OwnerInv, LostInv, NEW t, CancelTimerInLoop(t),
         UNCHANGED <<timer, expired, done, fired>>, \A u : Adds(u) => Adds(u)'
  PROVE  LostInv'
  <1>1. pending \in Seq(Ops) /\ tasks \in Seq(Ops)
    BY DEF BaseInv
  <1>2. AddQueued(t) <=> Adds(t)
    BY <1>1, AddQueuedIsAdds
  <1>3. /\ active' = active \ {t}
        /\ canceling' \subseteq canceling \cup {t}
        /\ canceled' = IF Adds(t) THEN canceled ELSE canceled \cup {t}
    BY <1>2 DEF CancelTimerInLoop, Erase, CancelingWith
  <1>4. t \in active \/ In(expired, t) => t \in canceled'
    BY <1>3 DEF OwnerInv
  <1>5. \A u : Kept(u) => Kept(u)'
    BY <1>3, <1>4 DEF Kept
  <1>6. \A u : In(expired', u) /\ u \in canceling' => u \in canceled'
    BY <1>3, <1>4 DEF LostInv
  <1> QED
    BY <1>5, <1>6 DEF LostInv, Timers

LEMMA LostKept ==
  ASSUME BaseInv, OwnerInv, LostInv, [Next]_vars
  PROVE  LostInv'
  <1>0. ASSUME UNCHANGED <<expired, canceling, canceled, done, fired>>, Timers' = Timers,
               \A t \in Timers : Kept(t) => Kept(t)'
        PROVE  LostInv'
    BY <1>0 DEF LostInv
  <1>1. CASE LoopAdds
    <2>1. PICK new \in NewTimers : Construct(new) /\ Insert(new.exp, Len(timer'))
      BY <1>1 DEF LoopAdds
    <2>2. PICK n : n = Len(timer')
      OBVIOUS
    <2>3. Timers' = Timers \cup {n} /\ \A t \in Timers : timer'[t] = timer[t]
      BY <2>1, <2>2, NewTimer
    <2>4. /\ active' = active \cup {n}
          /\ UNCHANGED <<expired, canceling, canceled, done, fired, pending, tasks>>
      BY <1>1, <2>1, <2>2 DEF Insert, LoopAdds
    <2>5. \A t \in Timers' : Kept(t)'
      BY <2>3, <2>4 DEF Kept, Adds, LostInv
    <2> QED
      BY <2>4, <2>5 DEF LostInv
  <1>2. CASE LoopCancels
    <2>1. PICK t \in ids : CancelTimerInLoop(t)
      BY <1>2 DEF LoopCancels
    <2>2. UNCHANGED <<timer, expired, done, fired, pending, tasks>>
      BY <1>2 DEF LoopCancels
    <2>3. \A u : Adds(u) => Adds(u)'
      BY <2>2 DEF Adds
    <2> QED
      BY <2>1, <2>2, <2>3, CancelLosesNone
  <1>3. ASSUME NEW c \in Threads, AddTimer(c) PROVE LostInv'
    <2>1. PICK new \in NewTimers : Construct(new)
      BY <1>3 DEF AddTimer
    <2>2. PICK n : n = Len(timer')
      OBVIOUS
    <2>3. Timers' = Timers \cup {n} /\ n \in Nat /\ \A t \in Timers : timer'[t] = timer[t]
      BY <2>1, <2>2, NewTimer
    <2>4. /\ UNCHANGED <<active, expired, canceling, canceled, done, fired, tasks>>
          /\ pending' = Append(pending, Op("add", n))
      BY <1>3, <2>2 DEF AddTimer, queue
    <2>5. Op("add", n) \in Ops /\ pending \in Seq(Ops)
      BY <2>3 DEF Ops, Op, BaseInv
    <2>6. \A y : In(pending', y) <=> In(pending, y) \/ y = Op("add", n)
      BY <2>4, <2>5, Queued
    <2>7. Adds(n)' /\ \A t : Adds(t) => Adds(t)'
      BY <2>4, <2>6 DEF Adds
    <2>8. \A t \in Timers' : Kept(t)'
      BY <2>3, <2>4, <2>7 DEF Kept, LostInv
    <2> QED
      BY <2>4, <2>8 DEF LostInv
  <1>4. ASSUME NEW c \in Threads, CancelTimer(c) PROVE LostInv'
    <2>1. PICK t \in ids : pending' = Append(pending, Op("cancel", t))
      BY <1>4 DEF CancelTimer
    <2>2. UNCHANGED <<timer, active, expired, canceling, canceled, done, fired, tasks>>
      BY <1>4 DEF CancelTimer, queue
    <2>3. t \in Nat /\ pending \in Seq(Ops)
      BY DEF BaseInv, Timers
    <2>4. Op("cancel", t) \in Ops
      BY <2>3 DEF Ops, Op
    <2>5. \A y : In(pending, y) => In(pending', y)
      BY <2>1, <2>3, <2>4, Queued
    <2>6. \A u : Kept(u) => Kept(u)'
      BY <2>2, <2>5 DEF Kept, Adds
    <2> QED
      BY <1>0, <2>2, <2>6 DEF Timers
  <1>5. CASE \/ Tick \/ Poll \/ WaitTimesOut \/ WaitWoken \/ WaitReturnsOther \/ NoneExpired
             \/ EndFunctors \/ (\E c \in Threads : ReadSequence(c)) \/ UNCHANGED vars
    <2>1. UNCHANGED <<timer, active, expired, canceling, canceled, done, fired, pending, tasks>>
      BY <1>5 DEF Tick, Poll, WaitTimesOut, WaitWoken, WaitReturnsOther, WaitReturns,
                  NoneExpired, EndFunctors, ReadSequence, vars, queue
    <2> QED
      BY <1>0, <2>1 DEF Kept, Adds, Timers
  <1>6. CASE RunTimer
    <2>1. /\ UNCHANGED <<timer, active, expired, canceling, canceled, pending, tasks>>
          /\ done' = done + 1 /\ fired' = fired \cup {expired[done + 1]}
      BY <1>6 DEF RunTimer, NextExpired
    <2>2. \A u : Kept(u) => Kept(u)'
      BY <2>1 DEF Kept, Adds
    <2>3. done' \in Nat /\ \A i \in 1 .. Len(expired) : i <= done' => expired[i] \in fired'
      <3>1. done \in Nat /\ expired \in Seq(Nat)
        BY DEF LostInv, BaseInv
      <3>2. \A i \in 1 .. Len(expired) : i <= done + 1 => i <= done \/ i = done + 1
        BY <3>1
      <3> QED
        BY <2>1, <3>1, <3>2 DEF LostInv
    <2> QED
      BY <2>1, <2>2, <2>3 DEF LostInv, Timers
  <1>7. CASE BeginHandleRead
    <2>1. PICK due : due = {e \in timer_list : e[1] <= now} /\ GetExpiredTimers(due)
      BY <1>7 DEF BeginHandleRead
    <2>2. (\A t \in active : t \in active' \/ In(expired', t)) /\ expired' \in Seq(Nat)
      BY <2>1, ExpiredTaken
    <2>3. /\ UNCHANGED <<timer, pending, tasks, canceled, fired>>
          /\ canceling' = {} /\ done' = 0 /\ expired = <<>>
      BY <1>7 DEF BeginHandleRead, BaseInv
    <2>4. \A t : ~In(expired, t)
      BY <2>3 DEF In
    <2>5. \A t : Kept(t) => Kept(t)'
      BY <2>2, <2>3, <2>4 DEF Kept, Adds
    <2>6. \A i \in 1 .. Len(expired') : ~(i <= done')
      BY <2>2, <2>3
    <2> QED
      BY <2>3, <2>5, <2>6 DEF LostInv, Timers
  <1>8. CASE EndHandleRead
    <2>1. /\ Reset /\ active' = active \cup Restarted /\ expired' = <<>>
          /\ done' = 0 /\ done = Len(expired)
          /\ UNCHANGED <<canceling, canceled, fired, pending, tasks>>
      BY <1>8 DEF EndHandleRead, Reset
    <2>2. Timers' = Timers
      <3>1. DOMAIN timer' = 1 .. Len(timer) /\ timer' \in Seq([exp : Nat, interval : Nat])
        BY <2>1, <1>8, ResetKeepsOwners DEF Reset, Timers, BaseInv
      <3>2. Len(timer) \in Nat
        BY TimerFields
      <3> QED
        BY <3>1, <3>2 DEF Timers
    <2>3. \A t \in Timers : timer'[t].interval = timer[t].interval
      <3> DEFINE T == [exp : Nat, interval : Nat]
      <3>1. \A x \in T : \A y : [x EXCEPT !.exp = y].interval = x.interval
        OBVIOUS
      <3>2. timer \in Seq(T)
        BY DEF BaseInv
      <3> HIDE DEF T
      <3>3. \A t \in Timers : timer[t] \in T
        BY <3>2 DEF Timers
      <3> QED
        BY <2>1, <3>1, <3>3 DEF Reset
    <2>4. \A t : In(expired, t) => t \in fired
      <3>1. expired \in Seq(Nat)
        BY DEF BaseInv
      <3>2. \A i \in 1 .. Len(expired) : i <= done
        BY <2>1, <3>1
      <3> QED
        BY <3>2 DEF LostInv, In
    <2>5. ASSUME NEW t \in Timers, In(expired, t), t \notin Restarted
          PROVE  t \in canceled \/ timer[t].interval = 0
      <3>1. t \in Range(expired)
        BY <2>5 DEF In, Range, BaseInv
      <3>2. t \in canceling \/ ~(timer[t].interval > 0)
        BY <2>5, <3>1 DEF Restarted
      <3>3. timer[t].interval \in Nat
        BY TimerFields
      <3> QED
        BY <2>5, <3>2, <3>3 DEF LostInv
    <2>6. \A t \in Timers : Kept(t) => Kept(t)'
      BY <2>1, <2>3, <2>4, <2>5 DEF Kept, Adds
    <2>7. \A t : ~In(expired', t)
      BY <2>1 DEF In
    <2>8. done' \in Nat /\ \A i \in 1 .. Len(expired') : expired'[i] \in fired'
      BY <2>1
    <2> QED
      BY <2>2, <2>6, <2>7, <2>8 DEF LostInv
  <1>9. CASE BeginFunctors
    <2>1. /\ tasks = <<>> /\ tasks' = pending
          /\ UNCHANGED <<timer, active, expired, canceling, canceled, done, fired>>
      BY <1>9 DEF BeginFunctors, SwapFunctors, queue, BaseInv
    <2>2. \A x : ~In(tasks, x)
      BY <2>1 DEF In
    <2>3. \A t : Kept(t) => Kept(t)'
      BY <2>1, <2>2 DEF Kept, Adds
    <2> QED
      BY <1>0, <2>1, <2>3 DEF Timers
  <1>10. CASE RunFunctor
    <2>1. /\ tasks # <<>> /\ tasks' = Tail(tasks) /\ tasks \in Seq(Ops)
          /\ UNCHANGED <<timer, expired, done, fired, pending>>
      BY <1>10 DEF RunFunctor, BaseInv
    <2>2. /\ Head(tasks) \in Ops
          /\ \A y : In(tasks, y) => y = Head(tasks) \/ In(tasks', y)
      BY <2>1, Executed
    <2>3. PICK t : t = Head(tasks).timer
      OBVIOUS
    <2>4. CASE Head(tasks).op = "add"
      <3>1. Head(tasks) = Op("add", t) /\ \A u : Op("add", u) = Op("add", t) => u = t
        BY SMTT(20), <2>2, <2>3, <2>4 DEF Ops, Op
      <3>2. active' = active \cup {t} /\ UNCHANGED <<canceling, canceled>>
        BY <1>10, <2>3, <2>4 DEF RunFunctor, Insert
      <3>3. \A u : Adds(u) => Adds(u)' \/ u = t
        BY <2>1, <2>2, <3>1 DEF Adds
      <3>4. \A u : Kept(u) => Kept(u)'
        BY <2>1, <3>2, <3>3 DEF Kept
      <3> QED
        BY <1>0, <2>1, <3>2, <3>4 DEF Timers
    <2>5. CASE Head(tasks).op # "add"
      <3>1. Head(tasks) = Op("cancel", t) /\ \A u : Op("add", u) # Op("cancel", t)
        BY <2>2, <2>3, <2>5 DEF Ops, Op
      <3>2. CancelTimerInLoop(t)
        BY <1>10, <2>3, <2>5 DEF RunFunctor
      <3>3. \A u : Adds(u) => Adds(u)'
        BY <2>1, <2>2, <3>1 DEF Adds
      <3> QED
        BY <2>1, <3>2, <3>3, CancelLosesNone
    <2> QED
      BY <2>4, <2>5
  <1> QED
    BY <1>1, <1>2, <1>3, <1>4, <1>5, <1>6, <1>7, <1>8, <1>9, <1>10 DEF Next, LoopStep

(* No timer is ever lost, for any number of threads and timers: it has an    *)
(* owner until it has run, a repeating one for ever, unless it was cancelled *)
(* (addTimer, handleRead, reset).  The loop destroys nothing else, however   *)
(* long another thread takes inside addTimer.                                *)
THEOREM AlwaysNoTimerLost == Spec => []NoTimerLost
  <1> DEFINE I == BaseInv /\ OwnerInv /\ LostInv
  <1>1. Init => I
    <2> SUFFICES ASSUME Init PROVE LostInv
      BY InitOwners
    <2>1. timer = <<>> /\ expired = <<>> /\ done = 0
      BY DEF Init
    <2>2. Timers = {} /\ Len(expired) = 0
      BY <2>1 DEF Timers
    <2> QED
      BY <2>1, <2>2 DEF LostInv, In
  <1>2. I /\ [Next]_vars => I'
    BY OwnersKept, LostKept
  <1>3. I => NoTimerLost
    <2> SUFFICES ASSUME I, NEW t \in Timers PROVE Kept(t) => Alive(t) \/ t \in canceled
                                              \/ (timer[t].interval = 0 /\ t \in fired)
      BY DEF NoTimerLost, LostInv
    <2>1. pending \in Seq(Ops) /\ tasks \in Seq(Ops) /\ expired \in Seq(Nat)
      BY DEF BaseInv
    <2>2. AddQueued(t) <=> Adds(t)
      BY <2>1, AddQueuedIsAdds
    <2>3. t \in Range(expired) <=> In(expired, t)
      BY <2>1, RangeIsIn
    <2> QED
      BY <2>2, <2>3 DEF Alive, Kept
  <1> QED
    BY <1>1, <1>2, <1>3, PTL DEF Spec

-----------------------------------------------------------------------------
(* Min and Max of the sets that getTimeOutPeriod compares *)
LEMMA MinOfTwo ==
  ASSUME NEW a \in Int, NEW b \in Int
  PROVE  Min({a, b}) \in {a, b} /\ Min({a, b}) <= a /\ Min({a, b}) <= b
  <1>1. \E x \in {a, b} : \A y \in {a, b} : x =< y
    <2>1. a <= b \/ b <= a
      OBVIOUS
    <2> QED
      BY <2>1
  <1>2. Min({a, b}) \in {a, b} /\ \A y \in {a, b} : Min({a, b}) =< y
    BY <1>1 DEF Min
  <1> QED
    BY <1>2

LEMMA MaxOfTwo ==
  ASSUME NEW a \in Int, NEW b \in Int
  PROVE  Max({a, b}) = IF a >= b THEN a ELSE b
  <1>1. \E x \in {a, b} : \A y \in {a, b} : x >= y
    <2>1. a >= b \/ b >= a
      OBVIOUS
    <2> QED
      BY <2>1
  <1>2. Max({a, b}) \in {a, b} /\ \A y \in {a, b} : Max({a, b}) >= y
    BY <1>1 DEF Max
  <1> QED
    BY <1>2

LEMMA MinIsLeast ==
  ASSUME NEW S, S \subseteq Nat, S # {}
  PROVE  Min(S) \in S /\ \A y \in S : Min(S) <= y
  <1> DEFINE R == OpToRel(<, Nat)
  <1>1. IsWellFoundedOn(R, Nat)
    BY NatLessThanWellFounded
  <1>2. \A i, j \in Nat : i < j => <<i, j>> \in R
    BY DEF OpToRel
  <1> HIDE DEF R
  <1>3. PICK k \in S : \A j \in S : ~(<<j, k>> \in R)
    BY <1>1, WFMin
  <1>4. ASSUME NEW y \in S PROVE k =< y
    <2>1. ~(y < k) /\ y \in Nat /\ k \in Nat
      BY <1>2, <1>3
    <2> QED
      BY <2>1
  <1>5. \E x \in S : \A y \in S : x =< y
    BY <1>4
  <1> QED
    BY <1>5 DEF Min

(* The timeout never reaches beyond the first expiration, except for the     *)
(* minimum of one unit.                                                      *)
LEMMA TimeOutInTime ==
  ASSUME BaseInv, OwnerInv, NEW e \in timer_list
  PROVE  now + TimeOutPeriod <= Max({e[1], now + 1})
  <1> DEFINE S == {d[1] : d \in timer_list}
  <1>1. now \in Nat /\ \A d \in timer_list : d[1] \in Nat
    <2>1. now \in Nat /\ \A t \in active : timer[t].exp \in Nat
      BY TimerFields DEF BaseInv
    <2> QED
      BY <2>1 DEF OwnerInv, IndexesAgree
  <1>2. S \subseteq Nat /\ e[1] \in S /\ S # {}
    BY <1>1
  <1>3. Min(S) \in Nat /\ Min(S) <= e[1]
    BY <1>2, MinIsLeast
  <1>4. TimeOutPeriod = Min({PollTime, Max({1, Min(S) - now})})
    BY DEF TimeOutPeriod, Earliest
  <1> DEFINE m == Min(S)
             w == Max({1, m - now})
             p == Min({PollTime, w})
  <1> HIDE DEF S, m
  <1>5. m \in Nat /\ m <= e[1] /\ e[1] \in Nat
    BY <1>2, <1>3 DEF m
  <1>6. w = IF 1 >= m - now THEN 1 ELSE m - now
    BY <1>1, <1>5, MaxOfTwo
  <1>7. w \in Int
    BY <1>1, <1>5, <1>6
  <1> HIDE DEF w
  <1>8. p \in Int /\ p <= w
    <2>1. PollTime \in Int
      BY TimerBounds
    <2> QED
      BY <1>7, <2>1, MinOfTwo
  <1> HIDE DEF p
  <1>9. Max({e[1], now + 1}) = IF e[1] >= now + 1 THEN e[1] ELSE now + 1
    BY <1>1, <1>5, MaxOfTwo
  <1>10. now + p <= Max({e[1], now + 1})
    BY <1>1, <1>5, <1>6, <1>7, <1>8, <1>9
  <1>11. TimeOutPeriod = p
    BY <1>4 DEF p, w, m
  <1> QED
    BY <1>10, <1>11

(* The loop never sleeps past a timer: getTimeOutPeriod looks at the first   *)
(* expiration, and only the loop's own thread, which is asleep, changes      *)
(* timer_list_.                                                              *)
THEOREM AlwaysNoOversleep == Spec => NoOversleep
  <1> DEFINE Sleep == pc' = "waiting" =>
               /\ pc = "waiting" => timer_list' = timer_list
               /\ pc # "waiting" => \A e \in timer_list' : wakeAt' <= Max({e[1], now + 1})
  <1>1. BaseInv /\ OwnerInv /\ [Next]_vars => (BaseInv /\ OwnerInv)'
    BY OwnersKept
  <1>2. BaseInv /\ OwnerInv /\ [Next]_vars => [Sleep]_vars
    <2> SUFFICES ASSUME BaseInv, OwnerInv, Next, pc' = "waiting"
                 PROVE  /\ pc = "waiting" => timer_list' = timer_list
                        /\ pc # "waiting" => \A e \in timer_list' : wakeAt' <= Max({e[1], now + 1})
      OBVIOUS
    <2>1. CASE Poll
      <3>1. timer_list' = timer_list /\ wakeAt' = now + TimeOutPeriod /\ pc = "poll"
        BY <2>1 DEF Poll, queue
      <3> QED
        BY <3>1, TimeOutInTime
    <2>2. CASE \/ \E c \in Threads : AddTimer(c) \/ ReadSequence(c) \/ CancelTimer(c)
               \/ Tick
      <3>1. UNCHANGED <<pc, timer_list>>
        BY SMTT(20), <2>2 DEF AddTimer, ReadSequence, CancelTimer, Tick, queue
      <3> QED
        BY <3>1
    <2>3. CASE \/ WaitTimesOut \/ WaitWoken \/ NoneExpired \/ BeginHandleRead \/ RunTimer
               \/ EndHandleRead \/ BeginFunctors \/ RunFunctor \/ EndFunctors
               \/ WaitReturnsOther \/ LoopAdds \/ LoopCancels
      BY <2>3 DEF WaitTimesOut, WaitWoken, WaitReturns, NoneExpired, BeginHandleRead, RunTimer,
                  EndHandleRead, BeginFunctors, RunFunctor, EndFunctors, WaitReturnsOther,
                  LoopAdds, LoopCancels, InLoopThread
    <2> QED
      BY <2>1, <2>2, <2>3 DEF Next, LoopStep
  <1> QED
    BY InitOwners, <1>1, <1>2, PTL DEF Spec, NoOversleep

-----------------------------------------------------------------------------
(* The batch of handleRead: its timers were due when it began. *)
DueInv == readAt <= now /\ \A t : In(expired, t) => timer[t].exp <= readAt

LEMMA DueKept ==
  ASSUME BaseInv, OwnerInv, DueInv, [Next]_vars
  PROVE  DueInv'
  <1>0. \A t : In(expired, t) => t \in Timers
    BY DEF BaseInv
  <1>1. ASSUME UNCHANGED <<now, expired, readAt>>, \A t \in Timers : timer'[t] = timer[t]
        PROVE  DueInv'
    BY <1>0, <1>1 DEF DueInv
  <1>2. CASE LoopAdds \/ \E c \in Threads : AddTimer(c)
    <2>1. PICK new \in NewTimers : Construct(new)
      BY <1>2 DEF LoopAdds, AddTimer
    <2>2. \A t \in Timers : timer'[t] = timer[t]
      BY <2>1, NewTimer
    <2> QED
      BY <1>1, <1>2, <2>2 DEF LoopAdds, AddTimer, queue
  <1>3. CASE \/ LoopCancels \/ Poll \/ WaitTimesOut \/ WaitWoken \/ WaitReturnsOther
             \/ NoneExpired \/ RunTimer \/ BeginFunctors \/ RunFunctor \/ EndFunctors
             \/ (\E c \in Threads : ReadSequence(c) \/ CancelTimer(c)) \/ UNCHANGED vars
    <2>1. UNCHANGED <<now, timer, expired, readAt>>
      BY <1>3 DEF LoopCancels, Poll, WaitTimesOut, WaitWoken, WaitReturnsOther, WaitReturns,
                  NoneExpired, RunTimer, BeginFunctors, RunFunctor, EndFunctors,
                  ReadSequence, CancelTimer, vars, queue
    <2> QED
      BY <1>1, <2>1
  <1>4. CASE Tick
    <2>1. /\ UNCHANGED <<timer, expired, readAt>>
          /\ now' = now + 1 /\ now \in Nat /\ readAt \in Nat
      BY <1>4 DEF Tick, queue, BaseInv
    <2>2. readAt' <= now'
      BY <2>1 DEF DueInv
    <2> QED
      BY <2>1, <2>2 DEF DueInv
  <1>5. CASE BeginHandleRead
    <2>1. PICK due : due = {e \in timer_list : e[1] <= now} /\ GetExpiredTimers(due)
      BY <1>5 DEF BeginHandleRead
    <2>2. \A t : In(expired', t) => timer[t].exp <= now
      BY <2>1, ExpiredTaken
    <2>3. UNCHANGED <<now, timer>> /\ readAt' = now /\ now \in Nat
      BY <1>5 DEF BeginHandleRead, BaseInv
    <2> QED
      BY <2>2, <2>3 DEF DueInv
  <1>6. CASE EndHandleRead
    <2>1. expired' = <<>> /\ readAt' = 0 /\ now' = now /\ now \in Nat
      BY <1>6 DEF EndHandleRead, BaseInv
    <2>2. \A t : ~In(expired', t)
      BY <2>1 DEF In
    <2> QED
      BY <2>1, <2>2 DEF DueInv
  <1> QED
    BY <1>2, <1>3, <1>4, <1>5, <1>6 DEF Next, LoopStep

(* No callback runs early: the timers of a batch have expired, and stay so   *)
(* while callbacks and threads add timers (getExpiredTimers, handleRead).    *)
THEOREM NoTimerEarly == Spec => [](\A t \in Range(expired) : timer[t].exp <= now)
  <1> DEFINE I == BaseInv /\ OwnerInv /\ DueInv
  <1>1. Init => I
    <2> SUFFICES ASSUME Init PROVE DueInv
      BY InitOwners
    <2>1. expired = <<>> /\ readAt = 0 /\ now = 0
      BY DEF Init
    <2> QED
      BY <2>1 DEF DueInv, In
  <1>2. I /\ [Next]_vars => I'
    BY OwnersKept, DueKept
  <1>3. I => \A t \in Range(expired) : timer[t].exp <= now
    <2> SUFFICES ASSUME I, NEW t \in Range(expired) PROVE timer[t].exp <= now
      OBVIOUS
    <2>1. In(expired, t) /\ t \in Timers
      BY RangeIsIn DEF BaseInv
    <2>2. timer[t].exp <= readAt /\ readAt <= now /\ readAt \in Nat /\ now \in Nat
      BY <2>1 DEF DueInv, BaseInv
    <2>3. timer[t].exp \in Nat
      BY <2>1, TimerFields
    <2> QED
      BY <2>2, <2>3
  <1> QED
    BY <1>1, <1>2, <1>3, PTL DEF Spec

=============================================================================
