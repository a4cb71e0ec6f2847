--------------------------- MODULE TcpServer_proof ---------------------------
(***************************************************************************)
(* Proofs about the server, its loop threads and its connections, for any  *)
(* number of threads and connections, whenever quit() is called and        *)
(* however the destructor meets the queued functors.                       *)
(***************************************************************************)
EXTENDS TcpServer, SequenceTheorems, TLAPS

Func == [op : {"established", "destroyed", "remove"}, conn : Nat]

ConnRec == [loop : Loops, state : {"accepted", "open", "closed"}]

(* How far a loop can be in each phase of the main thread: the base loop     *)
(* runs between start() and the destructor, and a loop of the pool is there  *)
(* from the return of startLoop until the destructor quits its thread.       *)
LoopInv(l) ==
    /\ DOMAIN loop[l] = {"pc", "published", "exiting", "quit", "pending", "tasks"}
    /\ loop[l].pending \in Seq(Func) /\ loop[l].tasks \in Seq(Func)
    /\ loop[l].pc # "run" => loop[l].tasks = <<>>
    /\ main = "starting" => loop[l].pending = <<>> /\ loop[l].tasks = <<>>
    /\ l = Base =>
         /\ main = "starting" => loop[l].pc = "none"
         /\ main # "starting" => loop[l].published
         /\ main \notin {"starting", "looping"} => loop[l].pc = "left"
    /\ l # Base =>
         /\ main = "starting" /\ l < thread => loop[l].published
         /\ main \in {"looping", "clearing"} => loop[l].published
         /\ main \in {"starting", "looping", "clearing"} =>
              ~loop[l].quit /\ ~loop[l].exiting /\ loop[l].pc \notin {"left", "ended"}

PhaseInv ==
    /\ DOMAIN loop = Loops
    /\ \A l \in Loops : LoopInv(l)
    /\ conn \in Seq(ConnRec) /\ map \subseteq Conns
    /\ main = "starting" => conn = <<>>
    /\ NumThreads # 0 => next \in Threads
    /\ thread \in Nat
    /\ ~stray

(* the functors of l that have not been executed, the oldest first *)
Functors(l) == loop[l].tasks \o loop[l].pending

In(q, f) == \E i \in 1 .. Len(q) : q[i] = f

(* what holds of the connection of a functor that l has not executed *)
FunctorInv(l, f) ==
    /\ f.conn \in Conns
    /\ f.op # "remove" => conn[f.conn].loop = l
    /\ f.op = "established" => conn[f.conn].state = "accepted"
    /\ f.op = "destroyed" => main \notin {"starting", "looping"}
    /\ f.op = "remove" => conn[f.conn].state = "closed"

Once(q) == \A i, j \in 1 .. Len(q) : q[i] = q[j] /\ q[i].op = "established" => i = j

Accepted == {c \in Conns : conn[c].state = "accepted"}

StartedFirst(q, waiting) ==
    \A i \in 1 .. Len(q) : q[i].op = "destroyed" /\ q[i].conn \in waiting =>
        \E j \in 1 .. i - 1 : q[j] = Functor("established", q[i].conn)

(* The strengthening of LiveIsMapped and EstablishedFirst: a connection that *)
(* is not started has one functor that will start it, and only closed ones   *)
(* are on their way out of the map.                                          *)
QueueInv ==
    /\ \A l \in Loops :
         /\ \A f : In(Functors(l), f) => FunctorInv(l, f)
         /\ Once(Functors(l)) /\ StartedFirst(Functors(l), Accepted)
    /\ main \in {"looping", "clearing"} =>
         \A c \in Accepted, l \in Loops :
             conn[c].loop = l => In(Functors(l), Functor("established", c))
    /\ LiveIsMapped

Only(l) == \A k \in Loops : k # l => loop'[k] = loop[k]

-----------------------------------------------------------------------------
LEMMA LoopFacts ==
  /\ Base \in Loops
  /\ \A l \in Threads : l \in Loops /\ l # Base /\ l \in Nat
  /\ \A l \in Loops : l = Base \/ l \in Threads
  BY ServerBounds DEF Loops, Threads, Base

LEMMA ConnFacts ==
  ASSUME conn \in Seq(ConnRec)
  PROVE  /\ Len(conn) \in Nat /\ Conns = 1 .. Len(conn)
         /\ \A c \in Conns : c \in Nat /\ conn[c].loop \in Loops
  <1>1. Len(conn) \in Nat /\ Conns = 1 .. Len(conn) /\ \A c \in Conns : conn[c] \in ConnRec
    BY DEF Conns
  <1>2. \A x \in ConnRec : x.loop \in Loops
    BY DEF ConnRec
  <1> QED
    BY <1>1, <1>2

(* getNextLoop returns one of the loops *)
LEMMA NextLoopExists ==
  ASSUME PhaseInv
  PROVE  NextLoop \in Loops /\ (NumThreads # 0 => RoundRobin(next) \in Threads)
  <1>1. CASE NumThreads = 0
    BY <1>1, LoopFacts DEF NextLoop
  <1>2. CASE NumThreads # 0
    <2>1. next \in Nat /\ NumThreads \in Nat \ {0} /\ next \in Threads
      BY <1>2, ServerBounds DEF PhaseInv, Threads
    <2>2. next % NumThreads \in 0 .. NumThreads - 1
      BY <2>1
    <2>3. RoundRobin(next) \in Threads
      BY <2>1, <2>2 DEF RoundRobin, Threads
    <2> QED
      BY <1>2, <2>1, <2>3, LoopFacts DEF NextLoop
  <1> QED
    BY <1>1, <1>2

(* the turn of a loop, and the start and the end of its thread *)
LEMMA TurnStep ==
  ASSUME PhaseInv, NEW l \in Loops,
         LoopTurn(l) \/ (l # Base /\ (Publish(l) \/ ThreadEnds(l))),
         UNCHANGED <<main, thread>>
  PROVE  /\ DOMAIN loop' = Loops /\ LoopInv(l)' /\ Only(l)
         /\ \/ Functors(l)' = Functors(l)
            \/ Functors(l)' = <<>> /\ main \notin {"starting", "looping", "clearing"}
  <1>0. DOMAIN loop = Loops /\ LoopInv(l)
    BY DEF PhaseInv
  <1>1. /\ loop[l].pending \in Seq(Func) /\ loop[l].tasks \in Seq(Func)
        /\ <<>> \in Seq(Func)
        /\ <<>> \o loop[l].pending = loop[l].pending
        /\ loop[l].pending \o <<>> = loop[l].pending
        /\ <<>> \o <<>> = <<>>
    BY <1>0, ConcatEmptySeq, EmptySeq DEF LoopInv
  <1>2. CASE EnterLoop(l)
    BY <1>0, <1>1, <1>2 DEF EnterLoop, LoopInv, Only, Functors
  <1>3. CASE StartLooping(l)
    BY <1>0, <1>1, <1>3 DEF StartLooping, LoopInv, Only, Functors
  <1>4. CASE WhileTest(l)
    BY <1>0, <1>1, <1>4 DEF WhileTest, LoopInv, Only, Functors
  <1>5. CASE BeginFunctors(l)
    BY <1>0, <1>1, <1>5 DEF BeginFunctors, LoopInv, Only, Functors
  <1>6. CASE EndFunctors(l)
    BY <1>0, <1>1, <1>6 DEF EndFunctors, LoopInv, Only, Functors
  <1>7. CASE Publish(l) /\ l # Base
    BY <1>0, <1>1, <1>7 DEF Publish, LoopInv, Only, Functors
  <1>8. CASE ThreadEnds(l) /\ l # Base
    BY <1>0, <1>1, <1>8 DEF ThreadEnds, LoopInv, Only, Functors
  <1> QED
    BY <1>2, <1>3, <1>4, <1>5, <1>6, <1>7, <1>8 DEF LoopTurn

LEMMA AppendToConcat ==
  ASSUME NEW t \in Seq(Func), NEW p \in Seq(Func), NEW f \in Func
  PROVE  t \o Append(p, f) = Append(t \o p, f)
  <1>1. Append(p, f) = p \o <<f>> /\ <<f>> \in Seq(Func)
    BY AppendIsConcat
  <1>2. t \o (p \o <<f>>) = (t \o p) \o <<f>>
    BY <1>1, ConcatAssociative
  <1>3. t \o p \in Seq(Func)
    BY ConcatProperties
  <1>4. Append(t \o p, f) = (t \o p) \o <<f>>
    BY <1>3, AppendIsConcat
  <1> QED
    BY <1>1, <1>2, <1>4

LEMMA TailOfConcat ==
  ASSUME NEW t \in Seq(Func), NEW p \in Seq(Func), t # <<>>
  PROVE  /\ t \o p \in Seq(Func) /\ t \o p # <<>>
         /\ Head(t \o p) = Head(t) /\ Tail(t) \o p = Tail(t \o p)
  <1> DEFINE q == t \o p
             a == Tail(t) \o p
             b == Tail(q)
  <1>1. /\ q \in Seq(Func) /\ Len(q) = Len(t) + Len(p) /\ Len(t) \in Nat /\ Len(p) \in Nat
        /\ Len(t) >= 1
        /\ \A i \in 1 .. Len(q) : q[i] = IF i <= Len(t) THEN t[i] ELSE p[i - Len(t)]
    OBVIOUS
  <1>2. /\ Tail(t) \in Seq(Func) /\ Len(Tail(t)) = Len(t) - 1
        /\ \A i \in 1 .. Len(t) - 1 : Tail(t)[i] = t[i + 1]
    OBVIOUS
  <1>3. /\ a \in Seq(Func) /\ Len(a) = Len(t) - 1 + Len(p)
        /\ \A i \in 1 .. Len(a) : a[i] = IF i <= Len(t) - 1 THEN t[i + 1] ELSE p[i - (Len(t) - 1)]
    BY <1>1, <1>2
  <1> HIDE DEF a, q
  <1>4. q # <<>> /\ Head(q) = Head(t)
    <2>1. q # <<>> /\ Head(q) = q[1] /\ t[1] = Head(t)
      BY <1>1
    <2>2. q[1] = t[1]
      BY <1>1
    <2> QED
      BY <2>1, <2>2
  <1>5. /\ b \in Seq(Func) /\ Len(b) = Len(q) - 1
        /\ \A i \in 1 .. Len(q) - 1 : b[i] = q[i + 1]
    BY <1>1, <1>4
  <1> HIDE DEF b
  <1>7. ASSUME NEW i \in 1 .. Len(a) PROVE a[i] = b[i]
    <2>1. i + 1 \in 1 .. Len(q) /\ i \in 1 .. Len(q) - 1
      BY <1>1, <1>3
    <2>2. b[i] = IF i + 1 <= Len(t) THEN t[i + 1] ELSE p[(i + 1) - Len(t)]
      BY <1>1, <1>5, <2>1
    <2>3. (i + 1) - Len(t) = i - (Len(t) - 1) /\ (i + 1 <= Len(t) <=> i <= Len(t) - 1)
      BY <1>1, <2>1
    <2> QED
      BY <1>3, <2>2, <2>3
  <1>6. a = b
    BY <1>1, <1>3, <1>5, <1>7, SeqEqual
  <1> QED
    BY <1>1, <1>4, <1>6 DEF a, b, q

(* queueInLoop *)
LEMMA QueueStep ==
  ASSUME PhaseInv, NEW l \in Loops, NEW f \in Func, loop' = QueueInLoop(loop, l, f),
         main # "starting", UNCHANGED <<main, thread>>
  PROVE  /\ DOMAIN loop' = Loops /\ LoopInv(l)' /\ Only(l)
         /\ Functors(l)' = Append(Functors(l), f)
  <1>1. DOMAIN loop = Loops /\ LoopInv(l)
    BY DEF PhaseInv
  <1>2. loop[l].pending \in Seq(Func) /\ loop[l].tasks \in Seq(Func)
    BY <1>1 DEF LoopInv
  <1>3. Append(loop[l].pending, f) \in Seq(Func)
    BY <1>2
  <1>4. loop[l].tasks \o Append(loop[l].pending, f) = Append(Functors(l), f)
    BY <1>2, AppendToConcat DEF Functors
  <1> QED
    BY <1>1, <1>2, <1>3, <1>4 DEF QueueInLoop, LoopInv, Only, Functors

(* the functor that a loop executes next *)
LEMMA FirstFunctor ==
  ASSUME PhaseInv, NEW l \in Loops, NEW op, Task(l, op)
  PROVE  /\ Functors(l) \in Seq(Func) /\ Functors(l) # <<>>
         /\ Head(Functors(l)) = Head(loop[l].tasks)
         /\ In(Functors(l), Head(loop[l].tasks))
         /\ Head(loop[l].tasks).op = op
         /\ main # "starting"
  <1>1. LoopInv(l)
    BY DEF PhaseInv
  <1>2. /\ loop[l].pending \in Seq(Func) /\ loop[l].tasks \in Seq(Func)
        /\ loop[l].tasks # <<>> /\ main # "starting" /\ Head(loop[l].tasks).op = op
    BY <1>1 DEF LoopInv, Task
  <1>3. /\ Functors(l) \in Seq(Func) /\ Functors(l) # <<>>
        /\ Head(Functors(l)) = Head(loop[l].tasks)
    BY <1>2, TailOfConcat DEF Functors
  <1>4. Head(Functors(l)) = Functors(l)[1] /\ 1 \in 1 .. Len(Functors(l))
    BY <1>3
  <1> QED
    BY <1>2, <1>3, <1>4 DEF In

(* a functor is executed *)
LEMMA TaskStep ==
  ASSUME PhaseInv, NEW l \in Loops, NEW op, Task(l, op), loop' = TaskDone(l),
         UNCHANGED <<main, thread>>
  PROVE  /\ DOMAIN loop' = Loops /\ LoopInv(l)' /\ Only(l)
         /\ Functors(l) \in Seq(Func) /\ Functors(l) # <<>>
         /\ Head(Functors(l)) = Head(loop[l].tasks)
         /\ Functors(l)' = Tail(Functors(l))
         /\ main # "starting"
  <1>1. DOMAIN loop = Loops /\ LoopInv(l)
    BY DEF PhaseInv
  <1>2. /\ loop[l].pending \in Seq(Func) /\ loop[l].tasks \in Seq(Func)
        /\ loop[l].tasks # <<>> /\ loop[l].pc = "run" /\ main # "starting"
    BY <1>1 DEF LoopInv, Task
  <1>3. Tail(loop[l].tasks) \in Seq(Func)
    BY <1>2
  <1>4. /\ Functors(l) \in Seq(Func) /\ Functors(l) # <<>>
        /\ Head(Functors(l)) = Head(loop[l].tasks)
        /\ Tail(loop[l].tasks) \o loop[l].pending = Tail(Functors(l))
    BY <1>2, TailOfConcat DEF Functors
  <1>5. DOMAIN loop' = Loops /\ LoopInv(l)' /\ Only(l)
    BY <1>1, <1>2, <1>3 DEF TaskDone, LoopInv, Only
  <1>6. Functors(l)' = Tail(loop[l].tasks) \o loop[l].pending
    BY <1>1 DEF TaskDone, LoopInv, Functors
  <1> QED
    BY <1>2, <1>4, <1>5, <1>6

(* a functor is executed and queues another one for another loop *)
LEMMA TaskQueueStep ==
  ASSUME PhaseInv, NEW l \in Loops, NEW op, Task(l, op), NEW m \in Loops, l # m,
         NEW f \in Func, loop' = QueueInLoop(TaskDone(l), m, f), UNCHANGED <<main, thread>>
  PROVE  /\ DOMAIN loop' = Loops /\ LoopInv(l)' /\ LoopInv(m)'
         /\ \A k \in Loops : k # l /\ k # m => loop'[k] = loop[k]
         /\ Functors(l) \in Seq(Func) /\ Functors(l) # <<>>
         /\ Head(Functors(l)) = Head(loop[l].tasks)
         /\ Functors(l)' = Tail(Functors(l))
         /\ Functors(m)' = Append(Functors(m), f)
         /\ main # "starting"
  <1>1. DOMAIN loop = Loops /\ LoopInv(l) /\ LoopInv(m)
    BY DEF PhaseInv
  <1>2. /\ loop[l].pending \in Seq(Func) /\ loop[l].tasks \in Seq(Func)
        /\ loop[m].pending \in Seq(Func) /\ loop[m].tasks \in Seq(Func)
        /\ loop[l].tasks # <<>> /\ loop[l].pc = "run" /\ main # "starting"
    BY <1>1 DEF LoopInv, Task
  <1>3. Tail(loop[l].tasks) \in Seq(Func) /\ Append(loop[m].pending, f) \in Seq(Func)
    BY <1>2
  <1>4. /\ Functors(l) \in Seq(Func) /\ Functors(l) # <<>>
        /\ Head(Functors(l)) = Head(loop[l].tasks)
        /\ Tail(loop[l].tasks) \o loop[l].pending = Tail(Functors(l))
    BY <1>2, TailOfConcat DEF Functors
  <1>5. loop[m].tasks \o Append(loop[m].pending, f) = Append(Functors(m), f)
    BY <1>2, AppendToConcat DEF Functors
  <1>6. DOMAIN loop' = Loops /\ \A k \in Loops : k # l /\ k # m => loop'[k] = loop[k]
    BY <1>1 DEF TaskDone, QueueInLoop
  <1>7. LoopInv(l)' /\ loop'[l].tasks = Tail(loop[l].tasks) /\ loop'[l].pending = loop[l].pending
    BY <1>1, <1>2, <1>3 DEF TaskDone, QueueInLoop, LoopInv
  <1>8. LoopInv(m)' /\ loop'[m].tasks = loop[m].tasks
        /\ loop'[m].pending = Append(loop[m].pending, f)
    BY <1>1, <1>2, <1>3 DEF TaskDone, QueueInLoop, LoopInv
  <1> QED
    BY <1>2, <1>4, <1>5, <1>6, <1>7, <1>8 DEF Functors

(* the state of a connection is set *)
LEMMA StateSet ==
  ASSUME conn \in Seq(ConnRec), NEW c, NEW st \in {"open", "closed"},
         conn' = [conn EXCEPT ![c].state = st]
  PROVE  /\ conn' \in Seq(ConnRec) /\ Conns' = Conns
         /\ \A d \in Conns : /\ conn'[d].loop = conn[d].loop
                             /\ conn'[d].state = IF d = c THEN st ELSE conn[d].state
  <1>1. Conns = 1 .. Len(conn) /\ Len(conn) \in Nat /\ \A d \in Conns : conn[d] \in ConnRec
    BY DEF Conns
  <1>2. \A x \in ConnRec : /\ [x EXCEPT !.state = st] \in ConnRec
                           /\ [x EXCEPT !.state = st].loop = x.loop
                           /\ [x EXCEPT !.state = st].state = st
    BY DEF ConnRec
  <1>3. DOMAIN conn' = 1 .. Len(conn) /\ conn' = [d \in 1 .. Len(conn) |-> conn'[d]]
    BY <1>1 DEF Conns
  <1>4. \A d \in Conns : conn'[d] = IF d = c THEN [conn[d] EXCEPT !.state = st] ELSE conn[d]
    BY <1>1 DEF Conns
  <1>5. \A d \in 1 .. Len(conn) : conn'[d] \in ConnRec
    BY <1>1, <1>2, <1>4
  <1>6. conn' \in [1 .. Len(conn) -> ConnRec]
    BY <1>3, <1>5
  <1>7. conn' \in Seq(ConnRec)
    BY <1>1, <1>6
  <1> QED
    BY <1>1, <1>2, <1>3, <1>4, <1>7 DEF Conns

(* handleClose of an open connection, on its own or inside Destroyed() *)
LEMMA CloseKeepsConns ==
  ASSUME PhaseInv, NEW c \in Conns, NEW loops, CloseConnection(loops, c), main # "starting"
  PROVE  /\ conn' \in Seq(ConnRec) /\ Conns' = Conns /\ map' \subseteq map /\ ~stray'
         /\ Functor("remove", c) \in Func
         /\ IF conn[c].loop = Base THEN loop' = loops
            ELSE loop' = QueueInLoop(loops, Base, Functor("remove", c))
  <1>1. conn \in Seq(ConnRec) /\ ~stray /\ LoopInv(Base)
    BY LoopFacts DEF PhaseInv
  <1>2. conn' \in Seq(ConnRec) /\ Conns' = Conns
    BY <1>1, StateSet DEF CloseConnection
  <1>3. loop[Base].published
    BY <1>1 DEF LoopInv
  <1>4. c \in Nat
    BY <1>1 DEF Conns
  <1>5. Functor("remove", c) \in Func
    BY <1>4 DEF Functor, Func
  <1> QED
    BY <1>1, <1>2, <1>3, <1>5 DEF CloseConnection, RemoveConnection, Queued

LEMMA PhaseKept ==
  ASSUME PhaseInv, QueueInv, [Next]_vars
  PROVE  PhaseInv'
  <1>0. /\ DOMAIN loop = Loops /\ conn \in Seq(ConnRec) /\ map \subseteq Conns
        /\ main = "starting" => conn = <<>>
        /\ NumThreads # 0 => next \in Threads
        /\ thread \in Nat /\ ~stray
    BY DEF PhaseInv
  <1>1. \A l \in Loops : LoopInv(l)
    BY DEF PhaseInv
  <1>2. ASSUME NEW l \in Loops, LoopInv(l)', Only(l), UNCHANGED <<main, thread>>
        PROVE  \A k \in Loops : LoopInv(k)'
    BY <1>1, <1>2 DEF LoopInv, Only
  <1>3. CASE StartThread
    <2>1. thread \in Loops /\ thread # Base
      BY <1>3, LoopFacts DEF StartThread
    <2>2. LoopInv(thread)
      BY <1>1, <2>1
    <2>3. /\ ThreadStarts(thread) /\ main = "starting"
          /\ UNCHANGED <<main, thread, next, conn, map, stray>>
      BY <1>3 DEF StartThread, svars
    <2>4. DOMAIN loop' = Loops /\ Only(thread)
      BY <1>0, <2>1, <2>3 DEF ThreadStarts, Only
    <2>5. PICK l \in Loops : l = thread
      BY <2>1
    <2>6. LoopInv(l)' /\ Only(l)
      BY <1>0, <2>1, <2>2, <2>3, <2>4, <2>5 DEF ThreadStarts, LoopInv
    <2> QED
      BY <1>0, <1>2, <2>3, <2>4, <2>6 DEF PhaseInv, Conns
  <1>4. CASE StartLoopReturns
    <2>1. /\ main = "starting" /\ thread \in Threads /\ loop[thread].published
          /\ thread' = thread + 1 /\ UNCHANGED <<loop, main, next, conn, map, stray>>
      BY <1>4 DEF StartLoopReturns, LoopReady, svars
    <2>2. \A k \in Loops : k # Base => k \in Nat
      BY LoopFacts
    <2>3. \A k \in Loops : k # Base /\ k < thread + 1 => k < thread \/ k = thread
      BY <1>0, <2>2
    <2>4. \A k \in Loops : LoopInv(k)'
      BY <1>1, <2>1, <2>3 DEF LoopInv
    <2> QED
      BY <1>0, <2>1, <2>4 DEF PhaseInv, Conns
  <1>5. CASE Listen
    <2>1. /\ main = "starting" /\ thread = NumThreads + 1 /\ main' = "looping"
          /\ loop' = [loop EXCEPT ![Base].pc = "created", ![Base].published = TRUE]
          /\ UNCHANGED <<thread, next, conn, map, stray>>
      BY <1>5 DEF Listen
    <2>2. \A k \in Loops : k # Base => k < thread
      BY <2>1, LoopFacts, ServerBounds DEF Threads
    <2>3. DOMAIN loop' = Loops /\ Only(Base)
      BY <1>0, <2>1 DEF Only
    <2>4. \A k \in Loops : k # Base => LoopInv(k)'
      BY <1>1, <2>1, <2>2, <2>3 DEF LoopInv, Only
    <2>5. LoopInv(Base)
      BY <1>1, LoopFacts
    <2>6. LoopInv(Base)'
      BY <1>0, <2>1, <2>5, LoopFacts DEF LoopInv, Base
    <2>7. \A k \in Loops : LoopInv(k)'
      BY <2>4, <2>6 DEF Base
    <2> QED
      BY <1>0, <2>1, <2>3, <2>7 DEF PhaseInv, Conns
  <1>6. CASE OnAccept
    <2>1. NextLoop \in Loops /\ (NumThreads # 0 => RoundRobin(next) \in Threads)
      BY NextLoopExists
    <2>2. LoopInv(Base) /\ LoopInv(NextLoop)
      BY <1>1, <2>1, LoopFacts
    <2>3. main = "looping"
      BY <1>6, <2>2 DEF OnAccept, LoopInv
    <2> DEFINE c == Len(conn) + 1
    <2>4. /\ conn' = Append(conn, [loop |-> NextLoop, state |-> "accepted"])
          /\ next' = (IF NumThreads = 0 THEN next ELSE RoundRobin(next))
          /\ map' = map \cup {c}
          /\ Queued(loop, NextLoop, Functor("established", c))
          /\ UNCHANGED <<main, thread>>
      BY <1>6 DEF OnAccept, NewConnection, WithConn
    <2>5. [loop |-> NextLoop, state |-> "accepted"] \in ConnRec /\ c \in Nat
      BY <1>0, <2>1 DEF ConnRec
    <2>6. Functor("established", c) \in Func
      BY <2>5 DEF Functor, Func
    <2>7. conn' \in Seq(ConnRec) /\ Conns' = Conns \cup {c}
      BY <1>0, <2>4, <2>5 DEF Conns
    <2>8. PICK l \in Loops : l = NextLoop
      BY <2>1
    <2>9. loop' = QueueInLoop(loop, l, Functor("established", c)) /\ ~stray'
      BY <1>0, <2>2, <2>3, <2>4, <2>8 DEF Queued, LoopInv
    <2>10. DOMAIN loop' = Loops /\ LoopInv(l)' /\ Only(l)
      BY <2>3, <2>4, <2>6, <2>9, QueueStep
    <2>11. \A k \in Loops : LoopInv(k)'
      BY <1>2, <2>4, <2>10
    <2> QED
      BY <1>0, <2>1, <2>3, <2>4, <2>7, <2>9, <2>10, <2>11 DEF PhaseInv, Threads
  <1>7. CASE OnAcceptError
    BY <1>0, <1>1, <1>7 DEF OnAcceptError, PhaseInv, LoopInv, Conns
  <1>8. ASSUME NEW c \in Conns, ConnectionCloses(c)
        PROVE  PhaseInv'
    <2>1. /\ CloseConnection(loop, c) /\ UNCHANGED <<main, thread, next>>
      BY <1>8 DEF ConnectionCloses
    <2>2. main # "starting"
      BY <1>0, <1>8 DEF Conns
    <2>3. /\ conn' \in Seq(ConnRec) /\ Conns' = Conns /\ map' \subseteq map /\ ~stray'
          /\ Functor("remove", c) \in Func
          /\ IF conn[c].loop = Base THEN loop' = loop
             ELSE loop' = QueueInLoop(loop, Base, Functor("remove", c))
      BY <2>1, <2>2, CloseKeepsConns
    <2>4. DOMAIN loop' = Loops /\ LoopInv(Base)' /\ Only(Base)
      <3>1. CASE loop' = loop
        BY <1>0, <1>1, <2>1, <3>1, LoopFacts DEF LoopInv, Only
      <3>2. CASE loop' = QueueInLoop(loop, Base, Functor("remove", c))
        BY <2>1, <2>2, <2>3, <3>2, LoopFacts, QueueStep
      <3> QED
        BY <2>3, <3>1, <3>2
    <2>5. \A k \in Loops : LoopInv(k)'
      BY <1>2, <2>1, <2>4, LoopFacts
    <2> QED
      BY <1>0, <2>1, <2>2, <2>3, <2>4, <2>5 DEF PhaseInv

  <1>9. ASSUME NEW l \in Loops, RunEstablished(l) \/ RunRemove(l)
        PROVE  PhaseInv'
    <2>1. PICK op : Task(l, op)
      BY <1>9 DEF RunEstablished, RunRemove
    <2>2. loop' = TaskDone(l) /\ UNCHANGED <<main, thread, next, stray>>
      BY <1>9 DEF RunEstablished, RunRemove
    <2>3. DOMAIN loop' = Loops /\ LoopInv(l)' /\ Only(l) /\ main # "starting"
      BY <2>1, <2>2, TaskStep
    <2>4. \A k \in Loops : LoopInv(k)'
      BY <1>2, <2>2, <2>3
    <2>5. conn' \in Seq(ConnRec) /\ Conns' = Conns
      <3>1. CASE RunEstablished(l)
        BY <1>0, <3>1, StateSet DEF RunEstablished
      <3>2. CASE RunRemove(l)
        BY <1>0, <3>2 DEF RunRemove, Conns
      <3> QED
        BY SMTT(20), <1>9, <3>1, <3>2
    <2>6. map' \subseteq map
      BY <1>9 DEF RunEstablished, RunRemove, WithoutConn
    <2> QED
      BY SMTT(20), <1>0, <2>2, <2>3, <2>4, <2>5, <2>6 DEF PhaseInv
  <1>10. ASSUME NEW l \in Loops, RunDestroyed(l)
         PROVE  PhaseInv'
    <2>1. Task(l, "destroyed") /\ UNCHANGED <<main, thread, next>>
      BY <1>10 DEF RunDestroyed
    <2>2. PICK c : c = Head(loop[l].tasks).conn
      OBVIOUS
    <2>3. CASE conn[c].state # "open"
      <3>1. loop' = TaskDone(l) /\ UNCHANGED <<conn, map, stray>>
        BY <1>10, <2>2, <2>3 DEF RunDestroyed
      <3>2. DOMAIN loop' = Loops /\ LoopInv(l)' /\ Only(l)
        BY <2>1, <3>1, TaskStep
      <3>3. \A k \in Loops : LoopInv(k)'
        BY <1>2, <2>1, <3>2
      <3> QED
        BY <1>0, <2>1, <3>1, <3>2, <3>3 DEF PhaseInv, Conns
    <2>4. CASE conn[c].state = "open"
      <3>1. CloseConnection(TaskDone(l), c)
        BY <1>10, <2>2, <2>4 DEF RunDestroyed
      <3>2. c \in Conns /\ conn[c].loop = l /\ main # "starting"
        <4>1. /\ In(Functors(l), Head(loop[l].tasks)) /\ main # "starting"
              /\ Head(loop[l].tasks).op = "destroyed"
          BY <2>1, FirstFunctor
        <4> QED
          BY <2>2, <4>1 DEF QueueInv, FunctorInv
      <3>3. /\ conn' \in Seq(ConnRec) /\ Conns' = Conns /\ map' \subseteq map /\ ~stray'
            /\ Functor("remove", c) \in Func
            /\ IF l = Base THEN loop' = TaskDone(l)
               ELSE loop' = QueueInLoop(TaskDone(l), Base, Functor("remove", c))
        BY <3>1, <3>2, CloseKeepsConns
      <3>4. DOMAIN loop' = Loops /\ \A k \in Loops : LoopInv(k)'
        <4>1. CASE l = Base
          <5>1. DOMAIN loop' = Loops /\ LoopInv(l)' /\ Only(l)
            BY <2>1, <3>3, <4>1, TaskStep
          <5> QED
            BY <1>2, <2>1, <5>1
        <4>2. CASE l # Base
          <5>1. /\ DOMAIN loop' = Loops /\ LoopInv(l)' /\ LoopInv(Base)'
                /\ \A k \in Loops : k # l /\ k # Base => loop'[k] = loop[k]
            BY <2>1, <3>3, <4>2, LoopFacts, TaskQueueStep
          <5>2. ASSUME NEW k \in Loops, k # l, k # Base PROVE LoopInv(k)'
            BY <1>1, <2>1, <5>1, <5>2 DEF LoopInv
          <5> QED
            BY <5>1, <5>2 DEF Base
        <4> QED
          BY <4>1, <4>2
      <3> QED
        BY <1>0, <2>1, <3>2, <3>3, <3>4 DEF PhaseInv
    <2> QED
      BY <2>3, <2>4
  <1>11. ASSUME NEW l \in Loops, LoopTurn(l) \/ (l # Base /\ (Publish(l) \/ ThreadEnds(l))),
                UNCHANGED <<main, thread, svars, stray>>
         PROVE  PhaseInv'
    <2>1. DOMAIN loop' = Loops /\ LoopInv(l)' /\ Only(l)
      BY <1>11, TurnStep
    <2>2. \A k \in Loops : LoopInv(k)'
      BY <1>2, <1>11, <2>1
    <2> QED
      BY <1>0, <1>11, <2>1, <2>2 DEF PhaseInv, svars, Conns
  <1>12. CASE QuitBase
    <2>1. QuitLoop(Base) /\ UNCHANGED <<main, thread, next, conn, map, stray>> /\ LoopInv(Base)
      BY <1>1, <1>12, LoopFacts DEF QuitBase, svars
    <2>2. DOMAIN loop' = Loops /\ LoopInv(Base)' /\ Only(Base)
      BY <1>0, <2>1, LoopFacts DEF QuitLoop, LoopInv, Only, Base
    <2>3. \A k \in Loops : LoopInv(k)'
      BY <1>2, <2>1, <2>2, LoopFacts
    <2> QED
      BY <1>0, <2>1, <2>2, <2>3 DEF PhaseInv, Conns
  <1>13. CASE ClearConnection
    <2>1. PICK c \in map : map' = map \ {c} /\ Queued(loop, conn[c].loop, Functor("destroyed", c))
      BY <1>13 DEF ClearConnection
    <2>2. main = "clearing" /\ UNCHANGED <<main, thread, next, conn>>
      BY <1>13 DEF ClearConnection
    <2>3. PICK l \in Loops : l = conn[c].loop
      BY <1>0, ConnFacts
    <2>4. Functor("destroyed", c) \in Func
      <3>1. c \in Nat
        BY <1>0 DEF Conns
      <3> QED
        BY <3>1 DEF Functor, Func
    <2>5. loop' = QueueInLoop(loop, l, Functor("destroyed", c)) /\ ~stray'
      BY <1>0, <1>1, <2>1, <2>2, <2>3 DEF Queued, LoopInv
    <2>6. DOMAIN loop' = Loops /\ LoopInv(l)' /\ Only(l)
      BY <2>2, <2>4, <2>5, QueueStep
    <2>7. \A k \in Loops : LoopInv(k)'
      BY <1>2, <2>2, <2>6
    <2> QED
      BY <1>0, <2>1, <2>2, <2>5, <2>6, <2>7 DEF PhaseInv, Conns
  <1>14. CASE BeginDestroy
    <2>1. main = "looping" /\ main' = "clearing" /\ loop[Base].pc = "left"
          /\ UNCHANGED <<loop, thread, next, conn, map, stray>>
      BY <1>14 DEF BeginDestroy, svars
    <2>2. \A k \in Loops : LoopInv(k)'
      BY <1>1, <2>1 DEF LoopInv
    <2> QED
      BY <1>0, <2>1, <2>2 DEF PhaseInv, Conns
  <1>15. CASE BeginJoin \/ Join \/ Destroyed
    <2>1. /\ main \in {"clearing", "joining", "exiting"} /\ main' \in {"exiting", "gone"}
          /\ thread' \in Nat /\ UNCHANGED <<loop, next, conn, map, stray>>
      BY <1>0, <1>15 DEF BeginJoin, Join, Destroyed, svars
    <2>2. \A k \in Loops : LoopInv(k)'
      BY <1>1, <2>1 DEF LoopInv
    <2> QED
      BY <1>0, <2>1, <2>2 DEF PhaseInv, Conns
  <1>16. CASE ExitNextThread
    <2>1. /\ main = "exiting" /\ main' = "joining" /\ thread \in Threads
          /\ ExitThread(thread) /\ UNCHANGED <<thread, next, conn, map, stray>>
      BY <1>16 DEF ExitNextThread, svars
    <2>2. PICK l \in Loops : l = thread /\ l # Base
      BY <2>1, LoopFacts
    <2>3. DOMAIN loop' = Loops /\ Only(l)
      BY <1>0, <2>1, <2>2 DEF ExitThread, Only
    <2>4. LoopInv(l)'
      BY <1>0, <1>1, <2>1, <2>2 DEF ExitThread, LoopInv
    <2>5. \A k \in Loops : k # l => LoopInv(k)'
      BY <1>1, <2>1, <2>3 DEF LoopInv, Only
    <2> QED
      BY <1>0, <2>1, <2>3, <2>4, <2>5 DEF PhaseInv, Conns
  <1>17. CASE UNCHANGED vars
    BY <1>0, <1>1, <1>17 DEF vars, svars, PhaseInv, LoopInv, Conns
  <1> QED
    BY <1>3, <1>4, <1>5, <1>6, <1>7, <1>8, <1>9, <1>10, <1>11, <1>12, <1>13, <1>14, <1>15, <1>16,
       <1>17 DEF Next, MainStep, ThreadStep, RunFunctor

-----------------------------------------------------------------------------
LEMMA QueueAppend ==
  ASSUME NEW q \in Seq(Func), NEW f \in Func
  PROVE  /\ \A y : In(Append(q, f), y) <=> In(q, y) \/ y = f
         /\ Once(q) /\ (f.op # "established" \/ ~In(q, f)) => Once(Append(q, f))
         /\ \A waiting : /\ StartedFirst(q, waiting)
                         /\ f.op = "destroyed" /\ f.conn \in waiting =>
                              In(q, Functor("established", f.conn))
                         => StartedFirst(Append(q, f), waiting)
  <1> DEFINE r == Append(q, f)
  <1>1. /\ Len(r) = Len(q) + 1 /\ Len(q) \in Nat
        /\ \A i \in 1 .. Len(q) : r[i] = q[i]
        /\ r[Len(q) + 1] = f
    OBVIOUS
  <1> HIDE DEF r
  <1>2. ASSUME NEW y PROVE In(r, y) <=> In(q, y) \/ y = f
    BY <1>1 DEF In
  <1>3. ASSUME Once(q), f.op # "established" \/ ~In(q, f) PROVE Once(r)
    BY <1>1, <1>3 DEF Once, In
  <1>4. ASSUME NEW waiting, StartedFirst(q, waiting),
               f.op = "destroyed" /\ f.conn \in waiting => In(q, Functor("established", f.conn))
        PROVE  StartedFirst(r, waiting)
    <2> SUFFICES ASSUME NEW i \in 1 .. Len(r), r[i].op = "destroyed", r[i].conn \in waiting
                 PROVE  \E j \in 1 .. i - 1 : r[j] = Functor("established", r[i].conn)
      BY DEF StartedFirst
    <2>1. CASE i \in 1 .. Len(q)
      <3>1. PICK j \in 1 .. i - 1 : q[j] = Functor("established", q[i].conn)
        BY <1>1, <1>4, <2>1 DEF StartedFirst
      <3>2. j \in 1 .. Len(q)
        BY <1>1, <2>1
      <3> QED
        BY <1>1, <2>1, <3>1, <3>2
    <2>2. CASE i = Len(q) + 1
      <3>1. PICK j \in 1 .. Len(q) : q[j] = Functor("established", f.conn)
        BY <1>1, <1>4, <2>2 DEF In
      <3>2. j \in 1 .. i - 1
        BY <1>1, <2>2
      <3> QED
        BY <1>1, <2>2, <3>1, <3>2
    <2> QED
      BY <1>1, <2>1, <2>2
  <1> QED
    BY <1>2, <1>3, <1>4 DEF r

LEMMA QueueTail ==
  ASSUME NEW q \in Seq(Func), q # <<>>
  PROVE  /\ \A y : In(Tail(q), y) => In(q, y)
         /\ \A y : In(q, y) => y = Head(q) \/ In(Tail(q), y)
         /\ Once(q) => /\ Once(Tail(q))
                       /\ Head(q).op = "established" => ~In(Tail(q), Head(q))
         /\ \A waiting : /\ StartedFirst(q, waiting)
                         /\ Head(q) = Functor("established", Head(q).conn) =>
                              Head(q).conn \notin waiting
                         => StartedFirst(Tail(q), waiting)
  <1> DEFINE r == Tail(q)
             h == Head(q)
  <1>1. /\ h = q[1] /\ Len(q) \in Nat /\ Len(q) >= 1 /\ Len(r) = Len(q) - 1
        /\ \A i \in 1 .. Len(r) : r[i] = q[i + 1] /\ i + 1 \in 1 .. Len(q)
    OBVIOUS
  <1> HIDE DEF r, h
  <1>2. ASSUME NEW i \in 1 .. Len(q), i # 1 PROVE i - 1 \in 1 .. Len(r) /\ r[i - 1] = q[i]
    <2>1. i - 1 \in 1 .. Len(r) /\ (i - 1) + 1 = i
      BY <1>1, <1>2
    <2> QED
      BY <1>1, <2>1
  <1>3. ASSUME NEW y, In(r, y) PROVE In(q, y)
    BY <1>1, <1>3 DEF In
  <1>4. ASSUME NEW y, In(q, y) PROVE y = h \/ In(r, y)
    <2>1. PICK i \in 1 .. Len(q) : q[i] = y
      BY <1>4 DEF In
    <2> QED
      BY <1>1, <1>2, <2>1 DEF In
  <1>5. ASSUME Once(q) PROVE Once(r) /\ (h.op = "established" => ~In(r, h))
    <2>1. Once(r)
      BY <1>1, <1>5 DEF Once
    <2>2. ASSUME h.op = "established", In(r, h) PROVE FALSE
      <3>1. PICK i \in 1 .. Len(r) : r[i] = h
        BY <2>2 DEF In
      <3>2. q[i + 1] = q[1] /\ i + 1 \in 1 .. Len(q) /\ 1 \in 1 .. Len(q) /\ i + 1 # 1
        BY <1>1, <3>1
      <3> QED
        BY <1>1, <1>5, <2>2, <3>2 DEF Once
    <2> QED
      BY <2>1, <2>2
  <1>6. ASSUME NEW waiting, StartedFirst(q, waiting),
               h = Functor("established", h.conn) => h.conn \notin waiting
        PROVE  StartedFirst(r, waiting)
    <2> SUFFICES ASSUME NEW i \in 1 .. Len(r), r[i].op = "destroyed", r[i].conn \in waiting
                 PROVE  \E j \in 1 .. i - 1 : r[j] = Functor("established", r[i].conn)
      BY DEF StartedFirst
    <2>1. r[i] = q[i + 1] /\ i + 1 \in 1 .. Len(q) /\ i + 1 - 1 = i
      BY <1>1
    <2>2. PICK j \in 1 .. i : q[j] = Functor("established", r[i].conn)
      BY <1>6, <2>1 DEF StartedFirst
    <2>3. j # 1
      BY <1>1, <1>6, <2>2 DEF Functor
    <2>4. j \in 1 .. Len(q) /\ j - 1 \in 1 .. i - 1
      BY <1>1, <2>1, <2>3
    <2> QED
      BY <1>2, <2>2, <2>3, <2>4
  <1> QED
    BY <1>3, <1>4, <1>5, <1>6 DEF r, h

(* fewer connections wait *)
LEMMA FewerWait ==
  ASSUME NEW q, NEW waiting, NEW fewer, StartedFirst(q, waiting),
         \A f : In(q, f) /\ f.conn \in fewer => f.conn \in waiting
  PROVE  StartedFirst(q, fewer)
  BY DEF StartedFirst, In

(* a connection is closed while its functors stay *)
LEMMA ClosedKeeps ==
  ASSUME PhaseInv, QueueInv, NEW c \in Conns, conn[c].state = "open", NEW loops,
         CloseConnection(loops, c), UNCHANGED main
  PROVE  /\ Accepted' = Accepted /\ Conns' = Conns /\ LiveIsMapped'
         /\ \A l \in Loops : \A f : FunctorInv(l, f) => FunctorInv(l, f)'
         /\ \A d \in Conns : conn'[d].loop = conn[d].loop
         /\ FunctorInv(Base, Functor("remove", c))'
  <1>1. /\ Conns' = Conns
        /\ \A d \in Conns : /\ conn'[d].loop = conn[d].loop
                            /\ conn'[d].state = IF d = c THEN "closed" ELSE conn[d].state
    BY StateSet DEF CloseConnection, PhaseInv
  <1>2. Accepted' = Accepted
    BY <1>1 DEF Accepted
  <1>3. map' = map \/ map' = map \ {c}
    BY DEF CloseConnection, RemoveConnection
  <1>4. LiveIsMapped'
    BY <1>1, <1>3 DEF LiveIsMapped, QueueInv
  <1>5. ASSUME NEW l \in Loops, NEW f, FunctorInv(l, f) PROVE FunctorInv(l, f)'
    BY <1>1, <1>5 DEF FunctorInv
  <1>6. Functor("remove", c).op = "remove" /\ Functor("remove", c).conn = c
    BY DEF Functor
  <1>7. FunctorInv(Base, Functor("remove", c))'
    BY <1>1, <1>6 DEF FunctorInv
  <1> QED
    BY <1>1, <1>2, <1>4, <1>5, <1>7

LEMMA AcceptKeepsQueues ==
  ASSUME PhaseInv, QueueInv, OnAccept
  PROVE  QueueInv'
  <1>0. conn \in Seq(ConnRec) /\ \A l \in Loops : LoopInv(l)
    BY DEF PhaseInv
  <1>1. PICK l \in Loops : l = NextLoop
    BY NextLoopExists
  <1>2. PICK c : c = Len(conn) + 1
    OBVIOUS
  <1>3. main = "looping"
    BY <1>0, LoopFacts DEF OnAccept, LoopInv
  <1>4. /\ conn' = Append(conn, [loop |-> l, state |-> "accepted"])
        /\ map' = map \cup {c}
        /\ loop' = QueueInLoop(loop, l, Functor("established", c))
        /\ UNCHANGED <<main, thread>>
    BY <1>1, <1>2 DEF OnAccept, NewConnection, WithConn, Queued
  <1>5. Len(conn) \in Nat /\ Conns = 1 .. Len(conn)
    BY <1>0, ConnFacts
  <1>6. /\ c \in Nat /\ c \notin Conns /\ Conns' = Conns \cup {c}
        /\ \A d \in Conns : conn'[d] = conn[d]
        /\ conn'[c] = [loop |-> l, state |-> "accepted"]
    BY <1>0, <1>2, <1>4, <1>5 DEF Conns
  <1> DEFINE f == Functor("established", c)
  <1>7. f \in Func /\ f.op = "established" /\ f.conn = c
    BY <1>6 DEF Functor, Func
  <1>8. Accepted' = Accepted \cup {c}
    BY <1>6 DEF Accepted
  <1> HIDE DEF f
  <1>9. Only(l) /\ Functors(l)' = Append(Functors(l), f)
    BY <1>3, <1>4, <1>7, QueueStep DEF f
  <1>10. \A k \in Loops : k # l => Functors(k)' = Functors(k)
    BY <1>9 DEF Only, Functors
  <1>11. Functors(l) \in Seq(Func)
    BY <1>0, ConcatProperties DEF LoopInv, Functors
  <1>12. \A k \in Loops : \A g : In(Functors(k), g) => g.conn \in Conns
    BY DEF QueueInv, FunctorInv
  <1>13. ~In(Functors(l), f)
    BY <1>6, <1>7, <1>12
  <1>14. \A y : In(Functors(l)', y) <=> In(Functors(l), y) \/ y = f
    BY <1>7, <1>9, <1>11, QueueAppend
  <1>15. \A k \in Loops : StartedFirst(Functors(k), Accepted \cup {c})
    <2> TAKE k \in Loops
    <2>1. StartedFirst(Functors(k), Accepted)
      BY DEF QueueInv
    <2>2. \A g : In(Functors(k), g) /\ g.conn \in Accepted \cup {c} => g.conn \in Accepted
      BY <1>6, <1>12
    <2> QED
      BY <2>1, <2>2, FewerWait
  <1>16. ASSUME NEW k \in Loops, NEW g, In(Functors(k)', g) PROVE FunctorInv(k, g)'
    <2>1. CASE In(Functors(k), g)
      <3>1. FunctorInv(k, g)
        BY <2>1 DEF QueueInv
      <3> QED
        BY <1>4, <1>6, <3>1 DEF FunctorInv
    <2>2. CASE k = l /\ g = f
      BY <1>6, <1>7, <2>2 DEF FunctorInv
    <2> QED
      BY <1>10, <1>14, <1>16, <2>1, <2>2
  <1>17. ASSUME NEW k \in Loops PROVE Once(Functors(k)') /\ StartedFirst(Functors(k)', Accepted')
    <2>1. Once(Functors(k)) /\ StartedFirst(Functors(k), Accepted')
      BY <1>8, <1>15 DEF QueueInv
    <2>2. CASE k = l
      BY <1>7, <1>9, <1>11, <1>13, <2>1, <2>2, QueueAppend
    <2>3. CASE k # l
      BY <1>10, <2>1, <2>3
    <2> QED
      BY <2>2, <2>3
  <1>18. ASSUME NEW d \in Accepted', NEW k \in Loops, conn'[d].loop = k
         PROVE  In(Functors(k)', Functor("established", d))
    <2>1. CASE d = c
      BY <1>6, <1>14, <1>18, <2>1 DEF f
    <2>2. CASE d # c
      <3>1. d \in Accepted /\ conn[d].loop = k
        BY <1>6, <1>8, <1>18, <2>2 DEF Accepted
      <3>2. In(Functors(k), Functor("established", d))
        BY <1>3, <3>1 DEF QueueInv
      <3> QED
        BY <1>10, <1>14, <3>2
    <2> QED
      BY <2>1, <2>2
  <1>19. LiveIsMapped'
    BY <1>4, <1>6 DEF QueueInv, LiveIsMapped
  <1> QED
    BY <1>16, <1>17, <1>18, <1>19 DEF QueueInv

LEMMA EstablishedKeepsQueues ==
  ASSUME PhaseInv, QueueInv, NEW l \in Loops, RunEstablished(l)
  PROVE  QueueInv'
  <1> DEFINE h == Head(loop[l].tasks)
  <1>1. Task(l, "established") /\ loop' = TaskDone(l) /\ UNCHANGED <<main, thread, map>>
    BY DEF RunEstablished
  <1>2. PICK c : c = h.conn
    OBVIOUS
  <1>3. /\ Functors(l) \in Seq(Func) /\ Functors(l) # <<>>
        /\ Head(Functors(l)) = h /\ In(Functors(l), h) /\ h.op = "established"
    BY <1>1, FirstFunctor
  <1>4. Only(l) /\ Functors(l)' = Tail(Functors(l))
    BY <1>1, TaskStep
  <1> HIDE DEF h
  <1>5. \A k \in Loops : k # l => Functors(k)' = Functors(k)
    BY <1>4 DEF Only, Functors
  <1>6. c \in Conns /\ conn[c].state = "accepted" /\ conn[c].loop = l
    BY <1>2, <1>3 DEF QueueInv, FunctorInv
  <1>7. h = Functor("established", c)
    <2>1. h \in Func
      BY <1>3
    <2> QED
      BY <1>2, <1>3, <2>1 DEF Func, Functor
  <1>8. /\ Conns' = Conns
        /\ \A d \in Conns : /\ conn'[d].loop = conn[d].loop
                            /\ conn'[d].state = IF d = c THEN "open" ELSE conn[d].state
    <2>1. conn' = [conn EXCEPT ![c].state = "open"] /\ conn \in Seq(ConnRec)
      BY <1>2 DEF RunEstablished, h, PhaseInv
    <2> QED
      BY <2>1, StateSet
  <1>9. Accepted' = Accepted \ {c}
    BY <1>8 DEF Accepted
  <1>10. /\ \A y : In(Functors(l)', y) => In(Functors(l), y) /\ y # h
         /\ \A y : In(Functors(l), y) => y = h \/ In(Functors(l)', y)
    BY <1>3, <1>4, QueueTail DEF QueueInv
  <1>11. ASSUME NEW k \in Loops, NEW g, In(Functors(k)', g) PROVE FunctorInv(k, g)'
    <2>1. In(Functors(k), g) /\ FunctorInv(k, g) /\ (k = l => g # h)
      BY <1>5, <1>10, <1>11 DEF QueueInv
    <2>2. g.op = "established" => g.conn # c
      <3> SUFFICES ASSUME g.op = "established", g.conn = c PROVE FALSE
        OBVIOUS
      <3>1. k = l
        BY <1>6, <2>1 DEF FunctorInv
      <3>2. g \in Func
        <4>1. Functors(k) \in Seq(Func)
          BY <1>3, <3>1
        <4> QED
          BY <2>1, <4>1 DEF In
      <3>3. g = Functor("established", c)
        BY <3>2 DEF Func, Functor
      <3> QED
        BY <1>7, <2>1, <3>1, <3>3
    <2> QED
      BY <1>1, <1>6, <1>8, <2>1, <2>2 DEF FunctorInv
  <1>12. ASSUME NEW k \in Loops PROVE Once(Functors(k)') /\ StartedFirst(Functors(k)', Accepted')
    <2>1. Once(Functors(k)) /\ StartedFirst(Functors(k), Accepted)
      BY DEF QueueInv
    <2>2. StartedFirst(Functors(k), Accepted')
      BY <1>9, <2>1, FewerWait
    <2>3. CASE k = l
      <3>1. Head(Functors(k)).conn \notin Accepted'
        BY <1>2, <1>3, <1>9, <2>3
      <3> QED
        BY <1>3, <1>4, <2>1, <2>2, <2>3, <3>1, QueueTail
    <2>4. CASE k # l
      BY <1>5, <2>1, <2>2, <2>4
    <2> QED
      BY <2>3, <2>4
  <1>13. ASSUME main \in {"looping", "clearing"}, NEW d \in Accepted', NEW k \in Loops,
                conn'[d].loop = k
         PROVE  In(Functors(k)', Functor("established", d))
    <2>1. d \in Accepted /\ d # c /\ conn[d].loop = k
      BY <1>8, <1>9, <1>13 DEF Accepted
    <2>2. In(Functors(k), Functor("established", d))
      BY <1>13, <2>1 DEF QueueInv
    <2>3. Functor("established", d) # h
      BY <1>7, <2>1 DEF Functor
    <2> QED
      BY <1>5, <1>10, <2>2, <2>3
  <1>14. LiveIsMapped'
    BY <1>1, <1>6, <1>8 DEF QueueInv, LiveIsMapped
  <1> QED
    BY <1>1, <1>11, <1>12, <1>13, <1>14 DEF QueueInv

(* Every queue keeps its invariant when l's first functor, which starts no   *)
(* connection, is executed and a remove may be queued for the base loop.     *)
LEMMA OthersKeepQueues ==
  ASSUME QueueInv, UNCHANGED main, Accepted' = Accepted, Conns' = Conns, LiveIsMapped',
         \A k \in Loops : \A f : FunctorInv(k, f) => FunctorInv(k, f)',
         \A d \in Conns : conn'[d].loop = conn[d].loop,
         \A k \in Loops : \A y : In(Functors(k)', y) => In(Functors(k), y) \/ FunctorInv(k, y)',
         \A k \in Loops : \A d : In(Functors(k), Functor("established", d)) =>
                                   In(Functors(k)', Functor("established", d)),
         \A k \in Loops : Once(Functors(k)') /\ StartedFirst(Functors(k)', Accepted)
  PROVE  QueueInv'
  <1>1. ASSUME NEW k \in Loops, NEW f, In(Functors(k)', f) PROVE FunctorInv(k, f)'
    BY <1>1 DEF QueueInv
  <1>2. ASSUME main \in {"looping", "clearing"}, NEW d \in Accepted', NEW k \in Loops,
               conn'[d].loop = k
        PROVE  In(Functors(k)', Functor("established", d))
    <2>1. d \in Accepted /\ conn[d].loop = k
      BY <1>2 DEF Accepted
    <2> QED
      BY <1>2, <2>1 DEF QueueInv
  <1>3. \A k \in Loops : Once(Functors(k)') /\ StartedFirst(Functors(k)', Accepted')
    OBVIOUS
  <1> QED
    BY <1>1, <1>2, <1>3 DEF QueueInv

(* what the two ways to change a queue keep *)
LEMMA QueueChanges ==
  ASSUME PhaseInv, QueueInv, NEW k \in Loops
  PROVE  /\ Functors(k) \in Seq(Func) /\ Once(Functors(k)) /\ StartedFirst(Functors(k), Accepted)
         /\ \A c \in Nat :
              LET q == Append(Functors(k), Functor("remove", c)) IN
              /\ \A y : In(q, y) <=> In(Functors(k), y) \/ y = Functor("remove", c)
              /\ Once(q) /\ StartedFirst(q, Accepted)
         /\ Functors(k) # <<>> /\ Head(Functors(k)).op # "established" =>
              LET q == Tail(Functors(k)) IN
              /\ \A y : In(q, y) => In(Functors(k), y)
              /\ \A d : In(Functors(k), Functor("established", d)) =>
                          In(q, Functor("established", d))
              /\ Once(q) /\ StartedFirst(q, Accepted)
  <1>1. Once(Functors(k)) /\ StartedFirst(Functors(k), Accepted)
    BY DEF QueueInv
  <1>2. Functors(k) \in Seq(Func)
    <2>1. LoopInv(k)
      BY DEF PhaseInv
    <2> QED
      BY <2>1, ConcatProperties DEF LoopInv, Functors
  <1>3. ASSUME NEW c \in Nat
        PROVE  LET q == Append(Functors(k), Functor("remove", c)) IN
               /\ \A y : In(q, y) <=> In(Functors(k), y) \/ y = Functor("remove", c)
               /\ Once(q) /\ StartedFirst(q, Accepted)
    <2>1. Functor("remove", c) \in Func /\ Functor("remove", c).op = "remove"
      BY DEF Functor, Func
    <2> QED
      BY <1>1, <1>2, <2>1, QueueAppend
  <1>4. ASSUME Functors(k) # <<>>, Head(Functors(k)).op # "established"
        PROVE  LET q == Tail(Functors(k)) IN
               /\ \A y : In(q, y) => In(Functors(k), y)
               /\ \A d : In(Functors(k), Functor("established", d)) =>
                           In(q, Functor("established", d))
               /\ Once(q) /\ StartedFirst(q, Accepted)
    <2>1. \A d : Functor("established", d) # Head(Functors(k))
      BY <1>4 DEF Functor
    <2> QED
      BY <1>1, <1>2, <1>4, <2>1, QueueTail
  <1> QED
    BY <1>1, <1>2, <1>3, <1>4

LEMMA CloseKeepsQueues ==
  ASSUME PhaseInv, QueueInv, NEW c \in Conns, ConnectionCloses(c)
  PROVE  QueueInv'
  <1>1. /\ conn[c].state = "open" /\ CloseConnection(loop, c) /\ UNCHANGED <<main, thread>>
        /\ conn \in Seq(ConnRec) /\ (main = "starting" => conn = <<>>)
    BY DEF ConnectionCloses, PhaseInv
  <1>2. main # "starting" /\ c \in Nat
    BY <1>1, ConnFacts DEF Conns
  <1>3. /\ Functor("remove", c) \in Func
        /\ IF conn[c].loop = Base THEN loop' = loop
           ELSE loop' = QueueInLoop(loop, Base, Functor("remove", c))
    BY <1>1, <1>2, CloseKeepsConns
  <1>4. /\ Accepted' = Accepted /\ Conns' = Conns /\ LiveIsMapped'
        /\ \A l \in Loops : \A f : FunctorInv(l, f) => FunctorInv(l, f)'
        /\ \A d \in Conns : conn'[d].loop = conn[d].loop
        /\ FunctorInv(Base, Functor("remove", c))'
    BY <1>1, ClosedKeeps
  <1>5. CASE loop' = loop
    <2>1. \A k \in Loops : Functors(k)' = Functors(k)
      BY <1>5 DEF Functors
    <2>2. \A k \in Loops : Once(Functors(k)') /\ StartedFirst(Functors(k)', Accepted)
      BY <2>1, QueueChanges
    <2> QED
      BY <1>1, <1>4, <2>1, <2>2, OthersKeepQueues
  <1>6. CASE loop' = QueueInLoop(loop, Base, Functor("remove", c))
    <2>1. Only(Base) /\ Functors(Base)' = Append(Functors(Base), Functor("remove", c))
      BY SMTT(20), <1>1, <1>2, <1>3, <1>6, LoopFacts, QueueStep
    <2>2. \A k \in Loops : k # Base => Functors(k)' = Functors(k)
      BY <2>1 DEF Only, Functors
    <2>3. ASSUME NEW k \in Loops
          PROVE  /\ Once(Functors(k)') /\ StartedFirst(Functors(k)', Accepted)
                 /\ \A y : In(Functors(k)', y) => In(Functors(k), y) \/ FunctorInv(k, y)'
                 /\ \A y : In(Functors(k), y) => In(Functors(k)', y)
      <3>1. CASE k = Base
        BY ZenonT(30), <1>2, <1>4, <2>1, <3>1, QueueChanges
      <3>2. CASE k # Base
        BY <2>2, <3>2, QueueChanges
      <3> QED
        BY <3>1, <3>2
    <2> QED
      BY <1>1, <1>4, <2>3, OthersKeepQueues
  <1> QED
    BY <1>3, <1>5, <1>6

LEMMA DestroyedKeepsQueues ==
  ASSUME PhaseInv, QueueInv, NEW l \in Loops, RunDestroyed(l)
  PROVE  QueueInv'
  <1>1. Task(l, "destroyed") /\ UNCHANGED <<main, thread>>
    BY DEF RunDestroyed
  <1>2. PICK c : c = Head(loop[l].tasks).conn
    OBVIOUS
  <1>3. /\ Functors(l) # <<>> /\ Head(Functors(l)).op # "established" /\ main # "starting"
        /\ c \in Conns /\ conn[c].loop = l
    <2>1. /\ Functors(l) # <<>> /\ Head(Functors(l)) = Head(loop[l].tasks)
          /\ In(Functors(l), Head(loop[l].tasks)) /\ Head(loop[l].tasks).op = "destroyed"
          /\ main # "starting"
      BY <1>1, FirstFunctor
    <2> QED
      BY <1>2, <2>1 DEF QueueInv, FunctorInv
  <1>6. Functors(l) # <<>> /\ Head(Functors(l)).op # "established"
    BY <1>3
  <1>4. CASE conn[c].state # "open" \/ l = Base
    <2>1. loop' = TaskDone(l)
      <3>1. CASE conn[c].state # "open"
        BY SMTT(20), <1>2, <3>1 DEF RunDestroyed
      <3>2. CASE conn[c].state = "open" /\ l = Base
        BY <1>2, <1>3, <3>2 DEF RunDestroyed, CloseConnection, RemoveConnection
      <3> QED
        BY <1>4, <3>1, <3>2
    <2>2. Only(l) /\ Functors(l)' = Tail(Functors(l))
      BY <1>1, <2>1, TaskStep
    <2>3. \A k \in Loops : k # l => Functors(k)' = Functors(k)
      BY <2>2 DEF Only, Functors
    <2>4. ASSUME NEW k \in Loops
          PROVE  /\ Once(Functors(k)') /\ StartedFirst(Functors(k)', Accepted)
                 /\ \A y : In(Functors(k)', y) => In(Functors(k), y)
                 /\ \A d : In(Functors(k), Functor("established", d)) =>
                             In(Functors(k)', Functor("established", d))
      <3>1. CASE k = l
        BY ZenonT(30), <1>6, <2>2, <3>1, QueueChanges
      <3>2. CASE k # l
        BY <2>3, <3>2, QueueChanges
      <3> QED
        BY <3>1, <3>2
    <2>5. /\ Accepted' = Accepted /\ Conns' = Conns /\ LiveIsMapped'
          /\ \A k \in Loops : \A f : FunctorInv(k, f) => FunctorInv(k, f)'
          /\ \A d \in Conns : conn'[d].loop = conn[d].loop
      <3>1. CASE conn[c].state = "open"
        <4>1. CloseConnection(TaskDone(l), c)
          BY <1>2, <3>1 DEF RunDestroyed
        <4> QED
          BY <1>1, <1>3, <3>1, <4>1, ClosedKeeps
      <3>2. CASE conn[c].state # "open"
        <4>1. UNCHANGED <<conn, map, main>>
          BY <1>1, <1>2, <3>2 DEF RunDestroyed
        <4> QED
          BY <4>1 DEF Accepted, Conns, LiveIsMapped, FunctorInv, QueueInv
      <3> QED
        BY <3>1, <3>2
    <2> QED
      BY <1>1, <2>4, <2>5, OthersKeepQueues
  <1>5. CASE conn[c].state = "open" /\ l # Base
    <2>1. CloseConnection(TaskDone(l), c) /\ c \in Nat
      BY <1>2, <1>3, <1>5, ConnFacts DEF RunDestroyed, PhaseInv
    <2>2. /\ Functor("remove", c) \in Func
          /\ loop' = QueueInLoop(TaskDone(l), Base, Functor("remove", c))
      BY <1>3, <1>5, <2>1, CloseKeepsConns
    <2>3. /\ Accepted' = Accepted /\ Conns' = Conns /\ LiveIsMapped'
          /\ \A k \in Loops : \A f : FunctorInv(k, f) => FunctorInv(k, f)'
          /\ \A d \in Conns : conn'[d].loop = conn[d].loop
          /\ FunctorInv(Base, Functor("remove", c))'
      BY <1>1, <1>3, <1>5, <2>1, ClosedKeeps
    <2>4. /\ \A k \in Loops : k # l /\ k # Base => loop'[k] = loop[k]
          /\ Functors(l)' = Tail(Functors(l))
          /\ Functors(Base)' = Append(Functors(Base), Functor("remove", c))
      BY <1>1, <1>5, <2>2, LoopFacts, TaskQueueStep
    <2>7. Functors(l)' = Tail(Functors(l))
      BY <2>4
    <2>8. Functors(Base)' = Append(Functors(Base), Functor("remove", c))
      BY <2>4
    <2>9. c \in Nat /\ FunctorInv(Base, Functor("remove", c))'
      BY SMTT(20), <2>1, <2>3
    <2>5. \A k \in Loops : k # l /\ k # Base => Functors(k)' = Functors(k)
      BY <2>4 DEF Functors
    <2>6. ASSUME NEW k \in Loops
          PROVE  /\ Once(Functors(k)') /\ StartedFirst(Functors(k)', Accepted)
                 /\ \A y : In(Functors(k)', y) => In(Functors(k), y) \/ FunctorInv(k, y)'
                 /\ \A d : In(Functors(k), Functor("established", d)) =>
                             In(Functors(k)', Functor("established", d))
      <3>1. CASE k = l
        BY ZenonT(30), <1>6, <2>7, <3>1, QueueChanges
      <3>2. CASE k = Base
        <4> DEFINE q == Append(Functors(Base), Functor("remove", c))
        <4>1. /\ Once(q) /\ StartedFirst(q, Accepted)
              /\ \A y : In(q, y) <=> In(Functors(Base), y) \/ y = Functor("remove", c)
          BY <2>9, LoopFacts, QueueChanges
        <4>2. Functors(k)' = q /\ Functors(k) = Functors(Base)
          BY <2>8, <3>2
        <4> HIDE DEF q
        <4>3. ASSUME NEW y, In(Functors(k)', y), ~In(Functors(k), y) PROVE FunctorInv(k, y)'
          <5>1. y = Functor("remove", c)
            BY <4>1, <4>2, <4>3
          <5> QED
            BY <2>9, <3>2, <5>1
        <4> QED
          BY <4>1, <4>2, <4>3
      <3>3. CASE k # l /\ k # Base
        BY <2>5, <3>3, QueueChanges
      <3> QED
        BY <3>1, <3>2, <3>3
    <2> QED
      BY <1>1, <2>3, <2>6, OthersKeepQueues
  <1> QED
    BY <1>4, <1>5

LEMMA RemoveKeepsQueues ==
  ASSUME PhaseInv, QueueInv, NEW l \in Loops, RunRemove(l)
  PROVE  QueueInv'
  <1>1. /\ Task(l, "remove") /\ loop' = TaskDone(l) /\ UNCHANGED <<main, thread, conn>>
        /\ map' = map \ {Head(loop[l].tasks).conn}
    BY DEF RunRemove, WithoutConn
  <1>2. /\ Functors(l) # <<>> /\ Head(Functors(l)).op # "established"
        /\ conn[Head(loop[l].tasks).conn].state = "closed"
    <2>1. /\ Functors(l) # <<>> /\ Head(Functors(l)) = Head(loop[l].tasks)
          /\ In(Functors(l), Head(loop[l].tasks)) /\ Head(loop[l].tasks).op = "remove"
      BY <1>1, FirstFunctor
    <2> QED
      BY <2>1 DEF QueueInv, FunctorInv
  <1>3. Only(l) /\ Functors(l)' = Tail(Functors(l))
    BY <1>1, TaskStep
  <1>4. \A k \in Loops : k # l => Functors(k)' = Functors(k)
    BY <1>3 DEF Only, Functors
  <1>5. ASSUME NEW k \in Loops
        PROVE  /\ Once(Functors(k)') /\ StartedFirst(Functors(k)', Accepted)
               /\ \A y : In(Functors(k)', y) => In(Functors(k), y)
               /\ \A d : In(Functors(k), Functor("established", d)) =>
                           In(Functors(k)', Functor("established", d))
    <2>1. CASE k = l
      BY ZenonT(30), <1>2, <1>3, <2>1, QueueChanges
    <2>2. CASE k # l
      BY <1>4, <2>2, QueueChanges
    <2> QED
      BY <2>1, <2>2
  <1>6. /\ Accepted' = Accepted /\ Conns' = Conns
        /\ \A k \in Loops : \A f : FunctorInv(k, f) => FunctorInv(k, f)'
    BY <1>1 DEF Accepted, Conns, FunctorInv
  <1>7. LiveIsMapped'
    BY <1>1, <1>2 DEF QueueInv, LiveIsMapped, Conns
  <1> QED
    BY <1>1, <1>5, <1>6, <1>7, OthersKeepQueues

LEMMA ClearKeepsQueues ==
  ASSUME PhaseInv, QueueInv, ClearConnection
  PROVE  QueueInv'
  <1>1. PICK c \in map : map' = map \ {c} /\ Queued(loop, conn[c].loop, Functor("destroyed", c))
    BY DEF ClearConnection
  <1>2. main = "clearing" /\ UNCHANGED <<main, thread, conn>>
    BY DEF ClearConnection
  <1>3. c \in Conns /\ c \in Nat /\ conn[c].loop \in Loops
    BY ConnFacts DEF PhaseInv
  <1>4. PICK l \in Loops : l = conn[c].loop
    BY <1>3
  <1> DEFINE f == Functor("destroyed", c)
  <1>5. f \in Func /\ f.op = "destroyed" /\ f.conn = c /\ \A d : Functor("established", d) # f
    BY <1>3 DEF Functor, Func
  <1> HIDE DEF f
  <1>6. Only(l) /\ Functors(l)' = Append(Functors(l), f)
    BY <1>1, <1>2, <1>4, <1>5, QueueStep DEF Queued, f
  <1>7. \A k \in Loops : k # l => Functors(k)' = Functors(k)
    BY <1>6 DEF Only, Functors
  <1>8. c \in Accepted => In(Functors(l), Functor("established", c))
    BY <1>2, <1>4 DEF QueueInv
  <1>9. FunctorInv(l, f)'
    BY <1>2, <1>3, <1>4, <1>5 DEF FunctorInv, Conns
  <1>10. ASSUME NEW k \in Loops
         PROVE  /\ Once(Functors(k)') /\ StartedFirst(Functors(k)', Accepted)
                /\ \A y : In(Functors(k)', y) => In(Functors(k), y) \/ FunctorInv(k, y)'
                /\ \A d : In(Functors(k), Functor("established", d)) =>
                            In(Functors(k)', Functor("established", d))
    <2>1. Functors(k) \in Seq(Func) /\ Once(Functors(k)) /\ StartedFirst(Functors(k), Accepted)
      BY QueueChanges
    <2>2. CASE k = l
      <3>1. Functors(l)' = Append(Functors(l), f)
        BY <1>6
      <3>2. \A z : In(Functors(k)', z) <=> In(Functors(k), z) \/ z = f
        BY <1>5, <2>1, <2>2, <3>1, QueueAppend
      <3>3. Once(Functors(k)')
        BY <1>5, <2>1, <2>2, <3>1, QueueAppend
      <3>4. f.conn \in Accepted => In(Functors(k), Functor("established", f.conn))
        BY <1>5, <1>8, <2>2
      <3>5. StartedFirst(Functors(k)', Accepted)
        BY <1>5, <2>1, <2>2, <3>1, <3>4, QueueAppend
      <3> QED
        BY <1>9, <2>2, <3>2, <3>3, <3>5
    <2>3. CASE k # l
      BY <1>7, <2>1, <2>3
    <2> QED
      BY <2>2, <2>3
  <1>11. /\ Accepted' = Accepted /\ Conns' = Conns
         /\ \A k \in Loops : \A g : FunctorInv(k, g) => FunctorInv(k, g)'
    BY <1>2 DEF Accepted, Conns, FunctorInv
  <1>12. LiveIsMapped'
    BY <1>2 DEF LiveIsMapped
  <1> QED
    BY <1>2, <1>10, <1>11, <1>12, OthersKeepQueues

\* The steps that change no connection: the queues stay, or one of them is dropped after
\* the server's destructor has emptied its map.
SameServer ==
  /\ \A k \in Loops : \/ Functors(k)' = Functors(k)
                      \/ Functors(k)' = <<>> /\ main' \notin {"looping", "clearing"}
  /\ UNCHANGED <<conn, map>>
  /\ main \notin {"starting", "looping"} => main' \notin {"starting", "looping"}
  /\ main' \in {"looping", "clearing"} => main \in {"looping", "clearing"} \/ conn = <<>>

LEMMA SameServerKeepsQueues ==
  ASSUME PhaseInv, QueueInv, SameServer
  PROVE  QueueInv'
  <1>1. /\ UNCHANGED <<conn, map>>
        /\ main \notin {"starting", "looping"} => main' \notin {"starting", "looping"}
        /\ main' \in {"looping", "clearing"} => main \in {"looping", "clearing"} \/ conn = <<>>
    BY DEF SameServer
  <1>2. Accepted' = Accepted /\ Conns' = Conns /\ (conn = <<>> => Accepted = {})
    BY <1>1 DEF Accepted, Conns
  <1>3. \A k \in Loops : \A f : FunctorInv(k, f) => FunctorInv(k, f)'
    BY <1>1 DEF FunctorInv, Conns
  <1>4. Once(<<>>) /\ StartedFirst(<<>>, Accepted) /\ \A f : ~In(<<>>, f)
    BY DEF Once, StartedFirst, In
  <1>5. \A k \in Loops : /\ \A f : In(Functors(k)', f) => FunctorInv(k, f)'
                         /\ Once(Functors(k)') /\ StartedFirst(Functors(k)', Accepted')
    BY <1>2, <1>3, <1>4 DEF QueueInv, SameServer
  <1>6. LiveIsMapped'
    BY <1>1 DEF QueueInv, LiveIsMapped, Conns
  <1>7. ASSUME main' \in {"looping", "clearing"}, NEW d \in Accepted', NEW k \in Loops,
               conn'[d].loop = k
        PROVE  In(Functors(k)', Functor("established", d))
    BY <1>1, <1>2, <1>7 DEF QueueInv, SameServer
  <1> QED
    BY <1>5, <1>6, <1>7 DEF QueueInv

LEMMA QueueKept ==
  ASSUME PhaseInv, QueueInv, [Next]_vars
  PROVE  QueueInv'
  <1>2. CASE OnAccept
    BY <1>2, AcceptKeepsQueues
  <1>3. ASSUME NEW c \in Conns, ConnectionCloses(c) PROVE QueueInv'
    BY <1>3, CloseKeepsQueues
  <1>4. ASSUME NEW l \in Loops, RunFunctor(l) PROVE QueueInv'
    BY <1>4, EstablishedKeepsQueues, DestroyedKeepsQueues, RemoveKeepsQueues DEF RunFunctor
  <1>5. CASE ClearConnection
    BY <1>5, ClearKeepsQueues
  <1>6. ASSUME NEW l \in Loops, LoopTurn(l) \/ (l # Base /\ (Publish(l) \/ ThreadEnds(l))),
               UNCHANGED <<main, thread, svars, stray>>
        PROVE  QueueInv'
    <2>1. /\ Only(l)
          /\ \/ Functors(l)' = Functors(l)
             \/ Functors(l)' = <<>> /\ main \notin {"starting", "looping", "clearing"}
      BY SMTT(20), <1>6, TurnStep
    <2>2. \A k \in Loops : k # l => Functors(k)' = Functors(k)
      BY <2>1 DEF Only, Functors
    <2>3. \A k \in Loops : \/ Functors(k)' = Functors(k)
                           \/ Functors(k)' = <<>> /\ main' \notin {"looping", "clearing"}
      BY <1>6, <2>1, <2>2
    <2>4. UNCHANGED <<conn, map, main>>
      BY <1>6 DEF svars
    <2> QED
      BY <2>3, <2>4, SameServerKeepsQueues DEF SameServer
  <1>7. ASSUME NEW l \in Loops, ThreadStarts(l) \/ QuitLoop(l) \/ ExitThread(l)
        PROVE  \A k \in Loops : Functors(k)' = Functors(k)
    <2>1. DOMAIN loop = Loops /\ LoopInv(l)
      BY DEF PhaseInv
    <2>2. \A k \in Loops : k # l => loop'[k] = loop[k]
      BY <1>7, <2>1 DEF ThreadStarts, QuitLoop, ExitThread
    <2>3. loop'[l].tasks = loop[l].tasks /\ loop'[l].pending = loop[l].pending
      BY <1>7, <2>1 DEF ThreadStarts, QuitLoop, ExitThread, LoopInv
    <2> QED
      BY <2>2, <2>3 DEF Functors
  <1>8. CASE StartThread \/ QuitBase \/ ExitNextThread
    <2>1. PICK l \in Loops : ThreadStarts(l) \/ QuitLoop(l) \/ ExitThread(l)
      BY <1>8, LoopFacts DEF StartThread, QuitBase, ExitNextThread
    <2>2. \A k \in Loops : Functors(k)' = Functors(k)
      BY <1>7, <2>1
    <2>3. /\ UNCHANGED <<conn, map>>
          /\ main' = main \/ (main = "exiting" /\ main' = "joining")
      BY <1>8 DEF StartThread, QuitBase, ExitNextThread, svars
    <2> QED
      BY <2>2, <2>3, SameServerKeepsQueues DEF SameServer
  <1>9. CASE Listen
    <2>1. /\ main = "starting" /\ main' = "looping" /\ conn = <<>> /\ UNCHANGED <<conn, map>>
          /\ loop' = [loop EXCEPT ![Base].pc = "created", ![Base].published = TRUE]
          /\ DOMAIN loop = Loops /\ LoopInv(Base)
      BY <1>9, LoopFacts DEF Listen, PhaseInv
    <2>2. \A k \in Loops : k # Base => loop'[k] = loop[k]
      BY <2>1
    <2>3. loop'[Base].tasks = loop[Base].tasks /\ loop'[Base].pending = loop[Base].pending
      BY <2>1, LoopFacts DEF LoopInv, Base
    <2>4. \A k \in Loops : Functors(k)' = Functors(k)
      BY <2>2, <2>3 DEF Functors, Base
    <2> QED
      BY <2>1, <2>4, SameServerKeepsQueues DEF SameServer
  <1>10. CASE StartLoopReturns \/ OnAcceptError \/ BeginDestroy \/ BeginJoin \/ Join \/ Destroyed
              \/ UNCHANGED vars
    <2>1. UNCHANGED <<loop, conn, map>>
      BY <1>10 DEF StartLoopReturns, OnAcceptError, BeginDestroy, BeginJoin, Join, Destroyed,
                   vars, svars
    <2>2. \/ main' = main
          \/ main = "looping" /\ main' = "clearing"
          \/ main \in {"clearing", "joining", "exiting"} /\ main' \in {"exiting", "gone"}
      BY <1>10 DEF StartLoopReturns, OnAcceptError, BeginDestroy, BeginJoin, Join, Destroyed, vars
    <2>3. \A k \in Loops : Functors(k)' = Functors(k)
      BY <2>1 DEF Functors
    <2> QED
      BY <2>1, <2>2, <2>3, SameServerKeepsQueues DEF SameServer
  <1> QED
    BY <1>2, <1>3, <1>4, <1>5, <1>6, <1>8, <1>9, <1>10 DEF Next, MainStep, ThreadStep

-----------------------------------------------------------------------------
LEMMA ServerInit ==
  ASSUME Init
  PROVE  PhaseInv /\ QueueInv
  <1>1. /\ DOMAIN loop = Loops /\ conn = <<>> /\ map = {} /\ main = "starting" /\ thread = 1
        /\ next = 1 /\ ~stray
        /\ \A l \in Loops : loop[l] = NewLoop
    BY DEF Init
  <1>2. Conns = {} /\ conn \in Seq(ConnRec) /\ Accepted = {}
    BY <1>1 DEF Conns, Accepted
  <1>3. /\ DOMAIN NewLoop = {"pc", "published", "exiting", "quit", "pending", "tasks"}
        /\ NewLoop.pc = "none" /\ NewLoop.pending = <<>> /\ NewLoop.tasks = <<>>
        /\ NewLoop.quit = FALSE /\ NewLoop.exiting = FALSE
    BY DEF NewLoop
  <1>4. ASSUME NEW l \in Loops PROVE LoopInv(l) /\ Functors(l) = <<>>
    <2>1. l = Base \/ (l \in Nat /\ 1 <= l)
      BY LoopFacts DEF Threads
    <2>2. loop[l] = NewLoop
      BY <1>1
    <2>5. l # Base => ~(l < thread)
      BY <1>1, <2>1
    <2>6. <<>> \in Seq(Func)
      OBVIOUS
    <2>7. /\ DOMAIN loop[l] = {"pc", "published", "exiting", "quit", "pending", "tasks"}
          /\ loop[l].pc = "none" /\ loop[l].pending = <<>> /\ loop[l].tasks = <<>>
          /\ ~loop[l].quit /\ ~loop[l].exiting
      BY <1>3, <2>2
    <2>3. LoopInv(l)
      BY <1>1, <2>5, <2>6, <2>7 DEF LoopInv
    <2>4. Functors(l) = <<>>
      BY <1>3, <2>2 DEF Functors
    <2> QED
      BY <2>3, <2>4
  <1>5. PhaseInv
    BY <1>1, <1>2, <1>4, ServerBounds DEF PhaseInv, Threads
  <1>6. Once(<<>>) /\ StartedFirst(<<>>, Accepted) /\ \A f : ~In(<<>>, f)
    BY DEF Once, StartedFirst, In
  <1>7. LiveIsMapped
    BY <1>2 DEF LiveIsMapped
  <1> QED
    BY <1>1, <1>4, <1>5, <1>6, <1>7 DEF QueueInv

LEMMA ServerInvariant == Spec => [](PhaseInv /\ QueueInv)
  <1>1. Init => PhaseInv /\ QueueInv
    BY ServerInit
  <1>2. PhaseInv /\ QueueInv /\ [Next]_vars => (PhaseInv /\ QueueInv)'
    BY PhaseKept, QueueKept
  <1> QED
    BY <1>1, <1>2, PTL DEF Spec

(* No thread ever queues a functor for a loop that does not exist, for any   *)
(* number of threads and whenever quit() is called (startLoop waits for the  *)
(* loop, ~TcpServer queues Destroyed before the threads are told to end).    *)
THEOREM AlwaysNoStray == Spec => []NoStrayFunctor
  <1>1. PhaseInv /\ QueueInv => NoStrayFunctor
    BY DEF PhaseInv, NoStrayFunctor
  <1> QED
    BY <1>1, ServerInvariant, PTL

(* connection_map_ holds every connection that lives until the destructor    *)
(* takes it, although it is the connection's own loop that closes it and the *)
(* base loop that erases it (newConnection, removeConnection).               *)
THEOREM AlwaysLiveIsMapped == Spec => []LiveIsMapped
  <1>1. PhaseInv /\ QueueInv => LiveIsMapped
    BY DEF QueueInv
  <1> QED
    BY <1>1, ServerInvariant, PTL

(* A loop never executes the Destroyed of a connection before the            *)
(* Established that starts its coroutine, however many connections and       *)
(* threads there are (newConnection and ~TcpServer queue the two).           *)
THEOREM AlwaysEstablishedFirst == Spec => []EstablishedFirst
  <1>1. ASSUME PhaseInv, QueueInv PROVE EstablishedFirst
    <2> SUFFICES ASSUME NEW l \in Loops, NEW i \in DOMAIN Functors(l),
                        Functors(l)[i].op = "destroyed", NotStarted(Functors(l)[i].conn)
                 PROVE  \E j \in 1 .. i - 1 :
                            Functors(l)[j] = Functor("established", Functors(l)[i].conn)
      BY DEF EstablishedFirst, Functors
    <2>1. Functors(l) \in Seq(Func) /\ StartedFirst(Functors(l), Accepted)
      BY <1>1, QueueChanges
    <2>2. i \in 1 .. Len(Functors(l))
      BY <2>1
    <2>3. In(Functors(l), Functors(l)[i])
      BY <2>2 DEF In
    <2>4. Functors(l)[i].conn \in Accepted
      BY <1>1, <2>3 DEF QueueInv, FunctorInv, Accepted, NotStarted
    <2> QED
      BY SMTT(20), <2>1, <2>2, <2>4 DEF StartedFirst
  <1>2. PhaseInv /\ QueueInv => EstablishedFirst
    BY <1>1
  <1> QED
    BY <1>2, ServerInvariant, PTL

-----------------------------------------------------------------------------
Leaving(c) == In(Functors(Base), Functor("remove", c))

LeavingInv == \A c \in map : conn[c].state = "closed" => Leaving(c)

(* the steps that close no connection and drop no removal *)
LEMMA LeavingStays ==
  ASSUME LeavingInv, map' \subseteq map,
         \A c \in map' : conn'[c].state = "closed" => conn[c].state = "closed",
         \A c \in map' : Leaving(c) => Leaving(c)'
  PROVE  LeavingInv'
  BY DEF LeavingInv

(* what queueInLoop and the execution of a functor do to the removals *)
LEMMA LeavingQueue ==
  ASSUME PhaseInv, QueueInv
  PROVE  /\ \A f \in Func : Functors(Base)' = Append(Functors(Base), f) =>
              \A c : Leaving(c)' <=> Leaving(c) \/ Functor("remove", c) = f
         /\ Functors(Base) # <<>> /\ Functors(Base)' = Tail(Functors(Base)) =>
              \A c : Leaving(c) => Leaving(c)' \/ Functor("remove", c) = Head(Functors(Base))
  <1>1. Functors(Base) \in Seq(Func)
    BY LoopFacts, QueueChanges
  <1>2. ASSUME NEW f \in Func, Functors(Base)' = Append(Functors(Base), f), NEW c
        PROVE  Leaving(c)' <=> Leaving(c) \/ Functor("remove", c) = f
    <2>1. In(Append(Functors(Base), f), Functor("remove", c)) <=>
            In(Functors(Base), Functor("remove", c)) \/ Functor("remove", c) = f
      BY <1>1, QueueAppend
    <2> QED
      BY <1>2, <2>1 DEF Leaving
  <1>3. ASSUME Functors(Base) # <<>>, Functors(Base)' = Tail(Functors(Base)), NEW c, Leaving(c)
        PROVE  Leaving(c)' \/ Functor("remove", c) = Head(Functors(Base))
    <2>1. In(Functors(Base), Functor("remove", c)) =>
            \/ Functor("remove", c) = Head(Functors(Base))
            \/ In(Tail(Functors(Base)), Functor("remove", c))
      BY <1>1, <1>3, QueueTail
    <2> QED
      BY <1>3, <2>1 DEF Leaving
  <1> QED
    BY <1>2, <1>3

(* a connection that closes on the base loop leaves the map at once, any     *)
(* other one has its removal queued                                          *)
LEMMA ClosedIsLeaving ==
  ASSUME PhaseInv, QueueInv, LeavingInv, NEW c \in Conns, NEW loops, CloseConnection(loops, c),
         \A d \in map : d # c /\ Leaving(d) => Leaving(d)',
         conn[c].loop # Base => Leaving(c)'
  PROVE  LeavingInv'
  <1>1. /\ \A d \in Conns : conn'[d].state = IF d = c THEN "closed" ELSE conn[d].state
        /\ map \subseteq Conns
    BY StateSet DEF CloseConnection, PhaseInv
  <1>2. map' = map \/ map' = map \ {c}
    BY DEF CloseConnection, RemoveConnection
  <1>3. conn[c].loop = Base => map' = map \ {c}
    BY DEF CloseConnection, RemoveConnection
  <1> SUFFICES ASSUME NEW d \in map', conn'[d].state = "closed"
               PROVE  Leaving(d)'
    BY DEF LeavingInv
  <1>4. CASE d = c
    BY <1>3, <1>4
  <1>5. CASE d # c
    BY <1>1, <1>2, <1>5 DEF LeavingInv
  <1> QED
    BY <1>4, <1>5

LEMMA AcceptKeepsLeaving ==
  ASSUME PhaseInv, QueueInv, LeavingInv, OnAccept
  PROVE  LeavingInv'
  <1>0. conn \in Seq(ConnRec) /\ map \subseteq Conns /\ \A l \in Loops : LoopInv(l)
    BY DEF PhaseInv
  <1>1. PICK l \in Loops : l = NextLoop
    BY NextLoopExists
  <1>2. PICK c : c = Len(conn) + 1
    OBVIOUS
  <1>3. main = "looping"
    BY <1>0, LoopFacts DEF OnAccept, LoopInv
  <1>4. /\ conn' = Append(conn, [loop |-> l, state |-> "accepted"])
        /\ map' = map \cup {c}
        /\ loop' = QueueInLoop(loop, l, Functor("established", c))
        /\ UNCHANGED <<main, thread>>
    BY <1>1, <1>2 DEF OnAccept, NewConnection, WithConn, Queued
  <1>5. Len(conn) \in Nat /\ Conns = 1 .. Len(conn)
    BY <1>0, ConnFacts
  <1>6. Functor("established", c) \in Func /\ \A d : Functor("remove", d) # Functor("established", c)
    BY <1>2, <1>5 DEF Functor, Func
  <1>7. Only(l) /\ Functors(l)' = Append(Functors(l), Functor("established", c))
    BY <1>3, <1>4, <1>6, QueueStep
  <1>8. ASSUME NEW d, Leaving(d) PROVE Leaving(d)'
    <2>1. CASE l = Base
      BY <1>6, <1>7, <1>8, <2>1, LeavingQueue
    <2>2. CASE l # Base
      <3>1. Functors(Base)' = Functors(Base)
        BY <1>7, <2>2, LoopFacts DEF Only, Functors
      <3> QED
        BY SMTT(20), <1>8, <3>1 DEF Leaving
    <2> QED
      BY <2>1, <2>2
  <1>9. conn'[c].state = "accepted" /\ \A d \in Conns : conn'[d] = conn[d]
    BY <1>0, <1>2, <1>4, <1>5
  <1> SUFFICES ASSUME NEW d \in map', conn'[d].state = "closed"
               PROVE  Leaving(d)'
    BY DEF LeavingInv
  <1>10. d \in map /\ conn[d].state = "closed"
    BY <1>0, <1>4, <1>9
  <1> QED
    BY <1>8, <1>10 DEF LeavingInv

LEMMA CloseKeepsLeaving ==
  ASSUME PhaseInv, QueueInv, LeavingInv, NEW c \in Conns, ConnectionCloses(c)
  PROVE  LeavingInv'
  <1>1. /\ CloseConnection(loop, c) /\ UNCHANGED <<main, thread>>
        /\ conn \in Seq(ConnRec) /\ (main = "starting" => conn = <<>>)
    BY DEF ConnectionCloses, PhaseInv
  <1>2. main # "starting"
    BY <1>1 DEF Conns
  <1>3. /\ Functor("remove", c) \in Func
        /\ IF conn[c].loop = Base THEN loop' = loop
           ELSE loop' = QueueInLoop(loop, Base, Functor("remove", c))
    BY <1>1, <1>2, CloseKeepsConns
  <1>4. CASE conn[c].loop = Base
    <2>1. \A d : Leaving(d)' <=> Leaving(d)
      BY <1>3, <1>4 DEF Leaving, Functors
    <2> QED
      BY <1>1, <1>4, <2>1, ClosedIsLeaving
  <1>5. CASE conn[c].loop # Base
    <2>1. Functors(Base)' = Append(Functors(Base), Functor("remove", c))
      BY <1>1, <1>2, <1>3, <1>5, LoopFacts, QueueStep
    <2>2. \A d : Leaving(d)' <=> Leaving(d) \/ Functor("remove", d) = Functor("remove", c)
      BY <1>3, <2>1, LeavingQueue
    <2> QED
      BY <1>1, <2>2, ClosedIsLeaving
  <1> QED
    BY <1>4, <1>5

(* a functor that is executed takes no other connection's removal with it *)
LEMMA TaskKeepsLeaving ==
  ASSUME PhaseInv, QueueInv, NEW l \in Loops, NEW op, Task(l, op), loop' = TaskDone(l),
         UNCHANGED <<main, thread>>, NEW d, Leaving(d),
         Functor("remove", d) # Head(loop[l].tasks)
  PROVE  Leaving(d)'
  <1>1. /\ Only(l) /\ Functors(l) # <<>> /\ Head(Functors(l)) = Head(loop[l].tasks)
        /\ Functors(l)' = Tail(Functors(l))
    BY TaskStep
  <1>2. CASE l = Base
    BY <1>1, <1>2, LeavingQueue
  <1>3. CASE l # Base
    <2>1. Functors(Base)' = Functors(Base)
      BY <1>1, <1>3, LoopFacts DEF Only, Functors
    <2> QED
      BY SMTT(20), <2>1 DEF Leaving
  <1> QED
    BY <1>2, <1>3

LEMMA FunctorKeepsLeaving ==
  ASSUME PhaseInv, QueueInv, LeavingInv, NEW l \in Loops, RunFunctor(l)
  PROVE  LeavingInv'
  <1>1. PICK f : f = Head(loop[l].tasks)
    OBVIOUS
  <1>2. \A d : f.op # "remove" => Functor("remove", d) # f
    BY DEF Functor
  <1>3. \A d : Functor("remove", d) = f => d = f.conn
    BY DEF Functor
  <1>4. conn \in Seq(ConnRec) /\ map \subseteq Conns
    BY DEF PhaseInv
  <1>5. CASE RunEstablished(l)
    <2>1. /\ Task(l, "established") /\ loop' = TaskDone(l) /\ UNCHANGED <<main, thread, map>>
          /\ conn' = [conn EXCEPT ![f.conn].state = "open"] /\ f.op = "established"
      BY <1>1, <1>5 DEF RunEstablished, Task
    <2>2. \A d : Leaving(d) => Leaving(d)'
      BY <1>1, <1>2, <2>1, TaskKeepsLeaving
    <2>3. \A d \in Conns : conn'[d].state = IF d = f.conn THEN "open" ELSE conn[d].state
      BY <1>4, <2>1, StateSet
    <2> QED
      BY <1>4, <2>1, <2>2, <2>3, LeavingStays
  <1>6. CASE RunRemove(l)
    <2>1. /\ Task(l, "remove") /\ loop' = TaskDone(l) /\ UNCHANGED <<main, thread, conn>>
          /\ map' = map \ {f.conn}
      BY <1>1, <1>6 DEF RunRemove, WithoutConn
    <2>2. \A d : Leaving(d) /\ Functor("remove", d) # f => Leaving(d)'
      BY <1>1, <2>1, TaskKeepsLeaving
    <2> QED
      BY <1>3, <2>1, <2>2, LeavingStays
  <1>7. CASE RunDestroyed(l)
    <2>1. /\ Task(l, "destroyed") /\ UNCHANGED <<main, thread>> /\ f.op = "destroyed"
      BY <1>1, <1>7 DEF RunDestroyed, Task
    <2>2. f.conn \in Conns /\ conn[f.conn].loop = l /\ main # "starting"
      <3>1. In(Functors(l), f) /\ main # "starting"
        BY <1>1, <2>1, FirstFunctor
      <3> QED
        BY <2>1, <3>1 DEF QueueInv, FunctorInv
    <2>3. CASE conn[f.conn].state # "open"
      <3>1. loop' = TaskDone(l) /\ UNCHANGED <<conn, map>>
        BY <1>1, <1>7, <2>3 DEF RunDestroyed
      <3>2. \A d : Leaving(d) => Leaving(d)'
        BY <1>1, <1>2, <2>1, <3>1, TaskKeepsLeaving
      <3> QED
        BY <3>1, <3>2, LeavingStays
    <2>4. CASE conn[f.conn].state = "open"
      <3>1. CloseConnection(TaskDone(l), f.conn)
        BY <1>1, <1>7, <2>4 DEF RunDestroyed
      <3>2. /\ Functor("remove", f.conn) \in Func
            /\ IF l = Base THEN loop' = TaskDone(l)
               ELSE loop' = QueueInLoop(TaskDone(l), Base, Functor("remove", f.conn))
        BY <2>2, <3>1, CloseKeepsConns
      <3>3. CASE l = Base
        <4>1. \A d : Leaving(d) => Leaving(d)'
          BY <1>1, <1>2, <2>1, <3>2, <3>3, TaskKeepsLeaving
        <4> QED
          BY <2>2, <3>1, <3>3, <4>1, ClosedIsLeaving
      <3>4. CASE l # Base
        <4>1. Functors(Base)' = Append(Functors(Base), Functor("remove", f.conn))
          BY <2>1, <3>2, <3>4, LoopFacts, TaskQueueStep
        <4>2. \A d : Leaving(d)' <=> Leaving(d) \/ Functor("remove", d) = Functor("remove", f.conn)
          BY <3>2, <4>1, LeavingQueue
        <4> QED
          BY <2>2, <3>1, <4>2, ClosedIsLeaving
      <3> QED
        BY <3>3, <3>4
    <2> QED
      BY <2>3, <2>4
  <1> QED
    BY <1>5, <1>6, <1>7 DEF RunFunctor

LEMMA ClearKeepsLeaving ==
  ASSUME PhaseInv, QueueInv, LeavingInv, ClearConnection
  PROVE  LeavingInv'
  <1>1. PICK c \in map : map' = map \ {c} /\ Queued(loop, conn[c].loop, Functor("destroyed", c))
    BY DEF ClearConnection
  <1>2. main = "clearing" /\ UNCHANGED <<main, thread, conn>>
    BY DEF ClearConnection
  <1>3. PICK l \in Loops : l = conn[c].loop /\ c \in Nat
    BY ConnFacts DEF PhaseInv
  <1>4. Functor("destroyed", c) \in Func
    BY <1>3 DEF Functor, Func
  <1>5. Only(l) /\ Functors(l)' = Append(Functors(l), Functor("destroyed", c))
    BY <1>1, <1>2, <1>3, <1>4, QueueStep DEF Queued
  <1>6. ASSUME NEW d, Leaving(d) PROVE Leaving(d)'
    <2>1. CASE l = Base
      BY <1>4, <1>5, <1>6, <2>1, LeavingQueue
    <2>2. CASE l # Base
      <3>1. Functors(Base)' = Functors(Base)
        BY <1>5, <2>2, LoopFacts DEF Only, Functors
      <3> QED
        BY <1>6, <3>1 DEF Leaving
    <2> QED
      BY <2>1, <2>2
  <1> QED
    BY <1>1, <1>2, <1>6, LeavingStays

(* the steps that start, turn, quit and end loops leave the base loop's      *)
(* functors where they are: only a functor's execution takes one out         *)
LEMMA BaseKeepsFunctors ==
  ASSUME PhaseInv,
         \/ StartThread \/ StartLoopReturns \/ Listen \/ OnAcceptError \/ QuitBase \/ BeginDestroy
         \/ BeginJoin \/ ExitNextThread \/ Join \/ Destroyed \/ UNCHANGED vars
         \/ \E l \in Loops : /\ LoopTurn(l) \/ (l # Base /\ (Publish(l) \/ ThreadEnds(l)))
                             /\ UNCHANGED <<main, thread, svars, stray>>
  PROVE  Functors(Base)' = Functors(Base) /\ UNCHANGED <<conn, map>>
  <1>1. DOMAIN loop = Loops /\ LoopInv(Base) /\ Base \in Loops
    BY LoopFacts DEF PhaseInv
  <1>2. CASE StartLoopReturns \/ OnAcceptError \/ BeginDestroy \/ BeginJoin \/ Join \/ Destroyed
             \/ UNCHANGED vars
    BY <1>2 DEF StartLoopReturns, OnAcceptError, BeginDestroy, BeginJoin, Join, Destroyed,
                Functors, vars, svars
  <1>3. CASE StartThread \/ ExitNextThread
    <2>1. thread \in Loops /\ thread # Base /\ UNCHANGED <<conn, map>>
      BY <1>3, LoopFacts DEF StartThread, ExitNextThread, svars
    <2>2. ThreadStarts(thread) \/ ExitThread(thread)
      BY <1>3 DEF StartThread, ExitNextThread
    <2>3. loop'[Base] = loop[Base]
      BY <1>1, <2>1, <2>2 DEF ThreadStarts, ExitThread
    <2> QED
      BY <2>1, <2>3 DEF Functors
  <1>4. CASE Listen \/ QuitBase
    <2>1. UNCHANGED <<conn, map>>
      BY <1>4 DEF Listen, QuitBase, svars
    <2>2. \/ loop' = [loop EXCEPT ![Base].pc = "created", ![Base].published = TRUE]
          \/ loop' = [loop EXCEPT ![Base].quit = TRUE]
      BY <1>4 DEF Listen, QuitBase, QuitLoop
    <2>3. loop'[Base].tasks = loop[Base].tasks /\ loop'[Base].pending = loop[Base].pending
      BY <1>1, <2>2 DEF LoopInv, Base
    <2> QED
      BY <2>1, <2>3 DEF Functors
  <1>5. ASSUME NEW l \in Loops, LoopTurn(l) \/ (l # Base /\ (Publish(l) \/ ThreadEnds(l))),
               UNCHANGED <<main, thread, svars, stray>>
        PROVE  Functors(Base)' = Functors(Base) /\ UNCHANGED <<conn, map>>
    <2>1. UNCHANGED <<main, thread, conn, map>>
      BY <1>5 DEF svars
    <2>2. CASE l # Base
      <3>1. Only(l)
        BY <1>5, TurnStep
      <3> QED
        BY <1>1, <2>1, <2>2, <3>1 DEF Only, Functors
    <2>3. CASE l = Base
      <3>1. main \in {"starting", "looping", "clearing"} \/ loop[Base].pc = "left"
        BY <1>1 DEF LoopInv
      <3>2. loop[Base].pc # "left"
        BY <1>5, <2>3 DEF LoopTurn, EnterLoop, StartLooping, WhileTest, BeginFunctors, EndFunctors
      <3> QED
        BY <1>5, <2>1, <2>3, <3>1, <3>2, TurnStep
    <2> QED
      BY <2>2, <2>3
  <1> QED
    BY <1>2, <1>3, <1>4, <1>5

(* A closed connection that is still in connection_map_ is on its way out:   *)
(* its removal waits in the base loop's queue, from the handleClose on its   *)
(* own loop to the erase, and no step of another thread or of the destructor *)
(* loses it, so it stays in the map only as long as the base loop does not   *)
(* get to its functors (handleClose, removeConnection,                       *)
(* removeConnectionInLoop).                                                  *)
THEOREM ClosedConnectionsLeave ==
  Spec => [](\A c \in map : conn[c].state = "closed" =>
                 \E i \in 1 .. Len(loop[Base].tasks \o loop[Base].pending) :
                     (loop[Base].tasks \o loop[Base].pending)[i] = Functor("remove", c))
  <1>1. Init => LeavingInv
    BY DEF Init, LeavingInv
  <1>2. ASSUME PhaseInv, QueueInv, LeavingInv, [Next]_vars
        PROVE  LeavingInv'
    <2>1. CASE OnAccept
      BY <1>2, <2>1, AcceptKeepsLeaving
    <2>2. ASSUME NEW c \in Conns, ConnectionCloses(c) PROVE LeavingInv'
      BY <1>2, <2>2, CloseKeepsLeaving
    <2>3. ASSUME NEW l \in Loops, RunFunctor(l) PROVE LeavingInv'
      BY <1>2, <2>3, FunctorKeepsLeaving
    <2>4. CASE ClearConnection
      BY <1>2, <2>4, ClearKeepsLeaving
    <2>5. ASSUME Functors(Base)' = Functors(Base), UNCHANGED <<conn, map>> PROVE LeavingInv'
      BY <1>2, <2>5 DEF LeavingInv, Leaving
    <2> QED
      BY <1>2, <2>1, <2>2, <2>3, <2>4, <2>5, BaseKeepsFunctors DEF Next, MainStep, ThreadStep
  <1>3. PhaseInv /\ QueueInv /\ LeavingInv /\ [Next]_vars => LeavingInv'
    BY <1>2
  <1>4. LeavingInv =>
          \A c \in map : conn[c].state = "closed" =>
              \E i \in 1 .. Len(loop[Base].tasks \o loop[Base].pending) :
                  (loop[Base].tasks \o loop[Base].pending)[i] = Functor("remove", c)
    BY DEF LeavingInv, Leaving, In, Functors
  <1> QED
    BY <1>1, <1>3, <1>4, ServerInvariant, PTL DEF Spec

=============================================================================
