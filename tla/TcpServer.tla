------------------------------ MODULE TcpServer ------------------------------
(***************************************************************************)
(* A TcpServer (src/src/TcpServer.cc) with its acceptor (Acceptor.cc,      *)
(* AcceptContext.cc), its pool of loop threads (IoUringLoopThreadPool.cc)  *)
(* and its connections, from start() to the end of the destructor.         *)
(*                                                                         *)
(* The main thread creates the server, runs the base loop, and destroys    *)
(* the server after the base loop has ended, as IntegrationTest.cc does.   *)
(* Loop 0 is the base loop, 1 .. NumThreads are the pool's.  A connection  *)
(* is its number in next_conn_id_ order; what happens inside one is the    *)
(* subject of TcpConnection.tla.                                           *)
(***************************************************************************)
EXTENDS LoopThread, FiniteSets

CONSTANTS
    NumThreads,   \* num_threads_
    MaxConns      \* bound on the connections that are accepted

ASSUME ServerBounds == NumThreads \in Nat /\ MaxConns \in Nat

VARIABLES
    main,       \* what the main thread does
    thread,     \* the pool thread that it is starting or joining
    accept,     \* the multishot accept: "none", "armed", or "stopped" (is_accepting_ = false)
    next,       \* next_ of the pool
    conn,       \* the connections so far: loop and state
    map,        \* connection_map_
    stray       \* has a functor been queued for a loop that does not exist?

svars == <<accept, next, conn, map>>
vars == <<loop, main, thread, svars, stray>>

Base == 0
Threads == 1 .. NumThreads
Loops == {Base} \cup Threads
Conns == DOMAIN conn
Functor(op, c) == [op |-> op, conn |-> c]

Init ==
    /\ loop = [l \in Loops |-> NewLoop]
    /\ main = "starting"
    /\ thread = 1
    /\ accept = "none"
    /\ next = 1
    /\ conn = <<>>
    /\ map = {}
    /\ stray = FALSE

(* queueInLoop on a loop, which may not exist yet or no more *)
Queued(loops, l, f) ==
    /\ loop' = QueueInLoop(loops, l, f)
    /\ stray' = (stray \/ ~loop[l].published)

-----------------------------------------------------------------------------
(* IoUringLoopThreadPool::start: one thread after the other *)
StartThread ==
    /\ main = "starting"
    /\ thread \in Threads
    /\ ThreadStarts(thread)
    /\ UNCHANGED <<main, thread, svars, stray>>

(* startLoop returns *)
StartLoopReturns ==
    /\ main = "starting"
    /\ thread \in Threads
    /\ LoopReady(thread)
    /\ thread' = thread + 1
    /\ UNCHANGED <<loop, main, svars, stray>>

(* the end of TcpServer::start: Acceptor::listen runs at once on the base    *)
(* loop's thread, which then calls loop()                                    *)
Listen ==
    /\ main = "starting"
    /\ thread = NumThreads + 1
    /\ accept' = "armed"
    /\ main' = "looping"
    /\ loop' = [loop EXCEPT ![Base].pc = "created", ![Base].published = TRUE]
    /\ UNCHANGED <<thread, next, conn, map, stray>>

-----------------------------------------------------------------------------
(* next_ = (next_ + 1) % num_threads_ *)
RoundRobin(n) == (n % NumThreads) + 1

(* IoUringLoopThreadPool::getNextLoop *)
NextLoop == IF NumThreads = 0 THEN Base ELSE next

ReleasedAtOnce(c) == map

(* connection_map_[conn_name] = new_conn *)
WithConn(c) == map \cup {c}

(* newConnection: the map, and the functor that starts the coroutine *)
NewConnection ==
    LET c == Len(conn) + 1 IN
    /\ c <= MaxConns
    /\ conn' = Append(conn, [loop |-> NextLoop, state |-> "accepted"])
    /\ next' = IF NumThreads = 0 THEN next ELSE RoundRobin(next)
    /\ map' = WithConn(c)
    /\ Queued(loop, NextLoop, Functor("established", c))

(* the end of AcceptContext::on_completion, without IORING_CQE_F_MORE *)
AfterLast(need_close) == IF need_close THEN "stopped" ELSE "armed"

(* on_completion with a new socket *)
OnAccept ==
    /\ loop[Base].pc = "handle"
    /\ accept = "armed"
    /\ NewConnection
    /\ accept' \in {accept, AfterLast(FALSE)}
    /\ UNCHANGED <<main, thread>>

(* on_completion with an error: handleError asks for a stop every time *)
OnAcceptError ==
    /\ loop[Base].pc = "handle"
    /\ accept = "armed"
    /\ accept' \in {accept, AfterLast(TRUE)}
    /\ UNCHANGED <<loop, main, thread, next, conn, map, stray>>

-----------------------------------------------------------------------------
(* removeConnection runs removeConnectionInLoop on the base loop: at once on *)
(* its own thread, as a functor otherwise                                    *)
RemoveConnection(loops, c) ==
    IF conn[c].loop = Base
      THEN loop' = loops /\ map' = map \ {c} /\ UNCHANGED stray
      ELSE Queued(loops, Base, Functor("remove", c)) /\ UNCHANGED map

(* handleClose of an open connection, with the close callback *)
CloseConnection(loops, c) ==
    /\ conn' = [conn EXCEPT ![c].state = "closed"]
    /\ RemoveConnection(loops, c)

(* the peer closes the connection, or an error does *)
ConnectionCloses(c) ==
    /\ conn[c].state = "open"
    /\ loop[conn[c].loop].pc = "handle"
    /\ CloseConnection(loop, c)
    /\ UNCHANGED <<main, thread, accept, next>>

Task(l, op) == loop[l].pc = "run" /\ loop[l].tasks # <<>> /\ Head(loop[l].tasks).op = op

(* Established(coroutine_handler_(conn)); when ~TcpServer has gone on to the *)
(* threads, the handler is called after its destruction.  It is taken to     *)
(* start the coroutine all the same.                                         *)
RunEstablished(l) ==
    /\ Task(l, "established")
    /\ conn' = [conn EXCEPT ![Head(loop[l].tasks).conn].state = "open"]
    /\ loop' = TaskDone(l)
    /\ UNCHANGED <<main, thread, accept, next, map, stray>>

(* Destroyed(): closes the connection if it is open *)
RunDestroyed(l) ==
    /\ Task(l, "destroyed")
    /\ LET c == Head(loop[l].tasks).conn IN
         IF conn[c].state = "open" THEN CloseConnection(TaskDone(l), c)
         ELSE loop' = TaskDone(l) /\ UNCHANGED <<conn, map, stray>>
    /\ UNCHANGED <<main, thread, accept, next>>

NeverErased(c) == map

(* connection_map_.erase *)
WithoutConn(c) == map \ {c}

(* removeConnectionInLoop *)
RunRemove(l) ==
    /\ Task(l, "remove")
    /\ map' = WithoutConn(Head(loop[l].tasks).conn)
    /\ loop' = TaskDone(l)
    /\ UNCHANGED <<main, thread, accept, next, conn, stray>>

-----------------------------------------------------------------------------
(* another thread calls quit() on the base loop *)
QuitBase ==
    /\ main = "looping"
    /\ ~loop[Base].quit
    /\ QuitLoop(Base)
    /\ UNCHANGED <<main, thread, svars, stray>>

(* loop() has returned and the server is destroyed *)
BeginDestroy ==
    /\ main = "looping"
    /\ loop[Base].pc = "left"
    /\ main' = "clearing"
    /\ UNCHANGED <<loop, thread, svars, stray>>

(* ~TcpServer, for one connection of the map *)
ClearConnection ==
    /\ main = "clearing"
    /\ \E c \in map :
         /\ map' = map \ {c}
         /\ Queued(loop, conn[c].loop, Functor("destroyed", c))
    /\ UNCHANGED <<main, thread, accept, next, conn>>

NotStarted(c) == conn[c].state = "accepted"

(* The members are destroyed after the body of the destructor, first of all *)
(* coroutine_handler_, which a queued Established will still call.          *)
BeginJoin ==
    /\ main = "clearing"
    /\ map = {}
    /\ main' = "exiting"
    /\ thread' = 1
    /\ UNCHANGED <<loop, svars, stray>>

(* ~IoUringLoopThread: exiting_, and quit() if there is a loop *)
ExitNextThread ==
    /\ main = "exiting"
    /\ thread \in Threads
    /\ ExitThread(thread)
    /\ main' = "joining"
    /\ UNCHANGED <<thread, svars, stray>>

(* Thread::join *)
Join ==
    /\ main = "joining"
    /\ loop[thread].pc = "ended"
    /\ thread' = thread + 1
    /\ main' = "exiting"
    /\ UNCHANGED <<loop, svars, stray>>

Destroyed ==
    /\ main = "exiting"
    /\ thread = NumThreads + 1
    /\ main' = "gone"
    /\ UNCHANGED <<loop, thread, svars, stray>>

-----------------------------------------------------------------------------
MainStep ==
    \/ StartThread \/ StartLoopReturns \/ Listen
    \/ BeginDestroy \/ ClearConnection \/ BeginJoin \/ ExitNextThread \/ Join \/ Destroyed

RunFunctor(l) == RunEstablished(l) \/ RunDestroyed(l) \/ RunRemove(l)

ThreadStep(l) ==
    \/ RunFunctor(l)
    \/ /\ LoopTurn(l) \/ (l # Base /\ (Publish(l) \/ ThreadEnds(l)))
       /\ UNCHANGED <<main, thread, svars, stray>>

Next ==
    \/ MainStep
    \/ \E l \in Loops : ThreadStep(l)
    \/ OnAccept \/ OnAcceptError
    \/ \E c \in Conns : ConnectionCloses(c)
    \/ QuitBase

Spec == Init /\ [][Next]_vars

(* Threads keep running, and a loop's wait ends by its timeout at the        *)
(* latest.  Nothing is assumed of clients, nor of the thread that may quit.  *)
FairSpec == Spec /\ WF_vars(MainStep) /\ \A l \in Loops : WF_vars(ThreadStep(l))

-----------------------------------------------------------------------------
TypeOK ==
    /\ loop \in [Loops -> [pc : LoopPcs, published : BOOLEAN, exiting : BOOLEAN, quit : BOOLEAN,
                           pending : Seq([op : {"established", "destroyed", "remove"}, conn : Conns]),
                           tasks : Seq([op : {"established", "destroyed", "remove"}, conn : Conns])]]
    /\ main \in {"starting", "looping", "clearing", "exiting", "joining", "gone"}
    /\ thread \in 1 .. NumThreads + 1
    /\ accept \in {"none", "armed", "stopped"}
    /\ next \in Threads \cup {1}
    /\ conn \in Seq([loop : Loops, state : {"accepted", "open", "closed"}])
    /\ map \subseteq Conns
    /\ stray \in BOOLEAN

(* The map never misses a connection that lives: until the destructor takes  *)
(* it, a connection that is not closed is in connection_map_, so that the    *)
(* destructor reaches all of them (newConnection, removeConnection).         *)
LiveIsMapped ==
    main \in {"starting", "looping"} => \A c \in Conns : conn[c].state # "closed" => c \in map

(* The coroutine is started before the connection is destroyed: the queue of *)
(* a connection's loop never holds Destroyed without Established before it,  *)
(* unless it has run, although different threads queue the two.              *)
EstablishedFirst ==
    \A l \in Loops :
        LET q == loop[l].tasks \o loop[l].pending IN
        \A i \in DOMAIN q : q[i].op = "destroyed" =>
            \/ ~NotStarted(q[i].conn)
            \/ \E j \in 1 .. i - 1 : q[j] = Functor("established", q[i].conn)

(* No thread queues a functor for a loop that does not exist: startLoop      *)
(* hands out a loop after it is created, and the destructor queues Destroyed *)
(* before it lets the loop's thread end (startLoop, ~TcpServer).             *)
NoStrayFunctor == ~stray

(* Every accepted connection is started by its loop, whatever the thread of  *)
(* that loop is doing, unless the loop is told to quit first (newConnection, *)
(* queueInLoop, doingPendingFunctors).                                       *)
AcceptedIsStarted ==
    \A c \in 1 .. MaxConns :
        (c \in Conns /\ NotStarted(c))
          ~> (c \in Conns /\ (~NotStarted(c) \/ loop[conn[c].loop].quit))

(* A closed connection leaves the map, as long as the base loop runs         *)
(* (handleClose, removeConnection, removeConnectionInLoop).                  *)
ClosedLeavesMap ==
    \A c \in 1 .. MaxConns :
        (c \in Conns /\ conn[c].state = "closed") ~> (c \notin map \/ loop[Base].quit)

(* "Remove the connection in its loop" (TcpServer.cc:34): when the destructor  *)
(* has returned, every connection has been closed by its loop.                *)
DestroyedAreClosed == main = "gone" => \A c \in Conns : conn[c].state = "closed"

(* The destructor returns, unless the quit() for the thread that it joins    *)
(* has fallen between the first test of loop() and quit_ = false, and is     *)
(* undone ("stop the event loop", IoUringLoop.h:107; ~IoUringLoopThread).    *)
DestructorReturns ==
    (main = "clearing") ~> (main = "gone" \/ [](main = "joining" /\ ~loop[thread].quit))
=============================================================================
