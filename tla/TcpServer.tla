------------------------------ MODULE TcpServer ------------------------------
(***************************************************************************)
(* TcpServer with its Acceptor, its EventLoopThreadPool and the loops that *)
(* they share: how connections are accepted on the base loop, established, *)
(* closed and taken apart by functors that travel between two loops, and   *)
(* how the destructor ends it all while the I/O loops still run.           *)
(*                                                                         *)
(* A loop is what EventLoop.tla shows it to be, the queue of               *)
(* FunctorQueue.tla: its functors run one at a time, in order, and once it *)
(* was told to quit it may stop with functors left; told before it entered *)
(* loop() it forgets it (EventLoopThread.tla).  The sends of a connection  *)
(* are TcpConnection.tla's: here no queued send watches its channel again  *)
(* after handleClose.  getNextLoop answers one of the loops of the pool,   *)
(* which ConsistentHash.tla shows, or throws while the pool has none.      *)
(*                                                                         *)
(* The program is that of testserver.cc: the thread of the base loop       *)
(* starts the server, runs the loop, and destroys the server once loop()   *)
(* has returned; start() may be called by other threads as well.           *)
(***************************************************************************)
EXTENDS Naturals, Sequences, FiniteSets

CONSTANTS
  BaseThread,    \* the thread of the base loop
  Starters,      \* the threads that call start()
  ThreadNums,    \* what setThreadNum may be given
  MaxThreads,    \* bound: their maximum
  MaxConns,      \* bound: clients that connect
  MaxFds,        \* descriptors left for connections: EMFILE beyond
  Shared         \* the connections that another thread may shut down

Conns == 1..MaxConns         \* by nextConnId_
Base == 0                    \* the base loop; the others by position in loops_
IoLoops == 1..MaxThreads
Loops == {Base} \cup IoLoops

ASSUME ThreadAssumption == ThreadNums \subseteq 0..MaxThreads
ASSUME BoundAssumption ==
  MaxThreads \in Nat /\ MaxConns \in Nat /\ MaxFds \in Nat \ {0}
ASSUME SharedAssumption == Shared \subseteq Conns

VARIABLES
  numThreads,    \* numThreads_ of the pool
  started,       \* started_
  tpc,           \* where each starter is in start()
  loops,         \* loops_.size()
  listening,     \* the acceptor's channel is registered
  arrived,       \* kernel: clients that have connected so far
  nextConnId,    \* nextConnId_: clients before it have been accepted
  connections,   \* connections_
  conn,          \* of each TcpConnection: its loop, state_, whether its
                 \* channel is enabled, and whether it has left the poller
  heard,         \* of each: what connectionCallback_ was told
  storing,       \* those that another thread, in shutdown(), has found
                 \* kConnected and is about to make kDisconnecting
  queue,         \* the functors of each loop
  running,       \* of each loop: "no", "born" (started, not yet in loop()),
                 \* "yes", "quit" (quit_ is set), "ended"; "late" (told to
                 \* quit while born), "deaf" (runs, and has forgotten it)
  closing,       \* of each loop: the connection between the user's callback
                 \* and the closeCallback_ of its handleClose, or 0
  phase,         \* the server: alive, or where its destructor is
  crashed        \* an exception has ended the program

vars == <<numThreads, started, tpc, loops, listening, arrived, nextConnId,
          connections, conn, heard, storing, queue, running, closing, phase,
          crashed>>

pool == <<numThreads, started, tpc, loops>>
clients == <<arrived, nextConnId>>
users == <<heard, storing>>

Functor == [op : {"listen"}, conn : {0}]
             \cup [op : {"connectEstablished", "connectDestroyed",
                         "removeConnectionInLoop"}, conn : Conns]

Bind(op, c) == [op |-> op, conn |-> c]

States == {"none", "kConnecting", "kConnected", "kDisconnecting",
           "kDisconnected"}

-----------------------------------------------------------------------------
Init ==
  /\ numThreads \in ThreadNums
  /\ started = 0
  /\ tpc = [t \in Starters |-> "idle"]
  /\ loops = 0
  /\ listening = FALSE
  /\ arrived = 0
  /\ nextConnId = 1
  /\ connections = {}
  /\ conn = [c \in Conns |-> [loop |-> Base, state |-> "none",
                             watched |-> FALSE, gone |-> FALSE]]
  /\ heard = [c \in Conns |-> <<>>]
  /\ storing = {}
  /\ queue = [l \in Loops |-> <<>>]
  /\ running = [l \in Loops |-> "no"]
  /\ closing = [l \in Loops |-> 0]
  /\ phase = "alive"
  /\ crashed = FALSE

Queue(l, f) == queue' = [queue EXCEPT ![l] = Append(@, f)]

Built(c) == conn[c].state # "none"

(* A TcpConnectionPtr is in the map, bound into a functor, or held by      *)
(* handleClose or by a thread in shutdown().  When there is none the       *)
(* object is gone and its descriptor closed.  That the batch keeps what    *)
(* its functors bind until it has run (EventLoop.cc:207-229) is left to    *)
(* TcpConnection.tla: here nothing uses a connection without a pointer.    *)
Owned(c) ==
  \/ c \in connections \/ c \in storing
  \/ \E l \in Loops : closing[l] = c \/ \E i \in 1..Len(queue[l]) :
                                          queue[l][i].conn = c

FdsInUse == Cardinality({c \in Conns : Built(c) /\ Owned(c)})

InLoop(l) == running[l] \in {"yes", "quit", "deaf"}

(* A loop whose thread is between two callbacks.                           *)
Serves(l) == InLoop(l) /\ closing[l] = 0 /\ ~crashed

-----------------------------------------------------------------------------
(* start(): the counter, the pool, then the acceptor.                      *)
Start(t) ==
  /\ phase = "alive" /\ tpc[t] = "idle"
  /\ t = BaseThread => running[Base] = "no"
  /\ started' = started + 1
  /\ tpc' = [tpc EXCEPT ![t] = IF started = 0 THEN "pool" ELSE "done"]
  /\ UNCHANGED <<numThreads, loops, listening, clients, connections, conn,
                 users, queue, running, closing, phase, crashed>>

(* EventLoopThreadPool::start: one round, in which startLoop returns a     *)
(* loop whose thread is on its way into loop() (EventLoopThread.cc:48-53), *)
(* and which adds it to the ring.                                          *)
PoolStart(t) ==
  /\ tpc[t] = "pool"
  /\ loops < numThreads
  /\ loops' = loops + 1
  /\ running' = [running EXCEPT ![loops + 1] = "born"]
  /\ UNCHANGED <<numThreads, started, tpc, listening, clients, connections,
                 conn, users, queue, closing, phase, crashed>>

ListenEarly(t) ==
  /\ tpc[t] = "pool"
  /\ tpc' = [tpc EXCEPT ![t] = "done"]
  /\ IF t = BaseThread
     THEN listening' = TRUE /\ UNCHANGED queue
     ELSE Queue(Base, Bind("listen", 0)) /\ UNCHANGED listening
  /\ UNCHANGED <<numThreads, started, loops, clients, connections, conn, users,
                 running, closing, phase, crashed>>

(* The pool is complete: runInLoop(Acceptor::listen).                      *)
StartListen(t) ==
  /\ tpc[t] = "pool"
  /\ loops = numThreads
  /\ tpc' = [tpc EXCEPT ![t] = "done"]
  /\ IF t = BaseThread
     THEN listening' = TRUE /\ UNCHANGED queue
     ELSE Queue(Base, Bind("listen", 0)) /\ UNCHANGED listening
  /\ UNCHANGED <<numThreads, started, loops, clients, connections, conn, users,
                 running, closing, phase, crashed>>

(* The thread of loop l enters loop(), which clears quit_ (EventLoop.cc:97) *)
(* whether or not the destructor has set it.                               *)
EnterLoop(l) ==
  /\ running[l] \in {"born", "late"}
  /\ running' = [running EXCEPT
                   ![l] = IF running[l] = "born" THEN "yes" ELSE "deaf"]
  /\ UNCHANGED <<pool, listening, clients, connections, conn, users, queue,
                 closing, phase, crashed>>

(* The base thread enters loop(), and leaves it when the user says so.     *)
BaseLoops ==
  /\ running[Base] = "no"
  /\ BaseThread \in Starters => tpc[BaseThread] # "pool"
  /\ running' = [running EXCEPT ![Base] = "yes"]
  /\ UNCHANGED <<pool, listening, clients, connections, conn, users, queue,
                 closing, phase, crashed>>

BaseEnds ==
  /\ running[Base] = "yes"
  /\ ~crashed
  /\ running' = [running EXCEPT ![Base] = "ended"]
  /\ UNCHANGED <<pool, listening, clients, connections, conn, users, queue,
                 closing, phase, crashed>>

-----------------------------------------------------------------------------
ClientConnects ==
  /\ arrived < MaxConns
  /\ arrived' = arrived + 1
  /\ UNCHANGED <<pool, listening, nextConnId, connections, conn, users, queue,
                 running, closing, phase, crashed>>

Backlog == arrived >= nextConnId

(* TcpServer::newConnection for a client whose address hashes to loop l.   *)
NewConnection(l) ==
  /\ nextConnId' = nextConnId + 1
  /\ conn' = [conn EXCEPT ![nextConnId].loop = l,
                          ![nextConnId].state = "kConnecting"]
  /\ connections' = connections \cup {nextConnId}
  /\ Queue(l, Bind("connectEstablished", nextConnId))
  /\ UNCHANGED crashed

(* Acceptor::handleRead.  The level-triggered channel reports the backlog  *)
(* until it is empty; accept fails and is only logged while there is no    *)
(* descriptor, and getNextLoop throws while the ring is empty.             *)
Accept ==
  /\ Serves(Base) /\ listening /\ Backlog
  /\ FdsInUse < MaxFds
  /\ IF loops = 0
     THEN /\ crashed' = TRUE
          /\ UNCHANGED <<nextConnId, connections, conn, queue>>
     ELSE \E l \in 1..loops : NewConnection(l)
  /\ UNCHANGED <<pool, listening, arrived, running, closing, phase, users>>

(* A callback of the connection's own loop calls shutdown().               *)
Shutdown(c) ==
  /\ Owned(c) /\ ~crashed
  /\ InLoop(conn[c].loop)
  /\ conn[c].state = "kConnected"
  /\ conn' = [conn EXCEPT ![c].state = "kDisconnecting"]
  /\ UNCHANGED <<pool, listening, clients, connections, users, queue, running,
                 closing, phase, crashed>>

(* Another thread with a pointer calls it: the test of state_, and later   *)
(* the store, over whatever state_ has become by then.                     *)
ShutdownTest(c) ==
  /\ c \in Shared /\ c \notin storing
  /\ Owned(c) /\ ~crashed
  /\ InLoop(conn[c].loop)
  /\ conn[c].state = "kConnected"
  /\ storing' = storing \cup {c}
  /\ UNCHANGED <<pool, listening, clients, connections, conn, heard, queue,
                 running, closing, phase, crashed>>

ShutdownStore(c) ==
  /\ c \in storing /\ ~crashed
  /\ conn' = [conn EXCEPT ![c].state = "kDisconnecting"]
  /\ storing' = storing \ {c}
  /\ UNCHANGED <<pool, listening, clients, connections, heard, queue, running,
                 closing, phase, crashed>>

Report(c, what) == heard' = [heard EXCEPT ![c] = Append(@, what)]

(* The channel of connection c, while it is enabled, reports the end:      *)
(* handleClose, whatever state_ is, up to and with the DOWN callback.      *)
HandleClose(c) ==
  /\ Built(c)
  /\ Serves(conn[c].loop)
  /\ conn[c].watched
  /\ conn' = [conn EXCEPT ![c] = [@ EXCEPT !.state = "kDisconnected",
                                         !.watched = FALSE]]
  /\ Report(c, "DOWN")
  /\ closing' = [closing EXCEPT ![conn[c].loop] = c]
  /\ UNCHANGED <<pool, listening, clients, connections, storing, queue, running,
                 phase, crashed>>

(* The rest of it, closeCallback_: TcpServer::removeConnection, on the     *)
(* thread of loop l.                                                       *)
RemoveConnection(l) ==
  /\ closing[l] # 0
  /\ closing' = [closing EXCEPT ![l] = 0]
  /\ Queue(Base, Bind("removeConnectionInLoop", closing[l]))
  /\ UNCHANGED <<pool, listening, clients, connections, conn, users, running,
                 phase, crashed>>

-----------------------------------------------------------------------------
(* The functor at the head of the queue of a loop runs.                    *)
Take(l, op) ==
  /\ Serves(l)
  /\ queue[l] # <<>>
  /\ Head(queue[l]).op = op
  /\ UNCHANGED <<pool, clients, running, closing, phase, crashed>>

Pop(l) == queue' = [queue EXCEPT ![l] = Tail(@)]

RunListen ==
  /\ Take(Base, "listen")
  /\ Pop(Base)
  /\ listening' = TRUE
  /\ UNCHANGED <<connections, conn, users>>

(* connectEstablished, with the user's UP callback.                        *)
RunConnectEstablished(l) ==
  /\ Take(l, "connectEstablished")
  /\ Pop(l)
  /\ LET c == Head(queue[l]).conn
     IN  /\ conn' = [conn EXCEPT ![c] = [@ EXCEPT !.state = "kConnected",
                                                !.watched = TRUE]]
         /\ Report(c, "UP")
  /\ UNCHANGED <<listening, connections, storing>>

RemoveKeepingEntry ==
  /\ Take(Base, "removeConnectionInLoop")
  /\ LET c == Head(queue[Base]).conn
     IN  queue' = [[queue EXCEPT ![Base] = Tail(@)] EXCEPT
                     ![conn[c].loop] = Append(@, Bind("connectDestroyed", c))]
  /\ UNCHANGED <<listening, connections, conn, users>>

(* removeConnectionInLoop: out of the map, then to its own loop again.     *)
RunRemoveConnectionInLoop ==
  /\ Take(Base, "removeConnectionInLoop")
  /\ LET c == Head(queue[Base]).conn
     IN  /\ connections' = connections \ {c}
         /\ queue' = [[queue EXCEPT ![Base] = Tail(@)] EXCEPT
                        ![conn[c].loop] = Append(@, Bind("connectDestroyed", c))]
  /\ UNCHANGED <<listening, conn, users>>

DestroyedReportsAlways(l) ==
  /\ Take(l, "connectDestroyed")
  /\ Pop(l)
  /\ LET c == Head(queue[l]).conn
     IN  /\ conn' = [conn EXCEPT ![c] = [@ EXCEPT !.state = "kDisconnected",
                                                !.watched = FALSE,
                                                !.gone = TRUE]]
         /\ Report(c, "DOWN")
  /\ UNCHANGED <<listening, connections, storing>>

(* connectDestroyed: a connection that is kConnected goes down, with the   *)
(* user's DOWN callback; the channel leaves the poller.                    *)
RunConnectDestroyed(l) ==
  /\ Take(l, "connectDestroyed")
  /\ Pop(l)
  /\ LET c == Head(queue[l]).conn
         up == conn[c].state = "kConnected"
     IN  /\ conn' = [conn EXCEPT
                       ![c] = [@ EXCEPT !.state = IF up THEN "kDisconnected"
                                                  ELSE conn[c].state,
                                        !.watched = FALSE,
                                        !.gone = TRUE]]
         /\ IF up THEN Report(c, "DOWN") ELSE UNCHANGED heard
  /\ UNCHANGED <<listening, connections, storing>>

-----------------------------------------------------------------------------
(* ~TcpServer: the connections, in whatever order the map has them.        *)
Destroy ==
  /\ phase = "alive"
  /\ running[Base] = "ended"
  /\ \A t \in Starters : tpc[t] # "pool"
  /\ phase' = "connections"
  /\ UNCHANGED <<pool, listening, clients, connections, conn, users, queue,
                 running, closing, crashed>>

DestroyResetPointer(c) ==
  /\ phase = "connections"
  /\ c \in connections
  /\ connections' = connections \ {c}
  /\ Queue(conn[c].loop, Bind("connectDestroyed", 0))
  /\ UNCHANGED <<pool, listening, clients, conn, users, running, closing,
                 phase, crashed>>

DestroyConnection(c) ==
  /\ phase = "connections"
  /\ c \in connections
  /\ connections' = connections \ {c}
  /\ Queue(conn[c].loop, Bind("connectDestroyed", c))
  /\ UNCHANGED <<pool, listening, clients, conn, users, running, closing,
                 phase, crashed>>

JoinWithoutQuit(l) ==
  /\ phase = "connections"
  /\ connections = {}
  /\ l <= loops /\ running[l] = "yes"
  /\ phase' = "pool"
  /\ UNCHANGED <<pool, listening, clients, connections, conn, users, queue,
                 running, closing, crashed>>

(* The members: the pool first, whose threads are told to quit and joined  *)
(* one after the other (~EventLoopThread), then the acceptor.              *)
QuitLoop(l) ==
  /\ phase \in {"connections", "pool"}
  /\ connections = {}
  /\ l <= loops /\ running[l] \in {"born", "yes"}
  /\ \A k \in 1..(l - 1) : running[k] = "ended"
  /\ running' = [running EXCEPT
                   ![l] = IF running[l] = "born" THEN "late" ELSE "quit"]
  /\ phase' = "pool"
  /\ UNCHANGED <<pool, listening, clients, connections, conn, users, queue,
                 closing, crashed>>

(* loop() returns and the EventLoop on the thread's stack is destroyed,    *)
(* with the functors that are left.                                        *)
LoopEnds(l) ==
  /\ running[l] = "quit" /\ closing[l] = 0
  /\ running' = [running EXCEPT ![l] = "ended"]
  /\ queue' = [queue EXCEPT ![l] = <<>>]
  /\ UNCHANGED <<pool, listening, clients, connections, conn, users, closing,
                 phase, crashed>>

DestroyWithoutJoin ==
  /\ phase \in {"connections", "pool"}
  /\ connections = {}
  /\ \A l \in 1..loops : running[l] \notin {"born", "yes"}
  /\ phase' = "gone"
  /\ listening' = FALSE
  /\ UNCHANGED <<pool, clients, connections, conn, users, queue, running,
                 closing, crashed>>

DestroyAcceptor ==
  /\ phase \in {"connections", "pool"}
  /\ connections = {}
  /\ \A l \in 1..loops : running[l] = "ended"
  /\ phase' = "gone"
  /\ listening' = FALSE
  /\ UNCHANGED <<pool, clients, connections, conn, users, queue, running,
                 closing, crashed>>

(* The base loop is destroyed after the server, by the same thread.        *)
DestroyBaseLoop ==
  /\ phase = "gone"
  /\ phase' = "end"
  /\ queue' = [queue EXCEPT ![Base] = <<>>]
  /\ UNCHANGED <<pool, listening, clients, connections, conn, users, running,
                 closing, crashed>>

-----------------------------------------------------------------------------
(* The exception that getNextLoop throws ends every thread.                *)
StarterRuns(t) == ~crashed /\ (PoolStart(t) \/ StartListen(t))

LoopRuns(l) ==
  /\ ~crashed
  /\ \/ EnterLoop(l)
     \/ RemoveConnection(l)
     \/ RunConnectEstablished(l)
     \/ RunConnectDestroyed(l)
     \/ LoopEnds(l)

BaseRuns == Accept \/ RunListen \/ RunRemoveConnectionInLoop

DestructorRuns ==
  \/ Destroy
  \/ \E c \in Conns : DestroyConnection(c)
  \/ \E l \in IoLoops : QuitLoop(l)
  \/ DestroyAcceptor
  \/ DestroyBaseLoop

Next ==
  \/ \E t \in Starters : Start(t) \/ StarterRuns(t)
  \/ BaseLoops
  \/ BaseEnds
  \/ ClientConnects
  \/ \E c \in Conns : \/ Shutdown(c) \/ HandleClose(c)
                     \/ ShutdownTest(c) \/ ShutdownStore(c)
  \/ \E l \in IoLoops : LoopRuns(l)
  \/ BaseRuns
  \/ DestructorRuns

(* Threads inside a call go on, loops run their functors, the base loop    *)
(* accepts while it can, and its thread goes on to run the loop and, after *)
(* it, to destroy the server.  Nothing is assumed of the clients, nor that *)
(* the loop is ever told to quit.                                          *)
Fairness ==
  /\ \A t \in Starters : WF_vars(StarterRuns(t))
  /\ \A c \in Shared : WF_vars(ShutdownStore(c))
  /\ \A l \in IoLoops : WF_vars(LoopRuns(l))
  /\ WF_vars(BaseLoops)
  /\ WF_vars(RunListen \/ RunRemoveConnectionInLoop)
  /\ WF_vars(Accept)
  /\ WF_vars(DestructorRuns)

SafeSpec == Init /\ [][Next]_vars

Spec == SafeSpec /\ Fairness

-----------------------------------------------------------------------------
(* Types of the variables.                                                 *)
TypeOK ==
  /\ numThreads \in ThreadNums
  /\ started \in Nat
  /\ tpc \in [Starters -> {"idle", "pool", "done"}]
  /\ loops \in 0..MaxThreads
  /\ listening \in BOOLEAN
  /\ arrived \in 0..MaxConns
  /\ nextConnId \in 1..(MaxConns + 1)
  /\ connections \in SUBSET Conns
  /\ conn \in [Conns -> [loop : Loops, state : States, watched : BOOLEAN,
                     gone : BOOLEAN]]
  /\ heard \in [Conns -> Seq({"UP", "DOWN"})]
  /\ storing \in SUBSET Conns
  /\ queue \in [Loops -> Seq(Functor)]
  /\ running \in [Loops -> {"no", "born", "yes", "quit", "ended", "late",
                          "deaf"}]
  /\ closing \in [Loops -> Conns \cup {0}]
  /\ phase \in {"alive", "connections", "pool", "gone", "end"}
  /\ crashed \in BOOLEAN

(* start() from several threads listens once, and only when the pool is    *)
(* complete: the base loop never reads loops_ and the ring while a         *)
(* starting thread writes them (TcpServer.h:48-52, "多次调用没有副作用",     *)
(* "线程安全"; TcpServer.cc:67-74).                                         *)
PoolBeforeListen ==
  LET asked == Cardinality({i \in 1..Len(queue[Base]) :
                              queue[Base][i].op = "listen"})
                 + (IF listening THEN 1 ELSE 0)
  IN  /\ asked <= 1
      /\ (asked > 0 \/ nextConnId > 1) =>
           loops = numThreads /\ \A t \in Starters : tpc[t] # "pool"

(* While its loop runs, a connection is in the server's map, or the one    *)
(* connectDestroyed that ends it is queued, or it has run: whichever of    *)
(* the peer and the destructor of the server came first, and however the   *)
(* removals of one raced the other (TcpServer.cc:47-57, 120-139).          *)
TakenApartOnce ==
  \A c \in Conns :
    LET l == conn[c].loop
        ends == Cardinality({i \in 1..Len(queue[l]) :
                               queue[l][i] = Bind("connectDestroyed", c)})
    IN  (Built(c) /\ running[l] # "ended") =>
          ends + (IF c \in connections THEN 1 ELSE 0)
               + (IF conn[c].gone THEN 1 ELSE 0) = 1

(* A connection is destroyed, and its descriptor closed, only when its     *)
(* connectDestroyed has run or its loop has ended (TcpServer.cc:49-56,     *)
(* 130-138).  TakenApartOnce implies it.                                   *)
FreedWhenRemoved ==
  \A c \in Conns :
    (Built(c) /\ ~Owned(c)) => (conn[c].gone \/ running[conn[c].loop] = "ended")

(* removeConnection is bound to the bare server (TcpServer.cc:113, 123):   *)
(* no I/O loop is on its way into it when the server is gone.              *)
ServerOutlivesCallbacks ==
  \A l \in IoLoops : closing[l] # 0 => phase \notin {"gone", "end"}

(* Every connection that was reported UP is reported DOWN before its       *)
(* server is gone ("销毁连接", TcpServer.cc:53).                             *)
UpMeansDown ==
  phase = "gone" => \A c \in Conns : heard[c] # <<"UP">>

(* With no threads in the pool the base loop serves the connections        *)
(* (EventLoopThreadPool.cc:38, "整个服务端只有一个线程运行baseLoop").          *)
BaseLoopServes == ~crashed

(* Every descriptor is held by a connection whose peer has not closed it.  *)
AllTaken == Cardinality({c \in Conns : heard[c] = <<"UP">>}) >= MaxFds

(* A client that finds no descriptor left waits only while every one of    *)
(* them is taken: the level-triggered channel asks again, and a closed     *)
(* connection gives its descriptor back (Acceptor.cc:73-80).               *)
BacklogServed ==
  \A c \in Conns :
    (listening /\ arrived >= c) ~>
      (nextConnId > c \/ running[Base] = "ended" \/ AllTaken)

(* The destructor came to a loop before its thread had entered loop().     *)
QuitForgotten == \E l \in IoLoops : running[l] \in {"late", "deaf"}

(* The destructor comes to its end, joins its threads, and no connection   *)
(* outlives the server and the base loop; only the quit that loop()        *)
(* forgets on entry can keep it waiting (EventLoop.cc:97).                 *)
DestructorEnds ==
  phase = "connections" ~>
    \/ phase = "end" /\ \A c \in Conns : ~Owned(c)
    \/ QuitForgotten

(* What the user sees of its connections.                                  *)
Abstract == INSTANCE ConnectionLife
              WITH Connections <- Conns,
                   heard <- heard,
                   released <- {c \in Conns : Built(c) /\ ~Owned(c)},
                   stopping <- (phase # "alive")

(* However accepting, shutdown(), closing and the destructor race, a       *)
(* connection lives the life of ConnectionLife: UP once, DOWN once, then   *)
(* released, not reported DOWN only when the server stops, and released in *)
(* the end unless the destructor waits for a loop that forgot its quit     *)
(* (TcpServer.cc:47-57, 83-139, TcpConnection.cc:146-190, 246-256).        *)
ImplementsLife ==
  /\ Abstract!SafeSpec
  /\ [](~QuitForgotten) => \A c \in Conns : Abstract!Goes(c)

(* The same without the promise that it is released in the end.            *)
ImplementsLifeSafely == Abstract!SafeSpec
=============================================================================
