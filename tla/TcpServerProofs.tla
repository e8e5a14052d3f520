---------------------------- MODULE TcpServerProofs ----------------------------
(***************************************************************************)
(* Proofs about TcpServer, for every number of loops, clients, starters    *)
(* and descriptors: its types, that connections are taken apart once and   *)
(* freed only after that, that start() listens once and on a complete      *)
(* pool, that the server outlives the callbacks of its connections, and    *)
(* that every connection lives the life of ConnectionLife.                 *)
(***************************************************************************)
EXTENDS TcpServer, SequenceLemmas, TLAPS

USE ThreadAssumption, BoundAssumption, SharedAssumption

-----------------------------------------------------------------------------
(* The functors that the server and its loops hand to each other.          *)
Listening == Bind("listen", 0)
Establish(c) == Bind("connectEstablished", c)
Remove(c) == Bind("removeConnectionInLoop", c)
Undo(c) == Bind("connectDestroyed", c)

(* The loops are numbered; the base loop is not an I/O loop.               *)
LEMMA LoopNumbers ==
  /\ Loops \subseteq Nat
  /\ Base \in Loops
  /\ IoLoops \subseteq Loops
  /\ Base \notin IoLoops
  /\ Conns \subseteq Nat \ {0}
BY DEF Loops, Base, IoLoops, Conns

(* What is bound is a functor, and what is a functor was bound.            *)
LEMMA Functors ==
  /\ Listening \in Functor
  /\ \A c \in Conns :
       Establish(c) \in Functor /\ Remove(c) \in Functor /\ Undo(c) \in Functor
  /\ \A f \in Functor :
       \/ f = Listening
       \/ f.conn \in Conns /\ f \in {Establish(f.conn), Remove(f.conn),
                                     Undo(f.conn)}
BY DEF Functor, Bind, Listening, Establish, Remove, Undo

(* They differ in what they call and in the connection it is for.          *)
LEMMA FunctorsDiffer ==
  /\ Listening.op = "listen" /\ Listening.conn = 0
  /\ \A c : /\ Establish(c).op = "connectEstablished" /\ Establish(c).conn = c
            /\ Remove(c).op = "removeConnectionInLoop" /\ Remove(c).conn = c
            /\ Undo(c).op = "connectDestroyed" /\ Undo(c).conn = c
BY DEF Bind, Listening, Establish, Remove, Undo

(* The functor that Take finds at the head of a queue.                     *)
LEMMA HeadTaken ==
  ASSUME TypeOK, NEW l \in Loops, NEW op, Take(l, op)
  PROVE  /\ queue[l] \in Seq(Functor) /\ queue[l] # <<>>
         /\ Head(queue[l]) \in Functor
         /\ Tail(queue[l]) \in Seq(Functor)
         /\ op = "listen" => Head(queue[l]) = Listening
         /\ op # "listen" => Head(queue[l]).conn \in Conns
         /\ op = "connectEstablished" =>
              Head(queue[l]) = Establish(Head(queue[l]).conn)
         /\ op = "removeConnectionInLoop" =>
              Head(queue[l]) = Remove(Head(queue[l]).conn)
         /\ op = "connectDestroyed" => Head(queue[l]) = Undo(Head(queue[l]).conn)
<1>1. queue[l] \in Seq(Functor) /\ queue[l] # <<>>
  BY DEF TypeOK, Take
<1>2. Head(queue[l]) \in Functor /\ Tail(queue[l]) \in Seq(Functor)
  BY <1>1, HeadTailProperties
<1>3. Head(queue[l]).op = op
  BY DEF Take
<1>4. \/ Head(queue[l]) = Listening
      \/ /\ Head(queue[l]).conn \in Conns
         /\ Head(queue[l]) \in {Establish(Head(queue[l]).conn),
              Remove(Head(queue[l]).conn), Undo(Head(queue[l]).conn)}
  BY <1>2, Functors
<1>. QED
  BY <1>1, <1>2, <1>3, <1>4, FunctorsDiffer

(* A functor put in a queue leaves the queues well typed.                  *)
LEMMA QueueTyped ==
  ASSUME TypeOK, NEW l \in Loops, NEW f \in Functor, Queue(l, f)
  PROVE  queue' \in [Loops -> Seq(Functor)]
<1>1. Append(queue[l], f) \in Seq(Functor)
  BY DEF TypeOK
<1>. QED
  BY <1>1 DEF TypeOK, Queue

(* So does taking the head of one.                                         *)
LEMMA PopTyped ==
  ASSUME TypeOK, NEW l \in Loops, NEW op, Take(l, op), Pop(l)
  PROVE  queue' \in [Loops -> Seq(Functor)]
<1>1. Tail(queue[l]) \in Seq(Functor)
  BY HeadTaken
<1>. QED
  BY <1>1 DEF TypeOK, Pop

-----------------------------------------------------------------------------
(* The type of conn.                                                       *)
ConnType ==
  [Conns -> [loop : Loops, state : States, watched : BOOLEAN, gone : BOOLEAN]]

(* What the callback of a connection is told keeps the type of heard.      *)
LEMMA HeardTyped ==
  ASSUME TypeOK, NEW c \in Conns, NEW what \in {"UP", "DOWN"}, Report(c, what)
  PROVE  heard' \in [Conns -> Seq({"UP", "DOWN"})]
<1>1. heard \in [Conns -> Seq({"UP", "DOWN"})]
  BY DEF TypeOK
<1>2. Append(heard[c], what) \in Seq({"UP", "DOWN"})
  BY <1>1
<1>. QED
  BY <1>1, <1>2 DEF Report

(* A connection in another state, watched or not, gone or not.             *)
LEMMA ConnTyped ==
  ASSUME conn \in ConnType, NEW c \in Conns, NEW st \in States,
         NEW w \in BOOLEAN, NEW g \in BOOLEAN,
         conn' = [conn EXCEPT ![c] = [@ EXCEPT !.state = st, !.watched = w,
                                               !.gone = g]]
  PROVE  /\ conn' \in ConnType
         /\ conn'[c].loop = conn[c].loop /\ conn'[c].state = st
         /\ conn'[c].watched = w /\ conn'[c].gone = g
         /\ \A d \in Conns : d # c => conn'[d] = conn[d]
BY DEF ConnType

(* What shutdown(), handleClose, connectEstablished and connectDestroyed   *)
(* make of a connection.                                                   *)
LEMMA Changed ==
  ASSUME TypeOK
  PROVE  /\ \A c \in Conns :
              Shutdown(c) \/ ShutdownStore(c) =>
                conn' = [conn EXCEPT ![c] = [@ EXCEPT
                           !.state = "kDisconnecting", !.watched = conn[c].watched,
                           !.gone = conn[c].gone]]
         /\ \A c \in Conns :
              HandleClose(c) =>
                conn' = [conn EXCEPT ![c] = [@ EXCEPT
                           !.state = "kDisconnected", !.watched = FALSE,
                           !.gone = conn[c].gone]]
         /\ \A l \in IoLoops, c \in Conns :
              RunConnectEstablished(l) /\ c = Head(queue[l]).conn =>
                conn' = [conn EXCEPT ![c] = [@ EXCEPT
                           !.state = "kConnected", !.watched = TRUE,
                           !.gone = conn[c].gone]]
         /\ \A l \in IoLoops, c \in Conns :
              RunConnectDestroyed(l) /\ c = Head(queue[l]).conn =>
                conn' = [conn EXCEPT ![c] = [@ EXCEPT
                           !.state = IF conn[c].state = "kConnected"
                                     THEN "kDisconnected" ELSE conn[c].state,
                           !.watched = FALSE, !.gone = TRUE]]
<1>1. conn \in ConnType
  BY DEF TypeOK, ConnType
<1>2. ASSUME NEW c \in Conns
      PROVE  conn[c] \in [loop : Loops, state : States, watched : BOOLEAN,
                          gone : BOOLEAN]
  BY <1>1 DEF ConnType
<1>3. ASSUME NEW c \in Conns, Shutdown(c) \/ ShutdownStore(c)
      PROVE  conn' = [conn EXCEPT ![c] = [@ EXCEPT
                        !.state = "kDisconnecting", !.watched = conn[c].watched,
                        !.gone = conn[c].gone]]
  BY <1>1, <1>2, <1>3 DEF Shutdown, ShutdownStore, ConnType
<1>4. ASSUME NEW c \in Conns, HandleClose(c)
      PROVE  conn' = [conn EXCEPT ![c] = [@ EXCEPT
                        !.state = "kDisconnected", !.watched = FALSE,
                        !.gone = conn[c].gone]]
  BY <1>1, <1>2, <1>4 DEF HandleClose, ConnType
<1>5. ASSUME NEW l \in IoLoops, NEW c \in Conns, RunConnectEstablished(l),
             c = Head(queue[l]).conn
      PROVE  conn' = [conn EXCEPT ![c] = [@ EXCEPT
                        !.state = "kConnected", !.watched = TRUE,
                        !.gone = conn[c].gone]]
  BY <1>1, <1>2, <1>5 DEF RunConnectEstablished, ConnType
<1>6. ASSUME NEW l \in IoLoops, NEW c \in Conns, RunConnectDestroyed(l),
             c = Head(queue[l]).conn
      PROVE  conn' = [conn EXCEPT ![c] = [@ EXCEPT
                        !.state = IF conn[c].state = "kConnected"
                                  THEN "kDisconnected" ELSE conn[c].state,
                        !.watched = FALSE, !.gone = TRUE]]
  BY <1>6 DEF RunConnectDestroyed
<1>. QED
  BY <1>3, <1>4, <1>5, <1>6

(* Every step preserves the types of the variables.                        *)
LEMMA TypeStep == TypeOK /\ [Next]_vars => TypeOK'
<1> SUFFICES ASSUME TypeOK, [Next]_vars PROVE TypeOK'
  OBVIOUS
<1> USE DEF pool, clients, users
<1>1. ASSUME NEW t \in Starters, Start(t) PROVE TypeOK'
  BY <1>1 DEF TypeOK, Start
<1>2. ASSUME NEW t \in Starters, PoolStart(t) PROVE TypeOK'
  <2>1. loops + 1 \in 0..MaxThreads
    BY <1>2 DEF TypeOK, PoolStart
  <2>. QED
    BY <1>2, <2>1 DEF TypeOK, PoolStart
<1>3. ASSUME NEW t \in Starters, StartListen(t) PROVE TypeOK'
  <2>1. queue' \in [Loops -> Seq(Functor)]
    <3>1. CASE t = BaseThread
      BY <1>3, <3>1 DEF StartListen, TypeOK
    <3>2. CASE t # BaseThread
      BY <1>3, <3>2, QueueTyped, LoopNumbers, Functors
         DEF StartListen, Listening
    <3>. QED
      BY <3>1, <3>2
  <2>. QED
    BY <1>3, <2>1 DEF TypeOK, StartListen
<1>4. CASE BaseLoops \/ BaseEnds \/ ClientConnects
  <2>1. CASE BaseLoops
    BY <2>1 DEF TypeOK, BaseLoops
  <2>2. CASE BaseEnds
    BY <2>2 DEF TypeOK, BaseEnds
  <2>3. CASE ClientConnects
    BY <2>3 DEF TypeOK, ClientConnects
  <2>. QED
    BY <1>4, <2>1, <2>2, <2>3
<1>5. ASSUME NEW c \in Conns, Shutdown(c) \/ ShutdownStore(c) PROVE TypeOK'
  <2>1. conn' \in ConnType
    <3>1. /\ conn \in ConnType /\ conn[c].watched \in BOOLEAN
          /\ conn[c].gone \in BOOLEAN /\ "kDisconnecting" \in States
      BY DEF TypeOK, States, ConnType
    <3>2. conn' = [conn EXCEPT ![c] = [@ EXCEPT
                     !.state = "kDisconnecting", !.watched = conn[c].watched,
                     !.gone = conn[c].gone]]
      BY <1>5, Changed
    <3>. QED
      BY <3>1, <3>2, ConnTyped
  <2>2. storing' \in SUBSET Conns
    BY <1>5 DEF TypeOK, Shutdown, ShutdownStore
  <2>. QED
    BY <1>5, <2>1, <2>2 DEF TypeOK, Shutdown, ShutdownStore, ConnType
<1>20. ASSUME NEW c \in Conns, ShutdownTest(c) PROVE TypeOK'
  BY <1>20 DEF TypeOK, ShutdownTest
<1>21. ASSUME NEW l \in IoLoops, EnterLoop(l) PROVE TypeOK'
  <2>1. running' \in [Loops -> {"no", "born", "yes", "quit", "ended", "late",
                                "deaf"}]
    <3>1. (IF running[l] = "born" THEN "yes" ELSE "deaf") \in {"yes", "deaf"}
      OBVIOUS
    <3>. QED
      BY <1>21, <3>1 DEF TypeOK, EnterLoop
  <2>. QED
    BY <1>21, <2>1 DEF TypeOK, EnterLoop
<1>6. ASSUME NEW c \in Conns, HandleClose(c) PROVE TypeOK'
  <2>1. conn' \in ConnType
    <3>1. /\ conn \in ConnType /\ conn[c].gone \in BOOLEAN
          /\ "kDisconnected" \in States
      BY DEF TypeOK, States, ConnType
    <3>2. conn' = [conn EXCEPT ![c] = [@ EXCEPT
                     !.state = "kDisconnected", !.watched = FALSE,
                     !.gone = conn[c].gone]]
      BY <1>6, Changed
    <3>. QED
      BY <3>1, <3>2, ConnTyped
  <2>2. closing' \in [Loops -> Conns \cup {0}]
    BY <1>6 DEF TypeOK, HandleClose
  <2>3. heard' \in [Conns -> Seq({"UP", "DOWN"})]
    BY <1>6, HeardTyped DEF HandleClose
  <2>. QED
    BY <1>6, <2>1, <2>2, <2>3 DEF TypeOK, HandleClose, ConnType
<1>7. ASSUME NEW l \in IoLoops, RemoveConnection(l) PROVE TypeOK'
  <2>1. closing[l] \in Conns
    BY <1>7, LoopNumbers DEF RemoveConnection, TypeOK
  <2>2. queue' \in [Loops -> Seq(Functor)]
    <3>1. Bind("removeConnectionInLoop", closing[l]) \in Functor
      BY <2>1, Functors DEF Remove
    <3>. QED
      BY <1>7, <3>1, QueueTyped, LoopNumbers DEF RemoveConnection
  <2>. QED
    BY <1>7, <2>2 DEF TypeOK, RemoveConnection
<1>8. ASSUME NEW l \in IoLoops, RunConnectEstablished(l) PROVE TypeOK'
  <2>1. queue' \in [Loops -> Seq(Functor)]
    BY <1>8, PopTyped, LoopNumbers DEF RunConnectEstablished
  <2>. PICK c \in Conns : c = Head(queue[l]).conn
    BY <1>8, HeadTaken, LoopNumbers DEF RunConnectEstablished
  <2>2. conn' \in ConnType
    <3>1. /\ conn \in ConnType /\ conn[c].gone \in BOOLEAN
          /\ "kConnected" \in States
      BY DEF TypeOK, States, ConnType
    <3>2. conn' = [conn EXCEPT ![c] = [@ EXCEPT
                     !.state = "kConnected", !.watched = TRUE,
                     !.gone = conn[c].gone]]
      BY <1>8, Changed
    <3>. QED
      BY <3>1, <3>2, ConnTyped
  <2>3. heard' \in [Conns -> Seq({"UP", "DOWN"})]
    <3>1. Report(c, "UP")
      BY <1>8 DEF RunConnectEstablished
    <3>. QED
      BY <3>1, HeardTyped
  <2>. QED
    BY <1>8, <2>1, <2>2, <2>3 DEF TypeOK, RunConnectEstablished, Take, ConnType
<1>9. ASSUME NEW l \in IoLoops, RunConnectDestroyed(l) PROVE TypeOK'
  <2>1. queue' \in [Loops -> Seq(Functor)]
    BY <1>9, PopTyped, LoopNumbers DEF RunConnectDestroyed
  <2>. PICK c \in Conns : c = Head(queue[l]).conn
    BY <1>9, HeadTaken, LoopNumbers DEF RunConnectDestroyed
  <2>2. conn' \in ConnType
    <3>1. /\ conn \in ConnType
          /\ (IF conn[c].state = "kConnected" THEN "kDisconnected"
                                              ELSE conn[c].state) \in States
      BY DEF TypeOK, States, ConnType
    <3>2. conn' = [conn EXCEPT ![c] = [@ EXCEPT
                     !.state = IF conn[c].state = "kConnected"
                               THEN "kDisconnected" ELSE conn[c].state,
                     !.watched = FALSE, !.gone = TRUE]]
      BY <1>9, Changed
    <3>. QED
      BY <3>1, <3>2, ConnTyped
  <2>3. heard' \in [Conns -> Seq({"UP", "DOWN"})]
    <3>1. Report(c, "DOWN") \/ UNCHANGED heard
      BY <1>9 DEF RunConnectDestroyed
    <3>2. CASE Report(c, "DOWN")
      BY <3>2, HeardTyped
    <3>3. CASE UNCHANGED heard
      BY <3>3 DEF TypeOK
    <3>. QED
      BY <3>1, <3>2, <3>3
  <2>. QED
    BY <1>9, <2>1, <2>2, <2>3 DEF TypeOK, RunConnectDestroyed, Take, ConnType
<1>10. ASSUME NEW l \in IoLoops, LoopEnds(l) PROVE TypeOK'
  <2>1. <<>> \in Seq(Functor)
    OBVIOUS
  <2>. QED
    BY <1>10, <2>1 DEF TypeOK, LoopEnds
<1>11. CASE Accept
  <2>1. CASE loops = 0
    BY <1>11, <2>1 DEF TypeOK, Accept
  <2>2. ASSUME NEW l \in 1..loops, NewConnection(l) PROVE TypeOK'
    <3>1. nextConnId \in Conns /\ l \in IoLoops
      BY <1>11, <2>2 DEF TypeOK, Accept, Backlog, Conns, IoLoops
    <3>2. queue' \in [Loops -> Seq(Functor)]
      <4>1. Bind("connectEstablished", nextConnId) \in Functor
        BY <3>1, Functors DEF Establish
      <4>. QED
        BY <2>2, <3>1, <4>1, QueueTyped, LoopNumbers DEF NewConnection
    <3>3. conn' \in ConnType
      <4>1. conn' = [conn EXCEPT ![nextConnId].loop = l,
                                 ![nextConnId].state = "kConnecting"]
        BY <2>2 DEF NewConnection
      <4>2. conn \in ConnType
        BY DEF TypeOK, ConnType
      <4>3. l \in Loops /\ "kConnecting" \in States
        BY <3>1, LoopNumbers DEF States
      <4>. QED
        BY <4>1, <4>2, <4>3 DEF ConnType
    <3>4. nextConnId' \in 1..(MaxConns + 1) /\ connections' \in SUBSET Conns
      <4>1. nextConnId' = nextConnId + 1
            /\ connections' = connections \cup {nextConnId}
        BY <2>2 DEF NewConnection
      <4>2. connections \in SUBSET Conns
        BY DEF TypeOK
      <4>. QED
        BY <3>1, <4>1, <4>2 DEF Conns
    <3>. QED
      BY <1>11, <2>2, <3>2, <3>3, <3>4
         DEF TypeOK, Accept, NewConnection, ConnType
  <2>. QED
    BY <1>11, <2>1, <2>2 DEF Accept
<1>12. CASE RunListen
  <2>1. queue' \in [Loops -> Seq(Functor)]
    BY <1>12, PopTyped, LoopNumbers DEF RunListen
  <2>. QED
    BY <1>12, <2>1 DEF TypeOK, RunListen, Take
<1>13. CASE RunRemoveConnectionInLoop
  <2>. DEFINE c == Head(queue[Base]).conn
              popped == [queue EXCEPT ![Base] = Tail(@)]
  <2>1. c \in Conns /\ Tail(queue[Base]) \in Seq(Functor)
    <3>1. Base \in Loops /\ Take(Base, "removeConnectionInLoop")
      BY <1>13, LoopNumbers DEF RunRemoveConnectionInLoop
    <3>. QED
      BY <3>1, HeadTaken
  <2>2. popped \in [Loops -> Seq(Functor)]
    BY <2>1 DEF TypeOK
  <2>3. conn[c].loop \in Loops /\ Bind("connectDestroyed", c) \in Functor
    BY <2>1, Functors DEF TypeOK, Undo
  <2>4. Append(popped[conn[c].loop], Bind("connectDestroyed", c)) \in Seq(Functor)
    BY <2>2, <2>3
  <2>5. queue' = [popped EXCEPT ![conn[c].loop] =
                    Append(@, Bind("connectDestroyed", c))]
    BY <1>13 DEF RunRemoveConnectionInLoop, Pop
  <2>6. queue' \in [Loops -> Seq(Functor)]
    <3>. HIDE DEF popped, c
    <3>. QED
      BY <2>2, <2>4, <2>5
  <2>. QED
    BY <1>13, <2>6 DEF TypeOK, RunRemoveConnectionInLoop, Take
<1>14. CASE Destroy
  BY <1>14 DEF TypeOK, Destroy
<1>15. ASSUME NEW c \in Conns, DestroyConnection(c) PROVE TypeOK'
  <2>1. queue' \in [Loops -> Seq(Functor)]
    <3>1. conn[c].loop \in Loops /\ Bind("connectDestroyed", c) \in Functor
      BY Functors DEF TypeOK, Undo
    <3>. QED
      BY <1>15, <3>1, QueueTyped DEF DestroyConnection
  <2>. QED
    BY <1>15, <2>1 DEF TypeOK, DestroyConnection
<1>16. ASSUME NEW l \in IoLoops, QuitLoop(l) PROVE TypeOK'
  <2>1. running' \in [Loops -> {"no", "born", "yes", "quit", "ended", "late",
                                "deaf"}]
    <3>1. (IF running[l] = "born" THEN "late" ELSE "quit") \in {"late", "quit"}
      OBVIOUS
    <3>. QED
      BY <1>16, <3>1 DEF TypeOK, QuitLoop
  <2>. QED
    BY <1>16, <2>1 DEF TypeOK, QuitLoop
<1>17. CASE DestroyAcceptor
  BY <1>17 DEF TypeOK, DestroyAcceptor
<1>18. CASE DestroyBaseLoop
  <2>1. <<>> \in Seq(Functor)
    OBVIOUS
  <2>. QED
    BY <1>18, <2>1 DEF TypeOK, DestroyBaseLoop
<1>19. CASE UNCHANGED vars
  BY <1>19 DEF TypeOK, vars
<1>. QED
  BY <1>1, <1>2, <1>3, <1>4, <1>5, <1>6, <1>7, <1>8, <1>9, <1>10, <1>11,
     <1>12, <1>13, <1>14, <1>15, <1>16, <1>17, <1>18, <1>19, <1>20, <1>21
     DEF Next, StarterRuns, LoopRuns, BaseRuns, DestructorRuns

(* The initial state is well typed.                                        *)
LEMMA TypeInit == Init => TypeOK
<1> SUFFICES ASSUME Init PROVE TypeOK
  OBVIOUS
<1>1. queue \in [Loops -> Seq(Functor)]
  <2>1. <<>> \in Seq(Functor)
    OBVIOUS
  <2>. QED
    BY <2>1 DEF Init
<1>2. conn \in ConnType
  BY LoopNumbers DEF Init, States, ConnType
<1>3. /\ tpc \in [Starters -> {"idle", "pool", "done"}]
      /\ running \in [Loops -> {"no", "born", "yes", "quit", "ended", "late",
                                "deaf"}]
      /\ closing \in [Loops -> Conns \cup {0}]
  BY DEF Init
<1>4. heard \in [Conns -> Seq({"UP", "DOWN"})] /\ storing \in SUBSET Conns
  <2>1. <<>> \in Seq({"UP", "DOWN"})
    OBVIOUS
  <2>. QED
    BY <2>1 DEF Init
<1>. QED
  <2>1. /\ numThreads \in ThreadNums /\ started \in Nat
        /\ loops \in 0..MaxThreads /\ arrived \in 0..MaxConns
        /\ nextConnId \in 1..(MaxConns + 1) /\ connections \in SUBSET Conns
    BY DEF Init
  <2>2. /\ listening \in BOOLEAN /\ crashed \in BOOLEAN
        /\ phase \in {"alive", "connections", "pool", "gone", "end"}
    BY DEF Init
  <2>. QED
    BY <1>1, <1>2, <1>3, <1>4, <2>1, <2>2 DEF TypeOK, ConnType

(* The variables of the server, its pool and its loops keep their types.   *)
THEOREM TypeCorrect == SafeSpec => []TypeOK
BY TypeInit, TypeStep, PTL DEF SafeSpec

-----------------------------------------------------------------------------
(* The order in which the destructor takes the server apart: it starts     *)
(* after the base loop and the starters, tells a loop to quit only then,   *)
(* and frees the acceptor when the loops of the pool have ended, which a   *)
(* loop that forgot its quit never does; a loop does not end in the middle *)
(* of a handleClose.                                                       *)
StopInv ==
  /\ \A l \in IoLoops : closing[l] # 0 => InLoop(l)
  /\ \A l \in IoLoops : running[l] # "no" => l <= loops
  /\ \A l \in IoLoops : running[l] = "quit" => phase # "alive"
  /\ phase # "alive" => running[Base] = "ended"
                        /\ \A t \in Starters : tpc[t] # "pool"
  /\ phase \in {"gone", "end"} => \A l \in 1..loops : running[l] = "ended"

(* Every step keeps that order.                                            *)
LEMMA StopStep == TypeOK /\ StopInv /\ [Next]_vars => StopInv'
<1> SUFFICES ASSUME TypeOK, StopInv, [Next]_vars PROVE StopInv'
  OBVIOUS
<1> USE DEF StopInv, InLoop, pool, clients, users
<1>1. ASSUME NEW t \in Starters, Start(t) PROVE StopInv'
  BY <1>1 DEF TypeOK, Start
<1>2. ASSUME NEW t \in Starters, PoolStart(t) PROVE StopInv'
  <2>1. phase = "alive" /\ loops' = loops + 1 /\ loops + 1 \in IoLoops
    BY <1>2 DEF TypeOK, PoolStart, IoLoops
  <2>2. \A l \in IoLoops : l # loops + 1 => running'[l] = running[l]
    BY <1>2 DEF TypeOK, PoolStart
  <2>3. running'[loops + 1] = "born" /\ UNCHANGED <<closing, phase>>
    BY <1>2, <2>1, LoopNumbers DEF TypeOK, PoolStart
  <2>4. ASSUME NEW l \in IoLoops
        PROVE  /\ closing'[l] # 0 => InLoop(l)'
               /\ running'[l] # "no" => l <= loops'
               /\ running'[l] # "quit"
    <3>1. CASE l = loops + 1
      <4>1. ~(l <= loops) /\ loops \in Nat
        BY <3>1 DEF TypeOK
      <4>2. running[l] = "no" /\ closing[l] = 0
        BY <4>1
      <4>. QED
        BY <2>1, <2>3, <3>1, <4>1, <4>2
    <3>2. CASE l # loops + 1
      <4>1. running'[l] = running[l] /\ running[l] # "quit"
        BY <2>1, <2>2, <3>2
      <4>2. l \in Nat /\ loops \in Nat
        BY LoopNumbers DEF TypeOK
      <4>. QED
        BY <2>1, <2>3, <4>1, <4>2
    <3>. QED
      BY <3>1, <3>2
  <2>. QED
    BY <2>1, <2>3, <2>4
<1>3. ASSUME NEW t \in Starters, StartListen(t) PROVE StopInv'
  BY <1>3 DEF TypeOK, StartListen
<1>4. CASE BaseLoops
  BY <1>4, LoopNumbers DEF TypeOK, BaseLoops, IoLoops, Base
<1>5. CASE BaseEnds
  BY <1>5, LoopNumbers DEF TypeOK, BaseEnds, IoLoops, Base
<1>6. ASSUME NEW c \in Conns, HandleClose(c) PROVE StopInv'
  BY <1>6 DEF TypeOK, HandleClose, Serves
<1>7. ASSUME NEW l \in IoLoops, RemoveConnection(l) PROVE StopInv'
  BY <1>7 DEF TypeOK, RemoveConnection
<1>8. ASSUME NEW l \in IoLoops, LoopEnds(l) PROVE StopInv'
  BY <1>8, LoopNumbers DEF TypeOK, LoopEnds
<1>9. CASE Accept
  BY <1>9 DEF Accept
<1>10. CASE Destroy
  BY <1>10 DEF Destroy
<1>11. ASSUME NEW l \in IoLoops, QuitLoop(l) PROVE StopInv'
  BY <1>11, LoopNumbers DEF TypeOK, QuitLoop
<1>12. CASE DestroyAcceptor
  BY <1>12 DEF DestroyAcceptor
<1>13. CASE DestroyBaseLoop
  BY <1>13 DEF DestroyBaseLoop
<1>14. ASSUME NEW c \in Conns,
              \/ Shutdown(c) \/ ShutdownTest(c) \/ ShutdownStore(c)
              \/ DestroyConnection(c)
       PROVE  StopInv'
  BY <1>14 DEF Shutdown, ShutdownTest, ShutdownStore, DestroyConnection
<1>18. ASSUME NEW l \in IoLoops, EnterLoop(l) PROVE StopInv'
  BY <1>18, LoopNumbers DEF TypeOK, EnterLoop
<1>15. ASSUME NEW l \in IoLoops,
              RunConnectEstablished(l) \/ RunConnectDestroyed(l)
       PROVE  StopInv'
  BY <1>15 DEF RunConnectEstablished, RunConnectDestroyed, Take
<1>16. CASE RunListen \/ RunRemoveConnectionInLoop
  BY <1>16 DEF RunListen, RunRemoveConnectionInLoop, Take
<1>17. CASE ClientConnects \/ UNCHANGED vars
  BY <1>17 DEF ClientConnects, vars
<1>. QED
  BY <1>1, <1>2, <1>3, <1>4, <1>5, <1>6, <1>7, <1>8, <1>9, <1>10, <1>11,
     <1>12, <1>13, <1>14, <1>15, <1>16, <1>17, <1>18
     DEF Next, StarterRuns, LoopRuns, BaseRuns, DestructorRuns

(* The server is taken apart in this order from every initial state.       *)
THEOREM StopsInOrder == SafeSpec => []StopInv
<1>1. Init => StopInv
  BY LoopNumbers DEF Init, StopInv
<1>. QED
  BY <1>1, TypeCorrect, StopStep, PTL DEF SafeSpec

(* No I/O loop is between the user's callback and removeConnection, which  *)
(* uses the bare server, when the server is gone.                          *)
THEOREM ServerOutlives == SafeSpec => []ServerOutlivesCallbacks
<1>1. TypeOK /\ StopInv => ServerOutlivesCallbacks
  <2>1. ASSUME TypeOK, StopInv, NEW l \in IoLoops, closing[l] # 0,
               phase \in {"gone", "end"}
        PROVE  FALSE
    <3>1. running[l] \in {"yes", "quit", "deaf"} /\ l <= loops
      BY <2>1 DEF StopInv, InLoop
    <3>2. l \in 1..loops
      BY <2>1, <3>1 DEF IoLoops, TypeOK
    <3>. QED
      BY <2>1, <3>1, <3>2 DEF StopInv
  <2>. QED
    BY <2>1 DEF ServerOutlivesCallbacks
<1>. QED
  BY <1>1, TypeCorrect, StopsInOrder, PTL

-----------------------------------------------------------------------------
(* How a functor counts in a queue is a number.                            *)
LEMMA TimesInQueue ==
  ASSUME TypeOK, NEW l \in Loops, NEW f
  PROVE  /\ queue[l] \in Seq(Functor)
         /\ Times(f, queue[l]) \in Nat
BY TimesType DEF TypeOK

(* One functor more in one queue.                                          *)
LEMMA TimesQueued ==
  ASSUME TypeOK, NEW l \in Loops, NEW g \in Functor, Queue(l, g),
         NEW k \in Loops, NEW f
  PROVE  /\ (k = l /\ g = f) => Times(f, queue'[k]) = Times(f, queue[k]) + 1
         /\ (k # l \/ g # f) => Times(f, queue'[k]) = Times(f, queue[k])
<1>1. queue[l] \in Seq(Functor)
  BY DEF TypeOK
<1>2. Times(f, Append(queue[l], g)) =
        Times(f, queue[l]) + (IF g = f THEN 1 ELSE 0)
  BY <1>1, TimesAppend
<1>3. CASE k = l
  <2>1. queue'[k] = Append(queue[l], g)
    BY <1>3 DEF Queue, TypeOK
  <2>2. Times(f, queue[l]) \in Nat
    BY TimesInQueue
  <2>. QED
    BY <1>2, <1>3, <2>1, <2>2
<1>4. CASE k # l
  <2>1. queue'[k] = queue[k]
    BY <1>4 DEF Queue, TypeOK
  <2>. QED
    BY <1>4, <2>1
<1>. QED
  BY <1>3, <1>4

(* The head of one queue less.                                             *)
LEMMA TimesPopped ==
  ASSUME TypeOK, NEW l \in Loops, queue[l] # <<>>, Pop(l),
         NEW k \in Loops, NEW f
  PROVE  /\ (k = l /\ Head(queue[l]) = f) =>
              Times(f, queue'[k]) = Times(f, queue[k]) - 1
         /\ (k # l \/ Head(queue[l]) # f) =>
              Times(f, queue'[k]) = Times(f, queue[k])
<1>1. queue[l] \in Seq(Functor)
  BY DEF TypeOK
<1>2. Times(f, Tail(queue[l])) =
        Times(f, queue[l]) - (IF Head(queue[l]) = f THEN 1 ELSE 0)
  BY <1>1, TimesTail
<1>3. CASE k = l
  <2>1. queue'[k] = Tail(queue[l])
    BY <1>3 DEF Pop, TypeOK
  <2>2. Times(f, queue[l]) \in Nat
    BY TimesInQueue
  <2>. QED
    BY <1>2, <1>3, <2>1, <2>2
<1>4. CASE k # l
  <2>1. queue'[k] = queue[k]
    BY <1>4 DEF Pop, TypeOK
  <2>. QED
    BY <1>4, <2>1
<1>. QED
  BY <1>3, <1>4

(* A queue that is emptied holds nothing, the others what they held.       *)
LEMMA TimesDropped ==
  ASSUME TypeOK, NEW l \in Loops, queue' = [queue EXCEPT ![l] = <<>>],
         NEW k \in Loops, NEW f
  PROVE  Times(f, queue'[k]) = IF k = l THEN 0 ELSE Times(f, queue[k])
BY TimesEmpty DEF TypeOK

(* The head of a queue is in it.                                           *)
LEMMA HeadCounts ==
  ASSUME NEW l \in Loops, queue[l] \in Seq(Functor), queue[l] # <<>>
  PROVE  Times(Head(queue[l]), queue[l]) > 0
<1>1. Len(queue[l]) \in Nat \ {0} /\ Head(queue[l]) = queue[l][1]
  BY HeadTailProperties, EmptySeq
<1>2. In(Head(queue[l]), queue[l])
  BY <1>1 DEF In
<1>. QED
  BY <1>2, TimesType

-----------------------------------------------------------------------------
(* The removal of a connection is on its way from its loop to the base     *)
(* loop.                                                                   *)
Leaving(c) ==
  closing[conn[c].loop] = c \/ Times(Remove(c), queue[Base]) > 0

(* The callback was told all there is to tell.                             *)
Down(c) == Built(c) /\ heard[c] = <<"UP", "DOWN">>

(* The three things it can have been told.                                 *)
LEMMA TalesDiffer ==
  /\ <<>> # <<"UP">> /\ <<>> # <<"UP", "DOWN">>
  /\ <<"UP">> # <<"UP", "DOWN">>
OBVIOUS

(* The callback is told one thing after the other.                         *)
LEMMA TaleGrows ==
  /\ Append(<<>>, "UP") = <<"UP">>
  /\ Append(<<"UP">>, "DOWN") = <<"UP", "DOWN">>
<1>. DEFINE T == {"UP", "DOWN"}
<1>1. /\ <<>> \in Seq(T) /\ Len(<<>>) = 0
      /\ <<"UP">> \in Seq(T) /\ Len(<<"UP">>) = 1 /\ <<"UP">>[1] = "UP"
      /\ <<"UP", "DOWN">> \in Seq(T) /\ Len(<<"UP", "DOWN">>) = 2
      /\ <<"UP", "DOWN">>[1] = "UP" /\ <<"UP", "DOWN">>[2] = "DOWN"
      /\ "UP" \in T /\ "DOWN" \in T
  OBVIOUS
<1>. HIDE DEF T
<1>2. Append(<<>>, "UP") = <<"UP">>
  <2>1. /\ Append(<<>>, "UP") \in Seq(T) /\ Len(Append(<<>>, "UP")) = 1
        /\ Append(<<>>, "UP")[1] = "UP"
    BY <1>1, AppendProperties
  <2>. QED
    BY <1>1, <2>1, SeqEqual
<1>3. Append(<<"UP">>, "DOWN") = <<"UP", "DOWN">>
  <2>1. PICK s \in Seq(T) : s = <<"UP">>
    BY <1>1
  <2>2. /\ Append(s, "DOWN") \in Seq(T) /\ Len(Append(s, "DOWN")) = 2
        /\ Append(s, "DOWN")[1] = "UP" /\ Append(s, "DOWN")[2] = "DOWN"
    BY <1>1, <2>1, AppendProperties
  <2>3. PICK t \in Seq(T) : t = <<"UP", "DOWN">>
    BY <1>1
  <2>4. Append(s, "DOWN") = t
    <3>1. Len(t) = 2 /\ t[1] = "UP" /\ t[2] = "DOWN"
      BY <1>1, <2>3
    <3>. QED
      BY <2>2, <3>1, SeqEqual
  <2>. QED
    BY <2>1, <2>3, <2>4
<1>. QED
  BY <1>2, <1>3

(* What the callback of a connection was told, and what state_ and the     *)
(* channel say of it: the handleClose of an enabled channel and the        *)
(* connectDestroyed of a kConnected connection come before the first DOWN, *)
(* even when another thread stores kDisconnecting over kDisconnected.      *)
Told(c) ==
  /\ heard[c] \in {<<>>, <<"UP">>, <<"UP", "DOWN">>}
  /\ heard[c] = <<>> <=> conn[c].state \in {"none", "kConnecting"}
  /\ conn[c].state = "kConnected" => heard[c] = <<"UP">>
  /\ conn[c].watched => heard[c] = <<"UP">> /\ ~conn[c].gone
  /\ c \in storing => heard[c] # <<>>

ToldInv == \A c \in Conns : Told(c)

(* A connection that the map never had is not built; one that is built     *)
(* lives in a loop of the pool, where its functors go.                     *)
Homed(c) ==
  /\ c >= nextConnId => ~Built(c)
  /\ ~Built(c) => ~conn[c].gone /\ c \notin connections
  /\ Built(c) => conn[c].loop \in 1..loops
  /\ \A l \in Loops :
       Times(Establish(c), queue[l]) > 0 =>
         /\ l = conn[c].loop
         /\ conn[c].state = "kConnecting"
         /\ Times(Establish(c), queue[l]) = 1
  /\ \A l \in Loops :
       Times(Undo(c), queue[l]) > 0 => Built(c) /\ l = conn[c].loop

(* It is on its way to the base loop at most once, and only after its DOWN;*)
(* while the server lives it is in the map until it gets there.            *)
LeavesOnce(c) ==
  /\ \A l \in Loops :
       closing[l] = c => /\ l = conn[c].loop
                         /\ Down(c)
                         /\ Times(Remove(c), queue[Base]) = 0
  /\ Times(Remove(c), queue[Base]) <= 1
  /\ Times(Remove(c), queue[Base]) > 0 => Down(c)
  /\ (Leaving(c) /\ phase = "alive") => c \in connections
  /\ (Built(c) /\ phase = "alive" /\ c \notin connections) =>
       Down(c)

(* TakenApartOnce of one connection.                                       *)
Apart(c) ==
  (Built(c) /\ running[conn[c].loop] # "ended") =>
    Times(Undo(c), queue[conn[c].loop])
      + (IF c \in connections THEN 1 ELSE 0)
      + (IF conn[c].gone THEN 1 ELSE 0) = 1

(* The inductive invariant behind TakenApartOnce.                          *)
ConnInv == \A c \in Conns : Homed(c) /\ LeavesOnce(c) /\ Apart(c)

(* What is in connections_ was built, and what is in handleClose as well.  *)
LEMMA KnownIsBuilt ==
  ASSUME TypeOK, NEW c \in Conns, Homed(c), LeavesOnce(c),
         \/ c \in connections
         \/ \E l \in Loops : closing[l] = c
         \/ Times(Remove(c), queue[Base]) > 0
         \/ \E l \in Loops : Times(Establish(c), queue[l]) > 0
         \/ \E l \in Loops : Times(Undo(c), queue[l]) > 0
  PROVE  Built(c) /\ conn[c].loop \in IoLoops /\ conn[c].loop # Base
<1>1. Built(c)
  BY DEF Homed, LeavesOnce, Down, Built
<1>2. conn[c].loop \in 1..loops /\ loops \in 0..MaxThreads
  BY <1>1 DEF Homed, TypeOK
<1>. QED
  BY <1>1, <1>2, LoopNumbers DEF IoLoops

(* A step that leaves a connection, its functors and its place in the map  *)
(* alone, that neither brings its loop nor the server back, and that takes *)
(* no loop out of the pool, keeps its invariant.                           *)
LEMMA LeftAlone ==
  ASSUME TypeOK, NEW c \in Conns, Homed(c), LeavesOnce(c), Apart(c),
         conn'[c] = conn[c], heard'[c] = heard[c],
         c \in connections' <=> c \in connections,
         \A l \in Loops : closing'[l] = c => closing[l] = c,
         \A l \in Loops :
           /\ Times(Establish(c), queue'[l]) = Times(Establish(c), queue[l])
           /\ Times(Undo(c), queue'[l]) = Times(Undo(c), queue[l]),
         Times(Remove(c), queue'[Base]) = Times(Remove(c), queue[Base]),
         c >= nextConnId' => c >= nextConnId,
         loops' \in Nat, loops' >= loops,
         phase' = "alive" => phase = "alive",
         running'[conn[c].loop] # "ended" => running[conn[c].loop] # "ended"
  PROVE  Homed(c)' /\ LeavesOnce(c)' /\ Apart(c)'
<1>1. conn[c].loop \in Loops /\ loops \in Nat
  BY DEF TypeOK
<1>2. Homed(c)'
  BY <1>1 DEF Homed, Built
<1>3. LeavesOnce(c)'
  BY <1>1 DEF LeavesOnce, Leaving, Down, Built
<1>4. Apart(c)'
  BY <1>1 DEF Apart, Built
<1>. QED
  BY <1>2, <1>3, <1>4

(* A step that leaves every queue, every connection and every handleClose  *)
(* alone, that neither brings a loop nor the server back, and that takes   *)
(* no loop out of the pool, keeps it for all of them.                      *)
LEMMA AllLeftAlone ==
  ASSUME TypeOK, ConnInv, UNCHANGED <<queue, connections, closing, nextConnId>>,
         \A c \in Conns : conn'[c] = conn[c] /\ heard'[c] = heard[c],
         loops' \in Nat, loops' >= loops,
         phase' = "alive" => phase = "alive",
         \A c \in Conns : (Built(c) /\ running'[conn[c].loop] # "ended") =>
                             running[conn[c].loop] # "ended"
  PROVE  ConnInv'
<1> SUFFICES ASSUME NEW c \in Conns
             PROVE  Homed(c)' /\ LeavesOnce(c)' /\ Apart(c)'
  BY DEF ConnInv
<1>1. Homed(c) /\ LeavesOnce(c) /\ Apart(c)
  BY DEF ConnInv
<1>2. conn[c].loop \in Loops /\ loops \in Nat
  BY DEF TypeOK
<1>3. Homed(c)'
  BY <1>1, <1>2 DEF Homed, Built
<1>4. LeavesOnce(c)'
  BY <1>1, <1>2 DEF LeavesOnce, Leaving, Down, Built
<1>5. Apart(c)'
  BY <1>1, <1>2 DEF Apart, Built
<1>. QED
  BY <1>3, <1>4, <1>5

(* A new loop in the pool is nobody's loop yet.                            *)
LEMMA ConnPoolStart ==
  ASSUME TypeOK, ConnInv, NEW t \in Starters, PoolStart(t)
  PROVE  ConnInv'
<1>1. loops \in Nat /\ loops' = loops + 1
  BY DEF PoolStart, TypeOK
<1>2. ASSUME NEW c \in Conns, Built(c)
      PROVE  running'[conn[c].loop] = running[conn[c].loop]
  <2>1. conn[c].loop \in 1..loops
    BY <1>2 DEF ConnInv, Homed
  <2>2. conn[c].loop \in Loops /\ conn[c].loop # loops + 1
    BY <1>1, <2>1 DEF TypeOK
  <2>. QED
    BY <2>2 DEF PoolStart, TypeOK
<1>. QED
  BY <1>1, <1>2, AllLeftAlone DEF PoolStart, clients, users

(* What the functors of a queue other than those of connection c do to the *)
(* queues leaves c alone.                                                  *)
LEMMA OthersQueued ==
  ASSUME TypeOK, NEW l \in Loops, NEW f \in Functor, Queue(l, f),
         NEW c \in Conns, f.conn # c, NEW k \in Loops
  PROVE  /\ Times(Establish(c), queue'[k]) = Times(Establish(c), queue[k])
         /\ Times(Undo(c), queue'[k]) = Times(Undo(c), queue[k])
         /\ Times(Remove(c), queue'[k]) = Times(Remove(c), queue[k])
<1>1. f # Establish(c) /\ f # Remove(c) /\ f # Undo(c)
  BY FunctorsDiffer
<1>2. ASSUME NEW g, f # g
      PROVE  Times(g, queue'[k]) = Times(g, queue[k])
  BY <1>2, TimesQueued
<1>. QED
  BY <1>1, <1>2

(* The same of taking such a functor from a queue.                         *)
LEMMA OthersPopped ==
  ASSUME TypeOK, NEW l \in Loops, queue[l] # <<>>, Pop(l),
         NEW c \in Conns, Head(queue[l]).conn # c, NEW k \in Loops
  PROVE  /\ Times(Establish(c), queue'[k]) = Times(Establish(c), queue[k])
         /\ Times(Undo(c), queue'[k]) = Times(Undo(c), queue[k])
         /\ Times(Remove(c), queue'[k]) = Times(Remove(c), queue[k])
<1>1. /\ Head(queue[l]) # Establish(c)
      /\ Head(queue[l]) # Remove(c)
      /\ Head(queue[l]) # Undo(c)
  BY FunctorsDiffer
<1>2. ASSUME NEW g, Head(queue[l]) # g
      PROVE  Times(g, queue'[k]) = Times(g, queue[k])
  BY <1>2, TimesPopped
<1>. QED
  BY <1>1, <1>2

(* start() asks the base loop to listen, which is no functor of a          *)
(* connection.                                                             *)
LEMMA ConnStartListen ==
  ASSUME TypeOK, ConnInv, NEW t \in Starters, StartListen(t)
  PROVE  ConnInv'
<1>1. loops \in Nat /\ UNCHANGED <<loops, connections, closing, nextConnId,
                                   conn, heard, phase, running>>
  BY DEF StartListen, clients, users, TypeOK
<1>2. CASE t = BaseThread
  BY <1>1, <1>2, AllLeftAlone DEF StartListen
<1>3. CASE t # BaseThread
  <2>1. Queue(Base, Listening) /\ Base \in Loops /\ Listening \in Functor
    BY <1>3, LoopNumbers, Functors DEF StartListen, Listening
  <2> SUFFICES ASSUME NEW c \in Conns
               PROVE  Homed(c)' /\ LeavesOnce(c)' /\ Apart(c)'
    BY DEF ConnInv
  <2>2. Homed(c) /\ LeavesOnce(c) /\ Apart(c)
    BY DEF ConnInv
  <2>3. Listening.conn # c
    BY FunctorsDiffer, LoopNumbers
  <2>4. ASSUME NEW l \in Loops
        PROVE  /\ Times(Establish(c), queue'[l]) = Times(Establish(c), queue[l])
               /\ Times(Undo(c), queue'[l]) = Times(Undo(c), queue[l])
               /\ Times(Remove(c), queue'[l]) = Times(Remove(c), queue[l])
    BY <2>1, <2>3, OthersQueued
  <2>. QED
    BY <1>1, <2>1, <2>2, <2>4, LeftAlone
<1>. QED
  BY <1>2, <1>3

(* The steps of the base thread, of the starters and of the destructor     *)
(* that touch no connection.                                               *)
LEMMA ConnUntouched ==
  ASSUME TypeOK, StopInv, ConnInv,
         \/ \E t \in Starters : Start(t)
         \/ BaseLoops \/ BaseEnds \/ ClientConnects \/ Destroy
         \/ \E c \in Conns : ShutdownTest(c)
         \/ \E l \in IoLoops : QuitLoop(l) \/ EnterLoop(l)
         \/ DestroyAcceptor
         \/ UNCHANGED vars
  PROVE  ConnInv'
<1>1. loops \in Nat
  BY DEF TypeOK
<1>2. UNCHANGED <<queue, connections, closing, nextConnId, loops, conn, heard>>
  BY DEF Start, BaseLoops, BaseEnds, ClientConnects, Destroy, QuitLoop,
         EnterLoop, ShutdownTest, DestroyAcceptor, vars, pool, clients, users
<1>3. phase' = "alive" => phase = "alive"
  BY DEF Start, BaseLoops, BaseEnds, ClientConnects, Destroy, QuitLoop,
         EnterLoop, ShutdownTest, DestroyAcceptor, vars
<1>4. ASSUME NEW l \in Loops, running'[l] # "ended"
      PROVE  running[l] # "ended"
  <2>1. CASE \E k \in IoLoops : QuitLoop(k)
    BY <1>4, <2>1 DEF QuitLoop, TypeOK
  <2>5. CASE \E k \in IoLoops : EnterLoop(k)
    BY <1>4, <2>5 DEF EnterLoop, TypeOK
  <2>2. CASE BaseLoops
    BY <1>4, <2>2 DEF BaseLoops, TypeOK
  <2>3. CASE BaseEnds
    BY <1>4, <2>3 DEF BaseEnds, TypeOK
  <2>4. CASE UNCHANGED running
    BY <1>4, <2>4
  <2>. QED
    BY <2>1, <2>2, <2>3, <2>4, <2>5
       DEF Start, ClientConnects, ShutdownTest, Destroy, DestroyAcceptor, vars
<1>5. \A c \in Conns : conn[c].loop \in Loops
  BY DEF TypeOK
<1>. QED
  BY <1>1, <1>2, <1>3, <1>4, <1>5, AllLeftAlone

(* shutdown() stores kDisconnecting, whatever state_ was: no connection    *)
(* that is yet to be established is shut down.                             *)
LEMMA ConnShutdown ==
  ASSUME TypeOK, ConnInv, ToldInv, NEW d \in Conns,
         Shutdown(d) \/ ShutdownStore(d)
  PROVE  ConnInv'
<1> SUFFICES ASSUME NEW c \in Conns
             PROVE  Homed(c)' /\ LeavesOnce(c)' /\ Apart(c)'
  BY DEF ConnInv
<1>1. Homed(c) /\ LeavesOnce(c) /\ Apart(c) /\ Told(d)
  BY DEF ConnInv, ToldInv
<1>2. /\ UNCHANGED <<queue, connections, closing, nextConnId, loops, phase,
                     running, heard>>
      /\ loops \in Nat
  BY DEF Shutdown, ShutdownStore, TypeOK, pool, clients, users
<1>3. /\ conn'[d].loop = conn[d].loop /\ conn'[d].gone = conn[d].gone
      /\ conn'[d].state = "kDisconnecting"
      /\ c # d => conn'[c] = conn[c]
  <2>1. /\ conn \in ConnType /\ conn[d].watched \in BOOLEAN
        /\ conn[d].gone \in BOOLEAN /\ "kDisconnecting" \in States
    BY DEF TypeOK, States, ConnType
  <2>2. conn' = [conn EXCEPT ![d] = [@ EXCEPT
                   !.state = "kDisconnecting", !.watched = conn[d].watched,
                   !.gone = conn[d].gone]]
    BY Changed
  <2>. QED
    BY <2>1, <2>2, ConnTyped
<1>4. conn[d].state \notin {"none", "kConnecting"}
  <2>1. CASE Shutdown(d)
    BY <2>1 DEF Shutdown
  <2>2. CASE ShutdownStore(d)
    BY <1>1, <2>2 DEF ShutdownStore, Told
  <2>. QED
    BY <2>1, <2>2
<1>5. conn[c].loop \in Loops
  BY DEF TypeOK
<1>6. CASE c # d
  BY <1>1, <1>2, <1>3, <1>5, <1>6, LeftAlone
<1>7. CASE c = d
  <2>1. Built(c) /\ Built(c)'
    BY <1>3, <1>4, <1>7 DEF Built
  <2>2. Homed(c)'
    BY <1>1, <1>2, <1>3, <1>4, <1>7, <2>1 DEF Homed
  <2>3. LeavesOnce(c)'
    BY <1>1, <1>2, <1>3, <1>5, <1>7, <2>1 DEF LeavesOnce, Leaving, Down, Built
  <2>4. Apart(c)'
    BY <1>1, <1>2, <1>3, <1>5, <1>7, <2>1 DEF Apart
  <2>. QED
    BY <2>2, <2>3, <2>4
<1>. QED
  BY <1>6, <1>7

(* handleClose up to the DOWN callback: its channel was enabled, so nobody *)
(* had begun to remove it, and a server that lives has it in its map.      *)
LEMMA ConnHandleClose ==
  ASSUME TypeOK, ConnInv, ToldInv, NEW d \in Conns, HandleClose(d)
  PROVE  ConnInv'
<1> SUFFICES ASSUME NEW c \in Conns
             PROVE  Homed(c)' /\ LeavesOnce(c)' /\ Apart(c)'
  BY DEF ConnInv
<1>1. Homed(c) /\ LeavesOnce(c) /\ Apart(c) /\ Told(d)
  BY DEF ConnInv, ToldInv
<1>2. /\ UNCHANGED <<queue, connections, nextConnId, loops, phase, running>>
      /\ conn[d].watched /\ Built(d)
  BY DEF HandleClose, TypeOK, pool, clients
<1>9. /\ conn'[d].loop = conn[d].loop /\ conn'[d].gone = conn[d].gone
      /\ conn'[d].state = "kDisconnected"
      /\ c # d => conn'[c] = conn[c]
  <2>1. /\ conn \in ConnType /\ conn[d].gone \in BOOLEAN
        /\ "kDisconnected" \in States
    BY DEF TypeOK, States, ConnType
  <2>2. conn' = [conn EXCEPT ![d] = [@ EXCEPT
                   !.state = "kDisconnected", !.watched = FALSE,
                   !.gone = conn[d].gone]]
    BY Changed
  <2>. QED
    BY <2>1, <2>2, ConnTyped
<1>10. heard[d] = <<"UP">> /\ ~Down(d) /\ conn[d].state # "kConnecting"
  BY <1>1, <1>2, TalesDiffer DEF Told, Down
<1>11. /\ heard'[d] = <<"UP", "DOWN">>
       /\ c # d => heard'[c] = heard[c]
  <2>1. heard' = [heard EXCEPT ![d] = Append(heard[d], "DOWN")]
    BY DEF HandleClose, Report
  <2>2. Append(<<"UP">>, "DOWN") = <<"UP", "DOWN">>
    BY TaleGrows
  <2>. QED
    BY <1>10, <2>1, <2>2 DEF TypeOK
<1>3. conn[c].loop \in Loops /\ conn[d].loop \in Loops /\ loops \in Nat
  BY DEF TypeOK
<1>4. /\ closing'[conn[d].loop] = d
      /\ \A l \in Loops : l # conn[d].loop => closing'[l] = closing[l]
  BY <1>3 DEF HandleClose, TypeOK
<1>5. CASE c # d
  <2>1. \A l \in Loops : closing'[l] = c => closing[l] = c
    BY <1>4, <1>5
  <2>. QED
    BY <1>1, <1>2, <1>3, <1>5, <1>9, <1>11, <2>1, LeftAlone
<1>6. CASE c = d
  <2>1. /\ \A l \in Loops : closing[l] # c
        /\ ~(Times(Remove(c), queue[Base]) > 0)
        /\ Times(Remove(c), queue[Base]) \in Nat
    BY <1>1, <1>6, <1>10, TimesInQueue, LoopNumbers DEF LeavesOnce
  <2>2. \A l \in Loops : ~(Times(Establish(c), queue[l]) > 0)
    BY <1>1, <1>6, <1>10 DEF Homed
  <2>8. Built(c)'
    BY <1>6, <1>9 DEF Built
  <2>3. Homed(c)'
    BY <1>1, <1>2, <1>3, <1>6, <1>9, <2>2, <2>8 DEF Homed
  <2>4. phase = "alive" => c \in connections
    BY <1>1, <1>2, <1>6, <1>10 DEF LeavesOnce
  <2>7. Down(c)'
    BY <1>6, <1>11, <2>8 DEF Down
  <2>5. LeavesOnce(c)'
    BY <1>1, <1>2, <1>3, <1>4, <1>6, <1>9, <2>1, <2>4, <2>7, <2>8
       DEF LeavesOnce, Leaving
  <2>6. Apart(c)'
    BY <1>1, <1>2, <1>3, <1>6, <1>9, <2>8 DEF Apart
  <2>. QED
    BY <2>3, <2>5, <2>6
<1>. QED
  BY <1>5, <1>6

(* closeCallback_: the removal goes from the loop of the connection into   *)
(* the queue of the base loop.                                             *)
LEMMA ConnRemoveConnection ==
  ASSUME TypeOK, ConnInv, NEW l \in IoLoops, RemoveConnection(l)
  PROVE  ConnInv'
<1> SUFFICES ASSUME NEW c \in Conns
             PROVE  Homed(c)' /\ LeavesOnce(c)' /\ Apart(c)'
  BY DEF ConnInv
<1>. DEFINE d == closing[l]
<1>1. Homed(c) /\ LeavesOnce(c) /\ Apart(c)
  BY DEF ConnInv
<1>2. l \in Loops /\ Base \in Loops /\ l # Base
  BY LoopNumbers
<1>3. d \in Conns /\ Remove(d) \in Functor /\ Queue(Base, Remove(d))
  BY <1>2, Functors DEF RemoveConnection, TypeOK, Remove
<1>4. /\ UNCHANGED <<connections, conn, heard, nextConnId, loops, phase,
                     running>>
      /\ closing' = [closing EXCEPT ![l] = 0]
      /\ loops \in Nat
  BY DEF RemoveConnection, TypeOK, pool, clients, users
<1>5. conn[c].loop \in Loops
  BY DEF TypeOK
<1>6. /\ closing'[l] = 0
      /\ \A k \in Loops : k # l => closing'[k] = closing[k]
      /\ c # 0
  BY <1>2, <1>4, LoopNumbers DEF TypeOK
<1>7. CASE c # d
  <2>1. \A k \in Loops : closing'[k] = c => closing[k] = c
    BY <1>6
  <2>2. Remove(d).conn # c
    BY <1>7, FunctorsDiffer
  <2>3. ASSUME NEW k \in Loops
        PROVE  /\ Times(Establish(c), queue'[k]) = Times(Establish(c), queue[k])
               /\ Times(Undo(c), queue'[k]) = Times(Undo(c), queue[k])
               /\ Times(Remove(c), queue'[k]) = Times(Remove(c), queue[k])
    BY <1>2, <1>3, <2>2, OthersQueued
  <2>. HIDE DEF d
  <2>. QED
    BY <1>1, <1>2, <1>4, <2>1, <2>3, LeftAlone
<1>8. CASE c = d
  <2>1. Remove(d) # Establish(c) /\ Remove(d) # Undo(c) /\ Remove(d) = Remove(c)
    BY <1>8, FunctorsDiffer
  <2>2. /\ l = conn[c].loop /\ Down(c)
        /\ Times(Remove(c), queue[Base]) = 0
    BY <1>1, <1>2, <1>8 DEF LeavesOnce
  <2>3. \A k \in Loops : closing'[k] # c
    BY <1>1, <1>6, <2>2 DEF LeavesOnce
  <2>4. ASSUME NEW k \in Loops
        PROVE  /\ Times(Establish(c), queue'[k]) = Times(Establish(c), queue[k])
               /\ Times(Undo(c), queue'[k]) = Times(Undo(c), queue[k])
    BY <1>2, <1>3, <2>1, TimesQueued
  <2>5. Times(Remove(c), queue'[Base]) = 1
    BY <1>2, <1>3, <2>1, <2>2, TimesQueued
  <2>6. Homed(c)'
    BY <1>1, <1>4, <2>4 DEF Homed, Built
  <2>7. phase = "alive" => c \in connections
    BY <1>1, <1>8, <2>2 DEF LeavesOnce, Leaving, Down
  <2>8. LeavesOnce(c)'
    BY <1>1, <1>4, <2>2, <2>3, <2>5, <2>7 DEF LeavesOnce, Leaving, Down, Built
  <2>9. Apart(c)'
    BY <1>1, <1>4, <1>5, <2>4 DEF Apart, Built
  <2>. QED
    BY <2>6, <2>8, <2>9
<1>. QED
  BY <1>7, <1>8

(* A new connection: its number is new, so no functor, no map entry and no *)
(* loop speaks of it yet.                                                  *)
LEMMA ConnNew ==
  ASSUME TypeOK, ConnInv, Accept
  PROVE  ConnInv'
<1>1. CASE loops = 0
  <2>1. /\ UNCHANGED <<queue, connections, closing, nextConnId, loops, conn,
                       heard, phase, running>>
        /\ loops \in Nat
    BY <1>1 DEF Accept, pool, users, TypeOK
  <2>. QED
    BY <2>1, AllLeftAlone
<1>2. CASE loops # 0
  <2> SUFFICES ASSUME NEW c \in Conns
               PROVE  Homed(c)' /\ LeavesOnce(c)' /\ Apart(c)'
    BY DEF ConnInv
  <2>. DEFINE n == nextConnId
  <2>1. Homed(c) /\ LeavesOnce(c) /\ Apart(c)
    BY DEF ConnInv
  <2>2. PICK l \in 1..loops : NewConnection(l)
    BY <1>2 DEF Accept
  <2>3. /\ UNCHANGED <<closing, loops, phase, running, heard>>
        /\ loops \in Nat /\ Serves(Base)
    BY DEF Accept, pool, users, TypeOK
  <2>4. n \in Conns /\ l \in Loops /\ l \in IoLoops /\ Base \in Loops /\ l # Base
    BY <2>2, LoopNumbers DEF Accept, Backlog, Conns, IoLoops, TypeOK
  <2>5. Establish(n) \in Functor /\ Queue(l, Establish(n))
    BY <2>2, <2>4, Functors DEF NewConnection, Establish
  <2>6. /\ nextConnId' = n + 1 /\ connections' = connections \cup {n}
        /\ conn'[n].loop = l /\ conn'[n].state = "kConnecting"
        /\ conn'[n].gone = conn[n].gone
        /\ c # n => conn'[c] = conn[c]
        /\ n \in Nat /\ c \in Nat
    BY <2>2, <2>4, LoopNumbers DEF NewConnection, TypeOK
  <2>7. CASE c # n
    <3>1. Establish(n).conn # c
      BY <2>7, FunctorsDiffer
    <3>2. ASSUME NEW k \in Loops
          PROVE  /\ Times(Establish(c), queue'[k]) = Times(Establish(c), queue[k])
                 /\ Times(Undo(c), queue'[k]) = Times(Undo(c), queue[k])
                 /\ Times(Remove(c), queue'[k]) = Times(Remove(c), queue[k])
      BY <2>4, <2>5, <3>1, OthersQueued
    <3>3. c >= nextConnId' => c >= nextConnId
      BY <2>6
    <3>. HIDE DEF n
    <3>. QED
      BY <2>1, <2>3, <2>4, <2>6, <2>7, <3>2, <3>3, LeftAlone
  <2>8. CASE c = n
    <3>1. ~Built(c) /\ ~conn[c].gone /\ c \notin connections
      BY <2>1, <2>6, <2>8 DEF Homed
    <3>2. Establish(n) # Undo(c) /\ Establish(n) # Remove(c)
      BY FunctorsDiffer
    <3>3. ASSUME NEW k \in Loops
          PROVE  /\ Times(Establish(c), queue[k]) = 0
                 /\ Times(Undo(c), queue[k]) = 0
                 /\ Times(Remove(c), queue[Base]) = 0
                 /\ closing[k] # c
      <4>1. /\ Times(Establish(c), queue[k]) \in Nat
            /\ Times(Undo(c), queue[k]) \in Nat
            /\ Times(Remove(c), queue[Base]) \in Nat
        BY <2>4, TimesInQueue
      <4>. QED
        BY <2>1, <3>1, <4>1, KnownIsBuilt
    <3>4. ASSUME NEW k \in Loops
          PROVE  /\ k # l => Times(Establish(c), queue'[k]) = 0
                 /\ Times(Establish(c), queue'[l]) = 1
                 /\ Times(Undo(c), queue'[k]) = 0
                 /\ Times(Remove(c), queue'[Base]) = 0
      BY <2>4, <2>5, <2>8, <3>2, <3>3, TimesQueued
    <3>5. Homed(c)'
      <4>1. /\ c = n /\ c \in Nat /\ nextConnId' = n + 1 /\ loops' = loops
            /\ conn'[c].loop = l /\ conn'[c].state = "kConnecting"
            /\ l \in 1..loops
        BY <2>2, <2>3, <2>6, <2>8
      <4>2. ~(c >= nextConnId') /\ Built(c)'
        <5>. HIDE DEF n
        <5>. QED
          BY <4>1 DEF Built
      <4>. HIDE DEF n
      <4>. QED
        BY <2>4, <3>4, <4>1, <4>2 DEF Homed
    <3>6. c \in connections'
      BY <2>6, <2>8
    <3>7. LeavesOnce(c)'
      BY <2>3, <2>4, <2>6, <2>8, <3>3, <3>4, <3>6 DEF LeavesOnce, Leaving, Down, Built
    <3>8. Apart(c)'
      BY <2>4, <2>6, <2>8, <3>1, <3>4, <3>6 DEF Apart
    <3>. QED
      BY <3>5, <3>7, <3>8
  <2>. QED
    BY <2>7, <2>8
<1>. QED
  BY <1>1, <1>2

(* listen() runs: it is no functor of a connection.                        *)
LEMMA ConnRunListen ==
  ASSUME TypeOK, ConnInv, RunListen
  PROVE  ConnInv'
<1> SUFFICES ASSUME NEW c \in Conns
             PROVE  Homed(c)' /\ LeavesOnce(c)' /\ Apart(c)'
  BY DEF ConnInv
<1>1. Homed(c) /\ LeavesOnce(c) /\ Apart(c)
  BY DEF ConnInv
<1>2. /\ UNCHANGED <<connections, conn, heard, closing, nextConnId, loops,
                     phase, running>>
      /\ loops \in Nat /\ Base \in Loops /\ c # 0
  BY LoopNumbers DEF RunListen, Take, pool, clients, users, TypeOK
<1>3. queue[Base] # <<>> /\ Pop(Base) /\ Head(queue[Base]) = Listening
  BY <1>2, HeadTaken DEF RunListen
<1>4. Head(queue[Base]).conn # c
  BY <1>2, <1>3, FunctorsDiffer
<1>5. ASSUME NEW k \in Loops
      PROVE  /\ Times(Establish(c), queue'[k]) = Times(Establish(c), queue[k])
             /\ Times(Undo(c), queue'[k]) = Times(Undo(c), queue[k])
             /\ Times(Remove(c), queue'[k]) = Times(Remove(c), queue[k])
  BY <1>2, <1>3, <1>4, OthersPopped
<1>. QED
  BY <1>1, <1>2, <1>5, LeftAlone

(* connectEstablished runs: it was the only one of its connection.         *)
LEMMA ConnEstablished ==
  ASSUME TypeOK, ConnInv, ToldInv, NEW l \in IoLoops, RunConnectEstablished(l)
  PROVE  ConnInv'
<1> SUFFICES ASSUME NEW c \in Conns
             PROVE  Homed(c)' /\ LeavesOnce(c)' /\ Apart(c)'
  BY DEF ConnInv
<1>. DEFINE d == Head(queue[l]).conn
<1>1. Homed(c) /\ LeavesOnce(c) /\ Apart(c)
  BY DEF ConnInv
<1>2. /\ l \in Loops /\ Base \in Loops /\ l # Base
      /\ conn[c].loop \in Loops /\ loops \in Nat
  BY LoopNumbers DEF TypeOK
<1>3. /\ queue[l] \in Seq(Functor) /\ queue[l] # <<>> /\ Pop(l)
      /\ Head(queue[l]) = Establish(d) /\ d \in Conns
  BY <1>2, HeadTaken DEF RunConnectEstablished
<1>4. UNCHANGED <<connections, closing, nextConnId, loops, phase, running>>
  BY DEF RunConnectEstablished, Take, pool, clients, users
<1>5. /\ conn'[d].loop = conn[d].loop /\ conn'[d].gone = conn[d].gone
      /\ conn'[d].state = "kConnected"
      /\ c # d => conn'[c] = conn[c]
  <2>1. /\ conn \in ConnType /\ d \in Conns /\ conn[d].gone \in BOOLEAN
        /\ "kConnected" \in States
    BY <1>3 DEF TypeOK, States, ConnType
  <2>2. conn' = [conn EXCEPT ![d] = [@ EXCEPT
                   !.state = "kConnected", !.watched = TRUE,
                   !.gone = conn[d].gone]]
    BY <1>3, Changed
  <2>. HIDE DEF d
  <2>. QED
    BY <2>1, <2>2, ConnTyped
<1>9. c # d => heard'[c] = heard[c]
  <2>1. heard' = [heard EXCEPT ![d] = Append(heard[d], "UP")]
    BY DEF RunConnectEstablished, Report
  <2>. HIDE DEF d
  <2>. QED
    BY <2>1 DEF TypeOK
<1>6. Times(Establish(d), queue[l]) > 0
  BY <1>2, <1>3, HeadCounts
<1>. HIDE DEF d
<1>7. CASE c # d
  <2>1. Head(queue[l]).conn # c
    BY <1>3, <1>7, FunctorsDiffer
  <2>2. ASSUME NEW k \in Loops
        PROVE  /\ Times(Establish(c), queue'[k]) = Times(Establish(c), queue[k])
               /\ Times(Undo(c), queue'[k]) = Times(Undo(c), queue[k])
               /\ Times(Remove(c), queue'[k]) = Times(Remove(c), queue[k])
    BY <1>2, <1>3, <2>1, OthersPopped
  <2>. QED
    BY <1>1, <1>2, <1>4, <1>5, <1>7, <1>9, <2>2, LeftAlone
<1>8. CASE c = d
  <2>1. /\ Head(queue[l]) = Establish(c)
        /\ Head(queue[l]) # Undo(c) /\ Head(queue[l]) # Remove(c)
    BY <1>3, <1>8, FunctorsDiffer
  <2>2. /\ l = conn[c].loop /\ conn[c].state = "kConnecting"
        /\ Times(Establish(c), queue[l]) = 1
    BY <1>1, <1>2, <1>6, <1>8 DEF Homed
  <2>3. ASSUME NEW k \in Loops
        PROVE  /\ ~(Times(Establish(c), queue'[k]) > 0)
               /\ Times(Undo(c), queue'[k]) = Times(Undo(c), queue[k])
               /\ Times(Remove(c), queue'[k]) = Times(Remove(c), queue[k])
    <3>1. CASE k = l
      <4>1. Times(Establish(c), queue'[l]) = Times(Establish(c), queue[l]) - 1
        BY <1>2, <1>3, <2>1, TimesPopped
      <4>2. /\ Times(Undo(c), queue'[l]) = Times(Undo(c), queue[l])
            /\ Times(Remove(c), queue'[l]) = Times(Remove(c), queue[l])
        BY <1>2, <1>3, <2>1, TimesPopped
      <4>. QED
        BY <2>2, <3>1, <4>1, <4>2
    <3>2. CASE k # l
      <4>1. Times(Establish(c), queue[k]) \in Nat
        BY TimesInQueue
      <4>2. ~(Times(Establish(c), queue[k]) > 0)
        BY <1>1, <2>2, <3>2 DEF Homed
      <4>. QED
        BY <1>2, <1>3, <3>2, <4>1, <4>2, TimesPopped
    <3>. QED
      BY <3>1, <3>2
  <2>4. Built(c) /\ Built(c)'
    BY <1>5, <1>8, <2>2 DEF Built
  <2>5. Homed(c)'
    BY <1>1, <1>4, <1>5, <1>8, <2>3, <2>4 DEF Homed
  <2>8. ~Down(c)
    BY <2>2, TalesDiffer DEF ToldInv, Told, Down
  <2>9. \A k \in Loops : closing[k] # c
    BY <1>1, <2>8 DEF LeavesOnce
  <2>10. ~(Times(Remove(c), queue[Base]) > 0)
    BY <1>1, <2>8 DEF LeavesOnce
  <2>11. Times(Remove(c), queue[Base]) \in Nat
    BY <1>2, TimesInQueue
  <2>12. phase = "alive" => c \in connections
    BY <1>1, <2>4, <2>8 DEF LeavesOnce
  <2>6. LeavesOnce(c)'
    BY <1>2, <1>4, <2>3, <2>9, <2>10, <2>11, <2>12 DEF LeavesOnce, Leaving
  <2>7. Apart(c)'
    BY <1>1, <1>2, <1>4, <1>5, <1>8, <2>3, <2>4 DEF Apart
  <2>. QED
    BY <2>5, <2>6, <2>7
<1>. QED
  BY <1>7, <1>8

(* connectDestroyed runs: a connection whose server lives had been DOWN    *)
(* before it left the map, and the functor gives way to the removed        *)
(* channel.                                                                *)
LEMMA ConnDestroyed ==
  ASSUME TypeOK, ConnInv, ToldInv, NEW l \in IoLoops, RunConnectDestroyed(l)
  PROVE  ConnInv'
<1> SUFFICES ASSUME NEW c \in Conns
             PROVE  Homed(c)' /\ LeavesOnce(c)' /\ Apart(c)'
  BY DEF ConnInv
<1>. DEFINE d == Head(queue[l]).conn
            down == IF conn[d].state = "kConnected" THEN "kDisconnected"
                                                    ELSE conn[d].state
<1>1. Homed(c) /\ LeavesOnce(c) /\ Apart(c)
  BY DEF ConnInv
<1>2. /\ l \in Loops /\ Base \in Loops /\ l # Base
      /\ conn[c].loop \in Loops /\ loops \in Nat
  BY LoopNumbers DEF TypeOK
<1>3. /\ queue[l] \in Seq(Functor) /\ queue[l] # <<>> /\ Pop(l)
      /\ Head(queue[l]) = Undo(d) /\ d \in Conns
  BY <1>2, HeadTaken DEF RunConnectDestroyed
<1>4. /\ UNCHANGED <<connections, closing, nextConnId, loops, phase, running>>
      /\ Serves(l)
  BY DEF RunConnectDestroyed, Take, pool, clients, users
<1>5. conn' = [conn EXCEPT ![d] = [@ EXCEPT !.state = down, !.watched = FALSE,
                                           !.gone = TRUE]]
  BY <1>3, Changed
<1>11. IF conn[d].state = "kConnected" THEN Report(d, "DOWN")
                                       ELSE UNCHANGED heard
  BY DEF RunConnectDestroyed
<1>6. Times(Undo(d), queue[l]) > 0
  BY <1>2, <1>3, HeadCounts
<1>7. /\ conn[d].state = "kConnected" => down = "kDisconnected"
      /\ conn[d].state # "kConnected" => down = conn[d].state
  OBVIOUS
<1>. HIDE DEF d, down
<1>8. /\ conn'[d].loop = conn[d].loop /\ conn'[d].gone
      /\ conn'[d].state = down
      /\ c # d => conn'[c] = conn[c]
  <2>1. conn \in ConnType /\ d \in Conns /\ down \in States
    BY <1>3, <1>7 DEF TypeOK, States, ConnType
  <2>. QED
    BY <1>5, <2>1, ConnTyped
<1>12. c # d => heard'[c] = heard[c]
  BY <1>11 DEF Report, TypeOK
<1>13. Down(d) => conn'[d].state # "none" /\ heard'[d] = <<"UP", "DOWN">>
  <2>1. Down(d) => conn[d].state # "kConnected"
    BY <1>3, TalesDiffer DEF ToldInv, Told, Down
  <2>2. ~(conn[d].state = "kConnected") => UNCHANGED heard
    BY <1>11
  <2>3. Down(d) => UNCHANGED heard /\ down = conn[d].state
    BY <1>7, <2>1, <2>2
  <2>. QED
    BY <1>8, <2>3 DEF Down, Built
<1>9. CASE c # d
  <2>1. Head(queue[l]).conn # c
    BY <1>3, <1>9, FunctorsDiffer
  <2>2. ASSUME NEW k \in Loops
        PROVE  /\ Times(Establish(c), queue'[k]) = Times(Establish(c), queue[k])
               /\ Times(Undo(c), queue'[k]) = Times(Undo(c), queue[k])
               /\ Times(Remove(c), queue'[k]) = Times(Remove(c), queue[k])
    BY <1>2, <1>3, <2>1, OthersPopped
  <2>. QED
    BY <1>1, <1>2, <1>4, <1>8, <1>9, <1>12, <2>2, LeftAlone
<1>10. CASE c = d
  <2>1. /\ Head(queue[l]) = Undo(c)
        /\ Head(queue[l]) # Establish(c) /\ Head(queue[l]) # Remove(c)
    BY <1>3, <1>10, FunctorsDiffer
  <2>2. l = conn[c].loop /\ Built(c)
    BY <1>1, <1>2, <1>6, <1>10 DEF Homed
  <2>3. Times(Undo(c), queue[l]) \in Nat
    BY <1>2, TimesInQueue
  <2>4. /\ Times(Undo(c), queue[l]) = 1 /\ c \notin connections
        /\ ~conn[c].gone
    BY <1>1, <1>4, <1>6, <1>10, <2>2, <2>3 DEF Apart, Serves, InLoop
  <2>5. ASSUME NEW k \in Loops
        PROVE  /\ Times(Establish(c), queue'[k]) = Times(Establish(c), queue[k])
               /\ k # l => Times(Undo(c), queue'[k]) = Times(Undo(c), queue[k])
               /\ Times(Undo(c), queue'[l]) = 0
               /\ Times(Remove(c), queue'[k]) = Times(Remove(c), queue[k])
    <3>1. Times(Undo(c), queue'[l]) = Times(Undo(c), queue[l]) - 1
      BY <1>2, <1>3, <2>1, TimesPopped
    <3>2. /\ Times(Establish(c), queue'[k]) = Times(Establish(c), queue[k])
          /\ Times(Remove(c), queue'[k]) = Times(Remove(c), queue[k])
      BY <1>2, <1>3, <2>1, TimesPopped
    <3>3. k # l => Times(Undo(c), queue'[k]) = Times(Undo(c), queue[k])
      BY <1>2, <1>3, TimesPopped
    <3>. QED
      BY <2>4, <3>1, <3>2, <3>3
  <2>6. /\ Built(c)'
        /\ conn[c].state = "kConnecting" => conn'[c].state = "kConnecting"
    BY <1>7, <1>8, <1>10, <2>2 DEF Built
  <2>7. Homed(c)'
    BY <1>1, <1>2, <1>4, <1>8, <1>10, <2>2, <2>5, <2>6 DEF Homed
  <2>8. LeavesOnce(c)'
    <3>1. Down(c) => Down(c)'
      BY <1>10, <1>13 DEF Down, Built
    <3>. QED
      BY <1>1, <1>2, <1>4, <1>8, <1>10, <2>2, <2>5, <2>6, <3>1
         DEF LeavesOnce, Leaving
  <2>9. Apart(c)'
    BY <1>1, <1>2, <1>4, <1>8, <1>10, <2>2, <2>4, <2>5, <2>6 DEF Apart
  <2>. QED
    BY <2>7, <2>8, <2>9
<1>. QED
  BY <1>9, <1>10

(* removeConnectionInLoop runs: the base loop serves, so the server lives  *)
(* and the map has the connection; its entry gives way to the functor that *)
(* ends it.                                                                *)
LEMMA ConnRemoved ==
  ASSUME TypeOK, StopInv, ConnInv, RunRemoveConnectionInLoop
  PROVE  ConnInv'
<1> SUFFICES ASSUME NEW c \in Conns
             PROVE  Homed(c)' /\ LeavesOnce(c)' /\ Apart(c)'
  BY DEF ConnInv
<1>. DEFINE d == Head(queue[Base]).conn
            popped == [queue EXCEPT ![Base] = Tail(@)]
<1>1. /\ Homed(c) /\ LeavesOnce(c) /\ Apart(c)
      /\ Homed(d) /\ LeavesOnce(d) /\ Apart(d) /\ d \in Conns
  <2>1. d \in Conns
    <3>1. Base \in Loops /\ Take(Base, "removeConnectionInLoop")
      BY LoopNumbers DEF RunRemoveConnectionInLoop
    <3>. QED
      BY <3>1, HeadTaken
  <2>. HIDE DEF d
  <2>. QED
    BY <2>1 DEF ConnInv
<1>2. /\ Base \in Loops /\ conn[c].loop \in Loops /\ loops \in Nat
      /\ UNCHANGED <<conn, heard, closing, nextConnId, loops, phase, running>>
      /\ connections' = connections \ {d}
  <2>1. Base \in Loops /\ conn[c].loop \in Loops /\ loops \in Nat
    BY LoopNumbers DEF TypeOK
  <2>2. /\ UNCHANGED <<conn, heard, closing, nextConnId, loops, phase, running>>
        /\ connections' = connections \ {d}
    BY DEF RunRemoveConnectionInLoop, Take, pool, clients, users
  <2>. QED
    BY <2>1, <2>2
<1>3. /\ queue[Base] \in Seq(Functor) /\ queue[Base] # <<>>
      /\ Head(queue[Base]) = Remove(d)
  BY <1>2, HeadTaken DEF RunRemoveConnectionInLoop
<1>4. phase = "alive"
  BY DEF RunRemoveConnectionInLoop, Take, Serves, InLoop, StopInv
<1>5. Times(Remove(d), queue[Base]) = 1
  <2>1. Times(Remove(d), queue[Base]) > 0
    BY <1>2, <1>3, HeadCounts
  <2>2. Times(Remove(d), queue[Base]) \in Nat
    BY <1>2, TimesInQueue
  <2>. QED
    BY <1>1, <2>1, <2>2 DEF LeavesOnce
<1>6. Built(d) /\ conn[d].loop \in Loops /\ conn[d].loop # Base
  <2>1. Times(Remove(d), queue[Base]) > 0
    BY <1>5
  <2>. HIDE DEF d
  <2>2. Built(d) /\ conn[d].loop \in IoLoops /\ conn[d].loop # Base
    BY <1>1, <2>1, KnownIsBuilt
  <2>. QED
    BY <2>2, LoopNumbers
<1>7. /\ Undo(d) \in Functor
      /\ popped \in [Loops -> Seq(Functor)]
      /\ queue' = [popped EXCEPT ![conn[d].loop] = Append(@, Undo(d))]
  <2>1. Tail(queue[Base]) \in Seq(Functor)
    BY <1>3, HeadTailProperties
  <2>. QED
    BY <1>1, <2>1, Functors DEF RunRemoveConnectionInLoop, Undo, TypeOK
<1>8. /\ queue'[Base] = Tail(queue[Base])
      /\ queue'[conn[d].loop] = Append(queue[conn[d].loop], Undo(d))
      /\ \A k \in Loops : k # Base /\ k # conn[d].loop => queue'[k] = queue[k]
  <2>1. popped[Base] = Tail(queue[Base])
    BY <1>2 DEF TypeOK
  <2>2. \A k \in Loops : k # Base => popped[k] = queue[k]
    BY DEF TypeOK
  <2>. HIDE DEF popped, d
  <2>. QED
    BY <1>2, <1>6, <1>7, <2>1, <2>2
<1>. HIDE DEF d, popped
<1>9. Undo(d) # Establish(c) /\ Undo(d) # Remove(c) /\ (c # d => Undo(d) # Undo(c))
  BY FunctorsDiffer
<1>10. /\ Remove(d) # Establish(c) /\ Remove(d) # Undo(c)
       /\ c # d => Remove(d) # Remove(c)
  BY FunctorsDiffer
<1>11. ASSUME NEW k \in Loops, NEW f, f # Undo(d), f # Remove(d)
       PROVE  Times(f, queue'[k]) = Times(f, queue[k])
  <2>1. Times(f, queue[k]) \in Nat /\ queue[k] \in Seq(Functor)
    BY TimesInQueue
  <2>2. CASE k = Base
    <3>1. Times(f, Tail(queue[Base])) =
            Times(f, queue[Base]) - (IF Head(queue[Base]) = f THEN 1 ELSE 0)
      BY <1>3, TimesTail
    <3>. QED
      BY <1>3, <1>8, <1>11, <2>1, <2>2, <3>1
  <2>3. CASE k = conn[d].loop
    <3>1. Times(f, Append(queue[k], Undo(d))) =
            Times(f, queue[k]) + (IF Undo(d) = f THEN 1 ELSE 0)
      BY <1>7, <2>1, TimesAppend
    <3>2. Times(f, Append(queue[k], Undo(d))) = Times(f, queue[k])
      BY <1>11, <2>1, <3>1
    <3>. QED
      BY <1>8, <2>3, <3>2
  <2>. QED
    BY <1>8, <2>2, <2>3
<1>12. CASE c # d
  <2>1. ASSUME NEW k \in Loops
        PROVE  /\ Times(Establish(c), queue'[k]) = Times(Establish(c), queue[k])
               /\ Times(Undo(c), queue'[k]) = Times(Undo(c), queue[k])
               /\ Times(Remove(c), queue'[k]) = Times(Remove(c), queue[k])
    BY <1>9, <1>10, <1>11, <1>12
  <2>. QED
    BY <1>1, <1>2, <1>12, <2>1, LeftAlone
<1>13. CASE c = d
  <2>1. /\ \A k \in Loops : closing[k] # c
        /\ Down(c) /\ c \in connections
    BY <1>1, <1>4, <1>5, <1>13 DEF LeavesOnce, Leaving, Down
  <2>2. Times(Remove(c), queue'[Base]) = 0
    <3>1. Times(Remove(d), Tail(queue[Base])) =
            Times(Remove(d), queue[Base])
              - (IF Head(queue[Base]) = Remove(d) THEN 1 ELSE 0)
      BY <1>3, TimesTail
    <3>. QED
      BY <1>3, <1>5, <1>8, <1>13, <3>1
  <2>3. Times(Undo(c), queue'[conn[c].loop]) =
          Times(Undo(c), queue[conn[c].loop]) + 1
    <3>1. queue[conn[d].loop] \in Seq(Functor)
      BY <1>6, TimesInQueue
    <3>2. Times(Undo(d), Append(queue[conn[d].loop], Undo(d))) =
            Times(Undo(d), queue[conn[d].loop])
              + (IF Undo(d) = Undo(d) THEN 1 ELSE 0)
      BY <1>7, <3>1, TimesAppend
    <3>. QED
      BY <1>8, <1>13, <3>2
  <2>4. ASSUME NEW k \in Loops, k # conn[c].loop
        PROVE  Times(Undo(c), queue'[k]) = Times(Undo(c), queue[k])
    <3>1. CASE k = Base
      <4>1. Times(Undo(c), Tail(queue[Base])) =
              Times(Undo(c), queue[Base])
                - (IF Head(queue[Base]) = Undo(c) THEN 1 ELSE 0)
        BY <1>3, TimesTail
      <4>2. Times(Undo(c), queue[Base]) \in Nat /\ Head(queue[Base]) # Undo(c)
        BY <1>2, <1>3, <1>10, TimesInQueue
      <4>. QED
        BY <1>8, <3>1, <4>1, <4>2
    <3>2. CASE k # Base
      BY <1>8, <1>13, <2>4, <3>2
    <3>. QED
      BY <3>1, <3>2
  <2>5. \A k \in Loops : Times(Establish(c), queue'[k]) =
                           Times(Establish(c), queue[k])
    BY <1>9, <1>10, <1>11
  <2>6. Homed(c)'
    BY <1>1, <1>2, <1>6, <1>13, <2>1, <2>4, <2>5 DEF Homed, Built
  <2>7. LeavesOnce(c)'
    BY <1>2, <2>1, <2>2 DEF LeavesOnce, Leaving, Down, Built
  <2>8. Apart(c)'
    <3>1. Times(Undo(c), queue[conn[c].loop]) \in Nat
      BY <1>2, TimesInQueue
    <3>. QED
      BY <1>1, <1>2, <1>6, <1>13, <2>1, <2>3, <3>1 DEF Apart, Built
  <2>. QED
    BY <2>6, <2>7, <2>8
<1>. QED
  BY <1>12, <1>13

(* The destructor hands an entry of the map over to the loop.              *)
LEMMA ConnDestroyConnection ==
  ASSUME TypeOK, ConnInv, NEW d \in Conns, DestroyConnection(d)
  PROVE  ConnInv'
<1> SUFFICES ASSUME NEW c \in Conns
             PROVE  Homed(c)' /\ LeavesOnce(c)' /\ Apart(c)'
  BY DEF ConnInv
<1>1. /\ Homed(c) /\ LeavesOnce(c) /\ Apart(c)
      /\ Homed(d) /\ LeavesOnce(d)
  BY DEF ConnInv
<1>2. /\ UNCHANGED <<conn, heard, closing, nextConnId, loops, phase, running>>
      /\ connections' = connections \ {d} /\ d \in connections
      /\ phase # "alive" /\ loops \in Nat
      /\ conn[c].loop \in Loops /\ conn[d].loop \in Loops
      /\ Base \in Loops
  BY LoopNumbers DEF DestroyConnection, pool, clients, users, TypeOK
<1>3. Undo(d) \in Functor /\ Queue(conn[d].loop, Undo(d))
  BY Functors DEF DestroyConnection, Undo
<1>4. CASE c # d
  <2>1. Undo(d).conn # c
    BY <1>4, FunctorsDiffer
  <2>2. ASSUME NEW k \in Loops
        PROVE  /\ Times(Establish(c), queue'[k]) = Times(Establish(c), queue[k])
               /\ Times(Undo(c), queue'[k]) = Times(Undo(c), queue[k])
               /\ Times(Remove(c), queue'[k]) = Times(Remove(c), queue[k])
    BY <1>2, <1>3, <2>1, OthersQueued
  <2>. QED
    BY <1>1, <1>2, <1>4, <2>2, LeftAlone
<1>5. CASE c = d
  <2>1. Built(c)
    BY <1>1, <1>2, <1>5, KnownIsBuilt
  <2>2. Undo(d) # Establish(c) /\ Undo(d) # Remove(c) /\ Undo(d) = Undo(c)
    BY <1>5, FunctorsDiffer
  <2>3. ASSUME NEW k \in Loops
        PROVE  /\ Times(Establish(c), queue'[k]) = Times(Establish(c), queue[k])
               /\ Times(Remove(c), queue'[k]) = Times(Remove(c), queue[k])
               /\ k # conn[c].loop =>
                    Times(Undo(c), queue'[k]) = Times(Undo(c), queue[k])
    <3>1. conn[d].loop \in Loops
      BY <1>2
    <3>2. ASSUME NEW g, g # Undo(d)
          PROVE  Times(g, queue'[k]) = Times(g, queue[k])
      BY <1>3, <3>1, <3>2, TimesQueued
    <3>3. ASSUME k # conn[d].loop
          PROVE  Times(Undo(d), queue'[k]) = Times(Undo(d), queue[k])
      BY <1>3, <3>1, <3>3, TimesQueued
    <3>. QED
      BY <1>5, <2>2, <3>2, <3>3
  <2>4. Times(Undo(c), queue'[conn[c].loop]) =
          Times(Undo(c), queue[conn[c].loop]) + 1
    <3>1. conn[d].loop \in Loops
      BY <1>2
    <3>2. Times(Undo(d), queue'[conn[d].loop]) =
            Times(Undo(d), queue[conn[d].loop]) + 1
      BY <1>3, <3>1, TimesQueued
    <3>. QED
      BY <1>5, <3>2
  <2>5. Homed(c)'
    BY <1>1, <1>2, <1>5, <2>1, <2>3 DEF Homed, Built
  <2>6. LeavesOnce(c)'
    BY <1>1, <1>2, <1>5, <2>1, <2>3 DEF LeavesOnce, Leaving, Down, Built
  <2>7. Apart(c)'
    <3>1. Times(Undo(c), queue[conn[c].loop]) \in Nat
      BY <1>2, TimesInQueue
    <3>. QED
      BY <1>1, <1>2, <1>5, <2>1, <2>4, <3>1 DEF Apart, Built
  <2>. QED
    BY <2>5, <2>6, <2>7
<1>. QED
  BY <1>4, <1>5

(* A loop that ends drops its functors: for its own connections nothing    *)
(* more is promised, and the others had none there.                        *)
LEMMA ConnLoopEnds ==
  ASSUME TypeOK, ConnInv, NEW l \in IoLoops, LoopEnds(l)
  PROVE  ConnInv'
<1> SUFFICES ASSUME NEW c \in Conns
             PROVE  Homed(c)' /\ LeavesOnce(c)' /\ Apart(c)'
  BY DEF ConnInv
<1>1. Homed(c) /\ LeavesOnce(c) /\ Apart(c)
  BY DEF ConnInv
<1>2. /\ UNCHANGED <<connections, conn, heard, closing, nextConnId, loops,
                     phase>>
      /\ queue' = [queue EXCEPT ![l] = <<>>]
      /\ l \in Loops /\ l # Base /\ Base \in Loops
      /\ conn[c].loop \in Loops
  BY LoopNumbers DEF LoopEnds, pool, clients, users, TypeOK
<1>3. /\ running'[l] = "ended"
      /\ \A k \in Loops : k # l => running'[k] = running[k]
  BY <1>2 DEF LoopEnds, TypeOK
<1>4. ASSUME NEW k \in Loops, NEW f
      PROVE  /\ k # l => Times(f, queue'[k]) = Times(f, queue[k])
             /\ Times(f, queue'[l]) = 0
  <2>1. Times(f, queue'[k]) = IF k = l THEN 0 ELSE Times(f, queue[k])
    BY <1>2, TimesDropped
  <2>2. Times(f, queue'[l]) = IF l = l THEN 0 ELSE Times(f, queue[l])
    BY <1>2, TimesDropped
  <2>. QED
    BY <2>1, <2>2
<1>5. Homed(c)'
  <2>1. ASSUME NEW k \in Loops
        PROVE  /\ Times(Establish(c), queue'[k]) > 0 =>
                    Times(Establish(c), queue'[k]) = Times(Establish(c), queue[k])
               /\ Times(Undo(c), queue'[k]) > 0 =>
                    Times(Undo(c), queue'[k]) = Times(Undo(c), queue[k])
    BY <1>4
  <2>. QED
    BY <1>1, <1>2, <2>1 DEF Homed, Built
<1>6. LeavesOnce(c)'
  BY <1>1, <1>2, <1>4 DEF LeavesOnce, Leaving, Down, Built
<1>7. Apart(c)'
  BY <1>1, <1>2, <1>3, <1>4 DEF Apart, Built
<1>. QED
  BY <1>5, <1>6, <1>7

(* The base loop is destroyed last, and has no connections of its own.     *)
LEMMA ConnDestroyBaseLoop ==
  ASSUME TypeOK, ConnInv, DestroyBaseLoop
  PROVE  ConnInv'
<1> SUFFICES ASSUME NEW c \in Conns
             PROVE  Homed(c)' /\ LeavesOnce(c)' /\ Apart(c)'
  BY DEF ConnInv
<1>1. Homed(c) /\ LeavesOnce(c) /\ Apart(c)
  BY DEF ConnInv
<1>2. /\ UNCHANGED <<connections, conn, heard, closing, nextConnId, loops,
                     running>>
      /\ queue' = [queue EXCEPT ![Base] = <<>>]
      /\ Base \in Loops /\ phase' # "alive"
      /\ conn[c].loop \in Loops
  BY LoopNumbers DEF DestroyBaseLoop, pool, clients, users, TypeOK
<1>3. ASSUME NEW k \in Loops, NEW f
      PROVE  /\ k # Base => Times(f, queue'[k]) = Times(f, queue[k])
             /\ Times(f, queue'[Base]) = 0
  <2>1. queue' = [queue EXCEPT ![Base] = <<>>] /\ Base \in Loops
    BY <1>2
  <2>2. Times(f, queue'[k]) = IF k = Base THEN 0 ELSE Times(f, queue[k])
    BY <2>1, TimesDropped
  <2>3. Times(f, queue'[Base]) = IF Base = Base THEN 0 ELSE Times(f, queue[Base])
    BY <2>1, TimesDropped
  <2>. QED
    BY <2>2, <2>3
<1>4. Homed(c)'
  <2>1. ASSUME NEW k \in Loops
        PROVE  /\ Times(Establish(c), queue'[k]) > 0 =>
                    Times(Establish(c), queue'[k]) = Times(Establish(c), queue[k])
               /\ Times(Undo(c), queue'[k]) > 0 =>
                    Times(Undo(c), queue'[k]) = Times(Undo(c), queue[k])
    BY <1>3
  <2>. QED
    BY <1>1, <1>2, <2>1 DEF Homed, Built
<1>5. LeavesOnce(c)'
  BY <1>1, <1>2, <1>3 DEF LeavesOnce, Leaving, Down, Built
<1>6. Apart(c)'
  <2>1. Built(c) => conn[c].loop # Base
    BY <1>1 DEF Homed, Base, TypeOK
  <2>. QED
    BY <1>1, <1>2, <1>3, <2>1 DEF Apart, Built
<1>. QED
  BY <1>4, <1>5, <1>6

(* Every step keeps what is known of the connections.                      *)
LEMMA ConnStep ==
  TypeOK /\ StopInv /\ ConnInv /\ ToldInv /\ [Next]_vars => ConnInv'
<1> SUFFICES ASSUME TypeOK, StopInv, ConnInv, ToldInv, [Next]_vars
             PROVE  ConnInv'
  OBVIOUS
<1>1. CASE \/ \E t \in Starters : Start(t)
           \/ BaseLoops \/ BaseEnds \/ ClientConnects \/ Destroy
           \/ \E c \in Conns : ShutdownTest(c)
           \/ \E l \in IoLoops : QuitLoop(l) \/ EnterLoop(l)
           \/ DestroyAcceptor
           \/ UNCHANGED vars
  BY <1>1, ConnUntouched
<1>2. ASSUME NEW t \in Starters, StarterRuns(t) PROVE ConnInv'
  BY <1>2, ConnPoolStart, ConnStartListen DEF StarterRuns
<1>3. ASSUME NEW c \in Conns,
             \/ Shutdown(c) \/ ShutdownStore(c)
             \/ HandleClose(c) \/ DestroyConnection(c)
      PROVE  ConnInv'
  BY <1>3, ConnShutdown, ConnHandleClose, ConnDestroyConnection
<1>4. ASSUME NEW l \in IoLoops, LoopRuns(l) PROVE ConnInv'
  BY <1>4, ConnUntouched, ConnRemoveConnection, ConnEstablished, ConnDestroyed,
     ConnLoopEnds DEF LoopRuns
<1>5. CASE BaseRuns
  BY <1>5, ConnNew, ConnRunListen, ConnRemoved DEF BaseRuns
<1>6. CASE DestroyBaseLoop
  BY <1>6, ConnDestroyBaseLoop
<1>. QED
  BY <1>1, <1>2, <1>3, <1>4, <1>5, <1>6 DEF Next, DestructorRuns

(* At first no connection is built and no functor is queued.               *)
LEMMA ConnInit == Init => ConnInv
<1> SUFFICES ASSUME Init, NEW c \in Conns
             PROVE  Homed(c) /\ LeavesOnce(c) /\ Apart(c)
  BY DEF ConnInv
<1>1. ~Built(c) /\ ~conn[c].gone /\ c \notin connections
  BY DEF Init, Built
<1>2. ASSUME NEW l \in Loops, NEW f
      PROVE  Times(f, queue[l]) = 0 /\ closing[l] = 0
  BY TimesEmpty DEF Init
<1>3. c # 0 /\ Base \in Loops
  BY LoopNumbers
<1>4. Homed(c)
  BY <1>1, <1>2 DEF Homed
<1>5. LeavesOnce(c)
  <2>1. conn[c].loop \in Loops
    BY <1>3 DEF Init
  <2>. QED
    BY <1>1, <1>2, <1>3, <2>1 DEF LeavesOnce, Leaving, Down
<1>6. Apart(c)
  BY <1>1 DEF Apart
<1>. QED
  BY <1>4, <1>5, <1>6

-----------------------------------------------------------------------------
(* What a step makes of one connection, which stays in its loop.           *)
Became(c, st, w, g) ==
  /\ conn'[c].loop = conn[c].loop /\ conn'[c].state = st
  /\ conn'[c].watched = w /\ conn'[c].gone = g
  /\ \A d \in Conns : d # c => conn'[d] = conn[d]

(* The steps that change a connection that is built.                       *)
LEMMA ConnAfter ==
  ASSUME TypeOK
  PROVE  /\ \A c \in Conns :
              Shutdown(c) \/ ShutdownStore(c) =>
                Became(c, "kDisconnecting", conn[c].watched, conn[c].gone)
         /\ \A c \in Conns :
              HandleClose(c) =>
                Became(c, "kDisconnected", FALSE, conn[c].gone)
         /\ \A l \in IoLoops, c \in Conns :
              RunConnectEstablished(l) /\ c = Head(queue[l]).conn =>
                Became(c, "kConnected", TRUE, conn[c].gone)
         /\ \A l \in IoLoops, c \in Conns :
              RunConnectDestroyed(l) /\ c = Head(queue[l]).conn =>
                Became(c, IF conn[c].state = "kConnected"
                          THEN "kDisconnected" ELSE conn[c].state, FALSE, TRUE)
<1>1. conn \in ConnType
  BY DEF TypeOK, ConnType
<1>2. ASSUME NEW c \in Conns
      PROVE  conn[c].watched \in BOOLEAN /\ conn[c].gone \in BOOLEAN
             /\ conn[c].state \in States
  BY <1>1 DEF ConnType
<1>3. /\ "kDisconnecting" \in States /\ "kDisconnected" \in States
      /\ "kConnected" \in States
  BY DEF States
<1>4. ASSUME NEW c \in Conns, NEW st \in States, NEW w \in BOOLEAN,
             NEW g \in BOOLEAN,
             conn' = [conn EXCEPT ![c] = [@ EXCEPT !.state = st, !.watched = w,
                                                   !.gone = g]]
      PROVE  Became(c, st, w, g)
  BY <1>1, <1>4, ConnTyped DEF Became
<1>5. ASSUME NEW c \in Conns, Shutdown(c) \/ ShutdownStore(c)
      PROVE  Became(c, "kDisconnecting", conn[c].watched, conn[c].gone)
  <2>1. conn' = [conn EXCEPT ![c] = [@ EXCEPT !.state = "kDisconnecting",
                   !.watched = conn[c].watched, !.gone = conn[c].gone]]
    BY <1>5, Changed
  <2>. QED
    BY <1>2, <1>3, <1>4, <2>1
<1>6. ASSUME NEW c \in Conns, HandleClose(c)
      PROVE  Became(c, "kDisconnected", FALSE, conn[c].gone)
  <2>1. conn' = [conn EXCEPT ![c] = [@ EXCEPT !.state = "kDisconnected",
                   !.watched = FALSE, !.gone = conn[c].gone]]
    BY <1>6, Changed
  <2>. QED
    BY <1>2, <1>3, <1>4, <2>1
<1>7. ASSUME NEW l \in IoLoops, NEW c \in Conns, RunConnectEstablished(l),
             c = Head(queue[l]).conn
      PROVE  Became(c, "kConnected", TRUE, conn[c].gone)
  <2>1. conn' = [conn EXCEPT ![c] = [@ EXCEPT !.state = "kConnected",
                   !.watched = TRUE, !.gone = conn[c].gone]]
    BY <1>7, Changed
  <2>. QED
    BY <1>2, <1>3, <1>4, <2>1
<1>8. ASSUME NEW l \in IoLoops, NEW c \in Conns, RunConnectDestroyed(l),
             c = Head(queue[l]).conn
      PROVE  Became(c, IF conn[c].state = "kConnected"
                       THEN "kDisconnected" ELSE conn[c].state, FALSE, TRUE)
  <2>1. PICK st \in States :
          st = IF conn[c].state = "kConnected" THEN "kDisconnected"
                                               ELSE conn[c].state
    BY <1>2, <1>3
  <2>2. conn' = [conn EXCEPT ![c] = [@ EXCEPT !.state = st, !.watched = FALSE,
                                              !.gone = TRUE]]
    BY <1>8, <2>1, Changed
  <2>3. Became(c, st, FALSE, TRUE)
    BY <1>4, <2>2
  <2>. QED
    BY <2>1, <2>3
<1>. QED
  BY <1>5, <1>6, <1>7, <1>8

(* A new connection: nothing was known of it, and no other one changes.    *)
LEMMA ConnNewAfter ==
  ASSUME TypeOK, Accept, loops # 0
  PROVE  /\ nextConnId \in Conns
         /\ conn'[nextConnId].state = "kConnecting"
         /\ conn'[nextConnId].watched = conn[nextConnId].watched
         /\ conn'[nextConnId].gone = conn[nextConnId].gone
         /\ \A d \in Conns : d # nextConnId => conn'[d] = conn[d]
<1>1. PICK l \in 1..loops : NewConnection(l)
  BY DEF Accept
<1>2. nextConnId \in Conns
  BY DEF Accept, Backlog, Conns, TypeOK
<1>. QED
  BY <1>1, <1>2 DEF NewConnection, TypeOK

-----------------------------------------------------------------------------
(* A loop runs connectEstablished of a connection before it runs its       *)
(* connectDestroyed: they are queued in this order, and what is queued is  *)
(* yet to run.                                                             *)
FifoInv ==
  \A l \in Loops, c \in Conns :
    /\ Precedes(Establish(c), Undo(c), queue[l])
    /\ Times(Establish(c), queue[l]) > 0 => ~conn[c].gone

(* A functor that is not connectEstablished keeps the order, when no       *)
(* channel is removed meanwhile.                                           *)
LEMMA FifoQueued ==
  ASSUME TypeOK, FifoInv, NEW l \in Loops, NEW f \in Functor, Queue(l, f),
         \A c \in Conns : f # Establish(c),
         \A c \in Conns : conn'[c].gone = conn[c].gone
  PROVE  FifoInv'
<1> SUFFICES ASSUME NEW k \in Loops, NEW c \in Conns
             PROVE  /\ Precedes(Establish(c), Undo(c), queue'[k])
                    /\ Times(Establish(c), queue'[k]) > 0 => ~conn'[c].gone
  BY DEF FifoInv
<1>1. /\ Precedes(Establish(c), Undo(c), queue[k])
      /\ Times(Establish(c), queue[k]) > 0 => ~conn[c].gone
  BY DEF FifoInv
<1>2. queue[k] \in Seq(Functor)
  BY TimesInQueue
<1>3. Establish(c) # Undo(c) /\ f # Establish(c)
  BY FunctorsDiffer
<1>4. Times(Establish(c), queue'[k]) = Times(Establish(c), queue[k])
  BY <1>3, TimesQueued
<1>5. queue'[k] = IF k = l THEN Append(queue[k], f) ELSE queue[k]
  BY DEF Queue, TypeOK
<1>6. Precedes(Establish(c), Undo(c), Append(queue[k], f))
  BY <1>1, <1>2, <1>3, PrecedesAppend
<1>7. Precedes(Establish(c), Undo(c), queue'[k])
  BY <1>1, <1>5, <1>6
<1>. QED
  BY <1>1, <1>4, <1>7

(* Taking the head of a queue keeps it, when no channel is removed         *)
(* meanwhile that is yet to be established.                                *)
LEMMA FifoPopped ==
  ASSUME TypeOK, FifoInv, NEW l \in Loops, queue[l] # <<>>, Pop(l),
         \A c \in Conns, k \in Loops :
           Times(Establish(c), queue'[k]) > 0 => conn'[c].gone = conn[c].gone
  PROVE  FifoInv'
<1> SUFFICES ASSUME NEW k \in Loops, NEW c \in Conns
             PROVE  /\ Precedes(Establish(c), Undo(c), queue'[k])
                    /\ Times(Establish(c), queue'[k]) > 0 => ~conn'[c].gone
  BY DEF FifoInv
<1>1. /\ Precedes(Establish(c), Undo(c), queue[k])
      /\ Times(Establish(c), queue[k]) > 0 => ~conn[c].gone
  BY DEF FifoInv
<1>2. queue[k] \in Seq(Functor) /\ Times(Establish(c), queue[k]) \in Nat
  BY TimesInQueue
<1>3. Establish(c) # Undo(c)
  BY FunctorsDiffer
<1>4. Times(Establish(c), queue'[k]) <= Times(Establish(c), queue[k])
  <2>1. CASE k = l /\ Head(queue[l]) = Establish(c)
    <3>1. Times(Establish(c), queue'[k]) = Times(Establish(c), queue[k]) - 1
      BY <2>1, TimesPopped
    <3>. QED
      BY <1>2, <3>1
  <2>2. CASE ~(k = l /\ Head(queue[l]) = Establish(c))
    <3>1. Times(Establish(c), queue'[k]) = Times(Establish(c), queue[k])
      BY <2>2, TimesPopped
    <3>. QED
      BY <1>2, <3>1
  <2>. QED
    BY <2>1, <2>2
<1>5. queue'[k] = IF k = l THEN Tail(queue[k]) ELSE queue[k]
  BY DEF Pop, TypeOK
<1>6. k = l => Precedes(Establish(c), Undo(c), Tail(queue[k]))
  BY <1>1, <1>2, <1>3, PrecedesTail
<1>7. Precedes(Establish(c), Undo(c), queue'[k])
  BY <1>1, <1>5, <1>6
<1>8. Times(Establish(c), queue'[k]) \in Int
  <2>1. queue'[k] \in Seq(Functor)
    <3>1. k = l => Tail(queue[k]) \in Seq(Functor)
      BY <1>2, HeadTailProperties
    <3>. QED
      BY <1>2, <1>5, <3>1
  <2>2. Times(Establish(c), queue'[k]) \in Nat
    BY <2>1, TimesType
  <2>. QED
    BY <2>2
<1>9. Times(Establish(c), queue'[k]) > 0 => Times(Establish(c), queue[k]) > 0
  BY <1>2, <1>4, <1>8
<1>. QED
  BY <1>1, <1>7, <1>9

(* Every step keeps the order.                                             *)
LEMMA FifoStep ==
  TypeOK /\ ConnInv /\ FifoInv /\ [Next]_vars => FifoInv'
<1> SUFFICES ASSUME TypeOK, ConnInv, FifoInv, [Next]_vars
             PROVE  FifoInv'
  OBVIOUS
<1>1. Base \in Loops /\ IoLoops \subseteq Loops
  BY LoopNumbers
<1>2. ASSUME UNCHANGED queue,
             \A c \in Conns : conn'[c].gone = conn[c].gone
      PROVE  FifoInv'
  BY <1>2 DEF FifoInv
<1>3. CASE \/ \E t \in Starters : Start(t) \/ PoolStart(t)
           \/ BaseLoops \/ BaseEnds \/ ClientConnects \/ Destroy
           \/ \E l \in IoLoops : QuitLoop(l) \/ EnterLoop(l)
           \/ \E c \in Conns : ShutdownTest(c)
           \/ DestroyAcceptor
           \/ UNCHANGED vars
  <2>1. UNCHANGED <<queue, conn>>
    BY <1>3 DEF Start, PoolStart, BaseLoops, BaseEnds, ClientConnects, Destroy,
       QuitLoop, EnterLoop, ShutdownTest, DestroyAcceptor, vars
  <2>. QED
    BY <1>2, <2>1
<1>4. ASSUME NEW d \in Conns, Shutdown(d) \/ ShutdownStore(d) \/ HandleClose(d)
      PROVE  FifoInv'
  <2>1. UNCHANGED queue
    BY <1>4 DEF Shutdown, ShutdownStore, HandleClose
  <2>2. \A c \in Conns : conn'[c].gone = conn[c].gone
    BY <1>4, ConnAfter DEF Became
  <2>. QED
    BY <1>2, <2>1, <2>2
<1>5. ASSUME NEW t \in Starters, StartListen(t) PROVE FifoInv'
  <2>1. UNCHANGED conn
    BY <1>5 DEF StartListen
  <2>2. CASE t = BaseThread
    BY <1>2, <1>5, <2>1, <2>2 DEF StartListen
  <2>3. CASE t # BaseThread
    <3>1. Queue(Base, Listening) /\ Listening \in Functor
      BY <1>5, <2>3, Functors DEF StartListen, Listening
    <3>2. \A c \in Conns : Listening # Establish(c)
      BY FunctorsDiffer
    <3>. QED
      BY <1>1, <2>1, <3>1, <3>2, FifoQueued
  <2>. QED
    BY <2>2, <2>3
<1>6. ASSUME NEW l \in IoLoops, RemoveConnection(l) PROVE FifoInv'
  <2>1. UNCHANGED conn
    BY <1>6 DEF RemoveConnection
  <2>2. Remove(closing[l]) \in Functor /\ Queue(Base, Remove(closing[l]))
    BY <1>1, <1>6, Functors DEF RemoveConnection, TypeOK, Remove
  <2>3. \A c \in Conns : Remove(closing[l]) # Establish(c)
    BY FunctorsDiffer
  <2>. QED
    BY <1>1, <2>1, <2>2, <2>3, FifoQueued
<1>7. ASSUME NEW d \in Conns, DestroyConnection(d) PROVE FifoInv'
  <2>1. UNCHANGED conn
    BY <1>7 DEF DestroyConnection
  <2>2. /\ Undo(d) \in Functor /\ Queue(conn[d].loop, Undo(d))
        /\ conn[d].loop \in Loops
    BY <1>7, Functors DEF DestroyConnection, TypeOK, Undo
  <2>3. \A c \in Conns : Undo(d) # Establish(c)
    BY FunctorsDiffer
  <2>. QED
    BY <2>1, <2>2, <2>3, FifoQueued
<1>8. CASE RunListen
  <2>1. queue[Base] # <<>> /\ Pop(Base) /\ UNCHANGED conn
    BY <1>8 DEF RunListen, Take
  <2>. QED
    BY <1>1, <2>1, FifoPopped
<1>9. ASSUME NEW l \in IoLoops, RunConnectEstablished(l) PROVE FifoInv'
  <2>1. queue[l] # <<>> /\ Pop(l)
    BY <1>9 DEF RunConnectEstablished, Take
  <2>2. PICK d \in Conns : d = Head(queue[l]).conn
    BY <1>1, <1>9, HeadTaken DEF RunConnectEstablished
  <2>3. \A c \in Conns : conn'[c].gone = conn[c].gone
    BY <1>9, <2>2, ConnAfter DEF Became
  <2>. QED
    BY <1>1, <2>1, <2>3, FifoPopped
<1>10. ASSUME NEW l \in IoLoops, RunConnectDestroyed(l) PROVE FifoInv'
  <2>. DEFINE d == Head(queue[l]).conn
  <2>1. /\ l \in Loops /\ queue[l] \in Seq(Functor) /\ queue[l] # <<>>
        /\ Pop(l) /\ Head(queue[l]) = Undo(d) /\ d \in Conns
    BY <1>1, <1>10, HeadTaken DEF RunConnectDestroyed, Take
  <2>2. \A c \in Conns : c # d => conn'[c] = conn[c]
    BY <1>10, <2>1, ConnAfter DEF Became
  <2>. HIDE DEF d
  <2>3. conn[d].loop = l
    BY <2>1, HeadCounts DEF ConnInv, Homed
  <2>4. ASSUME NEW k \in Loops, Times(Establish(d), queue'[k]) > 0
        PROVE  FALSE
    <3>1. Undo(d) # Establish(d)
      BY FunctorsDiffer
    <3>2. Times(Establish(d), queue'[k]) = Times(Establish(d), queue[k])
      BY <2>1, <3>1, TimesPopped
    <3>3. k = l
      BY <2>1, <2>3, <2>4, <3>2 DEF ConnInv, Homed
    <3>4. In(Establish(d), queue[l])
      BY <2>1, <2>4, <3>2, <3>3, TimesType
    <3>5. Precedes(Establish(d), Undo(d), queue[l])
      BY <2>1 DEF FifoInv
    <3>6. Head(queue[l]) = Undo(d) => ~In(Establish(d), queue[l])
      BY <2>1, <3>1, <3>5, PrecedesTail
    <3>. QED
      BY <2>1, <3>4, <3>6
  <2>5. \A c \in Conns, k \in Loops :
          Times(Establish(c), queue'[k]) > 0 => conn'[c].gone = conn[c].gone
    BY <2>2, <2>4
  <2>. QED
    BY <2>1, <2>5, FifoPopped
<1>11. ASSUME NEW l \in Loops, queue' = [queue EXCEPT ![l] = <<>>],
              UNCHANGED conn
       PROVE  FifoInv'
  <2> SUFFICES ASSUME NEW k \in Loops, NEW c \in Conns
               PROVE  /\ Precedes(Establish(c), Undo(c), queue'[k])
                      /\ Times(Establish(c), queue'[k]) > 0 => ~conn'[c].gone
    BY DEF FifoInv
  <2>1. CASE k = l
    <3>1. queue'[k] = <<>>
      BY <1>11, <2>1 DEF TypeOK
    <3>. QED
      BY <3>1, TimesEmpty, PrecedesEmpty
  <2>2. CASE k # l
    <3>1. queue'[k] = queue[k]
      BY <1>11, <2>2 DEF TypeOK
    <3>. QED
      BY <1>11, <3>1 DEF FifoInv
  <2>. QED
    BY <2>1, <2>2
<1>12. CASE DestroyBaseLoop
  BY <1>1, <1>11, <1>12 DEF DestroyBaseLoop
<1>13. ASSUME NEW l \in IoLoops, LoopEnds(l) PROVE FifoInv'
  BY <1>1, <1>11, <1>13 DEF LoopEnds
<1>14. CASE RunRemoveConnectionInLoop
  <2>. DEFINE d == Head(queue[Base]).conn
              popped == [queue EXCEPT ![Base] = Tail(@)]
  <2>1. /\ d \in Conns /\ queue[Base] # <<>> /\ queue[Base] \in Seq(Functor)
        /\ Tail(queue[Base]) \in Seq(Functor)
        /\ UNCHANGED conn
    BY <1>1, <1>14, HeadTaken DEF RunRemoveConnectionInLoop, Take
  <2>2. /\ Undo(d) \in Functor /\ conn[d].loop \in Loops
        /\ popped \in [Loops -> Seq(Functor)]
        /\ queue' = [popped EXCEPT ![conn[d].loop] = Append(@, Undo(d))]
    BY <1>14, <2>1, Functors DEF RunRemoveConnectionInLoop, Undo, TypeOK
  <2>3. \A k \in Loops :
          popped[k] = IF k = Base THEN Tail(queue[k]) ELSE queue[k]
    BY DEF TypeOK
  <2>. HIDE DEF d, popped
  <2> SUFFICES ASSUME NEW k \in Loops, NEW c \in Conns
               PROVE  /\ Precedes(Establish(c), Undo(c), queue'[k])
                      /\ Times(Establish(c), queue'[k]) > 0 => ~conn'[c].gone
    BY DEF FifoInv
  <2>4. /\ Precedes(Establish(c), Undo(c), queue[k])
        /\ Times(Establish(c), queue[k]) > 0 => ~conn[c].gone
        /\ queue[k] \in Seq(Functor) /\ Times(Establish(c), queue[k]) \in Nat
    BY TimesInQueue DEF FifoInv
  <2>5. Establish(c) # Undo(c) /\ Undo(d) # Establish(c)
    BY FunctorsDiffer
  <2>6. /\ Precedes(Establish(c), Undo(c), popped[k])
        /\ popped[k] \in Seq(Functor)
        /\ Times(Establish(c), popped[k]) \in Nat
        /\ Times(Establish(c), popped[k]) <= Times(Establish(c), queue[k])
    <3>1. CASE k = Base
      <4>1. popped[k] = Tail(queue[k]) /\ queue[k] # <<>>
        BY <2>1, <2>3, <3>1
      <4>2. Precedes(Establish(c), Undo(c), Tail(queue[k]))
        BY <2>4, <2>5, <4>1, PrecedesTail
      <4>3. Times(Establish(c), Tail(queue[k])) =
              Times(Establish(c), queue[k])
                - (IF Head(queue[k]) = Establish(c) THEN 1 ELSE 0)
        BY <2>4, <4>1, TimesTail
      <4>4. /\ Tail(queue[k]) \in Seq(Functor)
            /\ Times(Establish(c), Tail(queue[k])) \in Nat
        BY <2>1, <3>1, TimesType
      <4>5. Times(Establish(c), Tail(queue[k])) <= Times(Establish(c), queue[k])
        BY <2>4, <4>3, <4>4
      <4>. QED
        BY <4>1, <4>2, <4>4, <4>5
    <3>2. CASE k # Base
      <4>1. popped[k] = queue[k]
        BY <2>3, <3>2
      <4>. QED
        BY <2>4, <4>1
    <3>. QED
      BY <3>1, <3>2
  <2>7. CASE k = conn[d].loop
    <3>1. queue'[k] = Append(popped[k], Undo(d))
      BY <2>2, <2>7
    <3>2. Precedes(Establish(c), Undo(c), Append(popped[k], Undo(d)))
      BY <2>2, <2>5, <2>6, PrecedesAppend
    <3>3. Times(Establish(c), Append(popped[k], Undo(d))) =
            Times(Establish(c), popped[k])
              + (IF Undo(d) = Establish(c) THEN 1 ELSE 0)
      BY <2>2, <2>6, TimesAppend
    <3>4. Times(Establish(c), queue'[k]) > 0 => Times(Establish(c), queue[k]) > 0
      BY <2>4, <2>5, <2>6, <3>1, <3>3
    <3>. QED
      BY <2>1, <2>4, <3>1, <3>2, <3>4
  <2>8. CASE k # conn[d].loop
    <3>1. queue'[k] = popped[k]
      BY <2>2, <2>8
    <3>2. Times(Establish(c), queue'[k]) > 0 => Times(Establish(c), queue[k]) > 0
      BY <2>4, <2>6, <3>1
    <3>. QED
      BY <2>1, <2>4, <2>6, <3>1, <3>2
  <2>. QED
    BY <2>7, <2>8
<1>15. CASE Accept
  <2>1. CASE loops = 0
    BY <1>2, <1>15, <2>1 DEF Accept
  <2>2. CASE loops # 0
    <3>. DEFINE n == nextConnId
    <3>1. PICK l \in 1..loops : NewConnection(l)
      BY <1>15, <2>2 DEF Accept
    <3>2. n \in Conns /\ l \in Loops /\ n >= nextConnId
      BY <1>15, <3>1, LoopNumbers DEF Accept, Backlog, Conns, IoLoops, TypeOK
    <3>3. Establish(n) \in Functor /\ Queue(l, Establish(n))
      BY <3>1, <3>2, Functors DEF NewConnection, Establish
    <3>4. \A c \in Conns : conn'[c].gone = conn[c].gone
      BY <3>1 DEF NewConnection, TypeOK
    <3>5. ~Built(n) /\ ~conn[n].gone
      BY <3>2 DEF ConnInv, Homed
    <3>. HIDE DEF n
    <3>6. Times(Undo(n), queue[l]) \in Nat /\ ~(Times(Undo(n), queue[l]) > 0)
      BY <3>2, <3>5, TimesInQueue, KnownIsBuilt DEF ConnInv
    <3> SUFFICES ASSUME NEW k \in Loops, NEW c \in Conns
                 PROVE  /\ Precedes(Establish(c), Undo(c), queue'[k])
                        /\ Times(Establish(c), queue'[k]) > 0 => ~conn'[c].gone
      BY DEF FifoInv
    <3>7. /\ Precedes(Establish(c), Undo(c), queue[k])
          /\ Times(Establish(c), queue[k]) > 0 => ~conn[c].gone
          /\ queue[k] \in Seq(Functor)
      BY TimesInQueue DEF FifoInv
    <3>8. queue'[k] = IF k = l THEN Append(queue[k], Establish(n)) ELSE queue[k]
      BY <3>3 DEF Queue, TypeOK
    <3>9. Establish(c) # Undo(c) /\ (c # n => Establish(n) # Establish(c))
      BY FunctorsDiffer
    <3>10. k = l => Establish(n) # Establish(c) \/ ~In(Undo(c), queue[k])
      <4>1. CASE c = n
        BY <3>6, <3>7, <4>1, TimesType
      <4>2. CASE c # n
        BY <3>9, <4>2
      <4>. QED
        BY <4>1, <4>2
    <3>11. k = l => Precedes(Establish(c), Undo(c), Append(queue[k], Establish(n)))
      BY <3>3, <3>7, <3>9, <3>10, PrecedesAppend
    <3>12. Precedes(Establish(c), Undo(c), queue'[k])
      BY <3>7, <3>8, <3>11
    <3>13. Times(Establish(c), queue'[k]) > 0 => ~conn'[c].gone
      <4>1. CASE c = n
        BY <3>4, <3>5, <4>1
      <4>2. CASE c # n
        <5>1. Times(Establish(c), queue'[k]) = Times(Establish(c), queue[k])
          BY <3>2, <3>3, <3>9, <4>2, TimesQueued
        <5>. QED
          BY <3>4, <3>7, <5>1
      <4>. QED
        BY <4>1, <4>2
    <3>. QED
      BY <3>12, <3>13
  <2>. QED
    BY <2>1, <2>2
<1>. QED
  BY <1>3, <1>4, <1>5, <1>6, <1>7, <1>8, <1>9, <1>10, <1>12, <1>13, <1>14,
     <1>15 DEF Next, StarterRuns, LoopRuns, BaseRuns, DestructorRuns


(* Every step tells the callback what state_ and the channel say.          *)
LEMMA ToldStep ==
  TypeOK /\ ConnInv /\ ToldInv /\ FifoInv /\ [Next]_vars => ToldInv'
<1> SUFFICES ASSUME TypeOK, ConnInv, ToldInv, FifoInv, [Next]_vars,
                    NEW c \in Conns
             PROVE  Told(c)'
  BY DEF ToldInv
<1>1. Told(c)
  BY DEF ToldInv
<1>2. ASSUME conn'[c] = conn[c], heard'[c] = heard[c],
             c \in storing' => c \in storing
      PROVE  Told(c)'
  BY <1>1, <1>2 DEF Told
<1>3. ASSUME UNCHANGED <<conn, users>> PROVE Told(c)'
  BY <1>2, <1>3 DEF users
<1>4. CASE \/ \E t \in Starters : Start(t) \/ StarterRuns(t)
           \/ BaseLoops \/ BaseEnds \/ ClientConnects
           \/ RunListen \/ RunRemoveConnectionInLoop
           \/ \E l \in IoLoops :
                \/ EnterLoop(l) \/ RemoveConnection(l) \/ LoopEnds(l)
                \/ QuitLoop(l)
           \/ Destroy \/ DestroyAcceptor \/ DestroyBaseLoop
           \/ \E d \in Conns : DestroyConnection(d)
           \/ UNCHANGED vars
  <2>1. CASE \/ \E t \in Starters : Start(t) \/ StarterRuns(t)
             \/ BaseLoops \/ BaseEnds \/ ClientConnects
    BY <1>3, <2>1 DEF Start, StarterRuns, PoolStart, StartListen, BaseLoops,
       BaseEnds, ClientConnects, users
  <2>2. CASE RunListen \/ RunRemoveConnectionInLoop
    BY <1>3, <2>2 DEF RunListen, RunRemoveConnectionInLoop, users
  <2>3. CASE \E l \in IoLoops :
               \/ EnterLoop(l) \/ RemoveConnection(l) \/ LoopEnds(l)
               \/ QuitLoop(l)
    BY <1>3, <2>3 DEF EnterLoop, RemoveConnection, LoopEnds, QuitLoop, users
  <2>4. CASE \/ Destroy \/ DestroyAcceptor \/ DestroyBaseLoop
             \/ \E d \in Conns : DestroyConnection(d)
             \/ UNCHANGED vars
    BY <1>3, <2>4 DEF Destroy, DestroyAcceptor, DestroyBaseLoop,
       DestroyConnection, vars, users
  <2>. QED
    BY <1>4, <2>1, <2>2, <2>3, <2>4
<1>5. ASSUME NEW d \in Conns, ShutdownTest(d) PROVE Told(c)'
  <2>1. /\ UNCHANGED <<conn, heard>> /\ storing' = storing \cup {d}
        /\ conn[d].state = "kConnected"
    BY <1>5 DEF ShutdownTest
  <2>2. heard[d] # <<>>
    BY <2>1, TalesDiffer DEF ToldInv, Told
  <2>. QED
    BY <1>1, <2>1, <2>2 DEF Told
<1>6. ASSUME NEW d \in Conns, Shutdown(d) \/ ShutdownStore(d) PROVE Told(c)'
  <2>1. Became(d, "kDisconnecting", conn[d].watched, conn[d].gone)
    BY <1>6, ConnAfter
  <2>2. heard' = heard /\ (c \in storing' => c \in storing)
    BY <1>6 DEF Shutdown, ShutdownStore, users
  <2>3. heard[d] # <<>>
    BY <1>6, TalesDiffer DEF Shutdown, ShutdownStore, ToldInv, Told
  <2>4. CASE c = d
    BY <1>1, <2>1, <2>2, <2>3, <2>4 DEF Told, Became
  <2>5. CASE c # d
    BY <1>2, <2>1, <2>2, <2>5 DEF Became
  <2>. QED
    BY <2>4, <2>5
<1>7. ASSUME NEW d \in Conns, HandleClose(d) PROVE Told(c)'
  <2>1. /\ Became(d, "kDisconnected", FALSE, conn[d].gone)
        /\ heard' = [heard EXCEPT ![d] = Append(heard[d], "DOWN")]
        /\ storing' = storing
    BY <1>7, ConnAfter DEF HandleClose, Report
  <2>2. heard[d] = <<"UP">>
    BY <1>7 DEF HandleClose, ToldInv, Told
  <2>3. heard'[d] = <<"UP", "DOWN">> /\ (c # d => heard'[c] = heard[c])
    BY <2>1, <2>2, TaleGrows DEF TypeOK
  <2>4. CASE c = d
    BY <2>1, <2>3, <2>4, TalesDiffer DEF Told, Became
  <2>5. CASE c # d
    BY <1>2, <2>1, <2>3, <2>5 DEF Became
  <2>. QED
    BY <2>4, <2>5
<1>8. ASSUME NEW l \in IoLoops, RunConnectEstablished(l) PROVE Told(c)'
  <2>1. /\ l \in Loops /\ queue[l] \in Seq(Functor) /\ queue[l] # <<>>
    BY <1>8, LoopNumbers, TimesInQueue DEF RunConnectEstablished, Take
  <2>2. PICK d \in Conns : d = Head(queue[l]).conn /\ Head(queue[l]) = Establish(d)
    BY <1>8, <2>1, HeadTaken DEF RunConnectEstablished
  <2>3. Times(Establish(d), queue[l]) > 0
    BY <2>1, <2>2, HeadCounts
  <2>4. conn[d].state = "kConnecting" /\ ~conn[d].gone
    BY <2>1, <2>3 DEF ConnInv, Homed, FifoInv
  <2>5. heard[d] = <<>>
    BY <2>4 DEF ToldInv, Told
  <2>6. /\ Became(d, "kConnected", TRUE, conn[d].gone)
        /\ heard' = [heard EXCEPT ![d] = Append(heard[d], "UP")]
        /\ storing' = storing
    BY <1>8, <2>2, ConnAfter DEF RunConnectEstablished, Report
  <2>7. heard'[d] = <<"UP">> /\ (c # d => heard'[c] = heard[c])
    BY <2>5, <2>6, TaleGrows DEF TypeOK
  <2>8. CASE c = d
    BY <2>4, <2>6, <2>7, <2>8, TalesDiffer DEF Told, Became
  <2>9. CASE c # d
    BY <1>2, <2>6, <2>7, <2>9 DEF Became
  <2>. QED
    BY <2>8, <2>9
<1>9. ASSUME NEW l \in IoLoops, RunConnectDestroyed(l) PROVE Told(c)'
  <2>1. PICK d \in Conns : d = Head(queue[l]).conn
    BY <1>9, HeadTaken, LoopNumbers DEF RunConnectDestroyed
  <2>2. Became(d, IF conn[d].state = "kConnected" THEN "kDisconnected"
                  ELSE conn[d].state, FALSE, TRUE)
    BY <1>9, <2>1, ConnAfter
  <2>3. CASE c # d
    <3>1. heard'[c] = heard[c] /\ storing' = storing
      BY <1>9, <2>1, <2>3 DEF RunConnectDestroyed, Report, TypeOK
    <3>. QED
      BY <1>2, <2>2, <2>3, <3>1 DEF Became
  <2>4. CASE c = d /\ conn[d].state = "kConnected"
    <3>1. /\ heard' = [heard EXCEPT ![d] = Append(heard[d], "DOWN")]
          /\ storing' = storing
      BY <1>9, <2>1, <2>4 DEF RunConnectDestroyed, Report
    <3>2. heard[d] = <<"UP">>
      BY <2>4 DEF ToldInv, Told
    <3>3. heard'[d] = <<"UP", "DOWN">>
      BY <3>1, <3>2, TaleGrows DEF TypeOK
    <3>4. Became(d, "kDisconnected", FALSE, TRUE)
      BY <2>2, <2>4
    <3>. QED
      BY <2>4, <3>3, <3>4, TalesDiffer DEF Told, Became
  <2>5. CASE c = d /\ ~(conn[d].state = "kConnected")
    <3>1. heard' = heard /\ storing' = storing
      BY <1>9, <2>1, <2>5 DEF RunConnectDestroyed
    <3>2. Became(d, conn[d].state, FALSE, TRUE)
      BY <2>2, <2>5
    <3>. QED
      BY <1>1, <2>5, <3>1, <3>2 DEF Told, Became
  <2>. QED
    BY <2>3, <2>4, <2>5
<1>10. CASE Accept
  <2>1. UNCHANGED users
    BY <1>10 DEF Accept
  <2>2. CASE loops = 0
    BY <1>3, <1>10, <2>1, <2>2 DEF Accept
  <2>3. CASE loops # 0
    <3>1. PICK n \in Conns : n = nextConnId
      BY <1>10, <2>3, ConnNewAfter
    <3>2. /\ conn'[n].state = "kConnecting" /\ conn'[n].watched = conn[n].watched
          /\ c # n => conn'[c] = conn[c]
      BY <1>10, <2>3, <3>1, ConnNewAfter
    <3>3. n >= nextConnId
      BY <3>1 DEF TypeOK
    <3>4. conn[n].state = "none"
      BY <3>3 DEF ConnInv, Homed, Built
    <3>5. CASE c = n
      BY <1>1, <2>1, <3>2, <3>4, <3>5, TalesDiffer DEF Told, users
    <3>6. CASE c # n
      BY <1>2, <2>1, <3>2, <3>6 DEF users
    <3>. QED
      BY <3>5, <3>6
  <2>. QED
    BY <2>2, <2>3
<1>. QED
  <2>1. CASE \E l \in IoLoops : LoopRuns(l)
    BY <1>4, <1>8, <1>9, <2>1 DEF LoopRuns
  <2>2. CASE BaseRuns
    BY <1>4, <1>10, <2>2 DEF BaseRuns
  <2>3. CASE DestructorRuns
    BY <1>4, <2>3 DEF DestructorRuns
  <2>. QED
    BY <1>4, <1>5, <1>6, <1>7, <2>1, <2>2, <2>3 DEF Next

(* At first nothing was told.                                              *)
LEMMA ToldInit == Init => ToldInv
<1> SUFFICES ASSUME Init, NEW c \in Conns PROVE Told(c)
  BY DEF ToldInv
<1>1. /\ heard[c] = <<>> /\ conn[c].state = "none" /\ ~conn[c].watched
      /\ c \notin storing
  BY DEF Init
<1>. QED
  BY <1>1, TalesDiffer DEF Told

(* At first no queue holds anything.                                       *)
LEMMA FifoInit == Init => FifoInv
BY TimesEmpty, PrecedesEmpty DEF Init, FifoInv

-----------------------------------------------------------------------------
(* Whatever the peers, the loops, the threads in shutdown() and the        *)
(* destructor do, and in whatever order: where a connection is, what its   *)
(* callback was told, and in which order its functors are queued.          *)
THEOREM ConnectionsKnown == SafeSpec => [](ConnInv /\ ToldInv /\ FifoInv)
<1>1. Init => ConnInv /\ ToldInv /\ FifoInv
  BY ConnInit, ToldInit, FifoInit
<1>2. TypeOK /\ StopInv /\ (ConnInv /\ ToldInv /\ FifoInv) /\ [Next]_vars =>
        (ConnInv /\ ToldInv /\ FifoInv)'
  BY ConnStep, ToldStep, FifoStep
<1>. QED
  BY <1>1, <1>2, TypeCorrect, StopsInOrder, PTL DEF SafeSpec

(* A connection is taken apart exactly once: it is in the map, or the one  *)
(* connectDestroyed that ends it is queued, or it has run.                 *)
THEOREM ApartOnce == SafeSpec => []TakenApartOnce
<1>1. ConnInv => TakenApartOnce
  BY DEF ConnInv, Apart, TakenApartOnce, Times, Undo
<1>. QED
  BY <1>1, ConnectionsKnown, PTL

(* A connection nobody holds any more has run its connectDestroyed, or its *)
(* loop has ended.                                                         *)
LEMMA FreedAfter == TypeOK /\ ConnInv => FreedWhenRemoved
<1>1. TypeOK /\ ConnInv => FreedWhenRemoved
  <2>1. ASSUME TypeOK, ConnInv, NEW c \in Conns, Built(c), ~Owned(c),
               running[conn[c].loop] # "ended"
        PROVE  conn[c].gone
    <3>1. conn[c].loop \in Loops
      BY <2>1 DEF TypeOK
    <3>2. c \notin connections
      BY <2>1 DEF Owned
    <3>3. ~In(Undo(c), queue[conn[c].loop])
      BY <2>1, <3>1, FunctorsDiffer DEF Owned, In
    <3>4. /\ queue[conn[c].loop] \in Seq(Functor)
          /\ Times(Undo(c), queue[conn[c].loop]) \in Nat
      BY <2>1, <3>1, TimesInQueue
    <3>5. Times(Undo(c), queue[conn[c].loop]) > 0 <=>
            In(Undo(c), queue[conn[c].loop])
      BY <3>4, TimesType
    <3>6. Times(Undo(c), queue[conn[c].loop]) = 0
      BY <3>3, <3>4, <3>5
    <3>. QED
      BY <2>1, <3>2, <3>6 DEF ConnInv, Apart
  <2>. QED
    BY <2>1 DEF FreedWhenRemoved
<1>. QED
  BY <1>1

(* Whichever of them lets go of it last (TcpServer.cc:47-57, 130-139).     *)
THEOREM FreedAfterRemoval == SafeSpec => []FreedWhenRemoved
BY FreedAfter, TypeCorrect, ConnectionsKnown, PTL

-----------------------------------------------------------------------------
(* How often the base loop was asked to listen, queued and done.           *)
Asked == Times(Listening, queue[Base]) + (IF listening THEN 1 ELSE 0)

(* Only the start() that found started_ = 0 goes on to the pool; until it  *)
(* is through nobody has asked to listen, and after that the pool is       *)
(* complete.                                                               *)
PoolInv ==
  /\ \A t, u \in Starters : (tpc[t] = "pool" /\ tpc[u] = "pool") => t = u
  /\ (\E t \in Starters : tpc[t] = "pool") =>
       started > 0 /\ Asked = 0 /\ nextConnId = 1
  /\ Asked <= 1
  /\ (Asked > 0 \/ nextConnId > 1) => started > 0 /\ loops = numThreads

(* Asked is a number.                                                      *)
LEMMA AskedType ==
  ASSUME TypeOK
  PROVE  Times(Listening, queue[Base]) \in Nat /\ Asked \in Nat
<1>1. Base \in Loops
  BY LoopNumbers
<1>2. Times(Listening, queue[Base]) \in Nat
  BY <1>1, TimesInQueue
<1>. QED
  BY <1>2 DEF Asked

(* It holds on while nobody asks, accepts or starts.                       *)
LEMMA PoolLeftAlone ==
  ASSUME TypeOK, PoolInv,
         UNCHANGED <<numThreads, started, tpc, loops, nextConnId>>,
         Asked' \in Nat, Asked' <= Asked
  PROVE  PoolInv'
<1>1. Asked \in Nat
  BY AskedType
<1>. HIDE DEF Asked
<1>. QED
  BY <1>1 DEF PoolInv, TypeOK

(* Every step keeps it.                                                    *)
LEMMA PoolStep ==
  TypeOK /\ TypeOK' /\ ConnInv /\ PoolInv /\ [Next]_vars => PoolInv'
<1> SUFFICES ASSUME TypeOK, TypeOK', ConnInv, PoolInv, [Next]_vars
             PROVE  PoolInv'
  OBVIOUS
<1>1. /\ Base \in Loops /\ nextConnId \in Nat /\ started \in Nat
      /\ Times(Listening, queue[Base]) \in Nat
      /\ Asked \in Nat
      /\ loops \in Nat /\ loops' \in Nat
  BY SMTT(30), AskedType, LoopNumbers DEF TypeOK
<1>2. /\ Times(Listening, queue'[Base]) \in Nat
      /\ Asked' \in Nat
  <2>1. queue'[Base] \in Seq(Functor)
    BY <1>1 DEF TypeOK
  <2>2. Times(Listening, queue'[Base]) \in Nat
    BY <2>1, TimesType
  <2>. QED
    BY <2>2 DEF Asked
<1>3. ASSUME UNCHANGED <<queue, listening>> PROVE Asked' = Asked
  BY <1>3 DEF Asked
<1>4. ASSUME NEW l \in Loops, NEW f \in Functor, Queue(l, f), f # Listening
      PROVE  Times(Listening, queue'[Base]) = Times(Listening, queue[Base])
  BY <1>1, <1>4, TimesQueued
<1>5. ASSUME NEW l \in Loops, queue[l] # <<>>, Pop(l),
             Head(queue[l]) # Listening
      PROVE  Times(Listening, queue'[Base]) = Times(Listening, queue[Base])
  BY <1>1, <1>5, TimesPopped
<1>6. ASSUME NEW t \in Starters, Start(t) PROVE PoolInv'
  <2>1. Asked' = Asked
    BY <1>3, <1>6 DEF Start
  <2>2. /\ started' = started + 1
        /\ tpc' = [tpc EXCEPT ![t] = IF started = 0 THEN "pool" ELSE "done"]
        /\ UNCHANGED <<numThreads, loops, nextConnId>>
    BY <1>6 DEF Start, clients, users
  <2>. HIDE DEF Asked
  <2>3. CASE started = 0
    <3>1. /\ \A u \in Starters : tpc[u] # "pool"
          /\ Asked = 0 /\ nextConnId = 1
      BY <1>1, <2>3 DEF PoolInv, TypeOK
    <3>2. \A u \in Starters : tpc'[u] = "pool" => u = t
      BY <2>2, <3>1 DEF TypeOK
    <3>. QED
      BY <1>1, <2>1, <2>2, <2>3, <3>1, <3>2 DEF PoolInv
  <2>4. CASE started # 0
    <3>1. \A u \in Starters : tpc'[u] = "pool" => tpc[u] = "pool"
      BY <2>2, <2>4 DEF TypeOK
    <3>. QED
      BY <1>1, <2>1, <2>2, <3>1 DEF PoolInv
  <2>. QED
    BY <2>3, <2>4
<1>7. ASSUME NEW t \in Starters, PoolStart(t) PROVE PoolInv'
  <2>1. Asked' = Asked
    BY <1>3, <1>7 DEF PoolStart
  <2>2. tpc[t] = "pool" /\ UNCHANGED <<started, tpc, nextConnId>>
    BY <1>7 DEF PoolStart, clients, users
  <2>. HIDE DEF Asked
  <2>3. Asked = 0 /\ nextConnId = 1
    BY <2>2 DEF PoolInv
  <2>. QED
    BY <1>1, <2>1, <2>2, <2>3 DEF PoolInv
<1>8. ASSUME NEW t \in Starters, StartListen(t) PROVE PoolInv'
  <2>1. /\ tpc[t] = "pool" /\ loops = numThreads
        /\ tpc' = [tpc EXCEPT ![t] = "done"]
        /\ UNCHANGED <<numThreads, started, loops, nextConnId>>
    BY <1>8 DEF StartListen, clients, users
  <2>2. Asked = 0 /\ nextConnId = 1 /\ started > 0
    BY <2>1 DEF PoolInv
  <2>3. Times(Listening, queue[Base]) = 0 /\ ~listening
    BY <1>1, <2>2 DEF Asked
  <2>4. Asked' = 1
    <3>1. CASE t = BaseThread
      <4>1. listening' /\ UNCHANGED queue
        BY <1>8, <3>1 DEF StartListen
      <4>. QED
        BY <2>3, <4>1 DEF Asked
    <3>2. CASE t # BaseThread
      <4>1. Queue(Base, Listening) /\ UNCHANGED listening
        BY <1>8, <3>2 DEF StartListen, Listening
      <4>2. Times(Listening, queue'[Base]) = Times(Listening, queue[Base]) + 1
        BY <1>1, <4>1, Functors, TimesQueued
      <4>. QED
        BY <2>3, <4>1, <4>2 DEF Asked
    <3>. QED
      BY <3>1, <3>2
  <2>5. \A u \in Starters : tpc'[u] # "pool"
    BY <2>1 DEF PoolInv, TypeOK
  <2>. HIDE DEF Asked
  <2>. QED
    BY <2>1, <2>2, <2>4, <2>5 DEF PoolInv
<1>9. CASE Accept
  <2>1. /\ listening /\ UNCHANGED <<numThreads, started, tpc, loops, listening>>
    BY <1>9 DEF Accept, pool
  <2>2. Asked > 0
    BY <1>1, <2>1 DEF Asked
  <2>3. /\ Asked' = Asked
    <3>1. CASE loops = 0
      BY <1>3, <1>9, <2>1, <3>1 DEF Accept
    <3>2. CASE loops # 0
      <4>1. PICK l \in 1..loops : NewConnection(l)
        BY <1>9, <3>2 DEF Accept
      <4>2. /\ l \in Loops /\ Queue(l, Establish(nextConnId))
            /\ nextConnId \in Conns
        <5>1. l \in Loops
          BY <4>1, LoopNumbers DEF IoLoops, TypeOK
        <5>2. Queue(l, Establish(nextConnId))
          BY <4>1 DEF NewConnection, Establish
        <5>3. nextConnId \in Conns
          BY <1>9 DEF Accept, Backlog, Conns, TypeOK
        <5>. QED
          BY <5>1, <5>2, <5>3
      <4>3. /\ Establish(nextConnId) \in Functor
            /\ Establish(nextConnId) # Listening
        BY <4>2, Functors, FunctorsDiffer
      <4>4. Times(Listening, queue'[Base]) = Times(Listening, queue[Base])
        BY <1>4, <4>2, <4>3
      <4>. QED
        BY <2>1, <4>4 DEF Asked
    <3>. QED
      BY <3>1, <3>2
  <2>4. nextConnId' \in Nat
    BY DEF TypeOK
  <2>. HIDE DEF Asked
  <2>. QED
    BY <1>1, <2>1, <2>2, <2>3, <2>4 DEF PoolInv
<1>10. CASE RunListen
  <2>1. /\ queue[Base] # <<>> /\ Pop(Base) /\ Head(queue[Base]) = Listening
        /\ queue[Base] \in Seq(Functor)
        /\ listening' /\ UNCHANGED <<numThreads, started, tpc, loops, nextConnId>>
    BY <1>1, <1>10, HeadTaken DEF RunListen, Take, pool, clients, users
  <2>2. Times(Listening, queue'[Base]) = Times(Listening, queue[Base]) - 1
    BY <1>1, <2>1, TimesPopped
  <2>3. Times(Listening, queue[Base]) > 0
    BY <1>1, <2>1, HeadCounts
  <2>4. ~listening
    BY <1>1, <2>3 DEF PoolInv, Asked
  <2>5. Asked' = Asked
    BY <1>1, <2>1, <2>2, <2>4 DEF Asked
  <2>. QED
    BY <1>1, <2>1, <2>5, PoolLeftAlone
<1>11. ASSUME NEW l \in IoLoops, LoopRuns(l) PROVE PoolInv'
  <2>1. l \in Loops /\ l # Base
    BY LoopNumbers
  <2>2. UNCHANGED <<numThreads, started, tpc, loops, nextConnId, listening>>
    BY <1>11 DEF LoopRuns, RemoveConnection, RunConnectEstablished,
       RunConnectDestroyed, LoopEnds, EnterLoop, Take, pool, clients, users
  <2>3. Times(Listening, queue'[Base]) = Times(Listening, queue[Base])
    <3>1. CASE RemoveConnection(l)
      <4>1. /\ closing[l] \in Conns /\ Remove(closing[l]) \in Functor
            /\ Queue(Base, Remove(closing[l])) /\ Remove(closing[l]) # Listening
        BY <2>1, <3>1, Functors, FunctorsDiffer
           DEF RemoveConnection, TypeOK, Remove
      <4>. QED
        BY <1>1, <1>4, <4>1
    <3>2. CASE ~RemoveConnection(l)
      BY <1>1, <1>11, <2>1, <3>2 DEF LoopRuns, RunConnectEstablished,
         RunConnectDestroyed, LoopEnds, EnterLoop, Pop, TypeOK
    <3>. QED
      BY <3>1, <3>2
  <2>4. Asked' = Asked
    BY <2>2, <2>3 DEF Asked
  <2>. QED
    BY <1>1, <2>2, <2>4, PoolLeftAlone
<1>12. CASE RunRemoveConnectionInLoop
  <2>. DEFINE c == Head(queue[Base]).conn
  <2>1. /\ c \in Conns /\ Head(queue[Base]) = Remove(c)
        /\ queue[Base] \in Seq(Functor) /\ queue[Base] # <<>>
        /\ UNCHANGED <<numThreads, started, tpc, loops, nextConnId, listening>>
    BY <1>1, <1>12, HeadTaken
       DEF RunRemoveConnectionInLoop, Take, pool, clients, users
  <2>2. queue' = [[queue EXCEPT ![Base] = Tail(@)] EXCEPT
                    ![conn[c].loop] = Append(@, Bind("connectDestroyed", c))]
    BY <1>12 DEF RunRemoveConnectionInLoop
  <2>. HIDE DEF c
  <2>3. Times(Remove(c), queue[Base]) > 0
    BY <1>1, <2>1, HeadCounts
  <2>4. conn[c].loop # Base
    BY <2>1, <2>3, KnownIsBuilt DEF ConnInv
  <2>5. queue'[Base] = Tail(queue[Base])
    BY <1>1, <2>2, <2>4 DEF TypeOK
  <2>6. Times(Listening, Tail(queue[Base])) =
          Times(Listening, queue[Base])
            - (IF Head(queue[Base]) = Listening THEN 1 ELSE 0)
    BY <2>1, TimesTail
  <2>7. Head(queue[Base]) # Listening
    BY <2>1, FunctorsDiffer
  <2>8. Asked' = Asked
    BY <1>1, <2>1, <2>5, <2>6, <2>7 DEF Asked
  <2>. QED
    BY <1>1, <2>1, <2>8, PoolLeftAlone
<1>13. ASSUME NEW c \in Conns, DestroyConnection(c) PROVE PoolInv'
  <2>1. UNCHANGED <<numThreads, started, tpc, loops, nextConnId, listening>>
    BY <1>13 DEF DestroyConnection, pool, clients, users
  <2>2. /\ conn[c].loop \in Loops /\ Undo(c) \in Functor
        /\ Queue(conn[c].loop, Undo(c)) /\ Undo(c) # Listening
    BY <1>13, Functors, FunctorsDiffer DEF DestroyConnection, TypeOK, Undo
  <2>3. Asked' = Asked
    BY <1>4, <2>1, <2>2 DEF Asked
  <2>. QED
    BY <1>1, <2>1, <2>3, PoolLeftAlone
<1>14. CASE DestroyAcceptor
  <2>1. /\ UNCHANGED <<numThreads, started, tpc, loops, nextConnId, queue>>
        /\ ~listening'
    BY <1>14 DEF DestroyAcceptor, pool, clients, users
  <2>2. Asked' <= Asked
    BY <1>1, <2>1 DEF Asked
  <2>. QED
    BY <1>2, <2>1, <2>2, PoolLeftAlone
<1>15. CASE DestroyBaseLoop
  <2>1. /\ UNCHANGED <<numThreads, started, tpc, loops, nextConnId, listening>>
        /\ queue' = [queue EXCEPT ![Base] = <<>>]
    BY <1>15 DEF DestroyBaseLoop, pool, clients, users
  <2>2. Times(Listening, queue'[Base]) =
          IF Base = Base THEN 0 ELSE Times(Listening, queue[Base])
    BY <1>1, <2>1, TimesDropped
  <2>3. Asked' <= Asked
    BY <1>1, <2>1, <2>2 DEF Asked
  <2>. QED
    BY <1>2, <2>1, <2>3, PoolLeftAlone
<1>16. CASE \/ BaseLoops \/ BaseEnds \/ ClientConnects \/ Destroy
            \/ \E c \in Conns : \/ Shutdown(c) \/ HandleClose(c)
                               \/ ShutdownTest(c) \/ ShutdownStore(c)
            \/ \E l \in IoLoops : QuitLoop(l)
            \/ UNCHANGED vars
  <2>1. UNCHANGED <<numThreads, started, tpc, loops, nextConnId, listening,
                    queue>>
    BY <1>16 DEF BaseLoops, BaseEnds, ClientConnects, Destroy, Shutdown,
       ShutdownTest, ShutdownStore, HandleClose, QuitLoop, vars, pool, clients, users
  <2>. QED
    BY <1>1, <1>3, <2>1, PoolLeftAlone
<1>. QED
  BY <1>6, <1>7, <1>8, <1>9, <1>10, <1>11, <1>12, <1>13, <1>14, <1>15, <1>16
     DEF Next, StarterRuns, BaseRuns, DestructorRuns

(* Whichever threads call start(), and however often.                      *)
THEOREM PoolComplete == SafeSpec => []PoolInv
<1>1. Init => PoolInv
  <2> SUFFICES ASSUME Init PROVE PoolInv
    OBVIOUS
  <2>1. Asked = 0
    BY TimesEmpty, LoopNumbers DEF Init, Asked
  <2>. QED
    BY <2>1 DEF Init, PoolInv
<1>. QED
  BY <1>1, PoolStep, TypeCorrect, ConnectionsKnown, PTL DEF SafeSpec

(* start() listens once, and only when the pool is complete, so the base   *)
(* loop never reads loops_ and the ring while a starter writes them.       *)
THEOREM ListensOnCompletePool == SafeSpec => []PoolBeforeListen
<1>1. TypeOK /\ PoolInv => PoolBeforeListen
  <2> SUFFICES ASSUME TypeOK, PoolInv PROVE PoolBeforeListen
    OBVIOUS
  <2>1. Base \in Loops /\ queue[Base] \in Seq(Functor)
    BY TimesInQueue, LoopNumbers
  <2>2. \A i \in 1..Len(queue[Base]) :
          queue[Base][i].op = "listen" <=> queue[Base][i] = Listening
    <3>1. \A i \in 1..Len(queue[Base]) : queue[Base][i] \in Functor
      BY <2>1, ElementOfSeq
    <3>. QED
      BY <3>1, Functors, FunctorsDiffer
  <2>3. {i \in 1..Len(queue[Base]) : queue[Base][i].op = "listen"} =
        {i \in 1..Len(queue[Base]) : queue[Base][i] = Listening}
    BY <2>2
  <2>4. Asked = Cardinality({i \in 1..Len(queue[Base]) :
                               queue[Base][i].op = "listen"})
                  + (IF listening THEN 1 ELSE 0)
    BY <2>3 DEF Asked, Times
  <2>5. (\E t \in Starters : tpc[t] = "pool") => Asked = 0 /\ nextConnId = 1
    BY DEF PoolInv
  <2>6. /\ Asked <= 1
        /\ (Asked > 0 \/ nextConnId > 1) => loops = numThreads
    BY DEF PoolInv
  <2>7. (Asked > 0 \/ nextConnId > 1) => \A t \in Starters : tpc[t] # "pool"
    <3>. HIDE DEF Asked
    <3>. QED
      BY <2>5
  <2>. HIDE DEF Asked
  <2>. QED
    BY <2>4, <2>6, <2>7 DEF PoolBeforeListen
<1>. QED
  BY <1>1, TypeCorrect, PoolComplete, PTL

-----------------------------------------------------------------------------
(* A functor of a queue holds connection c.                                *)
Mentions(q, c) == \E i \in 1..Len(q) : q[i].conn = c

(* What is queued is mentioned, besides what was.                          *)
LEMMA MentionsAppend ==
  ASSUME NEW q \in Seq(Functor), NEW f \in Functor, NEW c
  PROVE  Mentions(Append(q, f), c) <=> f.conn = c \/ Mentions(q, c)
<1>1. /\ Len(Append(q, f)) = Len(q) + 1 /\ Len(q) \in Nat
      /\ \A i \in 1..Len(q) : Append(q, f)[i] = q[i]
      /\ Append(q, f)[Len(q) + 1] = f
  BY AppendProperties, LenProperties
<1>2. \A i : i \in 1..Len(Append(q, f)) <=> i \in 1..Len(q) \/ i = Len(q) + 1
  BY <1>1
<1>. HIDE DEF Functor
<1>. QED
  BY <1>1, <1>2 DEF Mentions

(* A queue mentions what its head holds and what the others hold.          *)
LEMMA MentionsHead ==
  ASSUME NEW q \in Seq(Functor), q # <<>>, NEW c
  PROVE  Mentions(q, c) <=> Head(q).conn = c \/ Mentions(Tail(q), c)
<1>1. /\ Len(q) \in Nat \ {0} /\ Head(q) = q[1]
      /\ Len(Tail(q)) = Len(q) - 1
      /\ \A i \in 1..Len(Tail(q)) : Tail(q)[i] = q[i + 1]
  BY HeadTailProperties, EmptySeq
<1>2. ASSUME Mentions(q, c) PROVE Head(q).conn = c \/ Mentions(Tail(q), c)
  <2>1. PICK i \in 1..Len(q) : q[i].conn = c
    BY <1>2 DEF Mentions
  <2>2. CASE i = 1
    BY <1>1, <2>1, <2>2
  <2>3. CASE i # 1
    <3>1. i - 1 \in 1..Len(Tail(q)) /\ (i - 1) + 1 = i
      BY <1>1, <2>3
    <3>2. Tail(q)[i - 1] = q[i]
      BY <1>1, <3>1
    <3>. QED
      BY <2>1, <3>1, <3>2 DEF Mentions
  <2>. QED
    BY <2>2, <2>3
<1>3. ASSUME Mentions(Tail(q), c) PROVE Mentions(q, c)
  <2>1. PICK i \in 1..Len(Tail(q)) : Tail(q)[i].conn = c
    BY <1>3 DEF Mentions
  <2>2. i + 1 \in 1..Len(q) /\ q[i + 1].conn = c
    BY <1>1, <2>1
  <2>. QED
    BY <2>2 DEF Mentions
<1>4. 1 \in 1..Len(q)
  BY <1>1
<1>5. Head(q).conn = c => Mentions(q, c)
  BY <1>1, <1>4 DEF Mentions
<1>. QED
  BY <1>2, <1>3, <1>5

(* An empty queue mentions nobody.                                         *)
LEMMA MentionsEmpty == \A c : ~Mentions(<<>>, c)
BY DEF Mentions

(* Who holds a connection.                                                 *)
LEMMA Owners ==
  \A c \in Conns :
    Owned(c) <=> \/ c \in connections \/ c \in storing
                 \/ \E l \in Loops : closing[l] = c \/ Mentions(queue[l], c)
BY DEF Owned, Mentions

(* ... and who holds it after a step.                                      *)
LEMMA OwnersNext ==
  \A c \in Conns :
    Owned(c)' <=> \/ c \in connections' \/ c \in storing'
                  \/ \E l \in Loops : closing'[l] = c \/ Mentions(queue'[l], c)
BY DEF Owned, Mentions

(* A queue with one functor more.                                          *)
LEMMA MentionsQueued ==
  ASSUME TypeOK, NEW l \in Loops, NEW f \in Functor, Queue(l, f),
         NEW k \in Loops, NEW c
  PROVE  Mentions(queue'[k], c) =>
           (k = l /\ f.conn = c) \/ Mentions(queue[k], c)
<1>1. queue[k] \in Seq(Functor)
  BY DEF TypeOK
<1>2. queue'[k] = IF k = l THEN Append(queue[k], f) ELSE queue[k]
  BY DEF Queue, TypeOK
<1>3. Mentions(Append(queue[k], f), c) <=> f.conn = c \/ Mentions(queue[k], c)
  BY <1>1, MentionsAppend
<1>. QED
  BY <1>2, <1>3

(* A queue without its head.                                               *)
LEMMA MentionsPopped ==
  ASSUME TypeOK, NEW l \in Loops, queue[l] # <<>>, Pop(l),
         NEW k \in Loops, NEW c
  PROVE  /\ Mentions(queue'[k], c) => Mentions(queue[k], c)
         /\ Head(queue[l]).conn # c =>
              (Mentions(queue'[k], c) <=> Mentions(queue[k], c))
<1>1. queue[l] \in Seq(Functor)
  BY DEF TypeOK
<1>2. queue'[k] = IF k = l THEN Tail(queue[k]) ELSE queue[k]
  BY DEF Pop, TypeOK
<1>3. Mentions(queue[l], c) <=>
        Head(queue[l]).conn = c \/ Mentions(Tail(queue[l]), c)
  BY <1>1, MentionsHead
<1>. QED
  BY <1>2, <1>3

-----------------------------------------------------------------------------
(* A connection that was built stays built.                                *)
LEMMA BuiltStays ==
  ASSUME TypeOK, [Next]_vars, NEW c \in Conns, Built(c)
  PROVE  Built(c)'
<1>1. conn'[c] = conn[c] => Built(c)'
  BY DEF Built
<1>2. ASSUME NEW d \in Conns, NEW st, NEW w, NEW g, Became(d, st, w, g),
             st # "none" \/ st = conn[d].state
      PROVE  Built(c)'
  BY <1>1, <1>2 DEF Became, Built
<1>3. ASSUME NEW d \in Conns, Shutdown(d) \/ ShutdownStore(d) \/ HandleClose(d)
      PROVE  Built(c)'
  <2>1. CASE Shutdown(d) \/ ShutdownStore(d)
    <3>1. Became(d, "kDisconnecting", conn[d].watched, conn[d].gone)
      BY <2>1, ConnAfter
    <3>. QED
      BY <1>2, <3>1
  <2>2. CASE HandleClose(d)
    <3>1. Became(d, "kDisconnected", FALSE, conn[d].gone)
      BY <2>2, ConnAfter
    <3>. QED
      BY <1>2, <3>1
  <2>. QED
    BY <1>3, <2>1, <2>2
<1>4. ASSUME NEW l \in IoLoops, RunConnectEstablished(l) PROVE Built(c)'
  <2>1. PICK d \in Conns : d = Head(queue[l]).conn
    BY <1>4, HeadTaken, LoopNumbers DEF RunConnectEstablished
  <2>2. Became(d, "kConnected", TRUE, conn[d].gone)
    BY <1>4, <2>1, ConnAfter
  <2>. QED
    BY <1>2, <2>2
<1>5. ASSUME NEW l \in IoLoops, RunConnectDestroyed(l) PROVE Built(c)'
  <2>1. PICK d \in Conns : d = Head(queue[l]).conn
    BY <1>5, HeadTaken, LoopNumbers DEF RunConnectDestroyed
  <2>2. PICK st : st = IF conn[d].state = "kConnected" THEN "kDisconnected"
                       ELSE conn[d].state
    OBVIOUS
  <2>3. Became(d, st, FALSE, TRUE)
    BY <1>5, <2>1, <2>2, ConnAfter
  <2>4. st # "none" \/ st = conn[d].state
    BY <2>2
  <2>. QED
    BY <1>2, <2>3, <2>4
<1>6. CASE Accept
  <2>1. CASE loops = 0
    BY <1>1, <1>6, <2>1 DEF Accept
  <2>2. CASE loops # 0
    <3>1. /\ nextConnId \in Conns /\ conn'[nextConnId].state = "kConnecting"
          /\ \A d \in Conns : d # nextConnId => conn'[d] = conn[d]
      BY <1>6, <2>2, ConnNewAfter
    <3>2. CASE c = nextConnId
      BY <3>1, <3>2 DEF Built
    <3>3. CASE c # nextConnId
      BY <1>1, <3>1, <3>3
    <3>. QED
      BY <3>2, <3>3
  <2>. QED
    BY <2>1, <2>2
<1>. QED
  <2>1. CASE UNCHANGED conn
    BY <1>1, <2>1
  <2>2. CASE \E t \in Starters : Start(t) \/ StarterRuns(t)
    BY <2>1, <2>2 DEF Start, StarterRuns, PoolStart, StartListen
  <2>3. CASE BaseLoops \/ BaseEnds \/ ClientConnects \/ UNCHANGED vars
    BY <2>1, <2>3 DEF BaseLoops, BaseEnds, ClientConnects, vars
  <2>4. CASE \E d \in Conns : ShutdownTest(d)
    BY <2>1, <2>4 DEF ShutdownTest
  <2>5. CASE \E l \in IoLoops : LoopRuns(l)
    BY <1>4, <1>5, <2>1, <2>5 DEF LoopRuns, EnterLoop, RemoveConnection, LoopEnds
  <2>6. CASE BaseRuns
    BY <1>6, <2>1, <2>6 DEF BaseRuns, RunListen, RunRemoveConnectionInLoop
  <2>7. CASE DestructorRuns
    BY <2>1, <2>7 DEF DestructorRuns, Destroy, DestroyConnection, QuitLoop,
       DestroyAcceptor, DestroyBaseLoop
  <2>. QED
    BY <1>3, <2>2, <2>3, <2>4, <2>5, <2>6, <2>7 DEF Next

(* Nobody comes to hold a connection that nobody held: what is queued and  *)
(* whom handleClose and shutdown() hold was held before.                   *)
LEMMA OwnedBefore ==
  ASSUME TypeOK, ConnInv, ToldInv, [Next]_vars,
         NEW c \in Conns, Built(c), Owned(c)'
  PROVE  Owned(c)
<1>1. ASSUME c \in connections' => Owned(c), c \in storing' => Owned(c),
             \A l \in Loops : closing'[l] = c => Owned(c),
             \A l \in Loops : Mentions(queue'[l], c) => Owned(c)
      PROVE  Owned(c)
  BY <1>1, OwnersNext
<1>2. /\ c \in connections => Owned(c)
      /\ c \in storing => Owned(c)
      /\ \A l \in Loops : closing[l] = c => Owned(c)
      /\ \A l \in Loops : Mentions(queue[l], c) => Owned(c)
  BY Owners
<1>3. c # 0 /\ Base \in Loops /\ IoLoops \subseteq Loops
  BY LoopNumbers
<1>4. ASSUME UNCHANGED <<connections, storing, closing, queue>> PROVE Owned(c)
  BY <1>1, <1>2, <1>4
<1>5. ASSUME NEW l \in Loops, NEW f \in Functor, Queue(l, f),
             f.conn = c => Owned(c)
      PROVE  \A k \in Loops : Mentions(queue'[k], c) => Owned(c)
  BY <1>2, <1>5, MentionsQueued
<1>6. ASSUME NEW l \in Loops, queue[l] # <<>>, Pop(l)
      PROVE  \A k \in Loops : Mentions(queue'[k], c) => Owned(c)
  BY <1>2, <1>6, MentionsPopped
<1>7. ASSUME NEW l \in Loops, queue' = [queue EXCEPT ![l] = <<>>]
      PROVE  \A k \in Loops : Mentions(queue'[k], c) => Owned(c)
  <2>1. ASSUME NEW k \in Loops
        PROVE  queue'[k] = <<>> \/ queue'[k] = queue[k]
    BY <1>7 DEF TypeOK
  <2>. QED
    BY <1>2, <2>1, MentionsEmpty
<1>8. ASSUME NEW t \in Starters, StartListen(t) PROVE Owned(c)
  <2>1. UNCHANGED <<connections, storing, closing>>
    BY <1>8 DEF StartListen, users
  <2>2. CASE t = BaseThread
    BY <1>4, <1>8, <2>1, <2>2 DEF StartListen
  <2>3. CASE t # BaseThread
    <3>1. Queue(Base, Listening) /\ Listening \in Functor
      BY <1>8, <2>3, Functors DEF StartListen, Listening
    <3>2. Listening.conn # c
      BY <1>3 DEF Listening, Bind
    <3>. QED
      BY <1>1, <1>2, <1>3, <1>5, <2>1, <3>1, <3>2
  <2>. QED
    BY <2>2, <2>3
<1>9. CASE Accept
  <2>1. UNCHANGED <<storing, closing>>
    BY <1>9 DEF Accept, users
  <2>2. CASE loops = 0
    BY <1>4, <1>9, <2>1, <2>2 DEF Accept
  <2>3. CASE loops # 0
    <3>1. PICK l \in 1..loops : NewConnection(l)
      BY <1>9, <2>3 DEF Accept
    <3>2. nextConnId \in Conns /\ nextConnId >= nextConnId /\ l \in Loops
      BY <1>9, <3>1, LoopNumbers DEF Accept, Backlog, Conns, IoLoops, TypeOK
    <3>3. c # nextConnId
      BY <3>2 DEF ConnInv, Homed
    <3>4. /\ Establish(nextConnId) \in Functor
          /\ Queue(l, Establish(nextConnId))
          /\ Establish(nextConnId).conn # c
      BY <3>1, <3>2, <3>3, Functors DEF NewConnection, Establish, Bind
    <3>5. connections' = connections \cup {nextConnId}
      BY <3>1 DEF NewConnection
    <3>. QED
      BY <1>1, <1>2, <1>5, <2>1, <3>2, <3>3, <3>4, <3>5
  <2>. QED
    BY <2>2, <2>3
<1>10. ASSUME NEW d \in Conns, HandleClose(d) PROVE Owned(c)
  <2>1. /\ UNCHANGED <<connections, storing, queue>>
        /\ closing' = [closing EXCEPT ![conn[d].loop] = d]
        /\ conn[d].watched /\ Built(d) /\ running[conn[d].loop] # "ended"
    BY <1>10 DEF HandleClose, Serves, InLoop
  <2>2. Owned(d)
    <3>1. ~conn[d].gone
      BY <2>1 DEF ToldInv, Told
    <3>. QED
      BY <2>1, <3>1, FreedAfter DEF FreedWhenRemoved
  <2>3. \A k \in Loops : closing'[k] = c => closing[k] = c \/ c = d
    BY <2>1 DEF TypeOK
  <2>. QED
    BY <1>1, <1>2, <2>1, <2>2, <2>3
<1>11. ASSUME NEW d \in Conns, ShutdownTest(d) PROVE Owned(c)
  <2>1. /\ UNCHANGED <<connections, closing, queue>> /\ Owned(d)
        /\ storing' = storing \cup {d}
    BY <1>11 DEF ShutdownTest
  <2>. QED
    BY <1>1, <1>2, <2>1
<1>12. ASSUME NEW d \in Conns, Shutdown(d) \/ ShutdownStore(d) PROVE Owned(c)
  <2>1. UNCHANGED <<connections, closing, queue>> /\ storing' \subseteq storing
    BY <1>12 DEF Shutdown, ShutdownStore, users
  <2>. QED
    BY <1>1, <1>2, <2>1
<1>13. ASSUME NEW d \in Conns, DestroyConnection(d) PROVE Owned(c)
  <2>1. /\ UNCHANGED <<storing, closing>> /\ connections' \subseteq connections
        /\ d \in connections /\ Queue(conn[d].loop, Undo(d))
    BY <1>13 DEF DestroyConnection, users, Undo
  <2>2. /\ conn[d].loop \in Loops /\ Undo(d) \in Functor /\ Undo(d).conn = d
    BY Functors DEF TypeOK, Undo, Bind
  <2>3. Undo(d).conn = c => Owned(c)
    BY <1>2, <2>1, <2>2
  <2>. QED
    BY <1>1, <1>2, <1>5, <2>1, <2>2, <2>3
<1>14. ASSUME NEW l \in IoLoops, RemoveConnection(l) PROVE Owned(c)
  <2>1. /\ UNCHANGED <<connections, storing>>
        /\ closing' = [closing EXCEPT ![l] = 0]
        /\ closing[l] \in Conns /\ Queue(Base, Remove(closing[l]))
    BY <1>3, <1>14 DEF RemoveConnection, users, TypeOK, Remove
  <2>2. /\ Remove(closing[l]) \in Functor /\ Remove(closing[l]).conn = closing[l]
    BY <2>1, Functors DEF Remove, Bind
  <2>3. Remove(closing[l]).conn = c => Owned(c)
    BY <1>2, <1>3, <2>2
  <2>4. \A k \in Loops : closing'[k] = c => closing[k] = c
    BY <1>3, <2>1 DEF TypeOK
  <2>. QED
    BY <1>1, <1>2, <1>3, <1>5, <2>1, <2>2, <2>3, <2>4
<1>15. ASSUME NEW l \in IoLoops,
              RunConnectEstablished(l) \/ RunConnectDestroyed(l)
       PROVE  Owned(c)
  <2>1. /\ UNCHANGED <<connections, storing, closing>>
        /\ queue[l] # <<>> /\ Pop(l)
    BY <1>15 DEF RunConnectEstablished, RunConnectDestroyed, Take
  <2>. QED
    BY <1>1, <1>2, <1>3, <1>6, <2>1
<1>16. CASE RunListen
  <2>1. /\ UNCHANGED <<connections, storing, closing>>
        /\ queue[Base] # <<>> /\ Pop(Base)
    BY <1>16 DEF RunListen, Take, users
  <2>. QED
    BY <1>1, <1>2, <1>3, <1>6, <2>1
<1>17. CASE RunRemoveConnectionInLoop
  <2>1. /\ UNCHANGED <<storing, closing>> /\ connections' \subseteq connections
        /\ queue[Base] # <<>> /\ queue[Base] \in Seq(Functor)
    BY <1>3, <1>17, TimesInQueue DEF RunRemoveConnectionInLoop, Take, users
  <2>2. PICK d \in Conns : d = Head(queue[Base]).conn
    BY SMTT(30), <1>3, <1>17, HeadTaken DEF RunRemoveConnectionInLoop
  <2>3. PICK popped \in [Loops -> Seq(Functor)] :
          popped = [queue EXCEPT ![Base] = Tail(queue[Base])]
    BY <1>3, <1>17, HeadTaken DEF RunRemoveConnectionInLoop, TypeOK
  <2>4. queue' = [popped EXCEPT ![conn[d].loop] = Append(popped[conn[d].loop], Undo(d))]
    BY <1>17, <2>2, <2>3 DEF RunRemoveConnectionInLoop, Undo
  <2>5. \A k \in Loops :
          popped[k] = IF k = Base THEN Tail(queue[k]) ELSE queue[k]
    BY <2>3 DEF TypeOK
  <2>6. ASSUME NEW k \in Loops, Mentions(popped[k], c) PROVE Owned(c)
    <3>1. k = Base => (Mentions(Tail(queue[Base]), c) => Mentions(queue[Base], c))
      BY <2>1, MentionsHead
    <3>2. Mentions(queue[k], c)
      BY <2>5, <2>6, <3>1
    <3>. QED
      BY <1>2, <3>2
  <2>7. d = c => Owned(c)
    <3>1. Mentions(queue[Base], d)
      BY <2>1, <2>2, MentionsHead
    <3>. QED
      BY <1>2, <1>3, <3>1
  <2>8. ASSUME NEW k \in Loops, Mentions(queue'[k], c) PROVE Owned(c)
    <3>1. queue'[k] = popped[k] \/ queue'[k] = Append(popped[k], Undo(d))
      BY <2>3, <2>4
    <3>2. CASE queue'[k] = popped[k]
      BY <2>6, <2>8, <3>2
    <3>3. CASE queue'[k] = Append(popped[k], Undo(d))
      <4>1. /\ popped[k] \in Seq(Functor) /\ Undo(d) \in Functor
            /\ Undo(d).conn = d
        BY <2>3, Functors DEF Undo, Bind
      <4>2. Mentions(Append(popped[k], Undo(d)), c) <=>
              Undo(d).conn = c \/ Mentions(popped[k], c)
        BY <4>1, MentionsAppend
      <4>. QED
        BY <2>6, <2>7, <2>8, <3>3, <4>1, <4>2
    <3>. QED
      BY <3>1, <3>2, <3>3
  <2>. QED
    BY <1>1, <1>2, <2>1, <2>8
<1>18. CASE DestroyBaseLoop \/ \E l \in IoLoops : LoopEnds(l)
  <2>1. PICK l \in Loops : queue' = [queue EXCEPT ![l] = <<>>]
    BY <1>3, <1>18 DEF DestroyBaseLoop, LoopEnds
  <2>2. UNCHANGED <<connections, storing, closing>>
    BY <1>18 DEF DestroyBaseLoop, LoopEnds, users
  <2>. QED
    BY <1>1, <1>2, <1>7, <2>1, <2>2
<1>19. CASE \/ \E t \in Starters : Start(t) \/ PoolStart(t)
            \/ BaseLoops \/ BaseEnds \/ ClientConnects
            \/ \E l \in IoLoops : EnterLoop(l) \/ QuitLoop(l)
            \/ Destroy \/ DestroyAcceptor \/ UNCHANGED vars
  BY <1>4, <1>19 DEF Start, PoolStart, BaseLoops, BaseEnds, ClientConnects,
     EnterLoop, QuitLoop, Destroy, DestroyAcceptor, users, vars
<1>. QED
  <2>1. CASE \E t \in Starters : Start(t) \/ StarterRuns(t)
    BY <1>8, <1>19, <2>1 DEF StarterRuns
  <2>2. CASE \E l \in IoLoops : LoopRuns(l)
    BY <1>14, <1>15, <1>18, <1>19, <2>2 DEF LoopRuns
  <2>3. CASE BaseRuns
    BY <1>9, <1>16, <1>17, <2>3 DEF BaseRuns
  <2>4. CASE DestructorRuns
    BY <1>13, <1>18, <1>19, <2>4 DEF DestructorRuns
  <2>. QED
    BY <1>10, <1>11, <1>12, <1>19, <2>1, <2>2, <2>3, <2>4 DEF Next

-----------------------------------------------------------------------------
(* The connections that nobody holds any more.                             *)
Released == {c \in Conns : Built(c) /\ ~Owned(c)}

(* They stay released.                                                     *)
LEMMA ReleasedStay ==
  ASSUME TypeOK, ConnInv, ToldInv, [Next]_vars
  PROVE  Released \subseteq Released'
BY BuiltStays, OwnedBefore DEF Released

(* What the callbacks are told, and that a server stops, is all in four    *)
(* steps.                                                                  *)
LEMMA QuietSteps ==
  ASSUME [Next]_vars,
         ~(\E c \in Conns : HandleClose(c)),
         ~(\E l \in IoLoops : RunConnectEstablished(l)),
         ~(\E l \in IoLoops : RunConnectDestroyed(l)),
         ~Destroy
  PROVE  heard' = heard /\ (phase' = "alive" <=> phase = "alive")
<1>1. CASE \E t \in Starters : Start(t) \/ StarterRuns(t)
  BY <1>1 DEF Start, StarterRuns, PoolStart, StartListen, users
<1>2. CASE BaseLoops \/ BaseEnds \/ ClientConnects \/ UNCHANGED vars
  BY <1>2 DEF BaseLoops, BaseEnds, ClientConnects, users, vars
<1>3. CASE \E c \in Conns : Shutdown(c) \/ ShutdownTest(c) \/ ShutdownStore(c)
  BY <1>3 DEF Shutdown, ShutdownTest, ShutdownStore, users
<1>4. CASE \E l \in IoLoops : LoopRuns(l)
  BY <1>4 DEF LoopRuns, EnterLoop, RemoveConnection, LoopEnds, users
<1>5. CASE BaseRuns
  BY <1>5 DEF BaseRuns, Accept, RunListen, RunRemoveConnectionInLoop, Take, users
<1>6. CASE DestructorRuns
  BY <1>6 DEF DestructorRuns, DestroyConnection, QuitLoop, DestroyAcceptor,
     DestroyBaseLoop, users
<1>. QED
  BY <1>1, <1>2, <1>3, <1>4, <1>5, <1>6 DEF Next

(* A step that tells nobody anything releases connections that went down,  *)
(* or the server is stopping.                                              *)
LEMMA LifeQuiet ==
  ASSUME TypeOK, ConnInv, ConnInv', ToldInv, [Next]_vars,
         heard' = heard, phase' = "alive" <=> phase = "alive"
  PROVE  [Abstract!Next]_(Abstract!vars)
<1>. DEFINE cs == Released' \ Released
<1>1. Released' = Released \cup cs /\ cs \cap Released = {}
  BY ReleasedStay
<1>2. CASE cs = {}
  <2>1. Released' = Released
    BY <1>1, <1>2
  <2>. QED
    BY <2>1 DEF Released, Abstract!vars
<1>3. CASE cs # {}
  <2>1. ASSUME NEW c \in cs PROVE heard[c] = <<"UP", "DOWN">> \/ phase # "alive"
    <3>1. c \in Conns /\ Built(c)' /\ ~Owned(c)'
      BY DEF Released
    <3>2. LeavesOnce(c)' /\ c \notin connections'
      BY <3>1, OwnersNext DEF ConnInv
    <3>3. phase' = "alive" => Down(c)'
      BY <3>1, <3>2 DEF LeavesOnce
    <3>. QED
      BY <3>3 DEF Down
  <2>2. cs \in SUBSET Conns
    BY DEF Released
  <2>. HIDE DEF cs
  <2>3. Abstract!Release(cs)
    BY <1>1, <1>3, <2>1 DEF Released, Abstract!Release
  <2>. QED
    BY <2>2, <2>3 DEF Abstract!Next
<1>. QED
  BY <1>2, <1>3

(* connectEstablished: UP.  Its connection is held by the map or by the    *)
(* functor that will undo it.                                              *)
LEMMA LifeUp ==
  ASSUME TypeOK, ConnInv, TypeOK', ConnInv', ToldInv, FifoInv, [Next]_vars,
         NEW l \in IoLoops, RunConnectEstablished(l)
  PROVE  Abstract!Next
<1>1. /\ l \in Loops /\ queue[l] \in Seq(Functor) /\ queue[l] # <<>> /\ Pop(l)
      /\ UNCHANGED <<connections, storing, closing, running, phase>>
      /\ running[l] # "ended"
  BY LoopNumbers, TimesInQueue DEF RunConnectEstablished, Take, Serves, InLoop
<1>2. PICK d \in Conns : d = Head(queue[l]).conn /\ Head(queue[l]) = Establish(d)
  BY <1>1, HeadTaken DEF RunConnectEstablished
<1>3. Times(Establish(d), queue[l]) > 0
  BY <1>1, <1>2, HeadCounts
<1>4. /\ l = conn[d].loop /\ conn[d].state = "kConnecting" /\ ~conn[d].gone
  BY <1>1, <1>3 DEF ConnInv, Homed, FifoInv
<1>5. Became(d, "kConnected", TRUE, conn[d].gone)
  BY <1>2, ConnAfter
<1>6. heard[d] = <<>>
  BY <1>4 DEF ToldInv, Told
<1>7. heard' = [heard EXCEPT ![d] = <<"UP">>]
  BY <1>2, <1>6, TaleGrows DEF RunConnectEstablished, Report
<1>8. Owned(d)'
  <2>1. FreedWhenRemoved'
    <3>1. (TypeOK /\ ConnInv => FreedWhenRemoved)'
      BY FreedAfter, PTL
    <3>. QED
      BY <3>1
  <2>2. Built(d)' /\ ~conn'[d].gone /\ running'[conn'[d].loop] # "ended"
    BY <1>1, <1>4, <1>5 DEF Became, Built
  <2>. QED
    BY <2>1, <2>2 DEF FreedWhenRemoved
<1>9. d \notin Released /\ d \notin Released'
  <2>1. Owned(d)
    <3>1. Mentions(queue[l], d)
      BY <1>1, <1>2, MentionsHead
    <3>. QED
      BY <1>1, <3>1, Owners
  <2>. QED
    BY <1>8, <2>1 DEF Released
<1>10. ASSUME NEW c \in Conns, c # d
       PROVE  Built(c)' /\ ~Owned(c)' <=> Built(c) /\ ~Owned(c)
  <2>1. \A k \in Loops : Mentions(queue'[k], c) <=> Mentions(queue[k], c)
    BY <1>1, <1>2, <1>10, MentionsPopped
  <2>2. Owned(c)' <=> Owned(c)
    BY <1>1, <2>1, Owners, OwnersNext
  <2>. QED
    BY <1>5, <1>10, <2>2 DEF Became, Built
<1>11. Released' = Released
  BY <1>9, <1>10 DEF Released
<1>12. Abstract!Up(d)
  BY <1>1, <1>6, <1>7, <1>9, <1>11 DEF Released, Abstract!Up
<1>. QED
  BY <1>12 DEF Abstract!Next

(* handleClose: DOWN, of a connection that is held and stays held.         *)
LEMMA LifeDown ==
  ASSUME TypeOK, ConnInv, ToldInv, NEW d \in Conns, HandleClose(d)
  PROVE  Abstract!Next
<1>1. /\ UNCHANGED <<connections, storing, queue, phase>>
      /\ closing' = [closing EXCEPT ![conn[d].loop] = d]
      /\ conn[d].watched /\ Built(d) /\ running[conn[d].loop] # "ended"
      /\ closing[conn[d].loop] = 0 /\ conn[d].loop \in Loops
  BY DEF HandleClose, Serves, InLoop, TypeOK
<1>2. heard[d] = <<"UP">> /\ ~conn[d].gone
  BY <1>1 DEF ToldInv, Told
<1>3. heard' = [heard EXCEPT ![d] = <<"UP", "DOWN">>]
  BY <1>2, TaleGrows DEF HandleClose, Report
<1>4. Owned(d)
  BY <1>1, <1>2, FreedAfter DEF FreedWhenRemoved
<1>5. closing'[conn[d].loop] = d
  BY <1>1 DEF TypeOK
<1>6. Owned(d)'
  BY <1>1, <1>5, OwnersNext
<1>7. Became(d, "kDisconnected", FALSE, conn[d].gone)
  BY ConnAfter
<1>8. ASSUME NEW c \in Conns, c # d
      PROVE  Built(c)' /\ ~Owned(c)' <=> Built(c) /\ ~Owned(c)
  <2>1. c # 0
    BY LoopNumbers
  <2>2. \A k \in Loops : closing'[k] = c <=> closing[k] = c
    BY <1>1, <1>8, <2>1 DEF TypeOK
  <2>3. Owned(c)' <=> Owned(c)
    BY <1>1, <2>2, Owners, OwnersNext
  <2>. QED
    BY <1>7, <1>8, <2>3 DEF Became, Built
<1>9. Released' = Released /\ d \notin Released
  BY <1>4, <1>6, <1>8 DEF Released
<1>10. Abstract!Down(d)
  BY <1>1, <1>2, <1>3, <1>9 DEF Released, Abstract!Down
<1>. QED
  BY <1>10 DEF Abstract!Next

(* connectDestroyed of a kConnected connection: DOWN, and the functor may  *)
(* be the last that holds it.                                              *)
LEMMA LifeUndone ==
  ASSUME TypeOK, ConnInv, ToldInv,
         NEW l \in IoLoops, RunConnectDestroyed(l),
         conn[Head(queue[l]).conn].state = "kConnected"
  PROVE  Abstract!Next
<1>1. /\ l \in Loops /\ queue[l] \in Seq(Functor) /\ queue[l] # <<>> /\ Pop(l)
      /\ UNCHANGED <<connections, storing, closing, phase>>
  BY LoopNumbers, TimesInQueue DEF RunConnectDestroyed, Take
<1>2. PICK d \in Conns : d = Head(queue[l]).conn
  BY <1>1, HeadTaken DEF RunConnectDestroyed
<1>3. heard[d] = <<"UP">>
  BY <1>2 DEF ToldInv, Told
<1>4. heard' = [heard EXCEPT ![d] = <<"UP", "DOWN">>]
  BY <1>2, <1>3, TaleGrows DEF RunConnectDestroyed, Report
<1>5. Owned(d)
  <2>1. Mentions(queue[l], d)
    BY <1>1, <1>2, MentionsHead
  <2>. QED
    BY <1>1, <2>1, Owners
<1>6. \A c \in Conns : c # d => conn'[c] = conn[c]
  <2>1. Became(d, IF conn[d].state = "kConnected" THEN "kDisconnected"
                  ELSE conn[d].state, FALSE, TRUE)
    BY <1>2, ConnAfter
  <2>. QED
    BY <2>1 DEF Became
<1>7. ASSUME NEW c \in Conns, c # d
      PROVE  Built(c)' /\ ~Owned(c)' <=> Built(c) /\ ~Owned(c)
  <2>1. \A k \in Loops : Mentions(queue'[k], c) <=> Mentions(queue[k], c)
    BY <1>1, <1>2, <1>7, MentionsPopped
  <2>2. Owned(c)' <=> Owned(c)
    BY <1>1, <2>1, Owners, OwnersNext
  <2>. QED
    BY <1>6, <1>7, <2>2 DEF Built
<1>8. d \notin Released /\ Released' \in {Released, Released \cup {d}}
  BY <1>5, <1>7 DEF Released
<1>9. Abstract!Down(d)
  BY <1>1, <1>3, <1>4, <1>8 DEF Released, Abstract!Down
<1>. QED
  BY <1>9 DEF Abstract!Next

(* Every step of the server is a step of ConnectionLife, or none.          *)
LEMMA LifeStep ==
  TypeOK /\ TypeOK' /\ ConnInv /\ ConnInv' /\ ToldInv /\ FifoInv /\ [Next]_vars
    => [Abstract!Next]_(Abstract!vars)
<1> SUFFICES ASSUME TypeOK, TypeOK', ConnInv, ConnInv', ToldInv, FifoInv,
                    [Next]_vars
             PROVE  [Abstract!Next]_(Abstract!vars)
  OBVIOUS
<1>1. CASE \E c \in Conns : HandleClose(c)
  BY <1>1, LifeDown
<1>2. CASE \E l \in IoLoops : RunConnectEstablished(l)
  BY <1>2, LifeUp
<1>3. ASSUME NEW l \in IoLoops, RunConnectDestroyed(l)
      PROVE  [Abstract!Next]_(Abstract!vars)
  <2>1. CASE conn[Head(queue[l]).conn].state = "kConnected"
    BY <1>3, <2>1, LifeUndone
  <2>2. CASE ~(conn[Head(queue[l]).conn].state = "kConnected")
    <3>1. heard' = heard /\ phase' = phase
      BY <1>3, <2>2 DEF RunConnectDestroyed, Take
    <3>. QED
      BY <3>1, LifeQuiet
  <2>. QED
    BY <2>1, <2>2
<1>4. CASE Destroy
  <2>1. /\ UNCHANGED <<heard, conn, connections, storing, closing, queue>>
        /\ phase = "alive" /\ phase' # "alive"
    BY <1>4 DEF Destroy, users
  <2>2. Released' = Released
    BY <2>1 DEF Released, Built, Owned
  <2>3. Abstract!Stop
    BY <2>1, <2>2 DEF Released, Abstract!Stop
  <2>. QED
    BY <2>3 DEF Abstract!Next
<1>5. CASE /\ ~(\E c \in Conns : HandleClose(c))
           /\ ~(\E l \in IoLoops : RunConnectEstablished(l))
           /\ ~(\E l \in IoLoops : RunConnectDestroyed(l))
           /\ ~Destroy
  BY <1>5, QuietSteps, LifeQuiet
<1>. QED
  BY <1>1, <1>2, <1>3, <1>4, <1>5

(* However accepting, shutdown(), closing and the destructor race, every   *)
(* connection lives the life of ConnectionLife: the safety half of         *)
(* ImplementsLife.                                                         *)
THEOREM LivesAsPromised == SafeSpec => ImplementsLifeSafely
<1>1. Init => Abstract!Init
  <2> SUFFICES ASSUME Init PROVE Abstract!Init
    OBVIOUS
  <2>1. \A c \in Conns : ~Built(c)
    BY DEF Init, Built
  <2>2. heard = [c \in Conns |-> <<>>] /\ phase = "alive"
    BY DEF Init
  <2>. QED
    BY <2>1, <2>2 DEF Abstract!Init
<1>. QED
  BY <1>1, LifeStep, TypeCorrect, ConnectionsKnown, PTL
     DEF SafeSpec, ImplementsLifeSafely, Abstract!SafeSpec
=============================================================================
