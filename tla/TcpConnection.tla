---------------------------- MODULE TcpConnection ----------------------------
(***************************************************************************)
(* One TcpConnection (src/src/TcpConnection.cc) on its I/O loop, from the  *)
(* moment TcpServer::newConnection has queued connectEstablished until     *)
(* nobody owns it any more.  The actors are the I/O loop (events, then the *)
(* batch of functors), the user code that runs on that loop, other threads *)
(* that hold a TcpConnectionPtr, the main loop that erases the connection, *)
(* the kernel's socket and the peer.                                       *)
(*                                                                         *)
(* state_ is the only field another thread reads or writes: everything a   *)
(* handler does on the I/O loop is one step, and what another thread does  *)
(* is cut at each access of state_ and at the push of its functor.         *)
(* Bytes are units <<message, i>>; how many the kernel takes is a choice.  *)
(* A write on a socket that was reset returns an error here: SIGPIPE,      *)
(* which the library does not ignore, would end the process instead.       *)
(***************************************************************************)
EXTENDS Naturals, Sequences, SequencesExt

CONSTANTS
  LoopThread,       \* the thread of the I/O loop, whose callbacks use the API
  Sharers,          \* other threads that are handed the TcpConnectionPtr
  MaxSends,         \* bound: messages and files sent per thread
  Length,           \* units in a message or file
  HighWaterMark,    \* highWaterMark_ in units, 0 with no callback set
  WriteCompleteSet, \* writeCompleteCallback_ is set
  UsesSendFile,     \* the user calls sendFile
  StringsChange,    \* a sharer changes or frees a string it has sent
  KeepsPointer,     \* a sharer keeps its pointer while its calls are queued
  ServerStops,      \* the TcpServer may be destroyed
  PeerResets        \* the peer may send a RST

Threads == {LoopThread} \cup Sharers
Message == Threads \X (1..MaxSends)
Unit == Message \X (0..Length)

ASSUME ThreadAssumption == LoopThread \notin Sharers
ASSUME BoundAssumption ==
  MaxSends \in Nat /\ Length \in Nat \ {0} /\ HighWaterMark \in Nat
ASSUME UseAssumption ==
  {WriteCompleteSet, UsesSendFile, StringsChange, KeepsPointer, ServerStops,
   PeerResets} \subseteq BOOLEAN

VARIABLES
  state,            \* state_
  events,           \* channel_->events_, over "in" and "out"
  index,            \* channel_->index_, which says if epoll watches it
  outputBuffer,     \* the readable part of outputBuffer_
  pendingFunctors,  \* functors of the I/O loop that concern the connection
  functors,         \* the batch that doPendingFunctors is running
  batchHolds,       \* a functor of the batch has run and owns the connection
  lpc,              \* the I/O loop: in poll, at its events, at its functors
  revents,          \* channel_->revents_, what handleEvent has left to do
  tpc,              \* where each sharer is in a call
  holders,          \* sharers that hold a TcpConnectionPtr
  serverMap,        \* connections_ holds the connection
  removals,         \* removeConnectionInLoop calls queued in the main loop
  serving,          \* the TcpServer exists
  wire,             \* kernel: units the socket has taken, in order
  finSent,          \* kernel: shutdown(SHUT_WR) was called
  peer,             \* kernel: "open", "closed" (FIN received) or "reset"
  soError,          \* kernel: SO_ERROR is set
  changed,          \* messages whose string changed before it was read
  filed,            \* history: a call of sendFile passed
  sent,             \* history: calls of send and sendFile that passed
  accepted,         \* history: units the loop took charge of, in order
  promised,         \* history: units a thread sent before its shutdown()
  downs,            \* history: times connectionCallback_ reported DOWN
  closed,           \* history: handleClose or connectDestroyed was there
  reopened          \* history: a send watched the channel after that

channel == <<events, index>>
queues == <<pendingFunctors, functors>>
loop == <<lpc, revents, batchHolds>>
strings == <<changed, filed>>
users == <<tpc, holders, sent, promised, strings>>
server == <<serverMap, removals, serving>>
kernel == <<wire, finSent, peer, soError>>
history == <<downs, closed, reopened>>

vars == <<state, events, index, outputBuffer, pendingFunctors, functors, lpc,
          revents, batchHolds, tpc, holders, serverMap, removals, serving,
          wire, finSent, peer, soError, changed, filed, sent, accepted,
          promised, downs, closed, reopened>>

States == {"kConnecting", "kConnected", "kDisconnecting", "kDisconnected"}

(* The member functions bound with shared_from_this() or the pointer       *)
(* itself keep the object alive; the other two are bound to `this`.        *)
OwningOps == {"connectEstablished", "connectDestroyed", "callback",
              "sendFile", "sendFileRest"}
RawOps == {"sendInLoop", "shutdownInLoop"}

(* Who queued it, and the bytes it carries or, for sendInLoop, points to.  *)
Functor == [op : OwningOps \cup RawOps, from : Threads, data : Seq(Unit)]

BindBy(t, op, data) == [op |-> op, from |-> t, data |-> data]

Bind(op, data) == BindBy(LoopThread, op, data)

Units(m) == [i \in 1..Length |-> <<m, i>>]

(* What is found at a pointer into the caller's string: <<m, 0>> is a byte *)
(* that is not the one that was sent.                                      *)
Read(data) ==
  [i \in DOMAIN data |-> IF data[i][1] \in changed THEN <<data[i][1], 0>>
                                                  ELSE data[i]]

NextMessage(t) == <<t, sent[t] + 1>>

-----------------------------------------------------------------------------
Init ==
  /\ state = "kConnecting"
  /\ events = {} /\ index = "kNew"
  /\ outputBuffer = <<>>
  /\ pendingFunctors = <<Bind("connectEstablished", <<>>)>>
  /\ functors = <<>>
  /\ lpc = "poll" /\ revents = {} /\ batchHolds = FALSE
  /\ tpc = [t \in Sharers |-> "idle"]
  /\ holders = {}
  /\ serverMap = TRUE /\ removals = 0 /\ serving = TRUE
  /\ wire = <<>> /\ finSent = FALSE /\ peer = "open" /\ soError = FALSE
  /\ changed = {} /\ filed = FALSE
  /\ sent = [t \in Threads |-> 0]
  /\ accepted = <<>> /\ promised = {}
  /\ downs = 0 /\ closed = FALSE /\ reopened = FALSE

(* Somebody owns the object: the server's map, a removal that is queued in *)
(* the main loop, the guard of handleEvent, a user, a functor that is      *)
(* queued, or one that has run: the vector of doPendingFunctors keeps it   *)
(* until the whole batch has run.                                          *)
Owned ==
  \/ serverMap
  \/ removals > 0
  \/ revents # {}
  \/ holders # {}
  \/ batchHolds
  \/ \E q \in {pendingFunctors, functors} :
       \E i \in 1..Len(q) : q[i].op \in OwningOps

Queue(fs) == pendingFunctors' = pendingFunctors \o fs

(* Channel::update and EPollPoller::updateChannel.                         *)
Update(interest) ==
  /\ events' = interest
  /\ index' = IF index = "kAdded" /\ interest = {} THEN "kDeleted"
                                                   ELSE "kAdded"

IsWriting == "out" \in events

CanWrite == ~finSent /\ peer # "reset"

(* The test that sendInLoop and sendFileInLoop write under.                *)
NothingAhead == ~IsWriting /\ outputBuffer = <<>>

WriteComplete == IF WriteCompleteSet THEN <<Bind("callback", <<>>)>> ELSE <<>>

CrossesHighWater(n) ==
  /\ Len(outputBuffer) + n >= HighWaterMark
  /\ Len(outputBuffer) < HighWaterMark

-----------------------------------------------------------------------------
KeepRestUnwatched(rest) ==
  /\ outputBuffer' = outputBuffer \o rest
  /\ UNCHANGED <<pendingFunctors, channel, reopened>>

(* The second half of sendInLoop: what write() did not take is buffered    *)
(* and EPOLLOUT is watched for.                                            *)
KeepRest(rest) ==
  /\ outputBuffer' = outputBuffer \o rest
  /\ Queue(IF CrossesHighWater(Len(rest)) THEN <<Bind("callback", <<>>)>>
                                          ELSE <<>>)
  /\ IF IsWriting THEN UNCHANGED <<channel, reopened>>
                  ELSE /\ Update(events \cup {"out"})
                       /\ reopened' = (reopened \/ closed)

AcceptAll ==
  /\ Queue(WriteComplete)
  /\ UNCHANGED <<outputBuffer, events, index, reopened>>

SendOvertaking(data, bytes) ==
  /\ CanWrite
  /\ \E n \in 0..Len(bytes) :
       /\ wire' = wire \o SubSeq(bytes, 1, n)
       /\ IF n = Len(bytes) THEN AcceptAll
                            ELSE KeepRest(SubSeq(bytes, n + 1, Len(bytes)))
  /\ accepted' = accepted \o data
  /\ UNCHANGED soError

(* sendInLoop, called for data and finding bytes.  EPIPE and ECONNRESET    *)
(* drop them (faultError); any other error counts as zero bytes written.   *)
(* kDisconnected is only logged.                                           *)
SendInLoop(data, bytes) ==
  \/ /\ NothingAhead
     /\ CanWrite
     /\ \E n \in 0..Len(bytes) :
          /\ wire' = wire \o SubSeq(bytes, 1, n)
          /\ IF n = Len(bytes) THEN AcceptAll
                               ELSE KeepRest(SubSeq(bytes, n + 1, Len(bytes)))
     /\ accepted' = accepted \o data
     /\ UNCHANGED soError
  \/ /\ NothingAhead
     /\ ~CanWrite
     /\ soError' = FALSE
     /\ UNCHANGED <<wire, accepted, outputBuffer, events, index,
                    pendingFunctors, reopened>>
  \/ /\ ~NothingAhead
     /\ KeepRest(bytes)
     /\ accepted' = accepted \o data
     /\ UNCHANGED <<wire, soError>>

SendFileSkipping(data) ==
  /\ NothingAhead
  /\ CanWrite
  /\ \E n \in 0..Len(data) :
       /\ wire' = wire \o SubSeq(data, 1, n)
       /\ Queue(IF n >= Len(data) - 1 THEN WriteComplete
                ELSE <<Bind("sendFileRest",
                            SubSeq(data, n + 2, Len(data)))>>)
  /\ UNCHANGED soError

(* sendFileInLoop.  The rest of the file is not buffered: the functor      *)
(* queues itself again, whatever the reason, and drops the file while the  *)
(* state is kDisconnecting.                                                *)
SendFileInLoop(data) ==
  \/ /\ state = "kDisconnecting"
     /\ UNCHANGED <<wire, soError, pendingFunctors>>
  \/ /\ state # "kDisconnecting"
     /\ NothingAhead
     /\ CanWrite
     /\ \E n \in 0..Len(data) :
          /\ wire' = wire \o SubSeq(data, 1, n)
          /\ Queue(IF n = Len(data) THEN WriteComplete
                   ELSE <<Bind("sendFileRest",
                               SubSeq(data, n + 1, Len(data)))>>)
     /\ UNCHANGED soError
  \/ /\ state # "kDisconnecting"
     /\ NothingAhead
     /\ ~CanWrite
     /\ soError' = FALSE
     /\ UNCHANGED <<wire, pendingFunctors>>
  \/ /\ state # "kDisconnecting"
     /\ ~NothingAhead
     /\ Queue(<<Bind("sendFileRest", data)>>)
     /\ UNCHANGED <<wire, soError>>

ShutdownUnflushed == finSent' = TRUE

(* shutdownInLoop: the FIN waits for handleWrite while output is pending.  *)
ShutdownInLoop == finSent' = (finSent \/ ~IsWriting)

(* handleClose: the user's DOWN callback, then TcpServer::removeConnection,*)
(* which queues removeConnectionInLoop in the main loop.  The second is    *)
(* bound to the server, which must still exist: TcpServer's matter.        *)
HandleClose ==
  /\ state' = "kDisconnected"
  /\ Update({})
  /\ downs' = downs + 1
  /\ removals' = removals + 1
  /\ closed' = TRUE

-----------------------------------------------------------------------------
(* The user code of the I/O loop runs inside any callback or functor.      *)
InUserCode ==
  /\ lpc \in {"events", "functors"}
  /\ state = "kConnected"

CountSend(t) ==
  /\ sent[t] < MaxSends
  /\ sent' = [sent EXCEPT ![t] = @ + 1]

(* The thread that moves state_ to kDisconnecting is owed the delivery of  *)
(* what it has sent so far.                                                *)
PromiseSends(t) ==
  promised' =
    {u \in Message \X (1..Length) : u[1][1] = t /\ u[1][2] <= sent[t]}

(* send, shutdown and sendFile called on the loop: state_ is tested and    *)
(* the ...InLoop function runs at once, ahead of the queued functors.      *)
LoopSend ==
  /\ InUserCode
  /\ CountSend(LoopThread)
  /\ LET data == Units(NextMessage(LoopThread)) IN SendInLoop(data, data)
  /\ UNCHANGED <<state, functors, loop, tpc, holders, promised, strings,
                 server, finSent, peer, downs, closed>>

LoopSendFile ==
  /\ UsesSendFile
  /\ InUserCode
  /\ CountSend(LoopThread)
  /\ SendFileInLoop(Units(NextMessage(LoopThread)))
  /\ accepted' = accepted \o Units(NextMessage(LoopThread))
  /\ filed' = TRUE
  /\ UNCHANGED <<state, channel, outputBuffer, functors, loop, tpc, holders,
                 promised, changed, server, finSent, peer, history>>

LoopShutdown ==
  /\ InUserCode
  /\ state' = "kDisconnecting"
  /\ ShutdownInLoop
  /\ PromiseSends(LoopThread)
  /\ UNCHANGED <<channel, outputBuffer, queues, loop, tpc, holders, sent,
                 strings, server, wire, peer, soError, accepted, history>>

(* The same from another thread: the test of state_, then the store of     *)
(* shutdown(), then the push, each with a step of its own.                 *)
Goto(t, pc) == tpc' = [tpc EXCEPT ![t] = pc]

BeginCall(t, pc) ==
  /\ tpc[t] = "idle"
  /\ t \in holders
  /\ state = "kConnected"
  /\ Goto(t, pc)

OnlyUserMoves ==
  UNCHANGED <<channel, outputBuffer, functors, loop, server, kernel,
              accepted, history>>

SendTest(t) ==
  /\ BeginCall(t, "send")
  /\ CountSend(t)
  /\ UNCHANGED <<state, pendingFunctors, holders, promised, strings>>
  /\ OnlyUserMoves

SendFileTest(t) ==
  /\ UsesSendFile
  /\ BeginCall(t, "sendFile")
  /\ CountSend(t)
  /\ filed' = TRUE
  /\ UNCHANGED <<state, pendingFunctors, holders, promised, changed>>
  /\ OnlyUserMoves

ShutdownTest(t) ==
  /\ BeginCall(t, "shutdown")
  /\ UNCHANGED <<state, pendingFunctors, holders, sent, promised, strings>>
  /\ OnlyUserMoves

ShutdownStore(t) ==
  /\ tpc[t] = "shutdown"
  /\ state' = "kDisconnecting"
  /\ Goto(t, "stored")
  /\ IF state = "kConnected" THEN PromiseSends(t) ELSE UNCHANGED promised
  /\ UNCHANGED <<pendingFunctors, holders, sent, strings>>
  /\ OnlyUserMoves

(* The push that ends each of the three calls.  send binds `this` and a    *)
(* pointer into the string of its caller.                                  *)
CallPush(t) ==
  /\ \/ /\ tpc[t] = "send"
        /\ Queue(<<BindBy(t, "sendInLoop", Units(<<t, sent[t]>>))>>)
     \/ /\ tpc[t] = "sendFile"
        /\ Queue(<<BindBy(t, "sendFile", Units(<<t, sent[t]>>))>>)
     \/ /\ tpc[t] = "stored"
        /\ Queue(<<BindBy(t, "shutdownInLoop", <<>>)>>)
  /\ Goto(t, "idle")
  /\ UNCHANGED <<state, holders, sent, promised, strings>>
  /\ OnlyUserMoves

QueuedBy(t, op) ==
  \E q \in {pendingFunctors, functors} :
    \E i \in 1..Len(q) : q[i].from = t /\ q[i].op = op

(* After send() has returned, its caller changes or frees the string while *)
(* sendInLoop has not read it yet.                                         *)
ChangeString(t, k) ==
  /\ StringsChange
  /\ tpc[t] = "idle"
  /\ \E q \in {pendingFunctors, functors} :
       \E i \in 1..Len(q) :
         q[i] = BindBy(t, "sendInLoop", Units(<<t, k>>))
  /\ changed' = changed \cup {<<t, k>>}
  /\ UNCHANGED <<state, pendingFunctors, tpc, holders, sent, promised, filed>>
  /\ OnlyUserMoves

(* The thread drops its TcpConnectionPtr.                                  *)
Release(t) ==
  /\ tpc[t] = "idle"
  /\ t \in holders
  /\ KeepsPointer => \A op \in RawOps : ~QueuedBy(t, op)
  /\ holders' = holders \ {t}
  /\ UNCHANGED <<state, pendingFunctors, tpc, sent, promised, strings>>
  /\ OnlyUserMoves

-----------------------------------------------------------------------------
(* What epoll has to report of the channel and what it may report: the     *)
(* arrival of data and the room in the socket are not modelled.            *)
HangUp == peer = "reset" \/ (peer = "closed" /\ finSent)

MustReport ==
  {e \in events : (e = "in" /\ peer # "open") \/ (e = "out" /\ ~CanWrite)}
    \cup (IF HangUp THEN {"hup"} ELSE {})
    \cup (IF soError THEN {"err"} ELSE {})

OnlyLoopMoves ==
  UNCHANGED <<state, channel, outputBuffer, users, server, kernel, accepted,
              history>>

(* The destructor has closed the socket: epoll has forgotten it.           *)
Poll ==
  /\ lpc = "poll"
  /\ lpc' = "events"
  /\ \E maybe \in SUBSET events :
       revents' = IF index = "kAdded" /\ Owned THEN MustReport \cup maybe
                                              ELSE {}
  /\ UNCHANGED <<queues, batchHolds>>
  /\ OnlyLoopMoves

(* handleEventWithGuard takes the bits of revents_ in this order.          *)
Handle(e, earlier) ==
  /\ lpc = "events"
  /\ e \in revents
  /\ revents \cap earlier = {}
  /\ revents' = revents \ {e}
  /\ UNCHANGED <<lpc, batchHolds>>

NoClose ==
  UNCHANGED <<state, channel, downs, removals, closed>>

EventHup ==
  /\ Handle("hup", {})
  /\ IF "in" \in revents THEN NoClose ELSE HandleClose
  /\ UNCHANGED <<outputBuffer, queues, users, serverMap, serving, kernel,
                 accepted, reopened>>

(* handleError: getsockopt reads SO_ERROR and clears it.                   *)
EventErr ==
  /\ Handle("err", {"hup"})
  /\ soError' = FALSE
  /\ NoClose
  /\ UNCHANGED <<outputBuffer, queues, users, serverMap, serving, wire,
                 finSent, peer, accepted, reopened>>

(* handleRead: data for messageCallback_, end of file, or an error.        *)
EventIn ==
  /\ Handle("in", {"hup", "err"})
  /\ IF peer # "open" /\ ~soError THEN HandleClose ELSE NoClose
  /\ soError' = FALSE
  /\ UNCHANGED <<outputBuffer, queues, users, serverMap, serving, wire,
                 finSent, peer, accepted, reopened>>

DrainedWithoutFin ==
  /\ Update(events \ {"out"})
  /\ Queue(WriteComplete)
  /\ UNCHANGED finSent

(* The buffer is empty: disableWriting, then the FIN that shutdown() left  *)
(* for later.                                                              *)
Drained ==
  /\ Update(events \ {"out"})
  /\ Queue(WriteComplete)
  /\ finSent' = (finSent \/ state = "kDisconnecting")

(* handleWrite: write() takes some of the buffer, or fails and is logged.  *)
EventOut ==
  /\ Handle("out", {"hup", "err", "in"})
  /\ \/ /\ IsWriting /\ CanWrite
        /\ \E n \in 1..Len(outputBuffer) :
             /\ wire' = wire \o SubSeq(outputBuffer, 1, n)
             /\ outputBuffer' =
                  SubSeq(outputBuffer, n + 1, Len(outputBuffer))
             /\ IF n = Len(outputBuffer)
                THEN Drained
                ELSE UNCHANGED <<channel, pendingFunctors, finSent>>
        /\ UNCHANGED soError
     \/ /\ soError' = (soError /\ ~IsWriting)
        /\ UNCHANGED <<wire, outputBuffer, channel, pendingFunctors, finSent>>
  /\ UNCHANGED <<state, functors, users, server, peer, accepted, history>>

-----------------------------------------------------------------------------
(* doPendingFunctors: the swap, and the end of the batch.                  *)
SwapFunctors ==
  /\ lpc = "events"
  /\ revents = {}
  /\ functors' = pendingFunctors
  /\ pendingFunctors' = <<>>
  /\ lpc' = "functors"
  /\ UNCHANGED <<revents, batchHolds>>
  /\ OnlyLoopMoves

EndFunctors ==
  /\ lpc = "functors"
  /\ functors = <<>>
  /\ lpc' = "poll"
  /\ batchHolds' = FALSE
  /\ UNCHANGED <<queues, revents>>
  /\ OnlyLoopMoves

(* The functor at the head of the batch runs.                              *)
RunHead(op) ==
  /\ lpc = "functors"
  /\ functors # <<>>
  /\ Head(functors).op = op
  /\ functors' = Tail(functors)
  /\ batchHolds' = (batchHolds \/ op \in OwningOps)
  /\ UNCHANGED <<lpc, revents>>

(* connectEstablished: the UP callback hands the pointer to the sharers.   *)
RunConnectEstablished ==
  /\ RunHead("connectEstablished")
  /\ state' = "kConnected"
  /\ Update(events \cup {"in"})
  /\ holders' = Sharers
  /\ UNCHANGED <<outputBuffer, pendingFunctors, tpc, sent, promised, strings,
                 server, kernel, accepted, history>>

(* What a functor bound to `this` does to a destroyed object is undefined  *)
(* and not modelled: NoDanglingFunctor speaks of the state before it.      *)
RunSend ==
  /\ Owned
  /\ RunHead("sendInLoop")
  /\ SendInLoop(Head(functors).data, Read(Head(functors).data))
  /\ UNCHANGED <<state, users, server, finSent, peer, downs, closed>>

RunShutdown ==
  /\ Owned
  /\ RunHead("shutdownInLoop")
  /\ ShutdownInLoop
  /\ UNCHANGED <<state, channel, outputBuffer, pendingFunctors, users, server,
                 wire, peer, soError, accepted, history>>

RunSendFile ==
  /\ \/ RunHead("sendFile") /\ accepted' = accepted \o Head(functors).data
     \/ RunHead("sendFileRest") /\ UNCHANGED accepted
  /\ SendFileInLoop(Head(functors).data)
  /\ UNCHANGED <<state, channel, outputBuffer, users, server, finSent, peer,
                 history>>

(* writeCompleteCallback_ or highWaterMarkCallback_: user code.            *)
RunCallback ==
  /\ RunHead("callback")
  /\ UNCHANGED pendingFunctors
  /\ UNCHANGED <<state, channel, outputBuffer, users, server, kernel,
                 accepted, history>>

DestroyedReportsAlways ==
  /\ RunHead("connectDestroyed")
  /\ state' = "kDisconnected" /\ events' = {} /\ downs' = downs + 1
  /\ index' = "kNew"
  /\ closed' = TRUE
  /\ UNCHANGED <<outputBuffer, pendingFunctors, users, server, kernel,
                 accepted, reopened>>

(* connectDestroyed: only a connection that is still kConnected is closed  *)
(* and reported DOWN; the channel leaves the poller in any case.           *)
RunConnectDestroyed ==
  /\ RunHead("connectDestroyed")
  /\ IF state = "kConnected"
     THEN state' = "kDisconnected" /\ events' = {} /\ downs' = downs + 1
     ELSE UNCHANGED <<state, events, downs>>
  /\ index' = "kNew"
  /\ closed' = TRUE
  /\ UNCHANGED <<outputBuffer, pendingFunctors, users, server, kernel,
                 accepted, reopened>>

-----------------------------------------------------------------------------
RemoveOnlyFromMap ==
  /\ serving
  /\ removals > 0
  /\ removals' = removals - 1
  /\ serverMap' = FALSE
  /\ UNCHANGED <<state, channel, outputBuffer, queues, loop, users,
                 serving, kernel, accepted, history>>

(* TcpServer::removeConnectionInLoop, on the main loop.                    *)
RemoveConnectionInLoop ==
  /\ serving
  /\ removals > 0
  /\ removals' = removals - 1
  /\ serverMap' = FALSE
  /\ Queue(<<Bind("connectDestroyed", <<>>)>>)
  /\ UNCHANGED <<state, channel, outputBuffer, functors, loop, users,
                 serving, kernel, accepted, history>>

StopOnlyMap ==
  /\ ServerStops
  /\ serving
  /\ serving' = FALSE
  /\ serverMap' = FALSE
  /\ UNCHANGED <<state, channel, outputBuffer, queues, loop, users, removals,
                 kernel, accepted, history>>

(* ~TcpServer: a connection that is in the map is destroyed.  The main     *)
(* loop has returned: the removals it holds never run, and keep their      *)
(* pointers until it is destroyed, after the pool of the server.           *)
ServerStop ==
  /\ ServerStops
  /\ serving
  /\ serving' = FALSE
  /\ serverMap' = FALSE
  /\ Queue(IF serverMap THEN <<Bind("connectDestroyed", <<>>)>> ELSE <<>>)
  /\ UNCHANGED <<state, channel, outputBuffer, functors, loop, users,
                 removals, kernel, accepted, history>>

(* The peer: the end of its stream is the next thing to read, or a RST.    *)
PeerClose ==
  /\ peer = "open"
  /\ peer' = "closed"
  /\ UNCHANGED <<state, channel, outputBuffer, queues, loop, users,
                 server, wire, finSent, soError, accepted, history>>

PeerReset ==
  /\ PeerResets
  /\ peer # "reset"
  /\ peer' = "reset"
  /\ soError' = TRUE
  /\ UNCHANGED <<state, channel, outputBuffer, queues, loop, users,
                 server, wire, finSent, accepted, history>>

-----------------------------------------------------------------------------
UserOnLoop == LoopSend \/ LoopSendFile \/ LoopShutdown

SharerStep(t) ==
  \/ SendTest(t)
  \/ SendFileTest(t)
  \/ ShutdownTest(t)
  \/ ShutdownStore(t)
  \/ CallPush(t)
  \/ \E k \in 1..MaxSends : ChangeString(t, k)
  \/ Release(t)

HandleEvent == EventHup \/ EventErr \/ EventIn \/ EventOut

RunFunctor ==
  \/ RunConnectEstablished
  \/ RunSend
  \/ RunShutdown
  \/ RunSendFile
  \/ RunCallback
  \/ RunConnectDestroyed

LoopRuns == Poll \/ HandleEvent \/ SwapFunctors \/ RunFunctor \/ EndFunctors

Next ==
  \/ UserOnLoop
  \/ \E t \in Sharers : SharerStep(t)
  \/ LoopRuns
  \/ RemoveConnectionInLoop
  \/ ServerStop
  \/ PeerClose
  \/ PeerReset

(* The I/O loop and the main loop run, a thread inside a call leaves it,   *)
(* and a socket that is watched for room gets some: the peer reads.        *)
Fairness ==
  /\ WF_vars(LoopRuns)
  /\ WF_vars(RemoveConnectionInLoop)
  /\ SF_vars(Poll /\ "out" \in revents')
  /\ SF_vars(EventOut /\ wire' # wire)
  /\ \A t \in Sharers : WF_vars(ShutdownStore(t)) /\ WF_vars(CallPush(t))

SafeSpec == Init /\ [][Next]_vars

Spec == SafeSpec /\ Fairness

-----------------------------------------------------------------------------
(* Types of the variables.                                                 *)
TypeOK ==
  /\ state \in States
  /\ events \in SUBSET {"in", "out"}
  /\ index \in {"kNew", "kAdded", "kDeleted"}
  /\ outputBuffer \in Seq(Unit)
  /\ pendingFunctors \in Seq(Functor) /\ functors \in Seq(Functor)
  /\ lpc \in {"poll", "events", "functors"} /\ batchHolds \in BOOLEAN
  /\ revents \in SUBSET {"hup", "err", "in", "out"}
  /\ tpc \in [Sharers -> {"idle", "send", "sendFile", "shutdown", "stored"}]
  /\ holders \in SUBSET Sharers
  /\ serverMap \in BOOLEAN /\ removals \in Nat /\ serving \in BOOLEAN
  /\ wire \in Seq(Unit) /\ finSent \in BOOLEAN
  /\ peer \in {"open", "closed", "reset"} /\ soError \in BOOLEAN
  /\ sent \in [Threads -> 0..MaxSends]
  /\ accepted \in Seq(Unit) /\ promised \in SUBSET Unit
  /\ changed \in SUBSET Message /\ filed \in BOOLEAN
  /\ downs \in Nat /\ closed \in BOOLEAN /\ reopened \in BOOLEAN

Output == wire \o outputBuffer

(* The socket gets the bytes in the order in which sendInLoop and sendFile *)
(* took charge of them, with no gap (README.md:72, "保证数据有序到达"): the   *)
(* bytes that were sent, unless their string changed before the loop read  *)
(* it.  Once a file is sent its rest may be overtaken.                     *)
StreamInOrder ==
  ~filed =>
    /\ Len(Output) <= Len(accepted)
    /\ \A i \in 1..Len(Output) :
         Output[i] = accepted[i] \/ accepted[i][1] \in changed

(* EPOLLOUT is watched for exactly while output is pending: pending output *)
(* is never forgotten and an idle socket does not spin the loop            *)
(* (TcpConnection.cc:139-142, 222-224).                                    *)
PendingIsWatched == ~closed => (IsWriting <=> outputBuffer # <<>>)

(* shutdownInLoop half-closes only when all output is out.                 *)
FinAfterOutput ==
  (finSent /\ ~closed /\ ~filed) => Len(wire) = Len(accepted)

(* send() and then shutdown() by one thread: the peer gets the message     *)
(* before the FIN (testserver.cc:55, "发完消息可以关闭"), if the caller left  *)
(* its string alone.                                                       *)
PromiseKept ==
  (finSent /\ ~closed /\ peer # "reset") =>
    \A u \in promised :
      u[1] \in changed \/ \E i \in 1..Len(wire) : wire[i] = u

(* connectionCallback_ reports DOWN once for each connection, whichever of *)
(* handleClose and connectDestroyed ends it, with two exceptions: never if *)
(* the server is destroyed while the connection is half closed, and again  *)
(* only after a send that ran too late has watched the channel again       *)
(* (TcpConnection.cc:90, 139-141, 182-190, 246-256).                       *)
DownReportedOnce ==
  /\ ~closed => downs = 0
  /\ (closed /\ downs = 0) => (~serving /\ state = "kDisconnecting")
  /\ downs > 1 => reopened

(* A connection is destroyed only after connectDestroyed has taken its     *)
(* channel out of the poller, whoever was its last owner and whichever way *)
(* it ended, unless a send that ran too late has registered it again: what *)
(* Poller.tla (DestroyRegistered) shows the cost of.                       *)
FreedWhenRemoved == (~Owned /\ ~reopened) => index = "kNew"

InSomeFunctor(u) ==
  \E q \in {pendingFunctors, functors} : \E i \in 1..Len(q) :
    /\ q[i].op = "sendFileRest"
    /\ \E j \in 1..Len(q[i].data) : q[i].data[j] = u

(* While the connection is up and the socket works, every byte the loop    *)
(* took charge of is on the wire, in outputBuffer_ or in the functor that  *)
(* carries the rest of a file (TcpConnection.cc:300-337).                  *)
NothingLost ==
  (state = "kConnected" /\ CanWrite) =>
    \A k \in 1..Len(accepted) :
      \/ accepted[k][1] \in changed
      \/ \E i \in 1..Len(wire) : wire[i] = accepted[k]
      \/ \E i \in 1..Len(outputBuffer) : outputBuffer[i] = accepted[k]
      \/ InSomeFunctor(accepted[k])

AtHead(ops) ==
  lpc = "functors" /\ functors # <<>> /\ Head(functors).op \in ops

(* A functor bound to a bare `this` runs only while the object exists.     *)
NoDanglingFunctor == AtHead(RawOps) => Owned

(* When the peer ends the connection, it is closed, removed from the       *)
(* server and the poller, and its last owner lets it go.                   *)
PeerEndFrees == peer # "open" ~> (closed /\ index = "kNew" /\ ~Owned)

(* shutdown() sends the FIN, however much output was pending.              *)
ShutdownSendsFin == state = "kDisconnecting" ~> (finSent \/ closed)
=============================================================================
