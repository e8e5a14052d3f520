-------------------------------- MODULE Poller --------------------------------
(***************************************************************************)
(* The poller of one loop and its channels: Channel.h, Channel.cc,         *)
(* EPollPoller.cc and the forwarding members of EventLoop.  What is        *)
(* registered is kept three times: in index_ of the channel, in channels_  *)
(* of the poller and in the kernel's epoll set, which holds a bare pointer *)
(* to the channel and forgets a descriptor that is closed.                 *)
(*                                                                         *)
(* All of it runs on the loop's thread, except that the last owner of a    *)
(* channel may be another thread.  The callbacks may call any update at    *)
(* any time; a channel is removed by a functor (connectDestroyed), or      *)
(* after the loop.  Nothing in the code makes the owner of a channel       *)
(* remove it before it destroys it (Channel.cc:21-23), and this module     *)
(* lets it happen; FreedWhenRemoved of TcpConnection.tla says when a       *)
(* connection does it.  Descriptors are reused, and channels too.          *)
(***************************************************************************)
EXTENDS Naturals, FiniteSets

CONSTANTS
  Channels,        \* places for Channel objects, used again and again
  Fds,             \* descriptors
  None,            \* no channel, no descriptor
  InitListSize,    \* kInitEventListSize
  MaxDropped       \* bound: channels destroyed while registered

ASSUME NoneAssumption == None \notin Channels /\ None \notin Fds
ASSUME ListAssumption == InitListSize \in Nat \ {0}
ASSUME DroppedAssumption == MaxDropped \in Nat
ASSUME FiniteAssumption == IsFiniteSet(Channels)

VARIABLES
  fd,              \* fd_ of a channel, None before it is built and after
  events,          \* events_
  revents,         \* revents_, until handleEvent has read it
  index,           \* index_
  channels,        \* channels_: the channel of a descriptor, or None
  epoll,           \* kernel: what epoll watches a descriptor for
  ready,           \* kernel: what a descriptor has to report
  closing,         \* descriptors open still though their channel is gone
  dropped,         \* history: channels destroyed while registered
  listSize,        \* events_.size()
  activeChannels,  \* activeChannels_ not handled yet
  lpc,             \* the loop: in poll, at its events, at its functors
  failed           \* epoll_ctl failed to add or modify: LOG_FATAL

vars == <<fd, events, revents, index, channels, epoll, ready, closing,
          dropped, listSize, activeChannels, lpc, failed>>

registry == <<events, index, channels, epoll, closing, dropped, failed>>

Interest == {"in", "out"}
Reports == Interest \cup {"hup"}      \* reported whether asked for or not

Unwatched == [ptr |-> None, events |-> {}]
Entry == [ptr : Channels, events : SUBSET Interest] \cup {Unwatched}

Alive == {c \in Channels : fd[c] # None}
Watched == {f \in Fds : epoll[f].ptr # None}

-----------------------------------------------------------------------------
Init ==
  /\ fd = [c \in Channels |-> None]
  /\ events = [c \in Channels |-> {}]
  /\ revents = [c \in Channels |-> {}]
  /\ index = [c \in Channels |-> "kNew"]
  /\ channels = [f \in Fds |-> None]
  /\ epoll = [f \in Fds |-> Unwatched]
  /\ ready = [f \in Fds |-> {}]
  /\ closing = {}
  /\ dropped = {}
  /\ listSize = InitListSize
  /\ activeChannels = {}
  /\ lpc = "functors"
  /\ failed = FALSE

(* EPollPoller::update: epoll_ctl fails to add what is there and to modify *)
(* what is not; a delete that fails is only logged.                        *)
CtlFails(op, f) ==
  \/ op = "ADD" /\ f \in Watched
  \/ op = "MOD" /\ f \notin Watched

Ctl(op, c, interest) ==
  /\ failed' = (failed \/ CtlFails(op, fd[c]))
  /\ epoll' = [epoll EXCEPT ![fd[c]] =
                 IF op = "DEL" THEN Unwatched
                 ELSE IF CtlFails(op, fd[c]) THEN @
                 ELSE [ptr |-> c, events |-> interest]]

UpdateNewOnly(c, interest) ==
  /\ events' = [events EXCEPT ![c] = interest]
  /\ IF index[c] = "kNew"
     THEN /\ channels' = [channels EXCEPT ![fd[c]] = c]
          /\ index' = [index EXCEPT ![c] = "kAdded"]
          /\ Ctl("ADD", c, interest)
     ELSE /\ UNCHANGED channels
          /\ index' = [index EXCEPT ![c] =
                         IF interest = {} THEN "kDeleted" ELSE "kAdded"]
          /\ Ctl(IF interest = {} THEN "DEL" ELSE "MOD", c, interest)

(* Channel::update, EventLoop::updateChannel, EPollPoller::updateChannel.  *)
(* A channel that was deleted is added again even with nothing to watch.   *)
Update(c, interest) ==
  /\ events' = [events EXCEPT ![c] = interest]
  /\ channels' = IF index[c] = "kNew" THEN [channels EXCEPT ![fd[c]] = c]
                                      ELSE channels
  /\ index' = [index EXCEPT ![c] =
                 IF @ = "kAdded" /\ interest = {} THEN "kDeleted"
                                                  ELSE "kAdded"]
  /\ Ctl(IF index[c] # "kAdded" THEN "ADD"
         ELSE IF interest = {} THEN "DEL" ELSE "MOD", c, interest)

-----------------------------------------------------------------------------
(* The constructor, for a descriptor the kernel has just given out.  The   *)
(* base loop builds channels for other loops at any time: a step that no   *)
(* poll of theirs can see.  A place that pointers may be left to is not    *)
(* used again: what they would do to the next channel is undefined.        *)
Build(c, f) ==
  /\ lpc # "poll"
  /\ c \notin Alive \cup dropped
  /\ f \notin {fd[d] : d \in Alive} \cup closing
  /\ fd' = [fd EXCEPT ![c] = f]
  /\ UNCHANGED <<events, revents, index, channels, epoll, ready, closing,
                 dropped, failed, listSize, activeChannels, lpc>>

(* enableReading, disableReading, enableWriting, disableWriting and        *)
(* disableAll, called by a callback or a functor.                          *)
ChangeInterest(c) ==
  /\ lpc # "poll"
  /\ c \in Alive
  /\ \E e \in Interest :
       \/ Update(c, events[c] \cup {e})
       \/ Update(c, events[c] \ {e})
       \/ Update(c, {})
  /\ UNCHANGED <<fd, revents, ready, closing, dropped, listSize,
                 activeChannels, lpc>>

RemoveAnyTime(c) ==
  /\ lpc # "poll"
  /\ c \in Alive
  /\ channels' = [channels EXCEPT ![fd[c]] = None]
  /\ index' = [index EXCEPT ![c] = "kNew"]
  /\ IF index[c] = "kAdded" THEN Ctl("DEL", c, {})
                            ELSE UNCHANGED <<epoll, failed>>
  /\ UNCHANGED <<fd, events, revents, ready, closing, dropped, listSize,
                 activeChannels, lpc>>

(* Channel::remove, EventLoop::removeChannel, EPollPoller::removeChannel.  *)
(* events_ stays as it is.                                                 *)
Remove(c) ==
  /\ lpc = "functors"
  /\ c \in Alive
  /\ channels' = [channels EXCEPT ![fd[c]] = None]
  /\ index' = [index EXCEPT ![c] = "kNew"]
  /\ IF index[c] = "kAdded" THEN Ctl("DEL", c, {})
                            ELSE UNCHANGED <<epoll, failed>>
  /\ UNCHANGED <<fd, events, revents, ready, closing, dropped, listSize,
                 activeChannels, lpc>>

(* The owner destroys the channel and after it the socket, which closes    *)
(* the descriptor.  Members of an object that is gone have the values that *)
(* the constructor will give them again.                                   *)
Forget(c) ==
  /\ fd' = [fd EXCEPT ![c] = None]
  /\ events' = [events EXCEPT ![c] = {}]
  /\ revents' = [revents EXCEPT ![c] = {}]
  /\ index' = [index EXCEPT ![c] = "kNew"]
  /\ UNCHANGED <<channels, epoll, failed, listSize, activeChannels, lpc>>

(* A channel that was removed: nothing sees the time before the close.     *)
Destroy(c) ==
  /\ c \in Alive
  /\ index[c] = "kNew"
  /\ Forget(c)
  /\ ready' = [ready EXCEPT ![fd[c]] = {}]
  /\ UNCHANGED <<closing, dropped>>

(* A channel that is registered: epoll has its pointer until the close.    *)
DestroyRegistered(c) ==
  /\ c \in Alive
  /\ index[c] # "kNew"
  /\ Cardinality(dropped \cup {c}) <= MaxDropped
  /\ Forget(c)
  /\ closing' = closing \cup {fd[c]}
  /\ dropped' = dropped \cup {c}
  /\ UNCHANGED ready

Close(f) ==
  /\ f \in closing
  /\ closing' = closing \ {f}
  /\ epoll' = [epoll EXCEPT ![f] = Unwatched]
  /\ ready' = [ready EXCEPT ![f] = {}]
  /\ UNCHANGED <<fd, events, revents, index, channels, dropped, failed,
                 listSize, activeChannels, lpc>>

-----------------------------------------------------------------------------
(* What epoll reports of a descriptor it watches.                          *)
Report(f) == ready[f] \cap (epoll[f].events \cup {"hup"})

Reportable == {f \in Watched : Report(f) # {}}

Filled(some) == Cardinality(some) = listSize

(* epoll_wait fills the list with descriptors of its own choice, as many   *)
(* as there are and fit; fillActiveChannels writes revents_ through the    *)
(* pointers, those to channels that are gone included.                     *)
Collect(some) ==
  /\ lpc = "poll"
  /\ some # {}
  /\ some = Reportable \/ Filled(some)
  /\ activeChannels' = {epoll[f].ptr : f \in some}
  /\ revents' = [c \in Channels |->
                   IF c \in activeChannels' \cap Alive THEN Report(fd[c])
                                                       ELSE revents[c]]
  /\ lpc' = "events"
  /\ UNCHANGED <<fd, registry, ready>>

PollNeverGrowing ==
  \E some \in SUBSET Reportable :
    /\ Cardinality(some) <= listSize
    /\ Collect(some)
    /\ UNCHANGED listSize

(* EPollPoller::poll with events: a list that was filled doubles.          *)
PollEvents ==
  \E some \in SUBSET Reportable :
    /\ Cardinality(some) <= listSize
    /\ Collect(some)
    /\ listSize' = IF Filled(some) THEN 2 * listSize ELSE listSize

(* EPollPoller::poll with none: kPollTimeMs have passed, or EINTR.         *)
PollTimeout ==
  /\ lpc = "poll"
  /\ Reportable = {}
  /\ lpc' = "events"
  /\ UNCHANGED <<fd, registry, revents, ready, listSize, activeChannels>>

(* Channel::handleEvent of an active channel returns: its callbacks have   *)
(* consumed some of what was ready.  What it does with a channel that is   *)
(* gone is undefined, and no step of this module.                          *)
HandleEvent(c) ==
  /\ lpc = "events"
  /\ c \in activeChannels \cap Alive
  /\ activeChannels' = activeChannels \ {c}
  /\ \E left \in {ready[fd[c]], ready[fd[c]] \ revents[c]} :
       ready' = [ready EXCEPT ![fd[c]] = left]
  /\ revents' = [revents EXCEPT ![c] = {}]
  /\ UNCHANGED <<fd, registry, listSize, lpc>>

(* loop(): all active channels are handled, the functors run, poll again.  *)
BeginFunctors ==
  /\ lpc = "events"
  /\ activeChannels = {}
  /\ lpc' = "functors"
  /\ UNCHANGED <<fd, registry, revents, ready, listSize, activeChannels>>

EndFunctors ==
  /\ lpc = "functors"
  /\ lpc' = "poll"
  /\ UNCHANGED <<fd, registry, revents, ready, listSize, activeChannels>>

(* Data, room or the end of a connection.                                  *)
Arrive(f) ==
  /\ f \in {fd[c] : c \in Alive}
  /\ \E e \in Reports \ ready[f] : ready' = [ready EXCEPT ![f] = @ \cup {e}]
  /\ UNCHANGED <<fd, registry, revents, listSize, activeChannels, lpc>>

LoopRuns ==
  \/ PollEvents
  \/ \E c \in Channels : HandleEvent(c)
  \/ BeginFunctors
  \/ EndFunctors

Next ==
  \/ LoopRuns
  \/ PollTimeout
  \/ \E c \in Channels :
       \/ \E f \in Fds : Build(c, f)
       \/ ChangeInterest(c)
       \/ Remove(c)
       \/ Destroy(c)
       \/ DestroyRegistered(c)
  \/ \E f \in Fds : Close(f) \/ Arrive(f)

(* The loop runs, its callbacks return, and epoll_wait returns when there  *)
(* is something to report.                                                 *)
Spec == Init /\ [][Next]_vars /\ WF_vars(LoopRuns)

-----------------------------------------------------------------------------
(* Types of the variables.                                                 *)
TypeOK ==
  /\ fd \in [Channels -> Fds \cup {None}]
  /\ events \in [Channels -> SUBSET Interest]
  /\ revents \in [Channels -> SUBSET Reports]
  /\ index \in [Channels -> {"kNew", "kAdded", "kDeleted"}]
  /\ channels \in [Fds -> Channels \cup {None}]
  /\ epoll \in [Fds -> Entry]
  /\ ready \in [Fds -> SUBSET Reports]
  /\ closing \in SUBSET Fds
  /\ dropped \in SUBSET Channels
  /\ listSize \in Nat \ {0}
  /\ activeChannels \in SUBSET Channels
  /\ lpc \in {"poll", "events", "functors"}
  /\ failed \in BOOLEAN

OneChannelPerFd ==
  /\ \A c, d \in Alive : fd[c] = fd[d] => c = d
  /\ \A c \in Alive : fd[c] \notin closing

OnlyAliveRegistered ==
  /\ \A c \in Channels : index[c] # "kNew" => c \in Alive
  /\ dropped \cap Alive = {}

(* index_ tells the state of the kernel: epoll watches a live channel      *)
(* exactly when index_ is kAdded, for the events the channel asks for, and *)
(* watches nothing else, but what was destroyed while registered and whose *)
(* descriptor is about to be closed (EPollPoller.cc:85-132).               *)
IndexTellsEpoll ==
  /\ \A c \in Alive :
       epoll[fd[c]] = IF index[c] = "kAdded"
                      THEN [ptr |-> c, events |-> events[c]] ELSE Unwatched
  /\ \A f \in Watched :
       \/ epoll[f].ptr \in Alive /\ fd[epoll[f].ptr] = f
       \/ epoll[f].ptr \in dropped /\ f \in closing

(* channels_, what hasChannel looks in (Poller.cc:9-13), holds the live    *)
(* channels that were added and not removed, and otherwise only what was   *)
(* destroyed while registered.                                             *)
MapTellsIndex ==
  /\ \A c \in Alive :
       IF index[c] = "kNew" THEN channels[fd[c]] \in {None} \cup dropped
                            ELSE channels[fd[c]] = c
  /\ \A f \in Fds :
       channels[f] # None =>
         channels[f] \in dropped \/ fd[channels[f]] = f

ActiveRegistered ==
  /\ \A c \in activeChannels : index[c] # "kNew" \/ c \in dropped
  /\ activeChannels # {} => lpc = "events"

(* epoll_ctl is never asked to add what is there or to modify what is not: *)
(* the LOG_FATAL of EPollPoller.cc:165 is not reached.                     *)
CtlNeverFails == ~failed

(* The three registrations agree, after any sequence of updates, removals, *)
(* destroyed channels, closed and reused descriptors.                      *)
IInv ==
  /\ TypeOK
  /\ OneChannelPerFd
  /\ OnlyAliveRegistered
  /\ IndexTellsEpoll
  /\ MapTellsIndex
  /\ ActiveRegistered
  /\ CtlNeverFails

(* The pointers that epoll holds and those that loop() walks through       *)
(* (EventLoop.cc:106-110, EPollPoller.cc:139-141) are of channels that     *)
(* exist, although callbacks remove channels and owners destroy them: one  *)
(* that was removed first leaves no pointer behind, and of one that was    *)
(* not epoll forgets the pointer when its descriptor is closed.            *)
PointersLive ==
  /\ \A f \in Watched \ closing : epoll[f].ptr \in Alive
  /\ \A f \in Watched : epoll[f].ptr \in Alive \cup dropped
  /\ activeChannels \subseteq Alive \cup dropped

(* Unless an owner destroys a channel that is registered, a channel that   *)
(* stays ready is handled, although the event list may be shorter than the *)
(* number of ready channels and epoll may prefer others                    *)
(* (EPollPoller.cc:52-55).                                                 *)
ReadyServed ==
  \A f \in Fds :
    (f \in Reportable) ~>
      \/ f \notin Reportable
      \/ \E c \in activeChannels : fd[c] = f
      \/ dropped # {}
=============================================================================
