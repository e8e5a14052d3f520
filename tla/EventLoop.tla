------------------------------ MODULE EventLoop ------------------------------
(***************************************************************************)
(* One EventLoop object (src/src/EventLoop.cc): the thread that owns it    *)
(* runs loop(), other threads hand it functors with queueInLoop() and      *)
(* runInLoop() and stop it with quit().  The mutex makes the push and the  *)
(* swap of pendingFunctors_ single steps; everything between them          *)
(* interleaves: the write of the eventfd that follows a push or a quit is  *)
(* a step of its own, and so are the test of quit_, the poll, each channel *)
(* callback and each functor.                                              *)
(*                                                                         *)
(* A callback of the owner thread is in progress while its channel is      *)
(* still in activeChannels_ or its functor is still at the head of the     *)
(* swapped batch: until the step that completes it, it may call            *)
(* queueInLoop, runInLoop and quit any number of times.                    *)
(*                                                                         *)
(* looping_ is written by loop() and read by nobody; it is left out.       *)
(***************************************************************************)
EXTENDS Naturals, Sequences

CONSTANTS
  LoopThread,       \* the thread that built the object: threadId_
  Others,           \* the other threads that hold a pointer to it
  WakeupChannel,    \* wakeupChannel_, the channel of the eventfd
  IoChannels,       \* the other channels registered with the poller
  MaxCalls,         \* bound: calls of queueInLoop and runInLoop per thread
  EventfdMax,       \* the count at which a write of the eventfd fails
  OwnerQueuesEarly  \* the owner calls queueInLoop before loop()

Threads == {LoopThread} \cup Others

Functor == Threads \X (1..MaxCalls)

ASSUME ThreadAssumption == LoopThread \notin Others
ASSUME ChannelAssumption == WakeupChannel \notin IoChannels
ASSUME BoundAssumption == MaxCalls \in Nat /\ EventfdMax \in Nat \ {0}
ASSUME UseAssumption == OwnerQueuesEarly \in BOOLEAN

VARIABLES
  lpc,              \* where the owner is in loop()
  tpc,              \* where each other thread is in a call
  quit,             \* quit_
  calling,          \* callingPendingFunctors_
  pendingFunctors,  \* pendingFunctors_
  functors,         \* the batch swapped out by doPendingFunctors
  activeChannels,   \* activeChannels_ not handled yet
  wakeupFd,         \* the counter of the eventfd
  issued,           \* history: calls made by each thread
  ran               \* history: functors that ran to their end

vars == <<lpc, tpc, quit, calling, pendingFunctors, functors,
          activeChannels, wakeupFd, issued, ran>>

(* before loop(); at the while test; blocked in poll; handling active      *)
(* channels; at the swap; running the batch; loop() returned               *)
LoopPcs == {"out", "while", "poll", "events", "swap", "functors", "after"}

(* not in a call; pushed and not yet notified; set quit_ and not yet woken *)
OtherPcs == {"idle", "queued", "quitting"}

-----------------------------------------------------------------------------
Init ==
  /\ lpc = "out"
  /\ tpc = [t \in Others |-> "idle"]
  /\ quit = FALSE
  /\ calling = FALSE
  /\ pendingFunctors = <<>>
  /\ functors = <<>>
  /\ activeChannels = {}
  /\ wakeupFd = 0
  /\ issued = [t \in Threads |-> 0]
  /\ ran = {}

(* The owner runs user code: a callback of an I/O channel or a functor.    *)
InCallback ==
  \/ lpc = "events" /\ activeChannels \cap IoChannels # {}
  \/ lpc = "functors" /\ functors # <<>>

(* ... or code that surrounds the call of loop().                          *)
OutsideLoop == lpc \in {"out", "after"}

(* write(wakeupFd_): adds one, or fails with EAGAIN on a full counter.     *)
Wakeup ==
  wakeupFd' = IF wakeupFd < EventfdMax THEN wakeupFd + 1 ELSE wakeupFd

Call(t) == <<t, issued[t] + 1>>

CountCall(t) ==
  /\ issued[t] < MaxCalls
  /\ issued' = [issued EXCEPT ![t] = @ + 1]

Push(t) ==
  /\ CountCall(t)
  /\ pendingFunctors' = Append(pendingFunctors, Call(t))

MustWakeOnlyOthers(t) == t # LoopThread

(* !isInLoopThread() || callingPendingFunctors_                            *)
MustWake(t) == t # LoopThread \/ calling

NotifyAfterPush(t) ==
  IF MustWake(t) THEN Wakeup ELSE UNCHANGED wakeupFd

-----------------------------------------------------------------------------
(* queueInLoop from another thread, and runInLoop, which is the same       *)
(* there: the push under the mutex, then the write of the eventfd.         *)
QueueFromOther(t) ==
  /\ tpc[t] = "idle"
  /\ Push(t)
  /\ tpc' = [tpc EXCEPT ![t] = "queued"]
  /\ UNCHANGED <<lpc, quit, calling, functors, activeChannels, wakeupFd, ran>>

NotifyFromOther(t) ==
  /\ tpc[t] = "queued"
  /\ NotifyAfterPush(t)
  /\ tpc' = [tpc EXCEPT ![t] = "idle"]
  /\ UNCHANGED <<lpc, quit, calling, pendingFunctors, functors,
                 activeChannels, issued, ran>>

(* queueInLoop from the owner, in one step: no other thread reads          *)
(* callingPendingFunctors_, and their pushes and writes commute with it.   *)
QueueFromOwner ==
  /\ InCallback \/ OutsideLoop
  /\ lpc = "out" => OwnerQueuesEarly
  /\ Push(LoopThread)
  /\ NotifyAfterPush(LoopThread)
  /\ UNCHANGED <<lpc, tpc, quit, calling, functors, activeChannels, ran>>

(* runInLoop from the owner calls the functor before it returns.           *)
RunFromOwner ==
  /\ InCallback \/ OutsideLoop
  /\ CountCall(LoopThread)
  /\ ran' = ran \cup {Call(LoopThread)}
  /\ UNCHANGED <<lpc, tpc, quit, calling, pendingFunctors, functors,
                 activeChannels, wakeupFd>>

QuitFromOther(t) ==
  /\ tpc[t] = "idle"
  /\ quit' = TRUE
  /\ tpc' = [tpc EXCEPT ![t] = "quitting"]
  /\ UNCHANGED <<lpc, calling, pendingFunctors, functors, activeChannels,
                 wakeupFd, issued, ran>>

WakeForQuitForgotten(t) ==
  /\ tpc[t] = "quitting"
  /\ tpc' = [tpc EXCEPT ![t] = "idle"]
  /\ UNCHANGED <<lpc, quit, calling, pendingFunctors, functors,
                 activeChannels, wakeupFd, issued, ran>>

WakeForQuit(t) ==
  /\ tpc[t] = "quitting"
  /\ Wakeup
  /\ tpc' = [tpc EXCEPT ![t] = "idle"]
  /\ UNCHANGED <<lpc, quit, calling, pendingFunctors, functors,
                 activeChannels, issued, ran>>

QuitFromOwner ==
  /\ InCallback \/ OutsideLoop
  /\ quit' = TRUE
  /\ UNCHANGED <<lpc, tpc, calling, pendingFunctors, functors,
                 activeChannels, wakeupFd, issued, ran>>

-----------------------------------------------------------------------------
(* Entry of loop(): quit_ = false, whatever quit() stored before.          *)
LoopStart ==
  /\ lpc = "out"
  /\ quit' = FALSE
  /\ lpc' = "while"
  /\ UNCHANGED <<tpc, calling, pendingFunctors, functors, activeChannels,
                 wakeupFd, issued, ran>>

TestQuit ==
  /\ lpc = "while"
  /\ lpc' = IF quit THEN "after" ELSE "poll"
  /\ activeChannels' = {}
  /\ UNCHANGED <<tpc, quit, calling, pendingFunctors, functors, wakeupFd,
                 issued, ran>>

(* poll() returns with ready channels; the event list is finite, so it may *)
(* leave some of them out, the wakeup channel included.                    *)
PollReturn ==
  /\ lpc = "poll"
  /\ \E active \in SUBSET (IoChannels
                      \cup (IF wakeupFd > 0 THEN {WakeupChannel} ELSE {})) :
       /\ active # {}
       /\ activeChannels' = active
  /\ lpc' = "events"
  /\ UNCHANGED <<tpc, quit, calling, pendingFunctors, functors, wakeupFd,
                 issued, ran>>

(* kPollTimeMs have passed, or a signal arrived.                           *)
PollTimeout ==
  /\ lpc = "poll"
  /\ wakeupFd = 0
  /\ lpc' = "events"
  /\ UNCHANGED <<tpc, quit, calling, pendingFunctors, functors,
                 activeChannels, wakeupFd, issued, ran>>

(* EventLoop::handleRead: reading the eventfd resets it.                   *)
HandleRead ==
  /\ lpc = "events"
  /\ WakeupChannel \in activeChannels
  /\ wakeupFd' = 0
  /\ activeChannels' = activeChannels \ {WakeupChannel}
  /\ UNCHANGED <<lpc, tpc, quit, calling, pendingFunctors, functors,
                 issued, ran>>

(* The callback of an I/O channel returns.                                 *)
HandleIo(c) ==
  /\ lpc = "events"
  /\ c \in activeChannels \cap IoChannels
  /\ activeChannels' = activeChannels \ {c}
  /\ UNCHANGED <<lpc, tpc, quit, calling, pendingFunctors, functors,
                 wakeupFd, issued, ran>>

(* doPendingFunctors: set the flag, swap under the mutex, run the batch,   *)
(* clear the flag.                                                         *)
BeginFunctors ==
  /\ lpc = "events"
  /\ activeChannels = {}
  /\ calling' = TRUE
  /\ lpc' = "swap"
  /\ UNCHANGED <<tpc, quit, pendingFunctors, functors, activeChannels,
                 wakeupFd, issued, ran>>

SwapFunctors ==
  /\ lpc = "swap"
  /\ functors' = pendingFunctors
  /\ pendingFunctors' = functors
  /\ lpc' = "functors"
  /\ UNCHANGED <<tpc, quit, calling, activeChannels, wakeupFd, issued, ran>>

(* The functor at the head of the batch returns.                           *)
RunFunctor ==
  /\ lpc = "functors"
  /\ functors # <<>>
  /\ ran' = ran \cup {Head(functors)}
  /\ functors' = Tail(functors)
  /\ UNCHANGED <<lpc, tpc, quit, calling, pendingFunctors, activeChannels,
                 wakeupFd, issued>>

EndStillCalling ==
  /\ lpc = "functors"
  /\ functors = <<>>
  /\ lpc' = "while"
  /\ UNCHANGED <<tpc, quit, calling, pendingFunctors, functors,
                 activeChannels, wakeupFd, issued, ran>>

EndClearingQueue ==
  /\ lpc = "functors"
  /\ functors = <<>>
  /\ calling' = FALSE
  /\ pendingFunctors' = <<>>
  /\ lpc' = "while"
  /\ UNCHANGED <<tpc, quit, functors, activeChannels, wakeupFd, issued, ran>>

EndFunctors ==
  /\ lpc = "functors"
  /\ functors = <<>>
  /\ calling' = FALSE
  /\ lpc' = "while"
  /\ UNCHANGED <<tpc, quit, pendingFunctors, functors, activeChannels,
                 wakeupFd, issued, ran>>

-----------------------------------------------------------------------------
OtherStep(t) ==
  \/ QueueFromOther(t)
  \/ NotifyFromOther(t)
  \/ QuitFromOther(t)
  \/ WakeForQuit(t)

(* Steps the owner takes without waiting for anything outside the process. *)
OwnerRuns ==
  \/ LoopStart
  \/ TestQuit
  \/ HandleRead
  \/ \E c \in IoChannels : HandleIo(c)
  \/ BeginFunctors
  \/ SwapFunctors
  \/ RunFunctor
  \/ EndFunctors

OwnerCalls == QueueFromOwner \/ RunFromOwner \/ QuitFromOwner

Next ==
  \/ \E t \in Others : OtherStep(t)
  \/ OwnerRuns
  \/ OwnerCalls
  \/ PollReturn
  \/ PollTimeout

(* A thread inside a call leaves it, the owner keeps running, callbacks    *)
(* and functors return, and poll returns once the eventfd is readable.     *)
(* Nothing is assumed of the poll timeout or of the I/O channels.          *)
Fairness ==
  /\ WF_vars(OwnerRuns)
  /\ WF_vars(wakeupFd > 0 /\ PollReturn)
  /\ \A t \in Others : WF_vars(NotifyFromOther(t)) /\ WF_vars(WakeForQuit(t))

SafeSpec == Init /\ [][Next]_vars

Spec == SafeSpec /\ Fairness

-----------------------------------------------------------------------------
(* Types of the variables of the loop.                                     *)
TypeOK ==
  /\ lpc \in LoopPcs
  /\ tpc \in [Others -> OtherPcs]
  /\ quit \in BOOLEAN
  /\ calling \in BOOLEAN
  /\ pendingFunctors \in Seq(Functor)
  /\ functors \in Seq(Functor)
  /\ activeChannels \in SUBSET (IoChannels \cup {WakeupChannel})
  /\ wakeupFd \in 0..EventfdMax
  /\ issued \in [Threads -> 0..MaxCalls]
  /\ ran \in SUBSET Functor

(* A write of the eventfd has happened or is about to.                     *)
WakeupDue == wakeupFd > 0 \/ \E t \in Others : tpc[t] # "idle"

(* The wakeup protocol of queueInLoop (EventLoop.cc:164-172): the owner    *)
(* never sleeps in poll on a functor nobody will wake it for, whichever    *)
(* thread queued it and wherever the owner was at that moment.             *)
NoLostWakeup == (lpc = "poll" /\ pendingFunctors # <<>>) => WakeupDue

(* The same for quit (EventLoop.cc:133-141): the owner never sleeps in     *)
(* poll with quit_ set and no wakeup on its way.                           *)
QuitWakesPoll == (lpc = "poll" /\ quit) => WakeupDue

(* A quit() that finds the owner in loop() ends it (EventLoop.h:28,        *)
(* "退出事件循环"); one that comes before is forgotten (EventLoop.cc:97).    *)
QuitStopsLoop == (quit /\ lpc # "out") ~> lpc = "after"

-----------------------------------------------------------------------------
(* callingPendingFunctors_ is set exactly from before the swap until the   *)
(* batch has run: what queueInLoop relies on when the owner calls it.      *)
CallingIsBusy == calling <=> lpc \in {"swap", "functors"}

(* The batch is empty outside doPendingFunctors, so the swap empties       *)
(* pendingFunctors_.                                                       *)
BatchIsLocal == functors # <<>> => lpc = "functors"

(* NoLostWakeup at every point of loop() but the two at which the swap is  *)
(* still ahead in this iteration.                                          *)
WakeupUnlessSwapAhead ==
  (pendingFunctors # <<>> /\ lpc \notin {"events", "swap", "after"})
    => WakeupDue

(* The inductive invariant of queueInLoop, quit and doPendingFunctors.     *)
(* Beyond NoLostWakeup and QuitWakesPoll: the flag that queueInLoop reads  *)
(* is set while a batch is due and at no other time, no functor outlives   *)
(* its batch, and a wakeup is due already when loop() tests quit_.         *)
IInv ==
  /\ TypeOK
  /\ CallingIsBusy
  /\ BatchIsLocal
  /\ WakeupUnlessSwapAhead
  /\ QuitWakesPoll

-----------------------------------------------------------------------------
AllQueued == functors \o pendingFunctors

(* A call is in the queue once or has run, never both, and its number has  *)
(* been given out: no functor is repeated or invented.                     *)
AtMostOnce ==
  /\ \A i, j \in 1..Len(AllQueued) : AllQueued[i] = AllQueued[j] => i = j
  /\ \A i \in 1..Len(AllQueued) :
       /\ AllQueued[i] \notin ran
       /\ AllQueued[i][2] <= issued[AllQueued[i][1]]
  /\ \A f \in ran : f[2] <= issued[f[1]]

(* Every call ever made is still queued, in the batch, or has run.         *)
NoneLost ==
  \A t \in Threads : \A k \in 1..issued[t] :
    \/ <<t, k>> \in ran
    \/ \E i \in 1..Len(AllQueued) : AllQueued[i] = <<t, k>>

(* The push of queueInLoop (EventLoop.cc:164-168), the swap and the run of *)
(* doPendingFunctors (212-229) neither lose nor repeat nor invent a        *)
(* functor, at whatever moment of the loop another thread pushes.          *)
OnceInv == AtMostOnce /\ NoneLost

(* FIFO, exactly once, and every functor runs unless the loop stops: the   *)
(* batch being run followed by pendingFunctors_ is the abstract queue.     *)
Abstract == INSTANCE FunctorQueue
              WITH queue <- AllQueued,
                   stopped <- (lpc = "after")

ImplementsQueue == Abstract!Spec

ImplementsQueueSafely == Abstract!SafeSpec
=============================================================================
