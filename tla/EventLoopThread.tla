--------------------------- MODULE EventLoopThread ---------------------------
(***************************************************************************)
(* EventLoopThread (src/src/EventLoopThread.cc) with the Thread it starts  *)
(* (src/src/Thread.cc), composed with the EventLoop that threadFunc keeps  *)
(* on its stack.  Main constructs the object, calls startLoop(), uses the  *)
(* loop it returned and destroys the object; the new thread builds the     *)
(* loop, publishes it in loop_, runs it, clears loop_ and destroys it.     *)
(*                                                                         *)
(* A critical section of mutex_ is one step.  The destructor takes no      *)
(* lock: its test of loop_, its call of quit() and the write of the        *)
(* eventfd at the end of quit() are steps of their own.                    *)
(***************************************************************************)
EXTENDS Naturals, Sequences

CONSTANTS
  LoopThread,       \* the thread that start() creates
  Main,             \* the thread that owns the EventLoopThread
  WakeupChannel, IoChannels, MaxCalls, EventfdMax,  \* of the EventLoop
  OwnerQueuesEarly  \* callback_ calls queueInLoop

ASSUME ThreadAssumption == LoopThread # Main
ASSUME ChannelAssumption == WakeupChannel \notin IoChannels
ASSUME BoundAssumption == MaxCalls \in Nat /\ EventfdMax \in Nat \ {0}
ASSUME UseAssumption == OwnerQueuesEarly \in BOOLEAN

VARIABLES lpc, tpc, quit, calling, pendingFunctors, functors, activeChannels,
          wakeupFd, issued, ran   \* of the EventLoop

VARIABLES
  mpc,       \* where Main is in the life of the object
  funcPc,    \* where the new thread is in start()'s lambda and threadFunc
  loopSet,   \* loop_ # nullptr
  joined     \* joined_

Loop == INSTANCE EventLoop WITH Others <- {Main}

loopVars == <<lpc, tpc, quit, calling, pendingFunctors, functors,
              activeChannels, wakeupFd, issued, ran>>

own == <<mpc, funcPc, loopSet, joined>>

vars == <<lpc, tpc, quit, calling, pendingFunctors, functors, activeChannels,
          wakeupFd, issued, ran, mpc, funcPc, loopSet, joined>>

(* constructed; in sem_wait; about to lock and test loop_; asleep on       *)
(* cond_; startLoop returned; destructor saw loop_ set; in quit(); in      *)
(* join(); destructor done; destructor used a loop that is not there       *)
MainPcs == {"new", "starting", "lock", "asleep", "running", "quit", "wake",
            "join", "gone", "crashed"}

(* no thread; before sem_post; in callback_; about to publish loop_; in    *)
(* loop(); about to destroy the loop; returned                             *)
FuncPcs == {"none", "born", "init", "publish", "loop", "cleared", "ended"}

LoopAlive == funcPc \in {"init", "publish", "loop", "cleared"}

Init ==
  /\ Loop!Init
  /\ mpc = "new"
  /\ funcPc = "none"
  /\ loopSet = FALSE
  /\ joined = FALSE

-----------------------------------------------------------------------------
(* Thread::start: the thread is created, then awaited until it has its tid.*)
StartThread ==
  /\ mpc = "new"
  /\ mpc' = "starting"
  /\ funcPc' = "born"
  /\ UNCHANGED <<loopVars, loopSet, joined>>

PostTid ==
  /\ funcPc = "born"
  /\ funcPc' = "init"
  /\ UNCHANGED <<loopVars, mpc, loopSet, joined>>

StartReturns ==
  /\ mpc = "starting"
  /\ funcPc # "born"
  /\ mpc' = "lock"
  /\ UNCHANGED <<loopVars, funcPc, loopSet, joined>>

(* cond_.wait with its predicate, under mutex_.                            *)
TestLoop ==
  /\ mpc = "lock"
  /\ mpc' = IF loopSet THEN "running" ELSE "asleep"
  /\ UNCHANGED <<loopVars, funcPc, loopSet, joined>>

WaitOnce ==
  /\ mpc = "asleep"
  /\ mpc' = "running"
  /\ UNCHANGED <<loopVars, funcPc, loopSet, joined>>

SpuriousWakeup ==
  /\ mpc = "asleep"
  /\ mpc' = "lock"
  /\ UNCHANGED <<loopVars, funcPc, loopSet, joined>>

(* threadFunc: callback_ returns.                                          *)
InitDone ==
  /\ funcPc = "init"
  /\ funcPc' = "publish"
  /\ UNCHANGED <<loopVars, mpc, loopSet, joined>>

PublishSilently ==
  /\ funcPc = "publish"
  /\ funcPc' = "loop"
  /\ loopSet' = TRUE
  /\ UNCHANGED <<loopVars, mpc, joined>>

PublishEarly ==
  /\ funcPc = "init"
  /\ funcPc' = "publish"
  /\ loopSet' = TRUE
  /\ mpc' = IF mpc = "asleep" THEN "lock" ELSE mpc
  /\ UNCHANGED <<loopVars, joined>>

(* loop_ = &loop and notify_one, under mutex_.                             *)
Publish ==
  /\ funcPc = "publish"
  /\ funcPc' = "loop"
  /\ loopSet' = TRUE
  /\ mpc' = IF mpc = "asleep" THEN "lock" ELSE mpc
  /\ UNCHANGED <<loopVars, joined>>

ClearForgotten ==
  /\ funcPc = "loop"
  /\ lpc = "after"
  /\ funcPc' = "cleared"
  /\ UNCHANGED <<loopVars, mpc, loopSet, joined>>

(* loop() returned: loop_ = nullptr under mutex_, then the loop is         *)
(* destroyed with the frame of threadFunc.  The destructor's null branch   *)
(* waits for none of this: mutex_ may be gone before it is unlocked here.  *)
ClearLoop ==
  /\ funcPc = "loop"
  /\ lpc = "after"
  /\ funcPc' = "cleared"
  /\ loopSet' = FALSE
  /\ UNCHANGED <<loopVars, mpc, joined>>

DestroyLoop ==
  /\ funcPc = "cleared"
  /\ funcPc' = "ended"
  /\ UNCHANGED <<loopVars, mpc, loopSet, joined>>

-----------------------------------------------------------------------------
(* The destructor: with loop_ null it ends at once and ~Thread detaches.   *)
Destroy ==
  /\ mpc = "running"
  /\ tpc[Main] = "idle"
  /\ mpc' = IF loopSet THEN "quit" ELSE "gone"
  /\ UNCHANGED <<loopVars, funcPc, loopSet, joined>>

(* loop_->quit() reads loop_ again: a store in the loop if it is still     *)
(* set, a null pointer otherwise.                                          *)
DestroyQuit ==
  /\ mpc = "quit"
  /\ IF loopSet THEN Loop!QuitFromOther(Main) /\ mpc' = "wake"
                ELSE UNCHANGED loopVars /\ mpc' = "crashed"
  /\ UNCHANGED <<funcPc, loopSet, joined>>

(* The end of quit(): the write of the eventfd, thread_.join() begins.     *)
(* On a loop that is gone this is undefined: it may pass or crash.         *)
DestroyWake ==
  /\ mpc = "wake"
  /\ \/ /\ Loop!WakeForQuit(Main)
        /\ mpc' = "join"
        /\ joined' = TRUE
     \/ /\ ~LoopAlive
        /\ mpc' = "crashed"
        /\ UNCHANGED <<loopVars, joined>>
  /\ UNCHANGED <<funcPc, loopSet>>

JoinSkipped ==
  /\ mpc = "join"
  /\ mpc' = "gone"
  /\ UNCHANGED <<loopVars, funcPc, loopSet, joined>>

Join ==
  /\ mpc = "join"
  /\ funcPc = "ended"
  /\ mpc' = "gone"
  /\ UNCHANGED <<loopVars, funcPc, loopSet, joined>>

-----------------------------------------------------------------------------
(* The loop itself, once threadFunc is in loop(), and its users.           *)
LoopRuns ==
  /\ funcPc = "loop"
  /\ Loop!OwnerRuns
  /\ UNCHANGED own

LoopPolls ==
  /\ Loop!PollReturn \/ Loop!PollTimeout
  /\ UNCHANGED own

LoopCalls ==
  /\ funcPc = "init" \/ Loop!InCallback
  /\ \/ Loop!QueueFromOwner
     \/ Loop!RunFromOwner
     \/ Loop!QuitFromOwner
  /\ UNCHANGED own

MainCalls ==
  /\ mpc = "running"
  /\ Loop!QueueFromOther(Main) \/ Loop!NotifyFromOther(Main)
  /\ UNCHANGED own

ThreadRuns ==
  \/ PostTid
  \/ InitDone
  \/ Publish
  \/ ClearLoop
  \/ DestroyLoop
  \/ LoopRuns

MainRuns ==
  \/ StartThread
  \/ StartReturns
  \/ TestLoop
  \/ DestroyQuit
  \/ DestroyWake
  \/ Join

Next ==
  \/ ThreadRuns
  \/ LoopPolls
  \/ LoopCalls
  \/ MainRuns
  \/ SpuriousWakeup
  \/ MainCalls
  \/ Destroy

(* Both threads run when they can, and poll returns once the eventfd is    *)
(* readable.  Nothing is assumed of spurious wakeups or of the poll        *)
(* timeout.                                                                *)
Fairness ==
  /\ WF_vars(ThreadRuns)
  /\ WF_vars(MainRuns)
  /\ WF_vars(wakeupFd > 0 /\ LoopPolls)
  /\ WF_vars(MainCalls /\ Loop!NotifyFromOther(Main))

SafeSpec == Init /\ [][Next]_vars

Spec == SafeSpec /\ Fairness

-----------------------------------------------------------------------------
(* Types of the variables.                                                 *)
TypeOK ==
  /\ Loop!TypeOK
  /\ mpc \in MainPcs
  /\ funcPc \in FuncPcs
  /\ loopSet \in BOOLEAN
  /\ joined \in BOOLEAN

(* Where the two threads are determines what loop_ may be: it is set while *)
(* threadFunc is in loop() and at no other time, Main leaves startLoop     *)
(* only after that, and threadFunc leaves loop() only when quit_ is set,   *)
(* which then stays so.                                                    *)
HandshakeInv ==
  /\ loopSet <=> funcPc = "loop"
  /\ mpc = "new" <=> funcPc = "none"
  /\ mpc \in {"running", "gone"} => funcPc \in {"loop", "cleared", "ended"}
  /\ mpc = "gone" => funcPc # "loop"
  /\ funcPc \in {"cleared", "ended"} => lpc = "after"
  /\ lpc = "after" => quit

(* The inductive invariant of startLoop, threadFunc and the destructor     *)
(* (EventLoopThread.cc:16-59), with the types of the variables.            *)
IInv == TypeOK /\ HandshakeInv

(* The destructor reads loop_ without the lock (EventLoopThread.cc:19):    *)
(* when it is done, in either branch, the thread has left loop() and       *)
(* serves nobody on behalf of an object that is gone.                      *)
NoLoopLeftBehind == mpc = "gone" => funcPc \in {"cleared", "ended"}

(* startLoop hands out a loop that is alive, about to run or running, and  *)
(* it stays so until the destructor, unless the code it runs stops it      *)
(* (EventLoopThread.cc:25-36).                                             *)
StartedLoopServes ==
  (mpc = "running" /\ ~quit) => (funcPc = "loop" /\ loopSet)

(* Whoever finds loop_ set under mutex_ finds a loop that is still on the  *)
(* stack of threadFunc, however loop() came to return                      *)
(* (EventLoopThread.cc:48-58).                                             *)
PublishedLoopAlive == loopSet => LoopAlive /\ funcPc # "init"

(* What the destructor calls quit() on is a loop that exists, until quit() *)
(* has returned (EventLoopThread.cc:19-20).                                *)
DestructorHasLoop == mpc # "crashed" /\ (mpc = "wake" => LoopAlive)

(* The handshake through loop_, mutex_ and cond_ misses no wakeup:         *)
(* startLoop returns, unless the loop was told to stop meanwhile.          *)
StartCompletes == mpc = "starting" ~> (mpc = "running" \/ quit)

(* join() returns, once quit() was called.                                 *)
JoinReturns == mpc = "join" ~> mpc = "gone"

(* ... and it does when the quit() was not forgotten.                      *)
NoticedJoinReturns ==
  (mpc = "join" /\ quit /\ lpc # "out") ~> mpc = "gone"
=============================================================================
