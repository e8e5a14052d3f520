------------------------- MODULE EventLoopThreadProofs -------------------------
(***************************************************************************)
(* Proofs about EventLoopThread, for every bound: that its loop behaves as *)
(* EventLoop says, with Main as the only other thread, so that what        *)
(* EventLoopProofs proves holds of it, and that the handshake of startLoop *)
(* and threadFunc through mutex_, cond_ and loop_ hands out a loop that    *)
(* runs.                                                                   *)
(***************************************************************************)
EXTENDS EventLoopThread, TLAPS

LP == INSTANCE EventLoopProofs WITH Others <- {Main}

-----------------------------------------------------------------------------
(* The assumptions of EventLoop, of a loop with one other thread.          *)
LEMMA LoopAssumptions ==
  /\ LoopThread \notin {Main}
  /\ WakeupChannel \notin IoChannels
  /\ MaxCalls \in Nat /\ EventfdMax \in Nat \ {0}
  /\ OwnerQueuesEarly \in BOOLEAN
BY ThreadAssumption, ChannelAssumption, BoundAssumption, UseAssumption

(* The loop of EventLoopThread and the one of EventLoopProofs are the same.*)
LEMMA SameLoop ==
  /\ LP!Init <=> Loop!Init
  /\ LP!Next <=> Loop!Next
  /\ LP!vars = loopVars
  /\ LP!TypeOK <=> Loop!TypeOK
BY DEF loopVars, LP!vars, Loop!vars, LP!Init, Loop!Init, LP!Next, Loop!Next,
       LP!TypeOK, Loop!TypeOK, LP!LoopPcs, Loop!LoopPcs, LP!OtherPcs, Loop!OtherPcs, LP!Threads,
       Loop!Threads, LP!Functor, Loop!Functor, LP!InCallback,
       Loop!InCallback, LP!OutsideLoop, Loop!OutsideLoop, LP!Wakeup,
       Loop!Wakeup, LP!Call, Loop!Call, LP!CountCall, Loop!CountCall,
       LP!Push, Loop!Push, LP!MustWake, Loop!MustWake,
       LP!NotifyAfterPush, Loop!NotifyAfterPush, LP!QueueFromOther,
       Loop!QueueFromOther, LP!NotifyFromOther, Loop!NotifyFromOther,
       LP!QueueFromOwner, Loop!QueueFromOwner, LP!RunFromOwner,
       Loop!RunFromOwner, LP!QuitFromOther, Loop!QuitFromOther,
       LP!WakeForQuit, Loop!WakeForQuit, LP!QuitFromOwner,
       Loop!QuitFromOwner, LP!LoopStart, Loop!LoopStart, LP!TestQuit,
       Loop!TestQuit, LP!PollReturn, Loop!PollReturn, LP!PollTimeout,
       Loop!PollTimeout, LP!HandleRead, Loop!HandleRead, LP!HandleIo,
       Loop!HandleIo, LP!BeginFunctors, Loop!BeginFunctors,
       LP!SwapFunctors, Loop!SwapFunctors, LP!RunFunctor,
       Loop!RunFunctor, LP!EndFunctors, Loop!EndFunctors,
       LP!OtherStep, Loop!OtherStep, LP!OwnerRuns, Loop!OwnerRuns,
       LP!OwnerCalls, Loop!OwnerCalls

(* ... and so are their behaviours.                                       *)
LEMMA SameBehaviours == LP!SafeSpec <=> Loop!SafeSpec
BY SameLoop, PTL DEF LP!SafeSpec, Loop!SafeSpec, loopVars, LP!vars, Loop!vars

(* A step of the object and its threads is a step of the loop, or none.    *)
LEMMA LoopStep == [Next]_vars => [Loop!Next]_loopVars
BY DEF Next, vars, loopVars, own, ThreadRuns, MainRuns, StartThread, PostTid,
       StartReturns, TestLoop, SpuriousWakeup, InitDone, Publish, ClearLoop,
       DestroyLoop, Destroy, DestroyQuit, DestroyWake, Join, LoopRuns,
       LoopPolls, LoopCalls, MainCalls, Loop!Next, Loop!OtherStep,
       Loop!OwnerCalls

(* However startLoop, threadFunc and the destructor use the loop, they use *)
(* it as EventLoop allows.                                                 *)
THEOREM LoopIsEventLoop == SafeSpec => Loop!SafeSpec
<1>1. Init => Loop!Init
  BY DEF Init
<1>2. [Next]_vars => [Loop!Next]_(Loop!vars)
  BY LoopStep DEF loopVars, Loop!vars
<1>. QED
  BY <1>1, <1>2, PTL DEF SafeSpec, Loop!SafeSpec

(* Types of the variables that EventLoopThread adds to those of its loop.  *)
OwnTypes ==
  /\ mpc \in MainPcs
  /\ funcPc \in FuncPcs
  /\ loopSet \in BOOLEAN
  /\ joined \in BOOLEAN

(* Every step preserves them.                                              *)
LEMMA OwnTypesStep == OwnTypes /\ [Next]_vars => OwnTypes'
BY DEF OwnTypes, MainPcs, FuncPcs, Next, vars, own, ThreadRuns, MainRuns,
       StartThread, PostTid, StartReturns, TestLoop, SpuriousWakeup, InitDone,
       Publish, ClearLoop, DestroyLoop, Destroy, DestroyQuit, DestroyWake,
       Join, LoopRuns, LoopPolls, LoopCalls, MainCalls

(* The variables keep their types: those of the loop by TypeCorrect of     *)
(* EventLoopProofs.                                                        *)
THEOREM TypeCorrect == SafeSpec => []TypeOK
<1>1. LP!SafeSpec => []LP!TypeOK
  BY LoopAssumptions, LP!TypeCorrect
<1>2. SafeSpec => []Loop!TypeOK
  <2>1. LP!SafeSpec <=> Loop!SafeSpec
    BY SameBehaviours
  <2>2. LP!TypeOK <=> Loop!TypeOK
    BY SameLoop
  <2>. QED
    BY <1>1, <2>1, <2>2, LoopIsEventLoop, PTL
<1>3. Init => OwnTypes
  BY DEF Init, OwnTypes, MainPcs, FuncPcs
<1>4. SafeSpec => []OwnTypes
  BY <1>3, OwnTypesStep, PTL DEF SafeSpec
<1>5. Loop!TypeOK /\ OwnTypes => TypeOK
  BY DEF TypeOK, OwnTypes
<1>. QED
  BY <1>2, <1>4, <1>5, PTL

(* Functors handed to the loop of an EventLoopThread, by Main or by the    *)
(* callback of the thread, are served in the order of their queueing, once *)
(* each, until loop() returns.                                             *)
THEOREM FunctorsServed == SafeSpec => LP!ImplementsQueueSafely
<1>1. LP!SafeSpec => LP!ImplementsQueueSafely
  BY LoopAssumptions, LP!Refinement
<1>2. LP!SafeSpec <=> Loop!SafeSpec
  BY SameBehaviours
<1>. QED
  BY <1>1, <1>2, LoopIsEventLoop

-----------------------------------------------------------------------------
(* Every step of either thread preserves it.                               *)
LEMMA HandshakeStep == HandshakeInv /\ [Next]_vars => HandshakeInv'
<1> SUFFICES ASSUME HandshakeInv, [Next]_vars PROVE HandshakeInv'
  OBVIOUS
<1> USE DEF HandshakeInv, loopVars, own
<1>1. CASE StartThread \/ PostTid \/ StartReturns \/ TestLoop
  BY <1>1 DEF StartThread, PostTid, StartReturns, TestLoop
<1>2. CASE SpuriousWakeup \/ InitDone \/ Publish
  BY <1>2 DEF SpuriousWakeup, InitDone, Publish
<1>3. CASE ClearLoop \/ DestroyLoop \/ Destroy \/ Join
  BY <1>3 DEF ClearLoop, DestroyLoop, Destroy, Join
<1>4. CASE DestroyQuit \/ DestroyWake
  BY <1>4 DEF DestroyQuit, DestroyWake, Loop!QuitFromOther, Loop!WakeForQuit
<1>5. CASE LoopRuns
  <2>1. CASE Loop!LoopStart \/ Loop!TestQuit
    BY <1>5, <2>1 DEF LoopRuns, Loop!LoopStart, Loop!TestQuit
  <2>2. CASE ~(Loop!LoopStart \/ Loop!TestQuit)
    BY <1>5, <2>2 DEF LoopRuns, Loop!OwnerRuns, Loop!HandleRead,
       Loop!HandleIo, Loop!BeginFunctors, Loop!SwapFunctors, Loop!RunFunctor,
       Loop!EndFunctors
  <2>. QED
    BY <2>1, <2>2
<1>6. CASE LoopPolls \/ LoopCalls \/ MainCalls
  BY <1>6 DEF LoopPolls, LoopCalls, MainCalls, Loop!PollReturn,
     Loop!PollTimeout, Loop!QueueFromOwner, Loop!RunFromOwner,
     Loop!QuitFromOwner, Loop!QueueFromOther, Loop!NotifyFromOther
<1>7. CASE UNCHANGED vars
  BY <1>7 DEF vars
<1>. QED
  BY <1>1, <1>2, <1>3, <1>4, <1>5, <1>6, <1>7
     DEF Next, ThreadRuns, MainRuns

(* In every reachable state, what loop_ may be follows from where the two  *)
(* threads are, for every bound and every use of the loop.                 *)
THEOREM Handshake == SafeSpec => []IInv
<1>1. Init => HandshakeInv
  BY DEF Init, HandshakeInv, Loop!Init
<1>. QED
  BY <1>1, HandshakeStep, TypeCorrect, PTL DEF SafeSpec, IInv

(* The destructor leaves no thread in loop() behind, although it tests     *)
(* loop_ without the lock and joins in one branch only.                    *)
THEOREM NobodyLeftBehind == SafeSpec => []NoLoopLeftBehind
<1>1. IInv => NoLoopLeftBehind
  BY DEF IInv, HandshakeInv, NoLoopLeftBehind
<1>. QED
  BY <1>1, Handshake, PTL

(* startLoop hands out a loop that is in loop() and stays there until it   *)
(* is told to quit, however the two threads interleave and however often   *)
(* cond_ wakes up for nothing.                                             *)
THEOREM LoopServes == SafeSpec => []StartedLoopServes
<1>1. IInv => StartedLoopServes
  BY DEF IInv, HandshakeInv, StartedLoopServes
<1>. QED
  BY <1>1, Handshake, PTL

(* loop_ never points to a loop that threadFunc has left.                  *)
THEOREM PublishedIsAlive == SafeSpec => []PublishedLoopAlive
<1>1. IInv => PublishedLoopAlive
  BY DEF IInv, HandshakeInv, PublishedLoopAlive, LoopAlive
<1>. QED
  BY <1>1, Handshake, PTL
=============================================================================
