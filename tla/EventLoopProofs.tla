--------------------------- MODULE EventLoopProofs ---------------------------
(***************************************************************************)
(* Proofs about EventLoop, for every set of threads and channels and every *)
(* bound: its type invariant, the wakeup protocol, and that it implements  *)
(* the safety part of FunctorQueue.                                        *)
(***************************************************************************)
EXTENDS EventLoop, SequenceTheorems, TLAPS

USE ThreadAssumption, ChannelAssumption, BoundAssumption, UseAssumption

-----------------------------------------------------------------------------
(* A call that counts is a functor.                                        *)
LEMMA CallIsFunctor ==
  ASSUME TypeOK, NEW t \in Threads, CountCall(t)
  PROVE  /\ Call(t) \in Functor
         /\ issued' \in [Threads -> 0..MaxCalls]
BY DEF TypeOK, CountCall, Call, Functor

(* A write of the eventfd keeps its counter in range and leaves it set.    *)
LEMMA WakeupSets ==
  ASSUME TypeOK, Wakeup
  PROVE  wakeupFd' \in 0..EventfdMax /\ wakeupFd' > 0
BY DEF TypeOK, Wakeup

(* Every step preserves the types of the variables.                        *)
LEMMA TypeStep == TypeOK /\ [Next]_vars => TypeOK'
<1> SUFFICES ASSUME TypeOK, [Next]_vars
             PROVE  TypeOK'
  OBVIOUS
<1> USE DEF TypeOK, LoopPcs, OtherPcs
<1>1. ASSUME NEW t \in Others, QueueFromOther(t)
      PROVE  TypeOK'
  <2>1. Call(t) \in Functor /\ issued' \in [Threads -> 0..MaxCalls]
    BY <1>1, CallIsFunctor DEF QueueFromOther, Push, Threads
  <2>2. pendingFunctors' \in Seq(Functor)
    BY <1>1, <2>1 DEF QueueFromOther, Push
  <2>. QED
    BY <1>1, <2>1, <2>2 DEF QueueFromOther
<1>2. ASSUME NEW t \in Others, NotifyFromOther(t)
      PROVE  TypeOK'
  BY <1>2, WakeupSets DEF NotifyFromOther, NotifyAfterPush
<1>3. ASSUME NEW t \in Others, QuitFromOther(t)
      PROVE  TypeOK'
  BY <1>3 DEF QuitFromOther
<1>4. ASSUME NEW t \in Others, WakeForQuit(t)
      PROVE  TypeOK'
  BY <1>4, WakeupSets DEF WakeForQuit
<1>5. CASE QueueFromOwner
  <2>1. Call(LoopThread) \in Functor /\ issued' \in [Threads -> 0..MaxCalls]
    BY <1>5, CallIsFunctor DEF QueueFromOwner, Push, Threads
  <2>2. pendingFunctors' \in Seq(Functor)
    BY <1>5, <2>1 DEF QueueFromOwner, Push
  <2>3. wakeupFd' \in 0..EventfdMax
    BY <1>5, WakeupSets DEF QueueFromOwner, NotifyAfterPush
  <2>. QED
    BY <1>5, <2>1, <2>2, <2>3 DEF QueueFromOwner
<1>6. CASE RunFromOwner
  <2>1. Call(LoopThread) \in Functor /\ issued' \in [Threads -> 0..MaxCalls]
    BY <1>6, CallIsFunctor DEF RunFromOwner, Threads
  <2>. QED
    BY <1>6, <2>1 DEF RunFromOwner
<1>7. CASE QuitFromOwner
  BY <1>7 DEF QuitFromOwner
<1>8. CASE LoopStart
  BY <1>8 DEF LoopStart
<1>9. CASE TestQuit
  BY <1>9 DEF TestQuit
<1>10. CASE PollReturn
  BY <1>10 DEF PollReturn
<1>11. CASE PollTimeout
  BY <1>11 DEF PollTimeout
<1>12. CASE HandleRead
  BY <1>12 DEF HandleRead
<1>13. ASSUME NEW c \in IoChannels, HandleIo(c)
       PROVE  TypeOK'
  BY <1>13 DEF HandleIo
<1>14. CASE BeginFunctors
  BY <1>14 DEF BeginFunctors
<1>15. CASE SwapFunctors
  BY <1>15 DEF SwapFunctors
<1>16. CASE RunFunctor
  <2>1. Head(functors) \in Functor /\ Tail(functors) \in Seq(Functor)
    BY <1>16, HeadTailProperties DEF RunFunctor
  <2>. QED
    BY <1>16, <2>1 DEF RunFunctor
<1>17. CASE EndFunctors
  BY <1>17 DEF EndFunctors
<1>18. CASE UNCHANGED vars
  BY <1>18 DEF vars
<1>. QED
  BY <1>1, <1>2, <1>3, <1>4, <1>5, <1>6, <1>7, <1>8, <1>9, <1>10, <1>11,
     <1>12, <1>13, <1>14, <1>15, <1>16, <1>17, <1>18
     DEF Next, OtherStep, OwnerRuns, OwnerCalls

(* The initial state is well typed.                                        *)
LEMMA TypeInit == Init => TypeOK
<1> SUFFICES ASSUME Init PROVE TypeOK
  OBVIOUS
<1>1. pendingFunctors \in Seq(Functor) /\ functors \in Seq(Functor)
  BY DEF Init
<1>2. wakeupFd \in 0..EventfdMax /\ issued \in [Threads -> 0..MaxCalls]
  BY DEF Init
<1>. QED
  BY <1>1, <1>2 DEF Init, TypeOK, LoopPcs, OtherPcs

(* The variables of the loop keep their types.                             *)
THEOREM TypeCorrect == SafeSpec => []TypeOK
BY TypeInit, TypeStep, PTL DEF SafeSpec

-----------------------------------------------------------------------------
(* A write of the eventfd is due as soon as another thread is in a call.   *)
LEMMA BusyThreadWakes ==
  ASSUME TypeOK, NEW t \in Others, NEW pc \in OtherPcs, pc # "idle",
         tpc' = [tpc EXCEPT ![t] = pc]
  PROVE  WakeupDue'
BY DEF TypeOK, WakeupDue

(* A thread that leaves a call with a write leaves a write behind.         *)
LEMMA WriteWakes ==
  ASSUME TypeOK, Wakeup
  PROVE  WakeupDue'
BY WakeupSets DEF WakeupDue

(* WakeupDue holds on while neither the eventfd nor the threads move.      *)
LEMMA WakeupDueStable ==
  ASSUME WakeupDue, UNCHANGED <<wakeupFd, tpc>>
  PROVE  WakeupDue'
BY DEF WakeupDue

(* The wakeup protocol is inductive when the owner queues nothing before   *)
(* loop(): one step per action, with the conjuncts it can disturb.         *)
LEMMA WakeupStep ==
  ASSUME ~OwnerQueuesEarly
  PROVE  IInv /\ [Next]_vars => IInv'
<1> SUFFICES ASSUME IInv, [Next]_vars
             PROVE  /\ CallingIsBusy'
                    /\ BatchIsLocal'
                    /\ WakeupUnlessSwapAhead'
                    /\ QuitWakesPoll'
  BY TypeStep DEF IInv
<1> DEFINE Goal == /\ CallingIsBusy'
                   /\ BatchIsLocal'
                   /\ WakeupUnlessSwapAhead'
                   /\ QuitWakesPoll'
<1>0. /\ TypeOK /\ CallingIsBusy /\ BatchIsLocal
      /\ WakeupUnlessSwapAhead /\ QuitWakesPoll
  BY DEF IInv
<1>1. ASSUME NEW t \in Others, QueueFromOther(t)
      PROVE  Goal
  <2>1. WakeupDue'
    BY <1>0, <1>1, BusyThreadWakes DEF QueueFromOther, OtherPcs
  <2>. QED
    BY <1>0, <1>1, <2>1
       DEF QueueFromOther, CallingIsBusy, BatchIsLocal,
           WakeupUnlessSwapAhead, QuitWakesPoll
<1>2. ASSUME NEW t \in Others, NotifyFromOther(t)
      PROVE  Goal
  <2>1. WakeupDue'
    BY <1>0, <1>2, WriteWakes, ThreadAssumption
       DEF NotifyFromOther, NotifyAfterPush, MustWake
  <2>. QED
    BY <1>0, <1>2, <2>1
       DEF NotifyFromOther, CallingIsBusy, BatchIsLocal,
           WakeupUnlessSwapAhead, QuitWakesPoll
<1>3. ASSUME NEW t \in Others, QuitFromOther(t)
      PROVE  Goal
  <2>1. WakeupDue'
    BY <1>0, <1>3, BusyThreadWakes DEF QuitFromOther, OtherPcs
  <2>. QED
    BY <1>0, <1>3, <2>1
       DEF QuitFromOther, CallingIsBusy, BatchIsLocal,
           WakeupUnlessSwapAhead, QuitWakesPoll
<1>4. ASSUME NEW t \in Others, WakeForQuit(t)
      PROVE  Goal
  <2>1. WakeupDue'
    BY <1>0, <1>4, WriteWakes DEF WakeForQuit
  <2>. QED
    BY <1>0, <1>4, <2>1
       DEF WakeForQuit, CallingIsBusy, BatchIsLocal,
           WakeupUnlessSwapAhead, QuitWakesPoll
<1>5. CASE QueueFromOwner
  <2>1. CASE lpc = "functors"
    <3>1. WakeupDue'
      BY <1>0, <1>5, <2>1, WriteWakes
         DEF QueueFromOwner, NotifyAfterPush, MustWake, CallingIsBusy
    <3>. QED
      BY <1>0, <1>5, <2>1, <3>1
         DEF QueueFromOwner, CallingIsBusy, BatchIsLocal,
             WakeupUnlessSwapAhead, QuitWakesPoll
  <2>2. CASE lpc = "events"
    BY <1>0, <1>5, <2>2
       DEF QueueFromOwner, CallingIsBusy, BatchIsLocal,
           WakeupUnlessSwapAhead, QuitWakesPoll
  <2>3. CASE lpc = "after"
    BY <1>0, <1>5, <2>3
       DEF QueueFromOwner, CallingIsBusy, BatchIsLocal,
           WakeupUnlessSwapAhead, QuitWakesPoll
  <2>. QED
    BY <1>5, <2>1, <2>2, <2>3 DEF QueueFromOwner, InCallback, OutsideLoop
<1>6. CASE RunFromOwner \/ LoopStart \/ UNCHANGED vars
  BY <1>0, <1>6, WakeupDueStable
     DEF RunFromOwner, LoopStart, vars, CallingIsBusy, BatchIsLocal,
         WakeupUnlessSwapAhead, QuitWakesPoll
<1>7. CASE QuitFromOwner
  <2>1. lpc # "poll"
    BY <1>7 DEF QuitFromOwner, InCallback, OutsideLoop
  <2>. QED
    BY <1>0, <1>7, <2>1, WakeupDueStable
       DEF QuitFromOwner, CallingIsBusy, BatchIsLocal,
           WakeupUnlessSwapAhead, QuitWakesPoll
<1>8. CASE TestQuit
  BY <1>0, <1>8, WakeupDueStable
     DEF TestQuit, CallingIsBusy, BatchIsLocal, WakeupUnlessSwapAhead,
         QuitWakesPoll
<1>9. CASE PollReturn \/ PollTimeout
  BY <1>0, <1>9
     DEF PollReturn, PollTimeout, CallingIsBusy, BatchIsLocal,
         WakeupUnlessSwapAhead, QuitWakesPoll
<1>10. CASE HandleRead
  BY <1>0, <1>10
     DEF HandleRead, CallingIsBusy, BatchIsLocal, WakeupUnlessSwapAhead,
         QuitWakesPoll
<1>11. ASSUME NEW c \in IoChannels, HandleIo(c)
       PROVE  Goal
  BY <1>0, <1>11
     DEF HandleIo, CallingIsBusy, BatchIsLocal, WakeupUnlessSwapAhead,
         QuitWakesPoll
<1>12. CASE BeginFunctors
  BY <1>0, <1>12
     DEF BeginFunctors, CallingIsBusy, BatchIsLocal, WakeupUnlessSwapAhead,
         QuitWakesPoll
<1>13. CASE SwapFunctors
  BY <1>0, <1>13
     DEF SwapFunctors, CallingIsBusy, BatchIsLocal, WakeupUnlessSwapAhead,
         QuitWakesPoll
<1>14. CASE RunFunctor \/ EndFunctors
  BY <1>0, <1>14, WakeupDueStable
     DEF RunFunctor, EndFunctors, CallingIsBusy, BatchIsLocal,
         WakeupUnlessSwapAhead, QuitWakesPoll
<1>. QED
  BY <1>1, <1>2, <1>3, <1>4, <1>5, <1>6, <1>7, <1>8, <1>9, <1>10, <1>11,
     <1>12, <1>13, <1>14 DEF Next, OtherStep, OwnerRuns, OwnerCalls

(* The inductive invariant of the wakeup protocol (EventLoop.cc:94-173,    *)
(* 212-229) holds for any number of threads, channels and calls.           *)
THEOREM WakeupProtocol ==
  ASSUME ~OwnerQueuesEarly
  PROVE  SafeSpec => []IInv
<1>1. Init => IInv
  BY TypeInit DEF Init, IInv, CallingIsBusy, BatchIsLocal,
                  WakeupUnlessSwapAhead, QuitWakesPoll
<1>. QED
  BY <1>1, WakeupStep, PTL DEF SafeSpec

(* The owner never sleeps in poll on a functor nobody will wake it for.    *)
THEOREM LostWakeupImpossible ==
  ASSUME ~OwnerQueuesEarly
  PROVE  SafeSpec => []NoLostWakeup
<1>1. IInv => NoLostWakeup
  BY DEF IInv, WakeupUnlessSwapAhead, NoLostWakeup
<1>. QED
  BY <1>1, WakeupProtocol, PTL

(* The owner never sleeps in poll on a quit nobody will wake it for.       *)
THEOREM QuitIsNoticed ==
  ASSUME ~OwnerQueuesEarly
  PROVE  SafeSpec => []QuitWakesPoll
<1>1. IInv => QuitWakesPoll
  BY DEF IInv
<1>. QED
  BY <1>1, WakeupProtocol, PTL

-----------------------------------------------------------------------------
(* A push appends to the queue that the mapping sees.                      *)
LEMMA PushAppends ==
  ASSUME TypeOK, NEW t \in Threads, Push(t), UNCHANGED functors
  PROVE  AllQueued' = Append(AllQueued, Call(t))
<1>1. Call(t) \in Functor
  BY CallIsFunctor DEF Push
<1>. QED
  BY <1>1 DEF Push, AllQueued, TypeOK

(* The end of a functor removes the head of the queue.                     *)
LEMMA RunTakesHead ==
  ASSUME TypeOK, RunFunctor
  PROVE  /\ AllQueued # <<>>
         /\ Head(AllQueued) = Head(functors)
         /\ AllQueued' = Tail(AllQueued)
BY DEF TypeOK, RunFunctor, AllQueued

(* With the batch empty the swap leaves the queue alone.                   *)
LEMMA SwapKeeps ==
  ASSUME TypeOK, BatchIsLocal, SwapFunctors
  PROVE  AllQueued' = AllQueued
<1>1. functors = <<>> /\ pendingFunctors' = <<>>
  BY DEF BatchIsLocal, SwapFunctors
<1>. QED
  BY <1>1 DEF AllQueued, SwapFunctors, TypeOK

(* The queue the mapping sees holds functors.                              *)
LEMMA AllQueuedType ==
  ASSUME TypeOK
  PROVE  AllQueued \in Seq(Functor)
BY DEF TypeOK, AllQueued

(* A call about to be made is not in the queue and has not run.            *)
LEMMA CallIsFresh ==
  ASSUME TypeOK, AtMostOnce, NEW t \in Threads
  PROVE  /\ Call(t) \notin ran
         /\ \A i \in 1..Len(AllQueued) : AllQueued[i] # Call(t)
<1>1. /\ Call(t)[1] = t /\ Call(t)[2] = issued[t] + 1
      /\ issued[t] \in Nat
  BY DEF Call, TypeOK
<1>2. ASSUME NEW f, f[1] = t => f[2] <= issued[t]
      PROVE  f # Call(t)
  BY <1>1, <1>2
<1>3. /\ \A f \in ran : f[2] <= issued[f[1]]
      /\ \A i \in 1..Len(AllQueued) :
           AllQueued[i][2] <= issued[AllQueued[i][1]]
  BY DEF AtMostOnce
<1>. QED
  BY <1>2, <1>3

(* A new call at the end of the queue keeps AtMostOnce.                       *)
LEMMA OncePush ==
  ASSUME TypeOK, AtMostOnce, NEW t \in Threads, CountCall(t),
         AllQueued' = Append(AllQueued, Call(t)), UNCHANGED ran
  PROVE  AtMostOnce'
<1>1. AllQueued \in Seq(Functor) /\ Call(t) \in Functor
  BY AllQueuedType, CallIsFunctor
<1>2. /\ Len(AllQueued') = Len(AllQueued) + 1
      /\ \A i \in 1..Len(AllQueued) : AllQueued'[i] = AllQueued[i]
      /\ AllQueued'[Len(AllQueued) + 1] = Call(t)
  BY <1>1
<1>3. \A u \in Threads : issued[u] \in Nat /\ issued'[u] \in Nat
                        /\ issued[u] <= issued'[u]
  BY DEF TypeOK, CountCall
<1>4. issued'[t] = issued[t] + 1
  BY DEF TypeOK, CountCall
<1>5. \A f \in Functor : f[1] \in Threads /\ f[2] \in Nat
  BY DEF Functor
<1>6. ran \subseteq Functor
  BY DEF TypeOK
<1>7. \A i \in 1..Len(AllQueued) : AllQueued[i] \in Functor
  BY <1>1
<1>8. Call(t)[1] = t /\ Call(t)[2] = issued[t] + 1
  BY DEF Call
<1>9. \A f \in ran' : f[2] <= issued'[f[1]]
  BY <1>3, <1>5, <1>6 DEF AtMostOnce
<1>10. ASSUME NEW i \in 1..Len(AllQueued')
       PROVE  /\ AllQueued'[i] \notin ran'
              /\ AllQueued'[i][2] <= issued'[AllQueued'[i][1]]
  <2>1. CASE i = Len(AllQueued) + 1
    BY <1>2, <1>3, <1>4, <1>8, <2>1, CallIsFresh
  <2>2. CASE i \in 1..Len(AllQueued)
    BY <1>2, <1>3, <1>5, <1>7, <2>2 DEF AtMostOnce
  <2>. QED
    BY <1>1, <1>2, <2>1, <2>2
<1>11. ASSUME NEW i \in 1..Len(AllQueued'), NEW j \in 1..Len(AllQueued'),
              AllQueued'[i] = AllQueued'[j]
       PROVE  i = j
  <2>1. i \in 1..(Len(AllQueued) + 1) /\ j \in 1..(Len(AllQueued) + 1)
    BY <1>1, <1>2
  <2>2. CASE i <= Len(AllQueued) /\ j <= Len(AllQueued)
    <3>1. AllQueued[i] = AllQueued[j]
      BY <1>2, <1>11, <2>1, <2>2
    <3>. QED
      BY <1>1, <2>1, <2>2, <3>1 DEF AtMostOnce
  <2>3. CASE i <= Len(AllQueued) /\ j = Len(AllQueued) + 1
    <3>1. AllQueued[i] = Call(t)
      BY <1>2, <1>11, <2>1, <2>3
    <3>. QED
      BY <1>1, <2>1, <2>3, <3>1, CallIsFresh
  <2>4. CASE j <= Len(AllQueued) /\ i = Len(AllQueued) + 1
    <3>1. AllQueued[j] = Call(t)
      BY <1>2, <1>11, <2>1, <2>4
    <3>. QED
      BY <1>1, <2>1, <2>4, <3>1, CallIsFresh
  <2>. QED
    BY <1>1, <2>1, <2>2, <2>3, <2>4
<1>. QED
  BY <1>9, <1>10, <1>11 DEF AtMostOnce

(* The functor at the head has run: it leaves the queue and joins ran.     *)
LEMMA OnceRun ==
  ASSUME TypeOK, AtMostOnce, RunFunctor
  PROVE  AtMostOnce'
<1>1. AllQueued \in Seq(Functor) /\ AllQueued # <<>>
  BY AllQueuedType, RunTakesHead
<1>2. /\ Len(AllQueued') = Len(AllQueued) - 1
      /\ \A i \in 1..Len(AllQueued') : AllQueued'[i] = AllQueued[i + 1]
  BY <1>1, RunTakesHead
<1>3. ran' = ran \cup {AllQueued[1]} /\ issued' = issued
  BY <1>1, RunTakesHead DEF RunFunctor
<1>4. /\ AllQueued[1] \in ran'
      /\ \A i \in 2..Len(AllQueued) : AllQueued[i] \notin ran'
  BY <1>1, <1>3 DEF AtMostOnce
<1>5. \A f \in ran' : f[2] <= issued'[f[1]]
  BY <1>1, <1>3 DEF AtMostOnce
<1>6. \A i \in 1..Len(AllQueued') :
        /\ AllQueued'[i] \notin ran'
        /\ AllQueued'[i][2] <= issued'[AllQueued'[i][1]]
  <2>1. ASSUME NEW i \in 1..Len(AllQueued')
        PROVE  i + 1 \in 2..Len(AllQueued) /\ AllQueued'[i] = AllQueued[i + 1]
    BY <1>1, <1>2
  <2>. QED
    BY <1>3, <1>4, <2>1 DEF AtMostOnce
<1>7. \A i, j \in 1..Len(AllQueued') : AllQueued'[i] = AllQueued'[j] => i = j
  BY <1>1, <1>2 DEF AtMostOnce
<1>. QED
  BY <1>5, <1>6, <1>7 DEF AtMostOnce

(* A step that changes neither the queue nor the calls keeps AtMostOnce.      *)
LEMMA OnceKeep ==
  ASSUME TypeOK, AtMostOnce, UNCHANGED <<AllQueued, ran, issued>>
  PROVE  AtMostOnce'
BY DEF AtMostOnce

(* The owner runs a new call at once, ahead of the queue.                  *)
LEMMA OnceRunNow ==
  ASSUME TypeOK, AtMostOnce, RunFromOwner
  PROVE  AtMostOnce'
<1>1. /\ AllQueued' = AllQueued
      /\ ran' = ran \cup {Call(LoopThread)}
      /\ issued' = [issued EXCEPT ![LoopThread] = @ + 1]
  BY DEF RunFromOwner, CountCall, AllQueued
<1>2. \A u \in Threads : issued[u] \in Nat /\ issued'[u] \in Nat
                        /\ issued[u] <= issued'[u]
  BY <1>1 DEF TypeOK
<1>3. issued'[LoopThread] = issued[LoopThread] + 1
  BY <1>1 DEF TypeOK, Threads
<1>4. \A f \in Functor : f[1] \in Threads /\ f[2] \in Nat
  BY DEF Functor
<1>5. ran \subseteq Functor
      /\ \A i \in 1..Len(AllQueued) : AllQueued[i] \in Functor
  BY AllQueuedType DEF TypeOK
<1>6. \A f \in ran' : f[2] <= issued'[f[1]]
  <2>1. \A f \in ran : f[2] <= issued'[f[1]]
    BY <1>2, <1>4, <1>5 DEF AtMostOnce
  <2>2. /\ Call(LoopThread)[1] = LoopThread
        /\ Call(LoopThread)[2] = issued[LoopThread] + 1
    BY DEF Call
  <2>3. Call(LoopThread)[2] <= issued'[Call(LoopThread)[1]]
    BY <1>2, <1>3, <2>2 DEF Threads
  <2>. QED
    BY <1>1, <2>1, <2>3
<1>7. \A i \in 1..Len(AllQueued) :
        /\ AllQueued[i] \notin ran'
        /\ AllQueued[i][2] <= issued'[AllQueued[i][1]]
  BY <1>1, <1>2, <1>4, <1>5, CallIsFresh DEF AtMostOnce, Threads
<1>. QED
  BY <1>1, <1>6, <1>7 DEF AtMostOnce

-----------------------------------------------------------------------------
(* What the refinement rests on.  It needs nothing of the use of the loop: *)
(* no assumption on OwnerQueuesEarly.                                      *)
QueueInv == TypeOK /\ BatchIsLocal /\ AtMostOnce

(* A push is an Enqueue of the abstract queue.                             *)
LEMMA PushEnqueues ==
  ASSUME QueueInv, NEW t \in Threads, Push(t), UNCHANGED <<functors, ran>>,
         (lpc' = "after") <=> (lpc = "after")
  PROVE  Abstract!Next /\ AtMostOnce'
<1>1. Call(t) \in Functor /\ CountCall(t)
  BY CallIsFunctor DEF QueueInv, Push
<1>2. AllQueued' = Append(AllQueued, Call(t))
  BY PushAppends DEF QueueInv
<1>3. Call(t) \notin Abstract!Queued /\ Call(t) \notin ran
  BY CallIsFresh DEF QueueInv, Abstract!Queued
<1>4. Abstract!Enqueue(Call(t))
  BY <1>2, <1>3 DEF Abstract!Enqueue, Abstract!Fresh
<1>5. AtMostOnce'
  BY <1>1, <1>2, OncePush DEF QueueInv
<1>. QED
  BY <1>1, <1>4, <1>5 DEF Abstract!Next

(* Steps that leave the queue alone.                                       *)
LEMMA QueueKept ==
  ASSUME QueueInv, UNCHANGED <<AllQueued, ran, issued>>
  PROVE  AtMostOnce' /\ (((lpc' = "after") <=> (lpc = "after"))
                         => UNCHANGED Abstract!vars)
BY OnceKeep DEF QueueInv, Abstract!vars

(* Every step of the loop is a step of the queue or leaves it as it is.    *)
LEMMA QueueStep ==
  QueueInv /\ [Next]_vars => QueueInv' /\ [Abstract!Next]_(Abstract!vars)
<1> SUFFICES ASSUME QueueInv, [Next]_vars
             PROVE  /\ BatchIsLocal'
                    /\ AtMostOnce'
                    /\ [Abstract!Next]_(Abstract!vars)
  BY TypeStep DEF QueueInv
<1> DEFINE Goal == /\ BatchIsLocal'
                   /\ AtMostOnce'
                   /\ [Abstract!Next]_(Abstract!vars)
<1>0. TypeOK /\ BatchIsLocal /\ AtMostOnce
  BY DEF QueueInv
<1>1. ASSUME NEW t \in Others, QueueFromOther(t)
      PROVE  Goal
  <2>1. Abstract!Next /\ AtMostOnce'
    BY <1>1, PushEnqueues DEF QueueFromOther, Threads
  <2>. QED
    BY <1>0, <1>1, <2>1 DEF QueueFromOther, BatchIsLocal
<1>2. CASE QueueFromOwner
  <2>1. Abstract!Next /\ AtMostOnce'
    BY <1>2, PushEnqueues DEF QueueFromOwner, Threads
  <2>. QED
    BY <1>0, <1>2, <2>1 DEF QueueFromOwner, BatchIsLocal
<1>3. ASSUME \/ \E t \in Others : \/ NotifyFromOther(t)
                                  \/ QuitFromOther(t)
                                  \/ WakeForQuit(t)
             \/ QuitFromOwner
             \/ LoopStart
             \/ PollReturn
             \/ PollTimeout
             \/ HandleRead
             \/ \E c \in IoChannels : HandleIo(c)
             \/ BeginFunctors
             \/ EndFunctors
             \/ UNCHANGED vars
      PROVE  Goal
  <2>1. /\ UNCHANGED <<pendingFunctors, functors, ran, issued>>
        /\ (lpc' = "after") <=> (lpc = "after")
        /\ functors # <<>> => lpc' = lpc
    BY <1>0, <1>3
       DEF NotifyFromOther, QuitFromOther, WakeForQuit, QuitFromOwner,
           LoopStart, PollReturn, PollTimeout, HandleRead, HandleIo,
           BeginFunctors, EndFunctors, vars, BatchIsLocal
  <2>2. UNCHANGED AllQueued
    BY <2>1 DEF AllQueued
  <2>. QED
    BY <1>0, <2>1, <2>2, QueueKept DEF BatchIsLocal
<1>4. CASE RunFromOwner
  <2>1. UNCHANGED AllQueued /\ Call(LoopThread) \in Functor
    BY <1>0, <1>4, CallIsFunctor DEF RunFromOwner, AllQueued, Threads
  <2>2. Abstract!Fresh(Call(LoopThread))
    BY <1>0, CallIsFresh DEF Abstract!Fresh, Abstract!Queued, Threads
  <2>3. Abstract!RunNow(Call(LoopThread))
    BY <1>4, <2>1, <2>2 DEF RunFromOwner, Abstract!RunNow
  <2>4. Abstract!Next
    BY <2>1, <2>3 DEF Abstract!Next
  <2>5. BatchIsLocal' /\ AtMostOnce'
    BY <1>0, <1>4, OnceRunNow DEF RunFromOwner, BatchIsLocal
  <2>. QED
    BY <2>4, <2>5
<1>5. CASE TestQuit
  <2>1. UNCHANGED <<AllQueued, ran, issued>> /\ functors = <<>>
        /\ functors' = functors
    BY <1>0, <1>5 DEF TestQuit, AllQueued, BatchIsLocal
  <2>2. AtMostOnce' /\ BatchIsLocal'
    BY <1>0, <2>1, OnceKeep DEF BatchIsLocal
  <2>3. CASE lpc' = "after"
    <3>1. Abstract!Stop
      BY <1>5, <2>1, <2>3 DEF TestQuit, Abstract!Stop
    <3>. QED
      BY <2>2, <3>1 DEF Abstract!Next
  <2>4. CASE lpc' # "after"
    BY <1>0, <1>5, <2>1, <2>2, <2>4 DEF TestQuit, Abstract!vars
  <2>. QED
    BY <2>3, <2>4
<1>6. CASE SwapFunctors
  <2>1. UNCHANGED <<AllQueued, ran, issued>>
    BY <1>0, <1>6, SwapKeeps DEF SwapFunctors
  <2>2. lpc = "swap" /\ lpc' = "functors"
    BY <1>6 DEF SwapFunctors
  <2>. QED
    BY <1>0, <2>1, <2>2, QueueKept DEF BatchIsLocal
<1>7. CASE RunFunctor
  <2>1. /\ AllQueued # <<>>
        /\ Head(AllQueued) = Head(functors)
        /\ AllQueued' = Tail(AllQueued)
    BY <1>0, <1>7, RunTakesHead
  <2>2. Head(AllQueued) \notin ran
    BY <1>0, <2>1, AllQueuedType DEF AtMostOnce
  <2>3. Abstract!Execute
    BY <1>7, <2>1, <2>2 DEF RunFunctor, Abstract!Execute
  <2>4. BatchIsLocal' /\ AtMostOnce'
    BY <1>0, <1>7, OnceRun DEF RunFunctor, BatchIsLocal
  <2>. QED
    BY <2>3, <2>4 DEF Abstract!Next
<1>. QED
  BY <1>1, <1>2, <1>3, <1>4, <1>5, <1>6, <1>7
     DEF Next, OtherStep, OwnerRuns, OwnerCalls

-----------------------------------------------------------------------------
(* A new call at the end of the queue, with the others kept.               *)
LEMMA NoneLostPush ==
  ASSUME TypeOK, NoneLost, NEW t \in Threads, CountCall(t),
         AllQueued' = Append(AllQueued, Call(t)), UNCHANGED ran
  PROVE  NoneLost'
<1>1. AllQueued \in Seq(Functor) /\ Call(t) \in Functor
  BY AllQueuedType, CallIsFunctor
<1>2. /\ Len(AllQueued') = Len(AllQueued) + 1
      /\ \A i \in 1..Len(AllQueued) : AllQueued'[i] = AllQueued[i]
      /\ AllQueued'[Len(AllQueued) + 1] = Call(t)
      /\ Len(AllQueued) \in Nat
  BY <1>1
<1>3. /\ issued' = [issued EXCEPT ![t] = issued[t] + 1]
      /\ issued \in [Threads -> 0..MaxCalls]
  BY DEF TypeOK, CountCall
<1>4. SUFFICES ASSUME NEW u \in Threads, NEW k \in 1..issued'[u],
                      <<u, k>> \notin ran
               PROVE  \E i \in 1..Len(AllQueued') : AllQueued'[i] = <<u, k>>
  BY DEF NoneLost
<1>5. CASE u = t /\ k = issued[t] + 1
  BY <1>2, <1>5 DEF Call
<1>6. CASE ~(u = t /\ k = issued[t] + 1)
  <2>1. k \in 1..issued[u]
    BY <1>3, <1>6
  <2>2. PICK i \in 1..Len(AllQueued) : AllQueued[i] = <<u, k>>
    BY <1>4, <2>1 DEF NoneLost
  <2>. QED
    BY <1>2, <2>2
<1>. QED
  BY <1>5, <1>6

(* The functor at the head leaves the queue because it has run.            *)
LEMMA NoneLostRun ==
  ASSUME TypeOK, NoneLost, RunFunctor
  PROVE  NoneLost'
<1>1. AllQueued \in Seq(Functor) /\ AllQueued # <<>>
  BY AllQueuedType, RunTakesHead
<1>2. /\ Len(AllQueued') = Len(AllQueued) - 1
      /\ Len(AllQueued) \in Nat
      /\ \A i \in 1..Len(AllQueued') : AllQueued'[i] = AllQueued[i + 1]
  BY <1>1, RunTakesHead
<1>3. ran' = ran \cup {AllQueued[1]} /\ issued' = issued
  BY <1>1, RunTakesHead DEF RunFunctor
<1>4. SUFFICES ASSUME NEW u \in Threads, NEW k \in 1..issued[u],
                      <<u, k>> \notin ran'
               PROVE  \E i \in 1..Len(AllQueued') : AllQueued'[i] = <<u, k>>
  BY <1>3 DEF NoneLost
<1>5. PICK i \in 1..Len(AllQueued) : AllQueued[i] = <<u, k>>
  BY <1>3, <1>4 DEF NoneLost
<1>6. i # 1
  BY <1>3, <1>4, <1>5
<1>7. i - 1 \in 1..Len(AllQueued') /\ AllQueued'[i - 1] = AllQueued[i]
  BY <1>2, <1>6
<1>. QED
  BY <1>5, <1>7

(* No step loses a call.                                                   *)
LEMMA NoneLostStep ==
  ASSUME TypeOK, BatchIsLocal, NoneLost, [Next]_vars
  PROVE  NoneLost'
<1>1. ASSUME NEW t \in Threads, Push(t), UNCHANGED <<functors, ran>>
      PROVE  NoneLost'
  <2>1. CountCall(t) /\ AllQueued' = Append(AllQueued, Call(t))
    BY <1>1, PushAppends DEF Push
  <2>. QED
    BY <1>1, <2>1, NoneLostPush
<1>2. ASSUME UNCHANGED <<AllQueued, ran, issued>>
      PROVE  NoneLost'
  BY <1>2 DEF NoneLost
<1>3. ASSUME NEW t \in Others, QueueFromOther(t)
      PROVE  NoneLost'
  BY <1>1, <1>3 DEF QueueFromOther, Threads
<1>4. CASE QueueFromOwner
  BY <1>1, <1>4 DEF QueueFromOwner, Threads
<1>5. ASSUME \/ \E t \in Others : \/ NotifyFromOther(t)
                                  \/ QuitFromOther(t)
                                  \/ WakeForQuit(t)
             \/ QuitFromOwner
             \/ LoopStart
             \/ TestQuit
             \/ PollReturn
             \/ PollTimeout
             \/ HandleRead
             \/ \E c \in IoChannels : HandleIo(c)
             \/ BeginFunctors
             \/ EndFunctors
             \/ UNCHANGED vars
      PROVE  NoneLost'
  <2>1. UNCHANGED <<pendingFunctors, functors, ran, issued>>
    BY <1>5
       DEF NotifyFromOther, QuitFromOther, WakeForQuit, QuitFromOwner,
           LoopStart, TestQuit, PollReturn, PollTimeout, HandleRead, HandleIo,
           BeginFunctors, EndFunctors, vars
  <2>. QED
    BY <1>2, <2>1 DEF AllQueued
<1>6. CASE SwapFunctors
  BY <1>2, <1>6, SwapKeeps DEF SwapFunctors
<1>7. CASE RunFunctor
  BY <1>7, NoneLostRun
<1>8. CASE RunFromOwner
  <2>1. /\ AllQueued' = AllQueued
        /\ ran' = ran \cup {<<LoopThread, issued[LoopThread] + 1>>}
        /\ issued' = [issued EXCEPT ![LoopThread] = issued[LoopThread] + 1]
        /\ issued \in [Threads -> 0..MaxCalls]
    BY <1>8 DEF RunFromOwner, CountCall, AllQueued, Call, TypeOK
  <2>2. \A u \in Threads : \A k \in 1..issued'[u] :
          k \in 1..issued[u] \/ <<u, k>> \in ran'
    BY <2>1
  <2>. QED
    BY <2>1, <2>2 DEF NoneLost
<1>. QED
  BY <1>2, <1>3, <1>4, <1>5, <1>6, <1>7, <1>8
     DEF Next, OtherStep, OwnerRuns, OwnerCalls

(* No functor is lost, run twice or run out of nothing: every call ever    *)
(* made is queued, in the batch or has run, and only once.                 *)
THEOREM RunsOnce == SafeSpec => []OnceInv
<1>1. Init => QueueInv /\ NoneLost
  <2> SUFFICES ASSUME Init PROVE QueueInv /\ NoneLost
    OBVIOUS
  <2>1. TypeOK /\ BatchIsLocal
    BY TypeInit DEF Init, BatchIsLocal
  <2>2. AllQueued = <<>> /\ ran = {} /\ issued = [t \in Threads |-> 0]
    BY DEF Init, AllQueued
  <2>. QED
    BY <2>1, <2>2 DEF QueueInv, AtMostOnce, NoneLost
<1>2. QueueInv /\ NoneLost => OnceInv
  BY DEF QueueInv, OnceInv
<1>3. QueueInv /\ NoneLost /\ [Next]_vars => QueueInv' /\ NoneLost'
  BY QueueStep, NoneLostStep DEF QueueInv
<1>. QED
  BY <1>1, <1>2, <1>3, PTL DEF SafeSpec

(* EventLoop implements the safety part of FunctorQueue: functors run one  *)
(* at a time, in the order in which they were queued, each at most once.   *)
THEOREM Refinement == SafeSpec => ImplementsQueueSafely
<1>1. Init => QueueInv /\ Abstract!Init
  <2> SUFFICES ASSUME Init PROVE QueueInv /\ Abstract!Init
    OBVIOUS
  <2>1. TypeOK /\ BatchIsLocal
    BY TypeInit DEF Init, BatchIsLocal
  <2>2. AllQueued = <<>> /\ ran = {} /\ lpc = "out"
    BY DEF Init, AllQueued
  <2>. QED
    BY <2>1, <2>2 DEF QueueInv, AtMostOnce, Abstract!Init
<1>2. QueueInv /\ [Next]_vars
        => QueueInv' /\ [Abstract!Next]_(Abstract!vars)
  BY QueueStep
<1>. QED
  BY <1>1, <1>2, PTL DEF SafeSpec, ImplementsQueueSafely, Abstract!SafeSpec
=============================================================================
