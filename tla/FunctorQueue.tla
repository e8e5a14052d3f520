---------------------------- MODULE FunctorQueue ----------------------------
(***************************************************************************)
(* What an EventLoop promises to the code that hands it work: functors     *)
(* queued from any thread run one at a time, in the order in which they    *)
(* were queued, each exactly once, and each of them does run unless the    *)
(* loop stops.  A functor given to runInLoop by the loop's own thread runs *)
(* at once, ahead of the queue.  EventLoop.tla refines this specification. *)
(***************************************************************************)
EXTENDS Naturals, Sequences

CONSTANT Functor    \* the calls of queueInLoop and runInLoop, all distinct

VARIABLES
  queue,      \* functors queued and not yet run to their end, oldest first
  ran,        \* functors that have run
  stopped     \* loop() has returned

vars == <<queue, ran, stopped>>

Queued == {queue[i] : i \in 1..Len(queue)}

Fresh(f) == f \notin ran /\ f \notin Queued

Init ==
  /\ queue = <<>>
  /\ ran = {}
  /\ stopped = FALSE

(* The queue accepts functors at any time, before the loop starts and      *)
(* after it has stopped included.                                          *)
Enqueue(f) ==
  /\ Fresh(f)
  /\ queue' = Append(queue, f)
  /\ UNCHANGED <<ran, stopped>>

RunNow(f) ==
  /\ Fresh(f)
  /\ ran' = ran \cup {f}
  /\ UNCHANGED <<queue, stopped>>

Execute ==
  /\ ~stopped
  /\ queue # <<>>
  /\ Head(queue) \notin ran
  /\ ran' = ran \cup {Head(queue)}
  /\ queue' = Tail(queue)
  /\ UNCHANGED stopped

Stop ==
  /\ ~stopped
  /\ stopped' = TRUE
  /\ UNCHANGED <<queue, ran>>

Next ==
  \/ \E f \in Functor : Enqueue(f) \/ RunNow(f)
  \/ Execute
  \/ Stop

SafeSpec == Init /\ [][Next]_vars

Spec == SafeSpec /\ WF_vars(Execute)
=============================================================================
