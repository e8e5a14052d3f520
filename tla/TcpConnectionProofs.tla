------------------------- MODULE TcpConnectionProofs -------------------------
(***************************************************************************)
(* Proofs about TcpConnection, for every set of sharers, every number and  *)
(* length of messages and every high water mark: the types, the order and  *)
(* conservation of the output, the way a connection ends, whoever ends it, *)
(* and what the users' pointers have to do with its life.                  *)
(***************************************************************************)
EXTENDS TcpConnection, SequenceLemmas, TLAPS

USE ThreadAssumption, BoundAssumption, UseAssumption

-----------------------------------------------------------------------------
(* The units of a message.                                                 *)
LEMMA UnitsOfMessage ==
  ASSUME NEW m \in Message
  PROVE  Units(m) \in Seq(Unit) /\ Len(Units(m)) = Length
<1>1. \A i \in 1..Length : <<m, i>> \in Unit /\ i \in 0..Length
  BY DEF Unit
<1>. QED
  BY <1>1 DEF Units

(* A call that counts sends whole units.                                    *)
LEMMA UnitsOfCall ==
  ASSUME TypeOK, NEW t \in Threads, CountSend(t)
  PROVE  /\ sent' \in [Threads -> 0..MaxSends]
         /\ sent' = [sent EXCEPT ![t] = sent[t] + 1]
         /\ NextMessage(t) \in Message
         /\ Units(NextMessage(t)) \in Seq(Unit)
<1>1. sent[t] \in 0..MaxSends /\ sent[t] < MaxSends
  BY DEF TypeOK, CountSend
<1>2. NextMessage(t) \in Message
  BY <1>1 DEF NextMessage, Message
<1>. QED
  BY <1>1, <1>2, UnitsOfMessage DEF TypeOK, CountSend

-----------------------------------------------------------------------------
(* The operations of the functors in a queue.                              *)
OpsIn(q) == {q[i].op : i \in 1..Len(q)}

(* The operations of an empty queue and of a single functor.                *)
LEMMA OpsInSimple ==
  ASSUME NEW f
  PROVE  OpsIn(<<>>) = {} /\ OpsIn(<<f>>) = {f.op}
BY DEF OpsIn

(* The operations of a queue with another one behind it.                    *)
LEMMA OpsInConcat ==
  ASSUME NEW q \in Seq(Functor), NEW r \in Seq(Functor)
  PROVE  /\ q \o r \in Seq(Functor)
         /\ OpsIn(q \o r) = OpsIn(q) \cup OpsIn(r)
<1>1. /\ q \o r \in Seq(Functor)
      /\ Len(q \o r) = Len(q) + Len(r)
      /\ \A i \in 1..(Len(q) + Len(r)) :
           (q \o r)[i] = IF i <= Len(q) THEN q[i] ELSE r[i - Len(q)]
  BY ConcatProperties
<1>2. \A i \in 1..Len(q) : i \in 1..Len(q \o r) /\ (q \o r)[i] = q[i]
  BY <1>1
<1>3. \A i \in 1..Len(r) :
        i + Len(q) \in 1..Len(q \o r) /\ (q \o r)[i + Len(q)] = r[i]
  BY <1>1
<1>4. \A i \in 1..Len(q \o r) :
        \/ i \in 1..Len(q) /\ (q \o r)[i] = q[i]
        \/ i - Len(q) \in 1..Len(r) /\ (q \o r)[i] = r[i - Len(q)]
  BY <1>1
<1>5. OpsIn(q) \cup OpsIn(r) \subseteq OpsIn(q \o r)
  BY <1>2, <1>3 DEF OpsIn
<1>6. OpsIn(q \o r) \subseteq OpsIn(q) \cup OpsIn(r)
  BY <1>4 DEF OpsIn
<1>. QED
  BY <1>1, <1>5, <1>6

(* The operations of a queue are that of its head and those behind it.      *)
LEMMA OpsInHeadTail ==
  ASSUME NEW q \in Seq(Functor), q # <<>>
  PROVE  /\ Head(q) \in Functor /\ Tail(q) \in Seq(Functor)
         /\ OpsIn(q) = {Head(q).op} \cup OpsIn(Tail(q))
<1>1. /\ Head(q) \in Functor /\ Tail(q) \in Seq(Functor)
      /\ Len(Tail(q)) = Len(q) - 1
      /\ \A i \in 1..Len(Tail(q)) : Tail(q)[i] = q[i + 1]
  BY HeadTailProperties
<1>2. Len(q) \in Nat \ {0} /\ Head(q) = q[1]
  BY EmptySeq
<1>3. \A i \in 1..Len(q) : i # 1 =>
        i - 1 \in 1..Len(Tail(q)) /\ Tail(q)[i - 1] = q[i]
  BY <1>1, <1>2
<1>4. \A i \in 1..Len(Tail(q)) : i + 1 \in 1..Len(q)
  BY <1>1, <1>2
<1>. QED
  BY <1>1, <1>2, <1>3, <1>4 DEF OpsIn

(* Binding a member function makes a functor.                              *)
LEMMA BindByIsFunctor ==
  ASSUME NEW t \in Threads, NEW op \in OwningOps \cup RawOps,
         NEW data \in Seq(Unit)
  PROVE  /\ BindBy(t, op, data) \in Functor
         /\ BindBy(t, op, data).op = op /\ BindBy(t, op, data).from = t
         /\ <<BindBy(t, op, data)>> \in Seq(Functor)
         /\ OpsIn(<<BindBy(t, op, data)>>) = {op}
<1>1. /\ BindBy(t, op, data) \in Functor
      /\ BindBy(t, op, data).op = op /\ BindBy(t, op, data).from = t
  BY DEF BindBy, Functor
<1>. QED
  BY <1>1, OpsInSimple

(* The same for what the loop binds.                                        *)
LEMMA BindIsFunctor ==
  ASSUME NEW op \in OwningOps \cup RawOps, NEW data \in Seq(Unit)
  PROVE  /\ Bind(op, data) \in Functor
         /\ Bind(op, data).op = op /\ Bind(op, data).data = data
<1>1. LoopThread \in Threads
  BY DEF Threads
<1>. QED
  BY <1>1 DEF Bind, BindBy, Functor

(* A queue of one functor.                                                  *)
LEMMA OneFunctor ==
  ASSUME NEW op \in OwningOps \cup RawOps, NEW data \in Seq(Unit)
  PROVE  /\ <<Bind(op, data)>> \in Seq(Functor)
         /\ OpsIn(<<Bind(op, data)>>) = {op}
BY BindIsFunctor, OpsInSimple

(* A push puts its functors behind those that are queued.                  *)
LEMMA QueueEffect ==
  ASSUME TypeOK, NEW fs \in Seq(Functor), Queue(fs)
  PROVE  /\ pendingFunctors' \in Seq(Functor)
         /\ OpsIn(pendingFunctors') = OpsIn(pendingFunctors) \cup OpsIn(fs)
<1>1. pendingFunctors \in Seq(Functor)
  BY DEF TypeOK
<1>2. /\ pendingFunctors \o fs \in Seq(Functor)
      /\ OpsIn(pendingFunctors \o fs) = OpsIn(pendingFunctors) \cup OpsIn(fs)
  BY <1>1, OpsInConcat
<1>. QED
  BY <1>2 DEF Queue

(* A functor without bytes carries the empty sequence.                      *)
LEMMA NoData == <<>> \in Seq(Unit)
  OBVIOUS

(* The queues of at most one callback that sendInLoop and handleWrite push. *)
LEMMA Callbacks ==
  /\ <<>> \in Seq(Functor) /\ OpsIn(<<>>) = {}
  /\ <<Bind("callback", <<>>)>> \in Seq(Functor)
  /\ OpsIn(<<Bind("callback", <<>>)>>) = {"callback"}
  /\ WriteComplete \in Seq(Functor) /\ OpsIn(WriteComplete) \subseteq {"callback"}
<1>1. "callback" \in OwningOps \cup RawOps /\ <<>> \in Seq(Unit)
  BY DEF OwningOps
<1>2. /\ <<Bind("callback", <<>>)>> \in Seq(Functor)
      /\ OpsIn(<<Bind("callback", <<>>)>>) = {"callback"}
  BY <1>1, OneFunctor
<1>3. <<>> \in Seq(Functor) /\ OpsIn(<<>>) = {}
  BY DEF OpsIn
<1>4. WriteComplete \in {<<Bind("callback", <<>>)>>, <<>>}
  BY DEF WriteComplete
<1>5. CASE WriteComplete = <<>>
  BY <1>2, <1>3, <1>5, Zenon
<1>6. CASE WriteComplete = <<Bind("callback", <<>>)>>
  BY <1>2, <1>3, <1>6, Zenon
<1>. QED
  BY <1>4, <1>5, <1>6

-----------------------------------------------------------------------------
(* What sendInLoop does with the bytes: either it takes charge of all of   *)
(* them, with a first part on the wire only if nothing was pending and the *)
(* rest in the buffer, or it drops them all.                               *)
TakenCharge(data, bytes) ==
  \E n \in 0..Len(bytes) :
    /\ n > 0 => outputBuffer = <<>>
    /\ wire' = wire \o SubSeq(bytes, 1, n)
    /\ outputBuffer' = outputBuffer \o SubSeq(bytes, n + 1, Len(bytes))
    /\ accepted' = accepted \o data

Dropped ==
  /\ NothingAhead /\ ~CanWrite
  /\ UNCHANGED <<wire, outputBuffer, accepted, events, index, pendingFunctors>>

(* The case analysis of sendInLoop that the other proofs work with.         *)
LEMMA SendInLoopBytes ==
  ASSUME TypeOK, NEW data \in Seq(Unit), NEW bytes \in Seq(Unit),
         SendInLoop(data, bytes)
  PROVE  TakenCharge(data, bytes) \/ Dropped
<1>1. CASE NothingAhead /\ ~CanWrite
  BY <1>1 DEF SendInLoop, Dropped
<1>2. CASE NothingAhead /\ CanWrite
  <2>1. PICK n \in 0..Len(bytes) :
           /\ wire' = wire \o SubSeq(bytes, 1, n)
           /\ IF n = Len(bytes) THEN AcceptAll
                               ELSE KeepRest(SubSeq(bytes, n + 1, Len(bytes)))
    BY <1>2 DEF SendInLoop
  <2>2. accepted' = accepted \o data
    BY <1>2 DEF SendInLoop
  <2>3. outputBuffer' = outputBuffer \o SubSeq(bytes, n + 1, Len(bytes))
    <3>1. CASE n = Len(bytes)
      <4>1. SubSeq(bytes, n + 1, Len(bytes)) = <<>>
        BY <3>1, SubSeqEmpty
      <4>2. outputBuffer \o <<>> = outputBuffer
        BY ConcatEmptySeq DEF TypeOK
      <4>. QED
        BY <2>1, <3>1, <4>1, <4>2 DEF AcceptAll
    <3>2. CASE n # Len(bytes)
      BY <2>1, <3>2 DEF KeepRest
    <3>. QED
      BY <3>1, <3>2
  <2>. QED
    BY <1>2, <2>1, <2>2, <2>3 DEF TakenCharge, NothingAhead
<1>3. CASE ~NothingAhead
  <2>1. SubSeq(bytes, 1, 0) = <<>> /\ SubSeq(bytes, 0 + 1, Len(bytes)) = bytes
    BY SubSeqEmpty, SubSeqFull
  <2>2. wire' = wire \o SubSeq(bytes, 1, 0)
    BY <1>3, <2>1, ConcatEmptySeq DEF SendInLoop, TypeOK
  <2>3. outputBuffer' = outputBuffer \o SubSeq(bytes, 0 + 1, Len(bytes))
    BY <1>3, <2>1 DEF SendInLoop, KeepRest
  <2>4. accepted' = accepted \o data /\ 0 \in 0..Len(bytes)
    BY <1>3 DEF SendInLoop
  <2>5. 0 > 0 => outputBuffer = <<>>
    OBVIOUS
  <2>. QED
    BY <2>2, <2>3, <2>4, <2>5, Zenon DEF TakenCharge
<1>. QED
  BY <1>1, <1>2, <1>3

(* What it does with the channel: EPOLLOUT is watched for afterwards if it *)
(* was before or bytes are left, and a watched channel stays watched.      *)
LEMMA SendInLoopChannel ==
  ASSUME TypeOK, NEW data \in Seq(Unit), NEW bytes \in Seq(Unit),
         SendInLoop(data, bytes)
  PROVE  /\ events' \in {events, events \cup {"out"}}
         /\ index' \in {index, "kAdded"}
         /\ pendingFunctors' \in Seq(Functor)
         /\ OpsIn(pendingFunctors') \in
              {OpsIn(pendingFunctors), OpsIn(pendingFunctors) \cup {"callback"}}
         /\ soError' \in BOOLEAN
         /\ (IsWriting <=> outputBuffer # <<>>) =>
              (IsWriting' <=> outputBuffer' # <<>>)
<1>. USE DEF TypeOK
<1>1. ASSUME NEW rest \in Seq(Unit), KeepRest(rest)
      PROVE  /\ events' = events \cup {"out"}
             /\ index' \in {index, "kAdded"}
             /\ pendingFunctors' \in Seq(Functor)
             /\ OpsIn(pendingFunctors') \in
                  {OpsIn(pendingFunctors), OpsIn(pendingFunctors) \cup {"callback"}}
             /\ outputBuffer' = outputBuffer \o rest
  <2>1. PICK fs \in {<<Bind("callback", <<>>)>>, <<>>} : Queue(fs)
    BY <1>1 DEF KeepRest
  <2>2. fs \in Seq(Functor) /\ OpsIn(fs) \in {{}, {"callback"}}
    BY <2>1, Callbacks
  <2>3. /\ pendingFunctors' \in Seq(Functor)
        /\ OpsIn(pendingFunctors') = OpsIn(pendingFunctors) \cup OpsIn(fs)
    BY <2>1, <2>2, QueueEffect
  <2>4. events' = events \cup {"out"} /\ index' \in {index, "kAdded"}
    BY <1>1 DEF KeepRest, IsWriting, channel, Update
  <2>. QED
    BY <1>1, <2>2, <2>3, <2>4 DEF KeepRest
<1>2. CASE NothingAhead /\ ~CanWrite
  BY <1>2 DEF SendInLoop, IsWriting
<1>3. CASE NothingAhead /\ CanWrite
  <2>1. PICK n \in 0..Len(bytes) :
           IF n = Len(bytes) THEN AcceptAll
                            ELSE KeepRest(SubSeq(bytes, n + 1, Len(bytes)))
    BY <1>3 DEF SendInLoop
  <2>2. soError' \in BOOLEAN
    BY <1>3 DEF SendInLoop
  <2>3. CASE n = Len(bytes)
    <3>1. AcceptAll
      BY <2>1, <2>3
    <3>2. /\ pendingFunctors' \in Seq(Functor)
          /\ OpsIn(pendingFunctors') = OpsIn(pendingFunctors) \cup OpsIn(WriteComplete)
      BY <3>1, Callbacks, QueueEffect DEF AcceptAll
    <3>3. OpsIn(WriteComplete) \in {{}, {"callback"}}
      BY Callbacks
    <3>4. OpsIn(pendingFunctors') \in
            {OpsIn(pendingFunctors), OpsIn(pendingFunctors) \cup {"callback"}}
      BY <3>2, <3>3
    <3>5. UNCHANGED <<outputBuffer, events, index>>
      BY <3>1 DEF AcceptAll
    <3>6. index' \in {index, "kAdded"} /\ events' \in {events, events \cup {"out"}}
      BY <3>5
    <3>7. (IsWriting <=> outputBuffer # <<>>) => (IsWriting' <=> outputBuffer' # <<>>)
      BY <3>5 DEF IsWriting
    <3>. QED
      BY <2>2, <3>2, <3>4, <3>6, <3>7
  <2>4. CASE n # Len(bytes)
    <3>1. /\ SubSeq(bytes, n + 1, Len(bytes)) \in Seq(Unit)
          /\ Len(SubSeq(bytes, n + 1, Len(bytes))) = Len(bytes) - n
      BY CutInTwo
    <3>2. SubSeq(bytes, n + 1, Len(bytes)) # <<>>
      <4>1. Len(bytes) - n # 0
        BY <2>4
      <4>. QED
        BY <3>1, <4>1, EmptySeq
    <3>3. KeepRest(SubSeq(bytes, n + 1, Len(bytes)))
      BY <2>1, <2>4
    <3>4. /\ events' = events \cup {"out"}
          /\ index' \in {index, "kAdded"}
          /\ pendingFunctors' \in Seq(Functor)
          /\ OpsIn(pendingFunctors') \in
               {OpsIn(pendingFunctors), OpsIn(pendingFunctors) \cup {"callback"}}
          /\ outputBuffer' = outputBuffer \o SubSeq(bytes, n + 1, Len(bytes))
      BY <1>1, <3>1, <3>3
    <3>5. outputBuffer' # <<>>
      BY <3>1, <3>2, <3>4, ConcatEqualIffEmpty
    <3>. QED
      BY <2>2, <3>4, <3>5 DEF IsWriting
  <2>. QED
    BY <2>3, <2>4
<1>4. CASE ~NothingAhead
  <2>1. KeepRest(bytes) /\ soError' \in BOOLEAN
    BY <1>4 DEF SendInLoop
  <2>2. /\ events' = events \cup {"out"}
        /\ index' \in {index, "kAdded"}
        /\ pendingFunctors' \in Seq(Functor)
        /\ OpsIn(pendingFunctors') \in
             {OpsIn(pendingFunctors), OpsIn(pendingFunctors) \cup {"callback"}}
        /\ outputBuffer' = outputBuffer \o bytes
    BY <1>1, <2>1
  <2>3. outputBuffer # <<>> => outputBuffer' # <<>>
    BY <2>2, ConcatEqualIffEmpty
  <2>. QED
    BY <1>4, <2>1, <2>2, <2>3 DEF IsWriting, NothingAhead
<1>. QED
  BY <1>2, <1>3, <1>4

(* A send that watches a closed connection's channel again is remembered.   *)
LEMMA SendInLoopReopens ==
  ASSUME TypeOK, NEW data \in Seq(Unit), NEW bytes \in Seq(Unit),
         SendInLoop(data, bytes)
  PROVE  /\ reopened' \in BOOLEAN /\ (reopened => reopened')
         /\ closed /\ ~reopened' => UNCHANGED <<events, index>>
<1>1. \/ UNCHANGED <<events, index, reopened>>
      \/ reopened' = (reopened \/ closed)
  BY DEF SendInLoop, AcceptAll, KeepRest, channel
<1>. QED
  BY <1>1 DEF TypeOK

(* The bytes stay units, wherever sendInLoop puts them.                     *)
LEMMA TakenChargeTypes ==
  ASSUME TypeOK, NEW data \in Seq(Unit), NEW bytes \in Seq(Unit),
         TakenCharge(data, bytes)
  PROVE  /\ wire' \in Seq(Unit) /\ outputBuffer' \in Seq(Unit)
         /\ accepted' \in Seq(Unit)
<1>1. PICK n \in 0..Len(bytes) :
        /\ wire' = wire \o SubSeq(bytes, 1, n)
        /\ outputBuffer' = outputBuffer \o SubSeq(bytes, n + 1, Len(bytes))
        /\ accepted' = accepted \o data
  BY DEF TakenCharge
<1>2. SubSeq(bytes, 1, n) \in Seq(Unit) /\ SubSeq(bytes, n + 1, Len(bytes)) \in Seq(Unit)
  BY CutInTwo
<1>. QED
  BY <1>1, <1>2, ConcatProperties DEF TypeOK

(* What sendInLoop does to the types of the variables it changes.           *)
LEMMA SendInLoopTypes ==
  ASSUME TypeOK, NEW data \in Seq(Unit), NEW bytes \in Seq(Unit),
         SendInLoop(data, bytes)
  PROVE  /\ events' \in SUBSET {"in", "out"}
         /\ index' \in {"kNew", "kAdded", "kDeleted"}
         /\ outputBuffer' \in Seq(Unit)
         /\ pendingFunctors' \in Seq(Functor)
         /\ wire' \in Seq(Unit) /\ accepted' \in Seq(Unit)
         /\ soError' \in BOOLEAN /\ reopened' \in BOOLEAN
<1>1. /\ events' \in {events, events \cup {"out"}}
      /\ index' \in {index, "kAdded"}
      /\ pendingFunctors' \in Seq(Functor)
      /\ soError' \in BOOLEAN
      /\ reopened' \in BOOLEAN
  BY SendInLoopChannel, SendInLoopReopens
<1>2. /\ wire' \in Seq(Unit) /\ outputBuffer' \in Seq(Unit)
      /\ accepted' \in Seq(Unit)
  <2>1. CASE TakenCharge(data, bytes)
    BY <2>1, TakenChargeTypes
  <2>2. CASE Dropped
    BY <2>2 DEF Dropped, TypeOK
  <2>. QED
    BY <2>1, <2>2, SendInLoopBytes
<1>. QED
  BY <1>1, <1>2 DEF TypeOK

(* What is read through the pointer into the string: as many bytes, and    *)
(* those that were sent as long as the string has not changed.             *)
LEMMA ReadEffect ==
  ASSUME NEW data \in Seq(Unit)
  PROVE  /\ Read(data) \in Seq(Unit) /\ Len(Read(data)) = Len(data)
         /\ \A i \in 1..Len(data) :
              Read(data)[i] = data[i] \/ data[i][1] \in changed
<1>1. \A i \in 1..Len(data) : data[i] \in Unit /\ <<data[i][1], 0>> \in Unit
  <2>1. 0 \in 0..Length
    OBVIOUS
  <2>. QED
    BY <2>1 DEF Unit
<1>2. DOMAIN data = 1..Len(data)
  OBVIOUS
<1>. QED
  BY <1>1, <1>2 DEF Read

(* The bytes that sendInLoop finds for data.                               *)
Found(data, bytes) ==
  /\ data \in Seq(Unit) /\ bytes \in Seq(Unit) /\ Len(bytes) = Len(data)
  /\ \A i \in 1..Len(data) : bytes[i] = data[i] \/ data[i][1] \in changed

(* What sendFileInLoop queues, and the part of the file it puts on the wire. *)
LEMMA SendFileTypes ==
  ASSUME TypeOK, NEW data \in Seq(Unit), SendFileInLoop(data)
  PROVE  /\ pendingFunctors' \in Seq(Functor)
         /\ OpsIn(pendingFunctors) \subseteq OpsIn(pendingFunctors')
         /\ OpsIn(pendingFunctors') \subseteq
              OpsIn(pendingFunctors) \cup {"callback", "sendFileRest"}
         /\ wire' \in Seq(Unit) /\ soError' \in BOOLEAN
<1>1. ASSUME NEW rest \in Seq(Unit), Queue(<<Bind("sendFileRest", rest)>>)
      PROVE  /\ pendingFunctors' \in Seq(Functor)
             /\ OpsIn(pendingFunctors') = OpsIn(pendingFunctors) \cup {"sendFileRest"}
  <2>1. "sendFileRest" \in OwningOps \cup RawOps
    BY DEF OwningOps
  <2>2. /\ <<Bind("sendFileRest", rest)>> \in Seq(Functor)
        /\ OpsIn(<<Bind("sendFileRest", rest)>>) = {"sendFileRest"}
    BY <2>1, OneFunctor
  <2>3. /\ pendingFunctors' \in Seq(Functor)
        /\ OpsIn(pendingFunctors') =
             OpsIn(pendingFunctors) \cup OpsIn(<<Bind("sendFileRest", rest)>>)
    BY <1>1, <2>2, QueueEffect
  <2>. QED
    BY <2>2, <2>3
<1>2. CASE state # "kDisconnecting" /\ NothingAhead /\ CanWrite
  <2>1. PICK n \in 0..Len(data) :
          /\ wire' = wire \o SubSeq(data, 1, n)
          /\ Queue(IF n = Len(data) THEN WriteComplete
                   ELSE <<Bind("sendFileRest",
                               SubSeq(data, n + 1, Len(data)))>>)
    BY <1>2 DEF SendFileInLoop
  <2>2. /\ SubSeq(data, 1, n) \in Seq(Unit)
        /\ SubSeq(data, n + 1, Len(data)) \in Seq(Unit)
    BY CutInTwo
  <2>3. wire' \in Seq(Unit)
    BY <2>1, <2>2, ConcatProperties DEF TypeOK
  <2>4. CASE n = Len(data)
    <3>1. /\ pendingFunctors' \in Seq(Functor)
          /\ OpsIn(pendingFunctors') = OpsIn(pendingFunctors) \cup OpsIn(WriteComplete)
      BY <2>1, <2>4, Callbacks, QueueEffect
    <3>. QED
      BY <1>2, <2>3, <3>1, Callbacks DEF SendFileInLoop, TypeOK
  <2>5. CASE n # Len(data)
    <3>1. Queue(<<Bind("sendFileRest", SubSeq(data, n + 1, Len(data)))>>)
      BY <2>1, <2>5
    <3>2. /\ pendingFunctors' \in Seq(Functor)
          /\ OpsIn(pendingFunctors') = OpsIn(pendingFunctors) \cup {"sendFileRest"}
      BY <1>1, <2>2, <3>1
    <3>. QED
      BY <1>2, <2>3, <3>2 DEF SendFileInLoop, TypeOK
  <2>. QED
    BY <2>4, <2>5
<1>3. CASE state # "kDisconnecting" /\ ~NothingAhead
  <2>1. /\ pendingFunctors' \in Seq(Functor)
        /\ OpsIn(pendingFunctors') = OpsIn(pendingFunctors) \cup {"sendFileRest"}
    BY <1>1, <1>3 DEF SendFileInLoop
  <2>. QED
    BY <1>3, <2>1 DEF SendFileInLoop, TypeOK
<1>4. CASE \/ state = "kDisconnecting"
           \/ NothingAhead /\ ~CanWrite
  BY <1>4 DEF SendFileInLoop, TypeOK
<1>. QED
  BY <1>2, <1>3, <1>4

(* What the end of a connection queues.                                    *)
LEMMA DestroyFunctor ==
  /\ <<Bind("connectDestroyed", <<>>)>> \in Seq(Functor)
  /\ OpsIn(<<Bind("connectDestroyed", <<>>)>>) = {"connectDestroyed"}
<1>1. "connectDestroyed" \in OwningOps \cup RawOps
  BY DEF OwningOps
<1>. QED
  BY <1>1, NoData, OneFunctor

(* The head of the batch and what is left of it.                           *)
LEMMA RunHeadEffect ==
  ASSUME TypeOK, NEW op, RunHead(op)
  PROVE  /\ Head(functors) \in Functor /\ Head(functors).op = op
         /\ Head(functors).data \in Seq(Unit)
         /\ functors' \in Seq(Functor)
         /\ OpsIn(functors) = {op} \cup OpsIn(functors')
<1>1. functors \in Seq(Functor) /\ functors # <<>> /\ functors' = Tail(functors)
  BY DEF TypeOK, RunHead
<1>2. /\ Head(functors) \in Functor /\ Tail(functors) \in Seq(Functor)
      /\ OpsIn(functors) = {Head(functors).op} \cup OpsIn(Tail(functors))
  BY <1>1, OpsInHeadTail
<1>. QED
  BY <1>1, <1>2 DEF RunHead, Functor

(* The two calls of sendInLoop.                                             *)
LEMMA SendCalls ==
  ASSUME TypeOK, LoopSend \/ RunSend
  PROVE  \E data, bytes \in Seq(Unit) :
           /\ SendInLoop(data, bytes) /\ Found(data, bytes)
           /\ LoopSend => data = Units(NextMessage(LoopThread))
<1>1. CASE LoopSend
  <2>1. Units(NextMessage(LoopThread)) \in Seq(Unit)
    BY <1>1, UnitsOfCall DEF LoopSend, Threads
  <2>2. SendInLoop(Units(NextMessage(LoopThread)), Units(NextMessage(LoopThread)))
    BY <1>1 DEF LoopSend
  <2>3. Found(Units(NextMessage(LoopThread)), Units(NextMessage(LoopThread)))
    BY <2>1 DEF Found
  <2>. QED
    BY <2>1, <2>2, <2>3
<1>2. CASE RunSend /\ ~LoopSend
  <2>1. Head(functors).data \in Seq(Unit)
    BY <1>2, RunHeadEffect DEF RunSend
  <2>2. SendInLoop(Head(functors).data, Read(Head(functors).data))
    BY <1>2 DEF RunSend
  <2>3. Found(Head(functors).data, Read(Head(functors).data))
    BY <2>1, ReadEffect DEF Found
  <2>. QED
    BY <1>2, <2>1, <2>2, <2>3 DEF Found
<1>. QED
  BY <1>1, <1>2

(* A thread between the test and the push of a send has counted its        *)
(* message, which is what makes the pushed bytes units.                    *)
InCallCounted ==
  \A t \in Sharers : tpc[t] \in {"send", "sendFile"} => sent[t] > 0

(* The push of another thread: one functor, of the call the thread is in.   *)
LEMMA CallPushQueues ==
  ASSUME TypeOK, InCallCounted, NEW t \in Sharers, CallPush(t)
  PROVE  \E op \in {"sendInLoop", "sendFile", "shutdownInLoop"}, data \in Seq(Unit) :
           /\ Queue(<<BindBy(t, op, data)>>)
           /\ <<BindBy(t, op, data)>> \in Seq(Functor)
           /\ OpsIn(<<BindBy(t, op, data)>>) = {op}
           /\ op = "sendFile" => tpc[t] = "sendFile"
<1>1. PICK op \in {"sendInLoop", "sendFile", "shutdownInLoop"},
           data \in {<<>>, Units(<<t, sent[t]>>)} :
        /\ Queue(<<BindBy(t, op, data)>>)
        /\ op = "sendFile" => tpc[t] = "sendFile"
        /\ data # <<>> => tpc[t] \in {"send", "sendFile"}
  BY DEF CallPush
<1>2. op \in OwningOps \cup RawOps /\ t \in Threads
  BY <1>1 DEF OwningOps, RawOps, Threads
<1>3. data \in Seq(Unit)
  <2>1. CASE data = <<>>
    BY <2>1, NoData
  <2>2. CASE data # <<>>
    <3>1. sent[t] \in 1..MaxSends
      BY <1>1, <2>2 DEF InCallCounted, TypeOK, Threads
    <3>2. <<t, sent[t]>> \in Message
      BY <3>1 DEF Message, Threads
    <3>. QED
      BY <1>1, <2>2, <3>2, UnitsOfMessage
  <2>. QED
    BY <2>1, <2>2
<1>4. /\ <<BindBy(t, op, data)>> \in Seq(Functor)
      /\ OpsIn(<<BindBy(t, op, data)>>) = {op}
  BY <1>2, <1>3, BindByIsFunctor
<1>. QED
  BY <1>1, <1>3, <1>4

(* The same, as what it does to the operations that are queued.             *)
LEMMA CallPushEffect ==
  ASSUME TypeOK, InCallCounted, NEW t \in Sharers, CallPush(t)
  PROVE  /\ pendingFunctors' \in Seq(Functor)
         /\ \E op \in {"sendInLoop", "sendFile", "shutdownInLoop"} :
              /\ OpsIn(pendingFunctors') = OpsIn(pendingFunctors) \cup {op}
              /\ op = "sendFile" => tpc[t] = "sendFile"
<1>1. PICK op \in {"sendInLoop", "sendFile", "shutdownInLoop"}, data \in Seq(Unit) :
        /\ Queue(<<BindBy(t, op, data)>>)
        /\ <<BindBy(t, op, data)>> \in Seq(Functor)
        /\ OpsIn(<<BindBy(t, op, data)>>) = {op}
        /\ op = "sendFile" => tpc[t] = "sendFile"
  BY CallPushQueues
<1>2. /\ pendingFunctors' \in Seq(Functor)
      /\ OpsIn(pendingFunctors') = OpsIn(pendingFunctors) \cup {op}
  BY <1>1, QueueEffect
<1>. QED
  BY <1>1, <1>2

-----------------------------------------------------------------------------
(* Every step preserves the types of the variables.                        *)
Typed == TypeOK /\ InCallCounted

(* A thread is promised units of its messages.                              *)
LEMMA PromisedUnits ==
  ASSUME NEW t, PromiseSends(t)
  PROVE  promised' \in SUBSET Unit
<1>1. Message \X (1..Length) \subseteq Unit
  BY DEF Unit
<1>. QED
  BY <1>1 DEF PromiseSends

(* What handleClose does to the types of the variables it changes.          *)
LEMMA CloseTypes ==
  ASSUME TypeOK, HandleClose \/ NoClose
  PROVE  /\ state' \in States /\ events' \in SUBSET {"in", "out"}
         /\ index' \in {"kNew", "kAdded", "kDeleted"}
         /\ downs' \in Nat /\ removals' \in Nat /\ closed' \in BOOLEAN
<1>1. CASE HandleClose
  BY <1>1 DEF HandleClose, Update, TypeOK, States
<1>2. CASE NoClose
  BY <1>2 DEF NoClose, channel, TypeOK
<1>. QED
  BY <1>1, <1>2

(* Every step preserves the types, one action at a time.                    *)
LEMMA TypeStep == Typed /\ [Next]_vars => TypeOK'
<1> SUFFICES ASSUME TypeOK, InCallCounted, [Next]_vars
             PROVE  TypeOK'
  BY DEF Typed
<1> USE DEF channel, queues, loop, strings, users, server, kernel, history
<1>1. CASE LoopSend
  <2>1. sent' \in [Threads -> 0..MaxSends]
    BY <1>1, UnitsOfCall DEF LoopSend, Threads
  <2>2. PICK data, bytes \in Seq(Unit) : SendInLoop(data, bytes)
    BY <1>1, SendCalls
  <2>3. /\ events' \in SUBSET {"in", "out"}
        /\ index' \in {"kNew", "kAdded", "kDeleted"}
        /\ outputBuffer' \in Seq(Unit)
        /\ pendingFunctors' \in Seq(Functor)
        /\ wire' \in Seq(Unit) /\ accepted' \in Seq(Unit)
        /\ soError' \in BOOLEAN /\ reopened' \in BOOLEAN
    BY <2>2, SendInLoopTypes
  <2>. QED
    BY <1>1, <2>1, <2>3 DEF LoopSend, TypeOK
<1>2. CASE LoopSendFile
  <2>1. /\ sent' \in [Threads -> 0..MaxSends]
        /\ Units(NextMessage(LoopThread)) \in Seq(Unit)
    BY <1>2, UnitsOfCall DEF LoopSendFile, Threads
  <2>2. SendFileInLoop(Units(NextMessage(LoopThread)))
    BY <1>2 DEF LoopSendFile
  <2>3. /\ pendingFunctors' \in Seq(Functor)
        /\ wire' \in Seq(Unit) /\ soError' \in BOOLEAN
    BY <2>1, <2>2, SendFileTypes
  <2>4. accepted' \in Seq(Unit)
    BY <1>2, <2>1, ConcatProperties DEF LoopSendFile, TypeOK
  <2>. QED
    BY <1>2, <2>1, <2>3, <2>4 DEF LoopSendFile, TypeOK
<1>3. CASE LoopShutdown
  <2>1. promised' \in SUBSET Unit
    BY <1>3, PromisedUnits DEF LoopShutdown
  <2>. QED
    BY <1>3, <2>1 DEF LoopShutdown, ShutdownInLoop, TypeOK, States
<1>4. ASSUME NEW t \in Sharers, SendTest(t) \/ SendFileTest(t)
      PROVE  TypeOK'
  <2>1. sent' \in [Threads -> 0..MaxSends]
    BY <1>4, UnitsOfCall DEF SendTest, SendFileTest, Threads
  <2>2. CASE SendTest(t)
    BY <2>1, <2>2 DEF SendTest, BeginCall, Goto, OnlyUserMoves, TypeOK
  <2>3. CASE SendFileTest(t)
    BY <2>1, <2>3 DEF SendFileTest, BeginCall, Goto, OnlyUserMoves, TypeOK
  <2>. QED
    BY <1>4, <2>2, <2>3
<1>5. ASSUME NEW t \in Sharers, ShutdownTest(t)
      PROVE  TypeOK'
  BY <1>5 DEF ShutdownTest, BeginCall, Goto, OnlyUserMoves, TypeOK
<1>6. ASSUME NEW t \in Sharers, ShutdownStore(t)
      PROVE  TypeOK'
  <2>1. promised' \in SUBSET Unit
    BY <1>6, PromisedUnits DEF ShutdownStore, TypeOK
  <2>. QED
    BY <1>6, <2>1 DEF ShutdownStore, Goto, OnlyUserMoves, TypeOK, States
<1>7. ASSUME NEW t \in Sharers, CallPush(t)
      PROVE  TypeOK'
  <2>1. pendingFunctors' \in Seq(Functor)
    BY <1>7, CallPushEffect
  <2>. QED
    BY <1>7, <2>1 DEF CallPush, Goto, OnlyUserMoves, TypeOK
<1>8. ASSUME NEW t \in Sharers, Release(t)
      PROVE  TypeOK'
  BY <1>8 DEF Release, OnlyUserMoves, TypeOK
<1>27. ASSUME NEW t \in Sharers, NEW k \in 1..MaxSends, ChangeString(t, k)
       PROVE  TypeOK'
  <2>1. <<t, k>> \in Message
    BY DEF Message, Threads
  <2>2. changed' \in SUBSET Message
    BY <1>27, <2>1 DEF ChangeString, TypeOK
  <2>. QED
    BY <1>27, <2>2 DEF ChangeString, OnlyUserMoves, TypeOK
<1>9. CASE Poll
  <2>1. revents' \in SUBSET {"hup", "err", "in", "out"}
    BY <1>9 DEF Poll, MustReport, TypeOK
  <2>. QED
    BY <1>9, <2>1 DEF Poll, OnlyLoopMoves, TypeOK
<1>10. CASE EventHup
  <2>1. /\ state' \in States /\ events' \in SUBSET {"in", "out"}
        /\ index' \in {"kNew", "kAdded", "kDeleted"}
        /\ downs' \in Nat /\ removals' \in Nat /\ closed' \in BOOLEAN
    BY <1>10, CloseTypes DEF EventHup
  <2>. QED
    BY <1>10, <2>1 DEF EventHup, Handle, TypeOK
<1>11. CASE EventErr
  BY ZenonT(40), <1>11 DEF EventErr, Handle, NoClose, TypeOK
<1>12. CASE EventIn
  <2>1. /\ state' \in States /\ events' \in SUBSET {"in", "out"}
        /\ index' \in {"kNew", "kAdded", "kDeleted"}
        /\ downs' \in Nat /\ removals' \in Nat /\ closed' \in BOOLEAN
    BY <1>12, CloseTypes DEF EventIn
  <2>. QED
    BY <1>12, <2>1 DEF EventIn, Handle, TypeOK
<1>13. CASE EventOut
  <2>1. /\ revents' \in SUBSET {"hup", "err", "in", "out"}
        /\ UNCHANGED <<lpc, batchHolds>>
    BY <1>13 DEF EventOut, Handle, TypeOK
  <2>2. CASE IsWriting /\ CanWrite /\ wire' # wire
    <3>1. PICK n \in 1..Len(outputBuffer) :
             /\ wire' = wire \o SubSeq(outputBuffer, 1, n)
             /\ outputBuffer' =
                  SubSeq(outputBuffer, n + 1, Len(outputBuffer))
             /\ IF n = Len(outputBuffer)
                THEN Drained
                ELSE UNCHANGED <<channel, pendingFunctors, finSent>>
      BY <1>13, <2>2 DEF EventOut
    <3>2. /\ SubSeq(outputBuffer, 1, n) \in Seq(Unit)
          /\ SubSeq(outputBuffer, n + 1, Len(outputBuffer)) \in Seq(Unit)
      BY CutInTwo DEF TypeOK
    <3>3. wire' \in Seq(Unit) /\ outputBuffer' \in Seq(Unit)
      BY <3>1, <3>2, ConcatProperties DEF TypeOK
    <3>4. /\ events' \in SUBSET {"in", "out"}
          /\ index' \in {"kNew", "kAdded", "kDeleted"}
          /\ finSent' \in BOOLEAN
      BY <3>1 DEF Drained, Update, TypeOK
    <3>5. pendingFunctors' \in Seq(Functor)
      <4>1. CASE Queue(WriteComplete)
        BY <4>1, Callbacks, QueueEffect
      <4>. QED
        BY <3>1, <4>1 DEF Drained, TypeOK
    <3>. QED
      BY ZenonT(40), <1>13, <2>1, <3>3, <3>4, <3>5 DEF EventOut, TypeOK
  <2>3. CASE UNCHANGED <<wire, outputBuffer, channel, pendingFunctors, finSent>>
    <3>1. soError' \in BOOLEAN
      BY <1>13, <2>3 DEF EventOut, TypeOK
    <3>2. UNCHANGED <<state, functors, users, server, peer, accepted, history>>
      BY <1>13 DEF EventOut
    <3>. QED
      BY <2>1, <2>3, <3>1, <3>2
         DEF channel, strings, users, server, history, TypeOK
  <2>. QED
    BY <1>13, <2>2, <2>3 DEF EventOut
<1>14. CASE SwapFunctors
  BY <1>14, Callbacks DEF SwapFunctors, OnlyLoopMoves, TypeOK
<1>15. CASE EndFunctors
  BY ZenonT(40), <1>15 DEF EndFunctors, OnlyLoopMoves, TypeOK
<1>16. CASE RunConnectEstablished
  <2>1. functors' \in Seq(Functor)
    BY <1>16, RunHeadEffect DEF RunConnectEstablished
  <2>. QED
    BY <1>16, <2>1 DEF RunConnectEstablished, RunHead, Update, TypeOK, States
<1>17. CASE RunSend
  <2>1. functors' \in Seq(Functor)
    BY <1>17, RunHeadEffect DEF RunSend
  <2>2. PICK data, bytes \in Seq(Unit) : SendInLoop(data, bytes)
    BY <1>17, SendCalls
  <2>3. /\ events' \in SUBSET {"in", "out"}
        /\ index' \in {"kNew", "kAdded", "kDeleted"}
        /\ outputBuffer' \in Seq(Unit)
        /\ pendingFunctors' \in Seq(Functor)
        /\ wire' \in Seq(Unit) /\ accepted' \in Seq(Unit)
        /\ soError' \in BOOLEAN /\ reopened' \in BOOLEAN
    BY <2>2, SendInLoopTypes
  <2>. QED
    BY <1>17, <2>1, <2>3 DEF RunSend, RunHead, TypeOK
<1>18. CASE RunShutdown
  <2>1. functors' \in Seq(Functor)
    BY <1>18, RunHeadEffect DEF RunShutdown
  <2>. QED
    BY <1>18, <2>1 DEF RunShutdown, RunHead, ShutdownInLoop, TypeOK
<1>19. CASE RunSendFile
  <2>1. functors' \in Seq(Functor) /\ Head(functors).data \in Seq(Unit)
    BY <1>19, RunHeadEffect DEF RunSendFile
  <2>2. SendFileInLoop(Head(functors).data)
    BY <1>19 DEF RunSendFile
  <2>3. /\ pendingFunctors' \in Seq(Functor)
        /\ wire' \in Seq(Unit) /\ soError' \in BOOLEAN
    BY <2>1, <2>2, SendFileTypes
  <2>4. accepted' \in Seq(Unit)
    <3>1. accepted \in Seq(Unit) /\ accepted \o Head(functors).data \in Seq(Unit)
      BY <2>1, ConcatProperties DEF TypeOK
    <3>. QED
      BY <1>19, <3>1 DEF RunSendFile
  <2>. QED
    BY ZenonT(40), <1>19, <2>1, <2>3, <2>4 DEF RunSendFile, RunHead, TypeOK
<1>20. CASE RunCallback
  <2>1. functors' \in Seq(Functor)
    BY <1>20, RunHeadEffect DEF RunCallback
  <2>. QED
    BY <1>20, <2>1 DEF RunCallback, RunHead, TypeOK
<1>21. CASE RunConnectDestroyed
  <2>1. functors' \in Seq(Functor)
    BY <1>21, RunHeadEffect DEF RunConnectDestroyed
  <2>2. /\ state' \in States /\ events' \in SUBSET {"in", "out"}
        /\ downs' \in Nat
    <3>1. CASE state = "kConnected"
      BY <1>21, <3>1 DEF RunConnectDestroyed, TypeOK, States
    <3>2. CASE state # "kConnected"
      BY <1>21, <3>2 DEF RunConnectDestroyed, TypeOK
    <3>. QED
      BY <3>1, <3>2
  <2>. QED
    BY <1>21, <2>1, <2>2 DEF RunConnectDestroyed, RunHead, TypeOK
<1>22. CASE RemoveConnectionInLoop
  <2>1. pendingFunctors' \in Seq(Functor)
    BY <1>22, DestroyFunctor, QueueEffect DEF RemoveConnectionInLoop
  <2>2. removals' \in Nat
    BY <1>22 DEF RemoveConnectionInLoop, TypeOK
  <2>. QED
    BY ZenonT(40), <1>22, <2>1, <2>2 DEF RemoveConnectionInLoop, TypeOK
<1>23. CASE ServerStop
  <2>1. pendingFunctors' \in Seq(Functor)
    BY <1>23, DestroyFunctor, Callbacks, QueueEffect DEF ServerStop
  <2>. QED
    BY ZenonT(40), <1>23, <2>1 DEF ServerStop, TypeOK
<1>24. CASE PeerClose
  BY <1>24 DEF PeerClose, TypeOK
<1>25. CASE PeerReset
  BY <1>25 DEF PeerReset, TypeOK
<1>26. CASE UNCHANGED vars
  BY <1>26 DEF vars, TypeOK
<1>. QED
  BY <1>1, <1>2, <1>3, <1>4, <1>5, <1>6, <1>7, <1>8, <1>9, <1>10, <1>11,
     <1>12, <1>13, <1>14, <1>15, <1>16, <1>17, <1>18, <1>19, <1>20, <1>21,
     <1>22, <1>23, <1>24, <1>25, <1>26, <1>27
     DEF Next, UserOnLoop, SharerStep, LoopRuns, HandleEvent, RunFunctor

(* Only a test that passes moves a thread to "send" or "sendFile".         *)
LEMMA CountedStep == Typed /\ [Next]_vars => InCallCounted'
<1> SUFFICES ASSUME TypeOK, InCallCounted, [Next]_vars, NEW u \in Sharers,
                    tpc'[u] \in {"send", "sendFile"}
             PROVE  sent'[u] > 0
  BY DEF Typed, InCallCounted
<1>0. LoopThread # u /\ u \in Threads /\ sent[u] \in 0..MaxSends
  BY DEF TypeOK, Threads
<1>1. CASE UNCHANGED <<tpc, sent>>
  BY <1>1 DEF InCallCounted
<1>2. CASE LoopSend \/ LoopSendFile
  <2>1. tpc' = tpc /\ sent' = [sent EXCEPT ![LoopThread] = sent[LoopThread] + 1]
    BY <1>2 DEF LoopSend, LoopSendFile, CountSend, users
  <2>2. sent'[u] = sent[u]
    BY <1>0, <2>1 DEF TypeOK
  <2>. QED
    BY <2>1, <2>2 DEF InCallCounted
<1>3. ASSUME NEW t \in Sharers, SendTest(t) \/ SendFileTest(t)
      PROVE  sent'[u] > 0
  <2>1. /\ sent' = [sent EXCEPT ![t] = sent[t] + 1]
        /\ tpc' = [tpc EXCEPT ![t] = "send"] \/ tpc' = [tpc EXCEPT ![t] = "sendFile"]
    BY <1>3 DEF SendTest, SendFileTest, BeginCall, CountSend, Goto
  <2>2. CASE t = u
    BY <1>0, <2>1, <2>2 DEF TypeOK
  <2>3. CASE t # u
    <3>1. sent'[u] = sent[u] /\ tpc'[u] = tpc[u]
      BY <1>0, <2>1, <2>3 DEF TypeOK
    <3>. QED
      BY <3>1 DEF InCallCounted
  <2>. QED
    BY <2>2, <2>3
<1>4. ASSUME NEW t \in Sharers, ShutdownTest(t) \/ ShutdownStore(t) \/ CallPush(t)
      PROVE  sent'[u] > 0
  <2>1. /\ sent' = sent
        /\ \E pc \in {"shutdown", "stored", "idle"} : tpc' = [tpc EXCEPT ![t] = pc]
    BY <1>4 DEF ShutdownTest, ShutdownStore, CallPush, BeginCall, Goto
  <2>2. tpc'[u] = tpc[u]
    BY <2>1 DEF TypeOK
  <2>. QED
    BY <2>1, <2>2 DEF InCallCounted
<1>5. CASE LoopShutdown \/ LoopRuns \/ RemoveConnectionInLoop \/ ServerStop
           \/ PeerClose \/ PeerReset \/ UNCHANGED vars
  <2>1. UNCHANGED <<tpc, sent>>
    BY <1>5 DEF LoopShutdown, LoopRuns, RemoveConnectionInLoop, ServerStop,
       PeerClose, PeerReset, vars, users, Poll, HandleEvent, EventHup,
       EventErr, EventIn, EventOut, SwapFunctors, EndFunctors, OnlyLoopMoves,
       RunFunctor, RunConnectEstablished, RunSend, RunShutdown, RunSendFile,
       RunCallback, RunConnectDestroyed
  <2>. QED
    BY <1>1, <2>1
<1>6. ASSUME NEW t \in Sharers,
             Release(t) \/ \E k \in 1..MaxSends : ChangeString(t, k)
      PROVE  sent'[u] > 0
  BY <1>1, <1>6 DEF Release, ChangeString
<1>. QED
  BY <1>2, <1>3, <1>4, <1>5, <1>6 DEF Next, UserOnLoop, SharerStep

(* The initial state has the types.                                         *)
LEMMA TypeInit == Init => Typed
<1> SUFFICES ASSUME Init PROVE Typed
  OBVIOUS
<1>1. pendingFunctors \in Seq(Functor)
  <2>1. "connectEstablished" \in OwningOps \cup RawOps
    BY DEF OwningOps
  <2>. QED
    BY <2>1, NoData, OneFunctor DEF Init
<1>2. functors \in Seq(Functor)
  BY Callbacks DEF Init
<1>3. outputBuffer \in Seq(Unit) /\ wire \in Seq(Unit) /\ accepted \in Seq(Unit)
  BY NoData DEF Init
<1>4. /\ tpc \in [Sharers -> {"idle", "send", "sendFile", "shutdown", "stored"}]
      /\ sent \in [Threads -> 0..MaxSends]
  BY DEF Init
<1>5. InCallCounted
  BY DEF Init, InCallCounted
<1>. QED
  BY <1>1, <1>2, <1>3, <1>4, <1>5 DEF Init, Typed, TypeOK, States

(* The variables keep their types: in particular removals, which counts    *)
(* the removeConnectionInLoop calls in the main loop, never goes below 0,  *)
(* and what is queued for the loop is always whole messages cut in two.    *)
THEOREM TypeCorrect == SafeSpec => []TypeOK
<1>1. Init => Typed
  BY TypeInit
<1>2. Typed /\ [Next]_vars => Typed'
  BY TypeStep, CountedStep DEF Typed
<1>3. Typed => TypeOK
  BY DEF Typed
<1>. QED
  BY <1>1, <1>2, <1>3, PTL DEF SafeSpec

(* The types, with what makes them inductive, hold in every state.          *)
LEMMA TypedAlways == SafeSpec => []Typed
<1>1. Typed /\ [Next]_vars => Typed'
  BY TypeStep, CountedStep DEF Typed
<1>. QED
  BY <1>1, TypeInit, PTL DEF SafeSpec

-----------------------------------------------------------------------------
(* The functors of the connection that are queued, in either queue, and    *)
(* what a step can add to them.                                            *)
Queued == OpsIn(functors) \cup OpsIn(pendingFunctors)

MayQueue(op) ==
  \/ op = "callback"
  \/ op = "sendFileRest" /\ (filed' \/ {"sendFile", "sendFileRest"} \cap Queued # {})
  \/ op \in {"sendInLoop", "shutdownInLoop"} /\ Sharers # {}
  \/ op = "sendFile" /\ \E t \in Sharers : tpc[t] = "sendFile"
  \/ op = "connectDestroyed" /\ (removals > 0 \/ ~serving')

(* No step queues anything else: one action at a time.                      *)
LEMMA NewlyQueued ==
  ASSUME Typed, [Next]_vars
  PROVE  \A op \in Queued' : op \in Queued \/ MayQueue(op)
<1> USE DEF channel, queues, loop, strings, users, server, kernel, history, Queued
<1>0. TypeOK /\ InCallCounted
  BY DEF Typed
<1>1. CASE UNCHANGED queues
  BY <1>1
<1>2. CASE LoopSend
  <2>1. PICK data, bytes \in Seq(Unit) : SendInLoop(data, bytes)
    BY <1>0, <1>2, SendCalls
  <2>2. UNCHANGED functors
    BY <1>2 DEF LoopSend
  <2>3. OpsIn(pendingFunctors') \in
          {OpsIn(pendingFunctors), OpsIn(pendingFunctors) \cup {"callback"}}
    BY <1>0, <2>1, SendInLoopChannel
  <2>. QED
    BY <2>2, <2>3 DEF MayQueue
<1>3. CASE LoopSendFile
  <2>1. Units(NextMessage(LoopThread)) \in Seq(Unit)
    BY <1>0, <1>3, UnitsOfCall DEF LoopSendFile, Threads
  <2>2. /\ SendFileInLoop(Units(NextMessage(LoopThread)))
        /\ UNCHANGED functors /\ filed' = TRUE
    BY <1>3 DEF LoopSendFile
  <2>3. OpsIn(pendingFunctors') \subseteq
          OpsIn(pendingFunctors) \cup {"callback", "sendFileRest"}
    BY <1>0, <2>1, <2>2, SendFileTypes
  <2>. QED
    BY <2>2, <2>3 DEF MayQueue
<1>4. ASSUME NEW t \in Sharers, CallPush(t)
      PROVE  \A op \in Queued' : op \in Queued \/ MayQueue(op)
  <2>1. PICK op \in {"sendInLoop", "sendFile", "shutdownInLoop"} :
          /\ OpsIn(pendingFunctors') = OpsIn(pendingFunctors) \cup {op}
          /\ op = "sendFile" => tpc[t] = "sendFile"
    BY <1>0, <1>4, CallPushEffect
  <2>2. UNCHANGED functors
    BY <1>4 DEF CallPush, OnlyUserMoves
  <2>. QED
    BY <2>1, <2>2 DEF MayQueue
<1>5. CASE EventOut
  <2>1. UNCHANGED pendingFunctors \/ Queue(WriteComplete)
    BY <1>5 DEF EventOut, Drained
  <2>2. CASE Queue(WriteComplete)
    <3>1. OpsIn(pendingFunctors') = OpsIn(pendingFunctors) \cup OpsIn(WriteComplete)
      BY <1>0, <2>2, Callbacks, QueueEffect
    <3>. QED
      BY <1>5, <3>1, Callbacks DEF EventOut, MayQueue
  <2>. QED
    BY <1>5, <2>1, <2>2 DEF EventOut
<1>6. CASE SwapFunctors
  BY <1>6, Callbacks DEF SwapFunctors
<1>7. ASSUME NEW op, RunHead(op), UNCHANGED pendingFunctors
      PROVE  Queued' \subseteq Queued
  BY <1>0, <1>7, RunHeadEffect
<1>8. CASE RunConnectEstablished \/ RunShutdown \/ RunCallback \/ RunConnectDestroyed
  BY <1>7, <1>8 DEF RunConnectEstablished, RunShutdown, RunCallback, RunConnectDestroyed
<1>9. CASE RunSend
  <2>0. PICK data, bytes \in Seq(Unit) : SendInLoop(data, bytes)
    BY <1>0, <1>9, SendCalls
  <2>1. OpsIn(functors) = {"sendInLoop"} \cup OpsIn(functors')
    BY <1>0, <1>9, RunHeadEffect DEF RunSend
  <2>2. OpsIn(pendingFunctors') \in
          {OpsIn(pendingFunctors), OpsIn(pendingFunctors) \cup {"callback"}}
    BY <1>0, <2>0, SendInLoopChannel
  <2>. QED
    BY <2>1, <2>2 DEF MayQueue
<1>10. CASE RunSendFile
  <2>1. PICK op \in {"sendFile", "sendFileRest"} : RunHead(op)
    BY <1>10 DEF RunSendFile
  <2>2. /\ OpsIn(functors) = {op} \cup OpsIn(functors')
        /\ Head(functors).data \in Seq(Unit) /\ SendFileInLoop(Head(functors).data)
    BY <1>0, <1>10, <2>1, RunHeadEffect DEF RunSendFile
  <2>3. OpsIn(pendingFunctors') \subseteq
          OpsIn(pendingFunctors) \cup {"callback", "sendFileRest"}
    BY <1>0, <2>2, SendFileTypes
  <2>. QED
    BY <2>1, <2>2, <2>3 DEF MayQueue
<1>11. CASE RemoveConnectionInLoop
  <2>1. OpsIn(pendingFunctors') = OpsIn(pendingFunctors) \cup {"connectDestroyed"}
    BY <1>0, <1>11, DestroyFunctor, QueueEffect DEF RemoveConnectionInLoop
  <2>. QED
    BY <1>11, <2>1 DEF RemoveConnectionInLoop, MayQueue
<1>12. CASE ServerStop
  <2>1. PICK fs \in {<<Bind("connectDestroyed", <<>>)>>, <<>>} : Queue(fs)
    BY <1>12 DEF ServerStop
  <2>2. fs \in Seq(Functor) /\ OpsIn(fs) \subseteq {"connectDestroyed"}
    BY <2>1, DestroyFunctor, Callbacks
  <2>3. OpsIn(pendingFunctors') = OpsIn(pendingFunctors) \cup OpsIn(fs)
    BY <1>0, <2>1, <2>2, QueueEffect
  <2>. QED
    BY <1>12, <2>2, <2>3 DEF ServerStop, MayQueue
<1>13. CASE \/ LoopShutdown \/ Poll \/ EventHup \/ EventErr \/ EventIn
            \/ EndFunctors \/ PeerClose \/ PeerReset \/ UNCHANGED vars
  BY <1>1, <1>13 DEF LoopShutdown, Poll, EventHup, EventErr, EventIn, EndFunctors,
     PeerClose, PeerReset, vars
<1>14. ASSUME NEW t \in Sharers,
              \/ SendTest(t) \/ SendFileTest(t) \/ ShutdownTest(t)
              \/ ShutdownStore(t) \/ Release(t)
              \/ \E k \in 1..MaxSends : ChangeString(t, k)
       PROVE  UNCHANGED queues
  BY <1>14 DEF SendTest, SendFileTest, ShutdownTest, ShutdownStore, Release,
     ChangeString, OnlyUserMoves
<1>. QED
  BY <1>1, <1>2, <1>3, <1>4, <1>5, <1>6, <1>8, <1>9, <1>10, <1>11, <1>12,
     <1>13, <1>14 DEF Next, UserOnLoop, SharerStep, LoopRuns, HandleEvent, RunFunctor

-----------------------------------------------------------------------------
(* handleWrite moves bytes from the front of the buffer to the wire.       *)
LEMMA EventOutBytes ==
  ASSUME TypeOK, EventOut
  PROVE  \/ /\ CanWrite /\ UNCHANGED soError
            /\ \E n \in 1..Len(outputBuffer) :
                 /\ wire' = wire \o SubSeq(outputBuffer, 1, n)
                 /\ outputBuffer' = SubSeq(outputBuffer, n + 1, Len(outputBuffer))
                 /\ \/ n = Len(outputBuffer) /\ Drained
                    \/ /\ n # Len(outputBuffer)
                       /\ UNCHANGED <<events, index, pendingFunctors, finSent>>
         \/ UNCHANGED <<wire, outputBuffer, events, index, pendingFunctors, finSent>>
BY DEF EventOut, channel

(* handleWrite neither loses nor reorders bytes.                            *)
LEMMA EventOutConserves ==
  ASSUME TypeOK, EventOut
  PROVE  wire' \o outputBuffer' = wire \o outputBuffer
<1>1. ASSUME NEW n \in 1..Len(outputBuffer),
             wire' = wire \o SubSeq(outputBuffer, 1, n),
             outputBuffer' = SubSeq(outputBuffer, n + 1, Len(outputBuffer))
      PROVE  wire' \o outputBuffer' = wire \o outputBuffer
  <2>1. wire \in Seq(Unit) /\ outputBuffer \in Seq(Unit) /\ n \in 0..Len(outputBuffer)
    BY <1>1 DEF TypeOK
  <2>2. (wire \o SubSeq(outputBuffer, 1, n))
           \o SubSeq(outputBuffer, n + 1, Len(outputBuffer)) = wire \o outputBuffer
    BY <2>1, ConcatCut
  <2>. QED
    BY <1>1, <2>2
<1>. QED
  BY <1>1, EventOutBytes

(* Every step keeps EPOLLOUT watched for exactly while output is pending.   *)
LEMMA PendingStep == Typed /\ PendingIsWatched /\ [Next]_vars => PendingIsWatched'
<1> SUFFICES ASSUME TypeOK, InCallCounted, PendingIsWatched, [Next]_vars, ~closed'
             PROVE  IsWriting' <=> outputBuffer' # <<>>
  BY DEF Typed, PendingIsWatched
<1> USE DEF channel, queues, loop, strings, users, server, kernel, history
<1>1. CASE UNCHANGED <<closed, events, outputBuffer>>
  BY <1>1 DEF PendingIsWatched, IsWriting
<1>3. CASE LoopSend \/ RunSend
  <2>1. UNCHANGED closed
    BY <1>3 DEF LoopSend, RunSend
  <2>2. PICK data, bytes \in Seq(Unit) : SendInLoop(data, bytes)
    BY <1>3, SendCalls
  <2>. QED
    BY <2>1, <2>2, SendInLoopChannel DEF PendingIsWatched
<1>5. CASE EventOut
  <2>1. UNCHANGED closed
    BY <1>5 DEF EventOut
  <2>2. ASSUME NEW n \in 1..Len(outputBuffer), n = Len(outputBuffer), Drained,
               outputBuffer' = SubSeq(outputBuffer, n + 1, Len(outputBuffer))
        PROVE  IsWriting' <=> outputBuffer' # <<>>
    BY <2>2, SubSeqEmpty DEF Drained, Update, IsWriting
  <2>3. ASSUME NEW n \in 1..Len(outputBuffer), n # Len(outputBuffer),
               UNCHANGED events,
               outputBuffer' = SubSeq(outputBuffer, n + 1, Len(outputBuffer))
        PROVE  IsWriting' <=> outputBuffer' # <<>>
    <3>1. /\ outputBuffer \in Seq(Unit) /\ Len(outputBuffer) # 0
          /\ Len(outputBuffer) - n # 0
      BY <2>3 DEF TypeOK
    <3>2. /\ outputBuffer' \in Seq(Unit)
          /\ Len(outputBuffer') = Len(outputBuffer) - n
      BY <2>3, <3>1, CutInTwo
    <3>3. outputBuffer # <<>> /\ outputBuffer' # <<>>
      BY <3>1, <3>2, EmptySeq
    <3>. QED
      BY <2>1, <2>3, <3>3 DEF PendingIsWatched, IsWriting
  <2>4. CASE UNCHANGED <<events, outputBuffer>>
    BY <1>1, <2>1, <2>4
  <2>5. CASE ~UNCHANGED <<events, outputBuffer>>
    <3>1. PICK n \in 1..Len(outputBuffer) :
            /\ outputBuffer' = SubSeq(outputBuffer, n + 1, Len(outputBuffer))
            /\ \/ n = Len(outputBuffer) /\ Drained
               \/ n # Len(outputBuffer) /\ UNCHANGED events
      BY <1>5, <2>5, EventOutBytes
    <3>. QED
      BY <2>2, <2>3, <3>1
  <2>. QED
    BY <2>4, <2>5
<1>6. CASE EventHup \/ EventIn
  <2>1. CASE HandleClose
    BY <2>1 DEF HandleClose
  <2>2. CASE NoClose
    BY <1>1, <1>6, <2>2 DEF NoClose, EventHup, EventIn
  <2>. QED
    BY <1>6, <2>1, <2>2 DEF EventHup, EventIn
<1>7. CASE RunConnectEstablished
  BY <1>7 DEF RunConnectEstablished, Update, PendingIsWatched, IsWriting
<1>8. CASE RunConnectDestroyed
  BY <1>8 DEF RunConnectDestroyed
<1>9. CASE \/ LoopSendFile \/ LoopShutdown \/ Poll \/ EventErr \/ SwapFunctors
           \/ EndFunctors \/ RunShutdown \/ RunSendFile \/ RunCallback
           \/ RemoveConnectionInLoop \/ ServerStop \/ PeerClose \/ PeerReset
           \/ UNCHANGED vars
  BY <1>1, <1>9 DEF LoopSendFile, LoopShutdown, Poll, EventErr, SwapFunctors,
     EndFunctors, RunShutdown, RunSendFile, RunCallback, RemoveConnectionInLoop,
     ServerStop, PeerClose, PeerReset, vars, OnlyLoopMoves, NoClose
<1>10. ASSUME NEW t \in Sharers, SharerStep(t)
       PROVE  UNCHANGED <<closed, events, outputBuffer>>
  BY <1>10 DEF SharerStep, SendTest, SendFileTest, ShutdownTest, ShutdownStore,
     CallPush, ChangeString, Release, OnlyUserMoves
<1>. QED
  BY <1>1, <1>3, <1>5, <1>6, <1>7, <1>8, <1>9, <1>10
     DEF Next, UserOnLoop, LoopRuns, HandleEvent, RunFunctor

(* Whatever the other threads, the server, the kernel and the peer do: on  *)
(* a connection that is not closed EPOLLOUT is watched for exactly while   *)
(* output is pending.                                                      *)
THEOREM PendingWatched == SafeSpec => []PendingIsWatched
<1>1. Init => PendingIsWatched
  BY DEF Init, PendingIsWatched, IsWriting
<1>. QED
  BY <1>1, TypedAlways, PendingStep, PTL DEF SafeSpec

-----------------------------------------------------------------------------
(* Until a file is sent nothing overtakes the buffer: what is on the wire, *)
(* followed by what is in outputBuffer_, is what the loop took charge of,  *)
(* but for the strings that changed before they were read.                 *)
NoFiles ==
  ~filed => /\ {"sendFile", "sendFileRest"} \cap Queued = {}
            /\ \A t \in Sharers : tpc[t] # "sendFile"

Matches(out, acc) ==
  /\ Len(out) = Len(acc)
  /\ \A i \in 1..Len(out) : out[i] = acc[i] \/ acc[i][1] \in changed

Conserved == ~filed => Matches(Output, accepted)

FlushedAtFin == (finSent /\ ~closed) => outputBuffer = <<>>

(* A file once sent stays sent, and a string once changed stays changed.    *)
LEMMA HistoryGrows ==
  ASSUME Typed, [Next]_vars
  PROVE  /\ filed => filed'
         /\ changed \subseteq changed'
<1> USE DEF loop, strings, users
<1>1. CASE UNCHANGED strings
  BY <1>1
<1>2. CASE LoopSendFile
  BY <1>2 DEF LoopSendFile
<1>3. ASSUME NEW t \in Sharers, SharerStep(t)
      PROVE  UNCHANGED strings \/ (filed' = TRUE /\ UNCHANGED changed)
               \/ (UNCHANGED filed /\ changed \subseteq changed')
  BY <1>3 DEF SharerStep, SendTest, SendFileTest, ShutdownTest, ShutdownStore,
     CallPush, ChangeString, Release
<1>4. CASE ~LoopSendFile /\ ~\E t \in Sharers : SharerStep(t)
  <2>1. UNCHANGED strings
    BY <1>4 DEF Next, UserOnLoop, LoopSend, LoopShutdown,
       LoopRuns, RemoveConnectionInLoop, ServerStop, PeerClose, PeerReset, vars,
       Poll, HandleEvent, EventHup, EventErr, EventIn, EventOut,
       SwapFunctors, EndFunctors, OnlyLoopMoves, RunFunctor,
       RunConnectEstablished, RunSend, RunShutdown, RunSendFile, RunCallback,
       RunConnectDestroyed
  <2>. QED
    BY <2>1
<1>. QED
  BY <1>2, <1>3, <1>4

(* Until a file is sent none is queued.                                     *)
LEMMA NoFilesStep == Typed /\ NoFiles /\ [Next]_vars => NoFiles'
<1> SUFFICES ASSUME Typed, NoFiles, [Next]_vars, ~filed'
             PROVE  /\ {"sendFile", "sendFileRest"} \cap Queued' = {}
                    /\ \A t \in Sharers : tpc'[t] # "sendFile"
  BY DEF NoFiles
<1>0. ~filed
  BY HistoryGrows
<1>1. {"sendFile", "sendFileRest"} \cap Queued' = {}
  BY <1>0, NewlyQueued DEF NoFiles, MayQueue
<1>2. ASSUME NEW u \in Sharers PROVE tpc'[u] # "sendFile"
  <2>1. CASE UNCHANGED tpc
    BY <1>0, <2>1 DEF NoFiles
  <2>2. ASSUME NEW t \in Sharers, SharerStep(t)
        PROVE  \E pc \in {"send", "shutdown", "stored", "idle"} :
                 tpc' = [tpc EXCEPT ![t] = pc] \/ UNCHANGED tpc
    BY <2>2 DEF SharerStep, SendTest, SendFileTest, ShutdownTest, ShutdownStore,
       CallPush, ChangeString, Release, BeginCall, Goto
  <2>3. CASE \E t \in Sharers : SharerStep(t)
    BY <1>0, <2>1, <2>2, <2>3 DEF NoFiles, Typed, TypeOK
  <2>4. CASE ~\E t \in Sharers : SharerStep(t)
    BY <2>1, <2>4 DEF Next, UserOnLoop, LoopSend, LoopSendFile, LoopShutdown,
       LoopRuns, RemoveConnectionInLoop, ServerStop, PeerClose, PeerReset, vars,
       users, Poll, HandleEvent, EventHup, EventErr, EventIn, EventOut,
       SwapFunctors, EndFunctors, OnlyLoopMoves, RunFunctor,
       RunConnectEstablished, RunSend, RunShutdown, RunSendFile, RunCallback,
       RunConnectDestroyed
  <2>. QED
    BY <2>3, <2>4
<1>. QED
  BY <1>1, <1>2

(* Two pairs of sequences that match do so one behind the other.            *)
LEMMA MatchesConcat ==
  ASSUME NEW out \in Seq(Unit), NEW acc \in Seq(Unit), Matches(out, acc),
         NEW bytes, NEW data, Found(data, bytes)
  PROVE  Matches(out \o bytes, acc \o data)
<1>1. data \in Seq(Unit) /\ bytes \in Seq(Unit) /\ Len(bytes) = Len(data)
  BY DEF Found
<1>2. /\ Len(out \o bytes) = Len(out) + Len(bytes)
      /\ \A i \in 1..(Len(out) + Len(bytes)) :
           (out \o bytes)[i] = IF i <= Len(out) THEN out[i] ELSE bytes[i - Len(out)]
  BY <1>1, ConcatProperties
<1>3. /\ Len(acc \o data) = Len(acc) + Len(data)
      /\ \A i \in 1..(Len(acc) + Len(data)) :
           (acc \o data)[i] = IF i <= Len(acc) THEN acc[i] ELSE data[i - Len(acc)]
  BY <1>1, ConcatProperties
<1>4. Len(out) = Len(acc) /\ Len(out) \in Nat /\ Len(data) \in Nat
  BY <1>1 DEF Matches
<1>5. ASSUME NEW i \in 1..(Len(out) + Len(bytes))
      PROVE  (out \o bytes)[i] = (acc \o data)[i] \/ (acc \o data)[i][1] \in changed
  <2>1. CASE i <= Len(out)
    <3>1. (out \o bytes)[i] = out[i] /\ (acc \o data)[i] = acc[i] /\ i \in 1..Len(out)
      BY <1>1, <1>2, <1>3, <1>4, <2>1
    <3>2. out[i] = acc[i] \/ acc[i][1] \in changed
      BY <3>1 DEF Matches
    <3>. QED
      BY <3>1, <3>2, Zenon
  <2>2. CASE ~(i <= Len(out))
    <3>1. /\ (out \o bytes)[i] = bytes[i - Len(out)]
          /\ (acc \o data)[i] = data[i - Len(out)]
          /\ i - Len(out) \in 1..Len(data)
      BY <1>1, <1>2, <1>3, <1>4, <2>2
    <3>2. bytes[i - Len(out)] = data[i - Len(out)] \/ data[i - Len(out)][1] \in changed
      BY <3>1 DEF Found
    <3>. QED
      BY <3>1, <3>2, Zenon
  <2>. QED
    BY <2>1, <2>2
<1>. QED
  BY <1>1, <1>2, <1>3, <1>4, <1>5 DEF Matches

(* What sendInLoop takes charge of is put behind all the output.            *)
LEMMA TakenBehind ==
  ASSUME TypeOK, NEW data \in Seq(Unit), NEW bytes \in Seq(Unit),
         TakenCharge(data, bytes)
  PROVE  Output' = Output \o bytes /\ accepted' = accepted \o data
<1>1. PICK n \in 0..Len(bytes) :
        /\ n > 0 => outputBuffer = <<>>
        /\ wire' = wire \o SubSeq(bytes, 1, n)
        /\ outputBuffer' = outputBuffer \o SubSeq(bytes, n + 1, Len(bytes))
        /\ accepted' = accepted \o data
  BY DEF TakenCharge
<1>2. wire \in Seq(Unit) /\ outputBuffer \in Seq(Unit)
  BY DEF TypeOK
<1>3. CASE n = 0
  <2>1. SubSeq(bytes, 1, n) = <<>> /\ SubSeq(bytes, n + 1, Len(bytes)) = bytes
    BY <1>3, SubSeqEmpty, SubSeqFull
  <2>2. wire' = wire /\ outputBuffer' = outputBuffer \o bytes
    BY <1>1, <1>2, <2>1, ConcatEmptySeq
  <2>3. (wire \o outputBuffer) \o bytes = wire \o (outputBuffer \o bytes)
    BY <1>2, ConcatAssociative
  <2>. QED
    BY <1>1, <2>2, <2>3 DEF Output
<1>4. CASE n # 0
  <2>1. outputBuffer = <<>>
    BY <1>1, <1>4
  <2>2. SubSeq(bytes, n + 1, Len(bytes)) \in Seq(Unit)
    BY CutInTwo
  <2>3. outputBuffer' = SubSeq(bytes, n + 1, Len(bytes)) /\ wire \o outputBuffer = wire
    BY <1>1, <1>2, <2>1, <2>2, ConcatEmptySeq
  <2>4. (wire \o SubSeq(bytes, 1, n)) \o SubSeq(bytes, n + 1, Len(bytes)) = wire \o bytes
    BY <1>2, ConcatCut
  <2>. QED
    BY <1>1, <2>3, <2>4 DEF Output
<1>. QED
  BY <1>3, <1>4

(* Every step conserves the stream.                                         *)
LEMMA ConservedStep ==
  Typed /\ NoFiles /\ Conserved /\ [Next]_vars => Conserved'
<1> SUFFICES ASSUME Typed, NoFiles, Conserved, [Next]_vars, ~filed'
             PROVE  Matches(Output, accepted)'
  BY DEF Conserved
<1>0. /\ TypeOK /\ ~filed /\ changed \subseteq changed'
      /\ Matches(Output, accepted)
  BY HistoryGrows DEF Conserved, Typed
<1> USE DEF channel, queues, loop, strings, users, server, kernel, history
<1>1. CASE UNCHANGED <<Output, accepted>>
  BY <1>0, <1>1 DEF Matches
<1>2. CASE LoopSend \/ RunSend
  <2>1. PICK data, bytes \in Seq(Unit) :
          SendInLoop(data, bytes) /\ Found(data, bytes)
    BY <1>0, <1>2, SendCalls
  <2>2. CASE Dropped
    BY <1>1, <2>2 DEF Dropped, Output
  <2>3. CASE TakenCharge(data, bytes)
    <3>1. Output' = Output \o bytes /\ accepted' = accepted \o data
      BY <1>0, <2>3, TakenBehind
    <3>2. Output \in Seq(Unit) /\ accepted \in Seq(Unit)
      BY <1>0, ConcatProperties DEF TypeOK, Output
    <3>3. Matches(Output \o bytes, accepted \o data)
      BY <1>0, <2>1, <3>2, MatchesConcat
    <3>4. UNCHANGED changed
      BY <1>2 DEF LoopSend, RunSend
    <3>. QED
      BY <3>1, <3>3, <3>4 DEF Matches
  <2>. QED
    BY <1>0, <2>1, <2>2, <2>3, SendInLoopBytes
<1>5. CASE EventOut
  <2>1. UNCHANGED accepted /\ Output' = Output
    BY <1>0, <1>5, EventOutConserves DEF EventOut, Output
  <2>. QED
    BY <1>1, <2>1
<1>6. CASE LoopSendFile
  BY <1>6 DEF LoopSendFile
<1>7. CASE RunSendFile
  <2>1. PICK op \in {"sendFile", "sendFileRest"} : RunHead(op)
    BY <1>7 DEF RunSendFile
  <2>2. op \in Queued
    BY <1>0, <2>1, RunHeadEffect DEF Queued
  <2>. QED
    BY <1>0, <2>2 DEF NoFiles
<1>8. CASE \/ LoopShutdown \/ Poll \/ EventHup \/ EventErr \/ EventIn
           \/ SwapFunctors \/ EndFunctors \/ RunConnectEstablished \/ RunShutdown
           \/ RunCallback \/ RunConnectDestroyed \/ RemoveConnectionInLoop
           \/ ServerStop \/ PeerClose \/ PeerReset \/ UNCHANGED vars
  <2>1. UNCHANGED <<wire, outputBuffer, accepted>>
    BY <1>8 DEF LoopShutdown, Poll, EventHup, EventErr, EventIn, SwapFunctors,
       EndFunctors, RunConnectEstablished, RunShutdown, RunCallback,
       RunConnectDestroyed, RemoveConnectionInLoop, ServerStop, PeerClose,
       PeerReset, vars, OnlyLoopMoves
  <2>. QED
    BY <1>1, <2>1 DEF Output
<1>9. ASSUME NEW t \in Sharers, SharerStep(t)
      PROVE  UNCHANGED <<wire, outputBuffer, accepted>>
  BY <1>9 DEF SharerStep, SendTest, SendFileTest, ShutdownTest, ShutdownStore,
     CallPush, ChangeString, Release, OnlyUserMoves
<1>10. CASE \E t \in Sharers : SharerStep(t)
  <2>1. UNCHANGED <<wire, outputBuffer, accepted>>
    BY <1>9, <1>10
  <2>. QED
    BY <1>1, <2>1 DEF Output
<1>. QED
  BY <1>2, <1>5, <1>6, <1>7, <1>8, <1>10
     DEF Next, UserOnLoop, LoopRuns, HandleEvent, RunFunctor

StreamInv == Typed /\ NoFiles /\ Conserved

(* Until a file is sent the stream is conserved.                            *)
LEMMA StreamAlways == SafeSpec => []StreamInv
<1>1. Init => StreamInv
  <2> SUFFICES ASSUME Init PROVE StreamInv
    OBVIOUS
  <2>1. OpsIn(pendingFunctors) = {"connectEstablished"} /\ OpsIn(functors) = {}
    BY NoData, OneFunctor, Callbacks DEF Init, OwningOps
  <2>2. NoFiles
    BY <2>1 DEF Init, NoFiles, Queued
  <2>3. Output = <<>> /\ accepted = <<>>
    BY NoData, ConcatEmptySeq DEF Init, Output
  <2>4. Conserved
    BY <2>3 DEF Conserved, Matches
  <2>. QED
    BY <2>2, <2>4, TypeInit DEF StreamInv
<1>2. StreamInv /\ [Next]_vars => StreamInv'
  BY TypeStep, CountedStep, NoFilesStep, ConservedStep DEF StreamInv, Typed
<1>. QED
  BY <1>1, <1>2, PTL DEF SafeSpec

(* As long as nobody calls sendFile, the socket has been given, in order   *)
(* and with no gap, a prefix of what the loop took charge of, and          *)
(* outputBuffer_ holds all the rest of it, whatever other threads do; the  *)
(* bytes are those that were sent if their string was left alone.          *)
THEOREM OutputInOrder == SafeSpec => []StreamInOrder
<1>1. StreamInv => StreamInOrder
  <2> SUFFICES ASSUME StreamInv, ~filed
               PROVE  /\ Len(Output) <= Len(accepted)
                      /\ \A i \in 1..Len(Output) :
                           Output[i] = accepted[i] \/ accepted[i][1] \in changed
    BY DEF StreamInOrder
  <2>1. Matches(Output, accepted) /\ accepted \in Seq(Unit)
    BY DEF StreamInv, Conserved, Typed, TypeOK
  <2>. QED
    BY <2>1 DEF Matches
<1>. QED
  BY <1>1, StreamAlways, PTL

(* No step sends the FIN over pending output, or adds output behind the FIN.*)
LEMMA FlushedStep ==
  StreamInv /\ PendingIsWatched /\ FlushedAtFin /\ [Next]_vars => FlushedAtFin'
<1> SUFFICES ASSUME TypeOK, PendingIsWatched, FlushedAtFin, [Next]_vars,
                    finSent', ~closed'
             PROVE  outputBuffer' = <<>>
  BY DEF StreamInv, Typed, FlushedAtFin
<1> USE DEF channel, queues, loop, strings, users, server, kernel, history
<1>1. CASE UNCHANGED <<closed, finSent, outputBuffer>>
  BY <1>1 DEF FlushedAtFin
<1>2. CASE LoopSend \/ RunSend
  <2>1. UNCHANGED <<closed, finSent>>
    BY <1>2 DEF LoopSend, RunSend
  <2>2. outputBuffer = <<>> /\ ~IsWriting /\ ~CanWrite
    BY <2>1 DEF FlushedAtFin, PendingIsWatched, CanWrite
  <2>3. PICK data, bytes \in Seq(Unit) : SendInLoop(data, bytes)
    BY <1>2, SendCalls
  <2>. QED
    BY <2>2, <2>3 DEF SendInLoop, NothingAhead
<1>5. ASSUME ShutdownInLoop, UNCHANGED <<closed, outputBuffer>>
      PROVE  outputBuffer' = <<>>
  BY <1>5 DEF ShutdownInLoop, FlushedAtFin, PendingIsWatched
<1>6. CASE EventOut
  <2>1. CASE UNCHANGED <<outputBuffer, finSent>>
    BY <1>1, <1>6, <2>1 DEF EventOut
  <2>2. CASE ~UNCHANGED <<outputBuffer, finSent>>
    <3>1. PICK n \in 1..Len(outputBuffer) :
            /\ CanWrite
            /\ outputBuffer' = SubSeq(outputBuffer, n + 1, Len(outputBuffer))
            /\ n = Len(outputBuffer) \/ UNCHANGED finSent
      BY <1>6, <2>2, EventOutBytes
    <3>2. n = Len(outputBuffer)
      BY <3>1 DEF CanWrite
    <3>. QED
      BY <3>1, <3>2, SubSeqEmpty
  <2>. QED
    BY <2>1, <2>2
<1>7. CASE EventHup \/ EventIn
  <2>1. CASE HandleClose
    BY <2>1 DEF HandleClose
  <2>2. CASE NoClose
    BY <1>1, <1>7, <2>2 DEF NoClose, EventHup, EventIn
  <2>. QED
    BY <1>7, <2>1, <2>2 DEF EventHup, EventIn
<1>8. CASE RunConnectDestroyed
  BY <1>8 DEF RunConnectDestroyed
<1>9. CASE \/ LoopSendFile \/ Poll \/ EventErr \/ SwapFunctors \/ EndFunctors
           \/ RunConnectEstablished \/ RunSendFile \/ RunCallback
           \/ RemoveConnectionInLoop \/ ServerStop \/ PeerClose \/ PeerReset
           \/ UNCHANGED vars
  BY <1>1, <1>9 DEF LoopSendFile, Poll, EventErr, SwapFunctors, EndFunctors,
     RunConnectEstablished, RunSendFile, RunCallback, RemoveConnectionInLoop,
     ServerStop, PeerClose, PeerReset, vars, OnlyLoopMoves, NoClose
<1>10. CASE LoopShutdown \/ RunShutdown
  BY <1>5, <1>10 DEF LoopShutdown, RunShutdown
<1>11. ASSUME NEW t \in Sharers, SharerStep(t)
       PROVE  UNCHANGED <<closed, finSent, outputBuffer>>
  BY <1>11 DEF SharerStep, SendTest, SendFileTest, ShutdownTest, ShutdownStore,
     CallPush, ChangeString, Release, OnlyUserMoves
<1>. QED
  BY <1>1, <1>2, <1>6, <1>7, <1>8, <1>9, <1>10, <1>11
     DEF Next, UserOnLoop, LoopRuns, HandleEvent, RunFunctor

(* No output is ever pending behind a FIN.                                  *)
LEMMA FlushedAlways == SafeSpec => [](StreamInv /\ FlushedAtFin)
<1>1. Init => FlushedAtFin
  BY DEF Init, FlushedAtFin
<1>. QED
  BY <1>1, StreamAlways, PendingWatched, FlushedStep, PTL DEF SafeSpec

(* The half-close never cuts the stream, whatever other threads do: when   *)
(* the FIN goes out on a connection that is not closed and was given no    *)
(* file, every byte the loop took charge of is on the wire, and none       *)
(* follows.                                                                *)
THEOREM FinFollowsOutput == SafeSpec => []FinAfterOutput
<1>1. StreamInv /\ FlushedAtFin => FinAfterOutput
  <2> SUFFICES ASSUME StreamInv, FlushedAtFin, finSent, ~closed, ~filed
               PROVE  Len(wire) = Len(accepted)
    BY DEF FinAfterOutput
  <2>1. outputBuffer = <<>> /\ wire \in Seq(Unit)
    BY DEF FlushedAtFin, StreamInv, Typed, TypeOK
  <2>2. Output = wire
    BY <2>1, ConcatEmptySeq DEF Output
  <2>. QED
    BY <2>2 DEF StreamInv, Conserved, Matches
<1>. QED
  BY <1>1, FlushedAlways, PTL

-----------------------------------------------------------------------------
(* Until connectEstablished runs nothing has happened to the connection,   *)
(* and afterwards it never runs again.  A queue that starts with it can be *)
(* followed only by the functor of ~TcpServer.                             *)
FirstOf(q) ==
  /\ q # <<>>
  /\ Head(q).op = "connectEstablished"
  /\ OpsIn(Tail(q)) \subseteq {"connectDestroyed"}

Untouched ==
  /\ IF functors = <<>>
     THEN FirstOf(pendingFunctors)
     ELSE /\ FirstOf(functors)
          /\ OpsIn(pendingFunctors) \subseteq {"connectDestroyed"}
  /\ events = {} /\ index = "kNew" /\ revents = {}
  /\ holders = {} /\ \A t \in Sharers : tpc[t] = "idle"
  /\ \A t \in Threads : sent[t] = 0
  /\ outputBuffer = <<>> /\ wire = <<>> /\ accepted = <<>>
  /\ ~finSent /\ promised = {} /\ removals = 0 /\ ~closed /\ downs = 0

Established ==
  /\ lpc # "functors" => functors = <<>>
  /\ state = "kConnecting" => Untouched
  /\ state # "kConnecting" => "connectEstablished" \notin Queued

(* Of all the steps only these are possible before connectEstablished.     *)
LEMMA UntouchedSteps ==
  ASSUME Typed, Untouched, state = "kConnecting", [Next]_vars
  PROVE  \/ Poll \/ SwapFunctors \/ EndFunctors \/ RunConnectEstablished
         \/ ServerStop \/ PeerClose \/ PeerReset \/ UNCHANGED vars
<1>1. ~UserOnLoop
  BY DEF UserOnLoop, LoopSend, LoopSendFile, LoopShutdown, InUserCode
<1>2. ASSUME NEW t \in Sharers PROVE ~SharerStep(t)
  <2>1. "sendInLoop" \notin Queued
    <3>1. ASSUME NEW q \in Seq(Functor), FirstOf(q)
          PROVE  "sendInLoop" \notin OpsIn(q)
      BY <3>1, OpsInHeadTail DEF FirstOf
    <3>2. CASE functors = <<>>
      BY <3>1, <3>2, Callbacks DEF Untouched, Queued, Typed, TypeOK
    <3>3. CASE functors # <<>>
      BY <3>1, <3>3 DEF Untouched, Queued, Typed, TypeOK
    <3>. QED
      BY <3>2, <3>3
  <2>2. ASSUME NEW k \in 1..MaxSends PROVE ~ChangeString(t, k)
    BY <2>1 DEF ChangeString, Queued, OpsIn, BindBy
  <2>. QED
    BY <2>2 DEF Untouched, SharerStep, SendTest, SendFileTest, ShutdownTest,
       ShutdownStore, CallPush, Release, BeginCall
<1>3. ~HandleEvent
  BY DEF Untouched, HandleEvent, EventHup, EventErr, EventIn, EventOut, Handle
<1>4. RunFunctor => RunConnectEstablished
  BY DEF Untouched, FirstOf, RunFunctor, RunSend, RunShutdown, RunSendFile,
     RunCallback, RunConnectDestroyed, RunHead
<1>5. ~RemoveConnectionInLoop
  BY DEF Untouched, RemoveConnectionInLoop
<1>. QED
  BY <1>1, <1>2, <1>3, <1>4, <1>5 DEF Next, LoopRuns

(* Those of them that leave it connecting leave it untouched.               *)
LEMMA UntouchedStep ==
  ASSUME Typed, Established, state = "kConnecting", state' = "kConnecting", [Next]_vars
  PROVE  Untouched'
<1> USE DEF channel, queues, loop, strings, users, server, kernel, history
<1>1. Untouched /\ TypeOK
  BY DEF Established, Typed
<1>2. CASE Poll
  <2>1. revents' = {}
    BY <1>1, <1>2 DEF Poll, Untouched
  <2>. QED
    BY <1>1, <1>2, <2>1 DEF Poll, OnlyLoopMoves, Untouched
<1>3. CASE SwapFunctors
  <2>1. functors = <<>> /\ FirstOf(pendingFunctors)
    BY <1>1, <1>3 DEF SwapFunctors, Established, Untouched
  <2>2. FirstOf(functors') /\ OpsIn(pendingFunctors') \subseteq {"connectDestroyed"}
    BY <1>3, <2>1, Callbacks DEF SwapFunctors
  <2>3. functors' # <<>>
    BY <2>2 DEF FirstOf
  <2>. QED
    BY <1>1, <1>3, <2>2, <2>3 DEF SwapFunctors, OnlyLoopMoves, Untouched
<1>4. CASE EndFunctors
  BY <1>1, <1>4 DEF EndFunctors, OnlyLoopMoves, Untouched
<1>5. CASE RunConnectEstablished
  BY <1>5 DEF RunConnectEstablished
<1>6. CASE ServerStop
  <2>1. PICK fs \in {<<Bind("connectDestroyed", <<>>)>>, <<>>} : Queue(fs)
    BY <1>6 DEF ServerStop
  <2>2. fs \in Seq(Functor) /\ OpsIn(fs) \subseteq {"connectDestroyed"}
    BY <2>1, DestroyFunctor, Callbacks
  <2>3. /\ pendingFunctors' = pendingFunctors \o fs
        /\ OpsIn(pendingFunctors') = OpsIn(pendingFunctors) \cup OpsIn(fs)
    BY <1>1, <2>1, <2>2, QueueEffect DEF Queue
  <2>4. CASE functors = <<>>
    <3>1. pendingFunctors \in Seq(Functor) /\ FirstOf(pendingFunctors)
      BY <1>1, <2>4 DEF Untouched, TypeOK
    <3>2. /\ pendingFunctors' # <<>>
          /\ Head(pendingFunctors') = Head(pendingFunctors)
          /\ Tail(pendingFunctors') = Tail(pendingFunctors) \o fs
      BY <2>2, <2>3, <3>1, HeadTailOfConcat DEF FirstOf
    <3>3. OpsIn(Tail(pendingFunctors) \o fs) =
            OpsIn(Tail(pendingFunctors)) \cup OpsIn(fs)
      BY <2>2, <3>1, OpsInConcat, HeadTailProperties DEF FirstOf
    <3>4. FirstOf(pendingFunctors')
      BY <2>2, <3>1, <3>2, <3>3 DEF FirstOf
    <3>. QED
      BY <1>1, <1>6, <2>4, <3>4 DEF ServerStop, Untouched
  <2>5. CASE functors # <<>>
    BY <1>1, <1>6, <2>2, <2>3, <2>5 DEF ServerStop, Untouched
  <2>. QED
    BY <2>4, <2>5
<1>7. CASE PeerClose
  BY <1>1, <1>7 DEF PeerClose, Untouched
<1>8. CASE PeerReset
  BY <1>1, <1>8 DEF PeerReset, Untouched
<1>9. CASE UNCHANGED vars
  BY <1>1, <1>9 DEF vars, Untouched
<1>. QED
  BY <1>1, <1>2, <1>3, <1>4, <1>5, <1>6, <1>7, <1>8, <1>9, UntouchedSteps

(* Every step preserves Established.                                        *)
LEMMA EstablishedStep == Typed /\ Established /\ [Next]_vars => Established'
<1> SUFFICES ASSUME Typed, Established, [Next]_vars
             PROVE  Established'
  OBVIOUS
<1> USE DEF channel, queues, loop, strings, users, server, kernel, history
<1>1. lpc' # "functors" => functors' = <<>>
  <2>1. CASE UNCHANGED <<lpc, functors>>
    BY <2>1 DEF Established
  <2>2. CASE LoopRuns
    BY <2>1, <2>2 DEF Established, LoopRuns, Poll, SwapFunctors, EndFunctors,
       OnlyLoopMoves, HandleEvent, EventHup, EventErr, EventIn, EventOut, Handle,
       RunFunctor, RunConnectEstablished, RunSend, RunShutdown, RunSendFile,
       RunCallback, RunConnectDestroyed, RunHead
  <2>3. CASE ~LoopRuns
    <3>1. UNCHANGED <<lpc, functors>>
      BY <2>3 DEF Next, UserOnLoop, LoopSend, LoopSendFile, LoopShutdown,
         SharerStep, SendTest, SendFileTest, ShutdownTest, ShutdownStore, CallPush,
         ChangeString, Release, OnlyUserMoves, RemoveConnectionInLoop, ServerStop, PeerClose,
         PeerReset, vars
    <3>. QED
      BY <2>1, <3>1
  <2>. QED
    BY <2>2, <2>3
<1>2. state' = "kConnecting" => state = "kConnecting"
  BY DEF Next, UserOnLoop, LoopSend, LoopSendFile, LoopShutdown, SharerStep,
     SendTest, SendFileTest, ShutdownTest, ShutdownStore, CallPush, ChangeString, Release,
     OnlyUserMoves, LoopRuns, Poll, SwapFunctors, EndFunctors, OnlyLoopMoves,
     HandleEvent, EventHup, EventErr, EventIn, EventOut, NoClose, HandleClose,
     RunFunctor, RunConnectEstablished, RunSend, RunShutdown, RunSendFile,
     RunCallback, RunConnectDestroyed, RemoveConnectionInLoop, ServerStop,
     PeerClose, PeerReset, vars
<1>3. state' = "kConnecting" => Untouched'
  BY <1>2, UntouchedStep
<1>4. ASSUME state' # "kConnecting" PROVE "connectEstablished" \notin Queued'
  <2>1. CASE state # "kConnecting"
    BY <2>1, NewlyQueued DEF Established, MayQueue
  <2>2. CASE state = "kConnecting"
    <3>1. Untouched
      BY <2>2 DEF Established
    <3>2. RunConnectEstablished
      BY <1>4, <2>2, <3>1, UntouchedSteps DEF Poll, SwapFunctors, EndFunctors,
         OnlyLoopMoves, ServerStop, PeerClose, PeerReset, vars
    <3>3. /\ functors # <<>> /\ functors' = Tail(functors)
          /\ UNCHANGED pendingFunctors
      BY <3>2 DEF RunConnectEstablished, RunHead
    <3>. QED
      BY <3>1, <3>3 DEF Untouched, FirstOf, Queued
  <2>. QED
    BY <2>1, <2>2
<1>. QED
  BY <1>1, <1>3, <1>4 DEF Established

(* The initial state is untouched, with connectEstablished queued.          *)
LEMMA EstablishedInit == Init => Established
<1> SUFFICES ASSUME Init PROVE Established
  OBVIOUS
<1>1. /\ pendingFunctors = <<Bind("connectEstablished", <<>>)>>
      /\ functors = <<>> /\ state = "kConnecting"
  BY DEF Init
<1>2. FirstOf(pendingFunctors)
  <2>1. /\ pendingFunctors # <<>>
        /\ Head(pendingFunctors) = Bind("connectEstablished", <<>>)
        /\ Tail(pendingFunctors) = <<>>
    BY <1>1
  <2>2. Bind("connectEstablished", <<>>).op = "connectEstablished"
    BY DEF Bind, BindBy
  <2>3. OpsIn(Tail(pendingFunctors)) = {}
    BY <2>1, Callbacks
  <2>. QED
    BY <2>1, <2>2, <2>3 DEF FirstOf
<1>3. /\ \A t \in Sharers : tpc[t] = "idle"
      /\ \A t \in Threads : sent[t] = 0
  BY DEF Init
<1>. QED
  BY <1>1, <1>2, <1>3 DEF Init, Established, Untouched

(* Established holds in every state.                                        *)
LEMMA EstablishedAlways == SafeSpec => [](Typed /\ Established)
BY TypedAlways, EstablishedInit, EstablishedStep, PTL DEF SafeSpec

-----------------------------------------------------------------------------
(* The queue q carries the unit u in the rest of a file.                   *)
Carries(q, u) ==
  \E i \in 1..Len(q) : q[i].op = "sendFileRest" /\ In(u, q[i].data)

(* The property's operator in terms of Carries.                             *)
LEMMA InFunctorIsCarried ==
  \A u : InSomeFunctor(u) <=> Carries(pendingFunctors, u) \/ Carries(functors, u)
BY DEF InSomeFunctor, Carries, In

(* A queue with another one behind it carries what both carry.              *)
LEMMA CarriesConcat ==
  ASSUME NEW q \in Seq(Functor), NEW r \in Seq(Functor), NEW u
  PROVE  Carries(q, u) \/ Carries(r, u) => Carries(q \o r, u)
<1>1. /\ Len(q \o r) = Len(q) + Len(r)
      /\ \A i \in 1..(Len(q) + Len(r)) :
           (q \o r)[i] = IF i <= Len(q) THEN q[i] ELSE r[i - Len(q)]
  BY ConcatProperties
<1>2. ASSUME Carries(q, u) PROVE Carries(q \o r, u)
  <2>1. PICK i \in 1..Len(q) : q[i].op = "sendFileRest" /\ In(u, q[i].data)
    BY <1>2 DEF Carries
  <2>2. i \in 1..Len(q \o r) /\ (q \o r)[i] = q[i]
    BY <1>1
  <2>. QED
    BY <2>1, <2>2 DEF Carries
<1>3. ASSUME Carries(r, u) PROVE Carries(q \o r, u)
  <2>1. PICK i \in 1..Len(r) : r[i].op = "sendFileRest" /\ In(u, r[i].data)
    BY <1>3 DEF Carries
  <2>2. i + Len(q) \in 1..Len(q \o r) /\ (q \o r)[i + Len(q)] = r[i]
    BY <1>1
  <2>. QED
    BY <2>1, <2>2 DEF Carries
<1>. QED
  BY <1>2, <1>3

(* The functor of the rest of a file carries its units.                     *)
LEMMA CarriesOne ==
  ASSUME NEW data \in Seq(Unit), NEW u, In(u, data)
  PROVE  Carries(<<Bind("sendFileRest", data)>>, u)
<1>1. /\ 1 \in 1..Len(<<Bind("sendFileRest", data)>>)
      /\ <<Bind("sendFileRest", data)>>[1] = Bind("sendFileRest", data)
  OBVIOUS
<1>2. /\ Bind("sendFileRest", data).op = "sendFileRest"
      /\ Bind("sendFileRest", data).data = data
  BY DEF Bind, BindBy
<1>. QED
  BY <1>1, <1>2 DEF Carries

(* What a queue carries is in its head or behind it.                        *)
LEMMA CarriesHeadTail ==
  ASSUME NEW q \in Seq(Functor), q # <<>>, NEW u, Carries(q, u)
  PROVE  \/ Head(q).op = "sendFileRest" /\ In(u, Head(q).data)
         \/ Carries(Tail(q), u)
<1>1. PICK i \in 1..Len(q) : q[i].op = "sendFileRest" /\ In(u, q[i].data)
  BY DEF Carries
<1>2. /\ Len(Tail(q)) = Len(q) - 1 /\ Head(q) = q[1] /\ Len(q) \in Nat \ {0}
      /\ \A j \in 1..Len(Tail(q)) : Tail(q)[j] = q[j + 1]
  BY HeadTailProperties, EmptySeq
<1>3. CASE i = 1
  BY <1>1, <1>2, <1>3
<1>4. CASE i # 1
  <2>1. i - 1 \in 1..Len(Tail(q)) /\ Tail(q)[i - 1] = q[i]
    BY <1>2, <1>4
  <2>. QED
    BY <1>1, <2>1 DEF Carries
<1>. QED
  BY <1>3, <1>4

(* A push loses nothing of what the queue carries.                         *)
LEMMA CarriesQueue ==
  ASSUME TypeOK, NEW fs \in Seq(Functor), Queue(fs), NEW u,
         Carries(pendingFunctors, u) \/ Carries(fs, u)
  PROVE  Carries(pendingFunctors', u)
<1>1. pendingFunctors \in Seq(Functor) /\ pendingFunctors' = pendingFunctors \o fs
  BY DEF TypeOK, Queue
<1>2. Carries(pendingFunctors \o fs, u)
  BY <1>1, CarriesConcat
<1>. QED
  BY <1>1, <1>2

(* sendInLoop only adds to the queue.                                      *)
LEMMA SendInLoopCarries ==
  ASSUME TypeOK, NEW data \in Seq(Unit), NEW bytes \in Seq(Unit),
         SendInLoop(data, bytes),
         NEW u, Carries(pendingFunctors, u)
  PROVE  Carries(pendingFunctors', u)
<1>1. \/ UNCHANGED pendingFunctors
      \/ \E fs \in {<<Bind("callback", <<>>)>>, WriteComplete, <<>>} : Queue(fs)
  BY DEF SendInLoop, AcceptAll, KeepRest
<1>2. \A fs \in {<<Bind("callback", <<>>)>>, WriteComplete, <<>>} : fs \in Seq(Functor)
  BY Callbacks
<1>. QED
  BY <1>1, <1>2, CarriesQueue

(* A unit that is on the wire or in outputBuffer_.                         *)
OnItsWay(u) == In(u, wire) \/ In(u, outputBuffer)

(* Being on the wire or in the buffer is being in the one behind the other. *)
LEMMA OnItsWayIn ==
  ASSUME TypeOK, NEW u
  PROVE  OnItsWay(u) <=> In(u, wire \o outputBuffer)
BY InConcat DEF TypeOK, OnItsWay

(* With a socket that works sendInLoop loses nothing.                       *)
LEMMA SendInLoopPlaces ==
  ASSUME TypeOK, NEW data, NEW bytes, SendInLoop(data, bytes),
         Found(data, bytes), CanWrite, NEW u
  PROVE  /\ OnItsWay(u) => OnItsWay(u)'
         /\ In(u, accepted') => In(u, accepted) \/ OnItsWay(u)' \/ u[1] \in changed
<1>0. data \in Seq(Unit) /\ bytes \in Seq(Unit) /\ Len(bytes) = Len(data)
  BY DEF Found
<1>1. TakenCharge(data, bytes)
  BY <1>0, SendInLoopBytes DEF Dropped
<1>2. PICK n \in 0..Len(bytes) :
        /\ wire' = wire \o SubSeq(bytes, 1, n)
        /\ outputBuffer' = outputBuffer \o SubSeq(bytes, n + 1, Len(bytes))
        /\ accepted' = accepted \o data
  BY <1>1 DEF TakenCharge
<1>3. wire \in Seq(Unit) /\ SubSeq(bytes, 1, n) \in Seq(Unit)
  BY <1>0, CutInTwo DEF TypeOK
<1>4. In(u, wire \o SubSeq(bytes, 1, n)) <=> In(u, wire) \/ In(u, SubSeq(bytes, 1, n))
  BY <1>3, InConcat
<1>5. outputBuffer \in Seq(Unit) /\ SubSeq(bytes, n + 1, Len(bytes)) \in Seq(Unit)
  BY <1>0, CutInTwo DEF TypeOK
<1>6. In(u, outputBuffer \o SubSeq(bytes, n + 1, Len(bytes))) <=>
        In(u, outputBuffer) \/ In(u, SubSeq(bytes, n + 1, Len(bytes)))
  <2>. DEFINE rest == SubSeq(bytes, n + 1, Len(bytes))
  <2>. HIDE DEF rest
  <2>1. rest \in Seq(Unit) /\ outputBuffer \in Seq(Unit)
    BY <1>5 DEF rest
  <2>2. In(u, outputBuffer \o rest) <=> In(u, outputBuffer) \/ In(u, rest)
    BY <2>1, InConcat
  <2>. QED
    BY <2>2 DEF rest
<1>7. In(u, accepted \o data) <=> In(u, accepted) \/ In(u, data)
  BY <1>0, InConcat DEF TypeOK
<1>8. In(u, bytes) <=> \/ In(u, SubSeq(bytes, 1, n))
                       \/ In(u, SubSeq(bytes, n + 1, Len(bytes)))
  BY <1>0, InCut
<1>9. In(u, data) => In(u, bytes) \/ u[1] \in changed
  BY <1>0 DEF Found, In
<1>. QED
  BY <1>2, <1>4, <1>6, <1>7, <1>8, <1>9 DEF OnItsWay

(* Neither does sendFileInLoop, unless the connection is shutting down.    *)
LEMMA SendFilePlaces ==
  ASSUME TypeOK, NEW data \in Seq(Unit), SendFileInLoop(data), CanWrite,
         state # "kDisconnecting", NEW u
  PROVE  /\ In(u, wire) => In(u, wire')
         /\ Carries(pendingFunctors, u) => Carries(pendingFunctors', u)
         /\ In(u, data) => In(u, wire') \/ Carries(pendingFunctors', u)
<1>1. ASSUME NEW rest \in Seq(Unit), Queue(<<Bind("sendFileRest", rest)>>)
      PROVE  Carries(pendingFunctors, u) \/ In(u, rest) => Carries(pendingFunctors', u)
  <2>1. <<Bind("sendFileRest", rest)>> \in Seq(Functor)
    BY OneFunctor DEF OwningOps
  <2>. QED
    BY <1>1, <2>1, CarriesOne, CarriesQueue
<1>2. CASE NothingAhead
  <2>1. PICK n \in 0..Len(data) :
          /\ wire' = wire \o SubSeq(data, 1, n)
          /\ Queue(IF n = Len(data) THEN WriteComplete
                   ELSE <<Bind("sendFileRest",
                               SubSeq(data, n + 1, Len(data)))>>)
    BY <1>2 DEF SendFileInLoop
  <2>2. /\ SubSeq(data, 1, n) \in Seq(Unit) /\ wire \in Seq(Unit)
        /\ SubSeq(data, n + 1, Len(data)) \in Seq(Unit)
    BY CutInTwo DEF TypeOK
  <2>3. In(u, wire') <=> In(u, wire) \/ In(u, SubSeq(data, 1, n))
    BY <2>1, <2>2, InConcat
  <2>4. In(u, data) <=> \/ In(u, SubSeq(data, 1, n))
                        \/ In(u, SubSeq(data, n + 1, Len(data)))
    BY InCut
  <2>5. CASE n = Len(data)
    <3>1. SubSeq(data, n + 1, Len(data)) = <<>>
      BY <2>5, SubSeqEmpty
    <3>2. ~In(u, SubSeq(data, n + 1, Len(data)))
      BY <3>1, InEmpty
    <3>3. WriteComplete \in Seq(Functor) /\ Queue(WriteComplete)
      BY <2>1, <2>5, Callbacks
    <3>4. Carries(pendingFunctors, u) => Carries(pendingFunctors', u)
      BY <3>3, CarriesQueue
    <3>. QED
      BY <2>3, <2>4, <3>2, <3>4
  <2>6. CASE n # Len(data)
    <3>1. Queue(<<Bind("sendFileRest", SubSeq(data, n + 1, Len(data)))>>)
      BY <2>1, <2>6
    <3>. QED
      BY <1>1, <2>2, <2>3, <2>4, <3>1
  <2>. QED
    BY <2>5, <2>6
<1>3. CASE ~NothingAhead
  <2>1. Queue(<<Bind("sendFileRest", data)>>) /\ UNCHANGED wire
    BY <1>3 DEF SendFileInLoop
  <2>. QED
    BY <1>1, <2>1
<1>. QED
  BY <1>2, <1>3

(* A connection that is up and can write has been so since it was made.    *)
StillUp == state \in {"kConnecting", "kConnected"} /\ CanWrite

Placed(u) == OnItsWay(u) \/ InSomeFunctor(u)

NothingLostInv ==
  StillUp => \A u : In(u, accepted) => Placed(u) \/ u[1] \in changed

(* It is never up again once it was not.                                    *)
LEMMA StillUpBefore ==
  ASSUME Typed, Established, [Next]_vars, StillUp'
  PROVE  StillUp
<1> USE DEF channel, queues, loop, strings, users, server, kernel, history
<1>1. CASE UNCHANGED <<state, finSent, peer>>
  BY <1>1 DEF StillUp, CanWrite
<1>2. CASE LoopShutdown \/ \E t \in Sharers : ShutdownStore(t)
  BY <1>2 DEF LoopShutdown, ShutdownStore, StillUp
<1>3. CASE EventHup \/ EventIn \/ RunConnectDestroyed
  BY <1>3 DEF EventHup, EventIn, HandleClose, NoClose, RunConnectDestroyed,
     StillUp, CanWrite
<1>4. CASE RunConnectEstablished
  <2>1. "connectEstablished" \in Queued
    BY <1>4, RunHeadEffect DEF RunConnectEstablished, Queued, Typed
  <2>2. state = "kConnecting"
    BY <2>1 DEF Established
  <2>. QED
    BY <1>4, <2>2 DEF RunConnectEstablished, StillUp, CanWrite
<1>5. CASE EventOut
  BY <1>5 DEF EventOut, Drained, StillUp, CanWrite
<1>6. CASE RunShutdown
  BY <1>6 DEF RunShutdown, ShutdownInLoop, StillUp, CanWrite
<1>7. CASE PeerClose \/ PeerReset
  BY <1>7 DEF PeerClose, PeerReset, StillUp, CanWrite
<1>8. CASE \/ LoopSend \/ LoopSendFile \/ Poll \/ EventErr \/ SwapFunctors
           \/ EndFunctors \/ RunSend \/ RunSendFile \/ RunCallback
           \/ RemoveConnectionInLoop \/ ServerStop \/ UNCHANGED vars
  BY <1>1, <1>8 DEF LoopSend, LoopSendFile, Poll, EventErr, SwapFunctors,
     EndFunctors, RunSend, RunSendFile, RunCallback, RemoveConnectionInLoop,
     ServerStop, vars, OnlyLoopMoves, NoClose
<1>9. ASSUME NEW t \in Sharers,
             \/ SendTest(t) \/ SendFileTest(t) \/ ShutdownTest(t) \/ CallPush(t)
             \/ Release(t) \/ \E k \in 1..MaxSends : ChangeString(t, k)
      PROVE  UNCHANGED <<state, finSent, peer>>
  BY <1>9 DEF SendTest, SendFileTest, ShutdownTest, CallPush, ChangeString, Release,
     OnlyUserMoves, BeginCall
<1>. QED
  BY <1>1, <1>2, <1>3, <1>4, <1>5, <1>6, <1>7, <1>8, <1>9
     DEF Next, UserOnLoop, SharerStep, LoopRuns, HandleEvent, RunFunctor

(* Every step keeps every byte somewhere.                                   *)
LEMMA NothingLostStep ==
  Typed /\ Established /\ NothingLostInv /\ [Next]_vars => NothingLostInv'
<1> SUFFICES ASSUME TypeOK, InCallCounted, Established, NothingLostInv, [Next]_vars,
                    StillUp', NEW u, In(u, accepted'), u[1] \notin changed'
             PROVE  OnItsWay(u)' \/ Carries(pendingFunctors', u) \/ Carries(functors', u)
  BY InFunctorIsCarried DEF Typed, NothingLostInv, Placed, InSomeFunctor, Carries, In
<1> USE DEF channel, queues, loop, strings, users, server, kernel, history
<1>0. /\ u[1] \notin changed /\ StillUp /\ CanWrite /\ state # "kDisconnecting"
      /\ In(u, accepted) =>
           OnItsWay(u) \/ Carries(pendingFunctors, u) \/ Carries(functors, u)
  BY StillUpBefore, HistoryGrows, InFunctorIsCarried
     DEF NothingLostInv, Typed, Placed, StillUp
<1>1. CASE UNCHANGED <<wire, outputBuffer, accepted, pendingFunctors, functors>>
  BY <1>0, <1>1 DEF OnItsWay
<1>2. ASSUME UNCHANGED <<wire, outputBuffer, accepted, functors>>,
             NEW fs \in Seq(Functor), Queue(fs)
      PROVE  OnItsWay(u)' \/ Carries(pendingFunctors', u) \/ Carries(functors', u)
  BY <1>0, <1>2, CarriesQueue DEF OnItsWay
<1>3. ASSUME NEW op, RunHead(op), Carries(functors, u)
      PROVE  \/ op = "sendFileRest" /\ In(u, Head(functors).data)
             \/ Carries(functors', u)
  <2>1. functors \in Seq(Functor) /\ functors # <<>>
    BY <1>3 DEF RunHead, TypeOK
  <2>. QED
    BY <1>3, <2>1, CarriesHeadTail DEF RunHead
<1>4. CASE LoopSend \/ RunSend
  <2>1. PICK data, bytes \in Seq(Unit) :
          SendInLoop(data, bytes) /\ Found(data, bytes)
    BY <1>4, SendCalls
  <2>2. /\ OnItsWay(u) => OnItsWay(u)'
        /\ In(u, accepted') => In(u, accepted) \/ OnItsWay(u)'
    BY <1>0, <2>1, SendInLoopPlaces
  <2>3. Carries(pendingFunctors, u) => Carries(pendingFunctors', u)
    BY <2>1, SendInLoopCarries
  <2>4. Carries(functors, u) => Carries(functors', u)
    <3>1. CASE LoopSend
      BY <3>1 DEF LoopSend
    <3>2. CASE RunSend
      BY <1>3, <3>2 DEF RunSend
    <3>. QED
      BY <1>4, <3>1, <3>2
  <2>. QED
    BY <1>0, <2>2, <2>3, <2>4
<1>6. CASE LoopSendFile
  <2>1. Units(NextMessage(LoopThread)) \in Seq(Unit)
    BY <1>6, UnitsOfCall DEF LoopSendFile, Threads
  <2>2. /\ SendFileInLoop(Units(NextMessage(LoopThread)))
        /\ accepted' = accepted \o Units(NextMessage(LoopThread))
        /\ UNCHANGED <<outputBuffer, functors>>
    BY <1>6 DEF LoopSendFile
  <2>3. In(u, accepted') <=> In(u, accepted) \/ In(u, Units(NextMessage(LoopThread)))
    BY <2>1, <2>2, InConcat DEF TypeOK
  <2>4. /\ In(u, wire) => In(u, wire')
        /\ Carries(pendingFunctors, u) => Carries(pendingFunctors', u)
        /\ In(u, Units(NextMessage(LoopThread))) =>
             In(u, wire') \/ Carries(pendingFunctors', u)
    BY <1>0, <2>1, <2>2, SendFilePlaces
  <2>. QED
    BY <1>0, <2>2, <2>3, <2>4 DEF OnItsWay
<1>7. CASE RunSendFile
  <2>1. PICK op \in {"sendFile", "sendFileRest"} :
          /\ RunHead(op)
          /\ \/ op = "sendFile" /\ accepted' = accepted \o Head(functors).data
             \/ accepted' = accepted
    BY <1>7 DEF RunSendFile
  <2>2. /\ Head(functors).data \in Seq(Unit) /\ SendFileInLoop(Head(functors).data)
        /\ UNCHANGED outputBuffer
    BY <1>7, <2>1, RunHeadEffect DEF RunSendFile
  <2>3. /\ In(u, wire) => In(u, wire')
        /\ Carries(pendingFunctors, u) => Carries(pendingFunctors', u)
        /\ In(u, Head(functors).data) => In(u, wire') \/ Carries(pendingFunctors', u)
    BY <1>0, <2>2, SendFilePlaces
  <2>4. In(u, accepted \o Head(functors).data) <=>
          In(u, accepted) \/ In(u, Head(functors).data)
    BY <2>2, InConcat DEF TypeOK
  <2>5. Carries(functors, u) => In(u, Head(functors).data) \/ Carries(functors', u)
    BY <1>3, <2>1
  <2>. QED
    BY <1>0, <2>1, <2>2, <2>3, <2>4, <2>5 DEF OnItsWay
<1>8. CASE EventOut
  <2>1. wire' \o outputBuffer' = wire \o outputBuffer
    BY <1>8, EventOutConserves
  <2>2. OnItsWay(u) => OnItsWay(u)'
    <3>1. OnItsWay(u) <=> In(u, wire \o outputBuffer)
      BY OnItsWayIn
    <3>2. wire' \in Seq(Unit) /\ outputBuffer' \in Seq(Unit)
      BY TypeStep DEF Typed, TypeOK
    <3>3. OnItsWay(u)' <=> In(u, wire' \o outputBuffer')
      BY <3>2, InConcat DEF OnItsWay
    <3>. QED
      BY <2>1, <3>1, <3>3
  <2>3. UNCHANGED <<accepted, functors>>
    BY <1>8 DEF EventOut
  <2>4. UNCHANGED pendingFunctors \/ Queue(WriteComplete)
    BY <1>8 DEF EventOut, Drained
  <2>5. Carries(pendingFunctors, u) => Carries(pendingFunctors', u)
    BY <2>4, Callbacks, CarriesQueue
  <2>. QED
    BY <1>0, <2>2, <2>3, <2>5
<1>9. CASE SwapFunctors
  <2>1. functors = <<>>
    BY <1>9 DEF SwapFunctors, Established
  <2>2. ~Carries(functors, u)
    BY <2>1 DEF Carries
  <2>. QED
    BY <1>0, <1>9, <2>2 DEF SwapFunctors, OnlyLoopMoves, OnItsWay
<1>10. CASE RunConnectEstablished \/ RunShutdown \/ RunCallback \/ RunConnectDestroyed
  <2>1. PICK op \in {"connectEstablished", "shutdownInLoop", "callback",
                     "connectDestroyed"} : RunHead(op)
    BY <1>10 DEF RunConnectEstablished, RunShutdown, RunCallback, RunConnectDestroyed
  <2>2. Carries(functors, u) => Carries(functors', u)
    BY <1>3, <2>1
  <2>3. UNCHANGED <<wire, outputBuffer, accepted, pendingFunctors>>
    BY <1>10 DEF RunConnectEstablished, RunShutdown, RunCallback, RunConnectDestroyed
  <2>. QED
    BY <1>0, <2>2, <2>3 DEF OnItsWay
<1>11. CASE RemoveConnectionInLoop
  BY <1>2, <1>11, DestroyFunctor DEF RemoveConnectionInLoop
<1>12. CASE ServerStop
  <2>1. PICK fs \in {<<Bind("connectDestroyed", <<>>)>>, <<>>} : Queue(fs)
    BY <1>12 DEF ServerStop
  <2>2. fs \in Seq(Functor)
    BY <2>1, DestroyFunctor, Callbacks
  <2>. QED
    BY <1>2, <1>12, <2>1, <2>2 DEF ServerStop
<1>13. ASSUME NEW t \in Sharers, CallPush(t)
       PROVE  OnItsWay(u)' \/ Carries(pendingFunctors', u) \/ Carries(functors', u)
  <2>1. PICK fs : fs \in Seq(Functor) /\ Queue(fs)
    BY <1>13, CallPushQueues, Zenon
  <2>. QED
    BY <1>2, <1>13, <2>1 DEF CallPush, OnlyUserMoves
<1>14. CASE \/ LoopShutdown \/ Poll \/ EventHup \/ EventErr \/ EventIn
            \/ EndFunctors \/ PeerClose \/ PeerReset \/ UNCHANGED vars
  BY <1>1, <1>14 DEF LoopShutdown, Poll, EventHup, EventErr, EventIn, EndFunctors,
     PeerClose, PeerReset, vars, OnlyLoopMoves
<1>15. ASSUME NEW t \in Sharers,
              \/ SendTest(t) \/ SendFileTest(t) \/ ShutdownTest(t)
              \/ ShutdownStore(t) \/ Release(t)
              \/ \E k \in 1..MaxSends : ChangeString(t, k)
       PROVE  UNCHANGED <<wire, outputBuffer, accepted, pendingFunctors, functors>>
  BY <1>15 DEF SendTest, SendFileTest, ShutdownTest, ShutdownStore, Release,
     ChangeString, OnlyUserMoves
<1>. QED
  BY <1>1, <1>4, <1>6, <1>7, <1>8, <1>9, <1>10, <1>11, <1>12, <1>13,
     <1>14, <1>15 DEF Next, UserOnLoop, SharerStep, LoopRuns, HandleEvent, RunFunctor

(* While the connection is up and the socket works no byte the loop took   *)
(* charge of is lost, for every use of send and sendFile by every thread,  *)
(* but for strings that changed before they were read.                     *)
THEOREM BytesKept == SafeSpec => []NothingLost
<1>1. Init => NothingLostInv
  BY InEmpty DEF Init, NothingLostInv
<1>2. Typed /\ NothingLostInv => NothingLost
  <2> SUFFICES ASSUME Typed, NothingLostInv, state = "kConnected", CanWrite,
                      NEW k \in 1..Len(accepted), accepted[k][1] \notin changed
               PROVE  \/ \E i \in 1..Len(wire) : wire[i] = accepted[k]
                      \/ \E i \in 1..Len(outputBuffer) : outputBuffer[i] = accepted[k]
                      \/ InSomeFunctor(accepted[k])
    BY DEF NothingLost
  <2>1. In(accepted[k], accepted)
    BY DEF In
  <2>2. Placed(accepted[k])
    BY <2>1 DEF NothingLostInv, StillUp
  <2>. QED
    BY <2>2 DEF Placed, OnItsWay, In
<1>. QED
  BY <1>1, <1>2, EstablishedAlways, NothingLostStep, PTL DEF SafeSpec

-----------------------------------------------------------------------------
(* No step takes a functor out of the queues but the one that runs it.     *)
LEMMA StaysQueued ==
  ASSUME Typed, Established, [Next]_vars, NEW op \in Queued,
         ~(RunFunctor /\ Head(functors).op = op)
  PROVE  op \in Queued'
<1> USE DEF channel, queues, loop, strings, users, server, kernel, history, Queued
<1>0. TypeOK /\ InCallCounted
  BY DEF Typed
<1>1. CASE UNCHANGED queues
  BY <1>1
<1>2. CASE LoopSend \/ RunSend
  <2>1. PICK data, bytes \in Seq(Unit) : SendInLoop(data, bytes)
    BY <1>0, <1>2, SendCalls
  <2>2. OpsIn(pendingFunctors') \in
          {OpsIn(pendingFunctors), OpsIn(pendingFunctors) \cup {"callback"}}
    BY <1>0, <2>1, SendInLoopChannel
  <2>3. CASE LoopSend
    BY <2>2, <2>3 DEF LoopSend
  <2>4. CASE RunSend
    <3>1. OpsIn(functors) = {"sendInLoop"} \cup OpsIn(functors') /\ op # "sendInLoop"
      BY <1>0, <2>4, RunHeadEffect DEF RunSend, RunFunctor
    <3>. QED
      BY <2>2, <3>1
  <2>. QED
    BY <1>2, <2>3, <2>4
<1>3. CASE LoopSendFile
  <2>1. Units(NextMessage(LoopThread)) \in Seq(Unit)
    BY <1>0, <1>3, UnitsOfCall DEF LoopSendFile, Threads
  <2>2. OpsIn(pendingFunctors) \subseteq OpsIn(pendingFunctors')
    BY <1>0, <1>3, <2>1, SendFileTypes DEF LoopSendFile
  <2>. QED
    BY <1>3, <2>2 DEF LoopSendFile
<1>4. ASSUME NEW t \in Sharers, CallPush(t)
      PROVE  op \in Queued'
  <2>1. OpsIn(pendingFunctors) \subseteq OpsIn(pendingFunctors')
    BY <1>0, <1>4, CallPushEffect
  <2>. QED
    BY <1>4, <2>1 DEF CallPush, OnlyUserMoves
<1>5. CASE EventOut
  <2>1. UNCHANGED pendingFunctors \/ Queue(WriteComplete)
    BY <1>5 DEF EventOut, Drained
  <2>2. OpsIn(pendingFunctors) \subseteq OpsIn(pendingFunctors')
    BY <1>0, <2>1, Callbacks, QueueEffect
  <2>. QED
    BY <1>5, <2>2 DEF EventOut
<1>6. CASE SwapFunctors
  <2>1. functors = <<>> /\ functors' = pendingFunctors
    BY <1>6 DEF SwapFunctors, Established
  <2>. QED
    BY <2>1, Callbacks
<1>7. ASSUME NEW head, RunHead(head), RunFunctor, UNCHANGED pendingFunctors
      PROVE  op \in Queued'
  <2>1. OpsIn(functors) = {head} \cup OpsIn(functors')
    BY <1>0, <1>7, RunHeadEffect
  <2>2. op # head
    BY <1>7 DEF RunHead
  <2>. QED
    BY <1>7, <2>1, <2>2
<1>8. CASE RunConnectEstablished \/ RunShutdown \/ RunCallback \/ RunConnectDestroyed
  BY <1>7, <1>8 DEF RunConnectEstablished, RunShutdown, RunCallback,
     RunConnectDestroyed, RunFunctor
<1>10. CASE RunSendFile
  <2>1. PICK head \in {"sendFile", "sendFileRest"} : RunHead(head)
    BY <1>10 DEF RunSendFile
  <2>2. /\ OpsIn(functors) = {head} \cup OpsIn(functors')
        /\ Head(functors).data \in Seq(Unit) /\ op # head
    BY <1>0, <1>10, <2>1, RunHeadEffect DEF RunFunctor
  <2>3. OpsIn(pendingFunctors) \subseteq OpsIn(pendingFunctors')
    BY <1>0, <1>10, <2>2, SendFileTypes DEF RunSendFile
  <2>. QED
    BY <2>2, <2>3
<1>11. CASE RemoveConnectionInLoop
  <2>1. OpsIn(pendingFunctors) \subseteq OpsIn(pendingFunctors')
    BY <1>0, <1>11, DestroyFunctor, QueueEffect DEF RemoveConnectionInLoop
  <2>. QED
    BY <1>11, <2>1 DEF RemoveConnectionInLoop
<1>12. CASE ServerStop
  <2>1. PICK fs \in {<<Bind("connectDestroyed", <<>>)>>, <<>>} : Queue(fs)
    BY <1>12 DEF ServerStop
  <2>2. fs \in Seq(Functor)
    BY <2>1, DestroyFunctor, Callbacks
  <2>3. OpsIn(pendingFunctors) \subseteq OpsIn(pendingFunctors')
    BY <1>0, <2>1, <2>2, QueueEffect
  <2>. QED
    BY <1>12, <2>3 DEF ServerStop
<1>13. CASE \/ LoopShutdown \/ Poll \/ EventHup \/ EventErr \/ EventIn
            \/ EndFunctors \/ PeerClose \/ PeerReset \/ UNCHANGED vars
  BY <1>1, <1>13 DEF LoopShutdown, Poll, EventHup, EventErr, EventIn, EndFunctors,
     PeerClose, PeerReset, vars
<1>14. ASSUME NEW t \in Sharers,
              \/ SendTest(t) \/ SendFileTest(t) \/ ShutdownTest(t)
              \/ ShutdownStore(t) \/ Release(t)
              \/ \E k \in 1..MaxSends : ChangeString(t, k)
       PROVE  UNCHANGED queues
  BY <1>14 DEF SendTest, SendFileTest, ShutdownTest, ShutdownStore, Release,
     ChangeString, OnlyUserMoves
<1>. QED
  BY <1>1, <1>2, <1>3, <1>4, <1>5, <1>6, <1>8, <1>10, <1>11, <1>12,
     <1>13, <1>14 DEF Next, UserOnLoop, SharerStep, LoopRuns, HandleEvent, RunFunctor

-----------------------------------------------------------------------------
(* How a connection ends.  The I/O loop polls it only while it is watched: *)
(* closed and not watched again, by a send that came too late, it has no   *)
(* event left that could close it a second time.                           *)
Watched ==
  /\ lpc # "events" => revents = {}
  /\ (~closed /\ state # "kConnecting") => index = "kAdded" /\ "in" \in events
  /\ (closed /\ ~reopened) => /\ index # "kAdded"
                              /\ revents \subseteq {"err", "out"}
                              /\ events = {} \/ revents = {}

(* DOWN was reported by handleClose, or by connectDestroyed if it found    *)
(* the connection kConnected; a removal comes after handleClose, and       *)
(* connectDestroyed after a removal or the end of the server.              *)
Reported ==
  /\ closed => state \notin {"kConnecting", "kConnected"}
  /\ ~closed => downs = 0 /\ state # "kDisconnected"
  /\ downs = 0 => state # "kDisconnected" /\ removals = 0
  /\ (closed \/ "connectDestroyed" \in Queued) => downs >= 1 \/ ~serving
  /\ downs > 1 => reopened

(* Who leaves the map has connectDestroyed queued, or it has run.          *)
Removed ==
  (~serverMap /\ ~reopened) =>
    \/ "connectDestroyed" \in Queued
    \/ closed /\ index = "kNew" /\ revents = {}

Ending == Typed /\ Established /\ Watched /\ Reported /\ Removed

(* The fields of the connection that its end is about.                     *)
EndFields == <<state, events, index, revents, removals, downs, closed, reopened>>

(* A removal or the end of the server comes before connectDestroyed.       *)
LEMMA DestroyComesAfter ==
  ASSUME Ending, [Next]_vars, "connectDestroyed" \in Queued',
         downs' >= downs, serving' => serving
  PROVE  downs' >= 1 \/ ~serving'
<1>0. /\ downs \in Nat /\ downs' \in Nat /\ removals \in Nat /\ Reported
  BY TypeStep DEF Ending, Typed, TypeOK
<1>1. CASE "connectDestroyed" \in Queued
  BY <1>0, <1>1 DEF Reported
<1>2. CASE "connectDestroyed" \notin Queued
  <2>1. removals > 0 \/ ~serving'
    BY <1>2, NewlyQueued DEF MayQueue, Ending
  <2>. QED
    BY <1>0, <2>1 DEF Reported
<1>. QED
  BY <1>1, <1>2

(* connectDestroyed leaves the queues only to run.                          *)
LEMMA DestroyStaysQueued ==
  ASSUME Ending, [Next]_vars, ~RunConnectDestroyed, "connectDestroyed" \in Queued
  PROVE  "connectDestroyed" \in Queued'
<1>1. ~(RunFunctor /\ Head(functors).op = "connectDestroyed")
  BY DEF RunFunctor, RunHead, RunConnectEstablished, RunSend, RunShutdown,
     RunSendFile, RunCallback
<1>. QED
  BY <1>1, StaysQueued DEF Ending

(* handleClose runs for a connection that is watched, or watched again.    *)
LEMMA ClosingEvent ==
  ASSUME Ending, [Next]_vars, HandleClose, revents # {},
         "hup" \in revents \/ "in" \in revents,
         revents' \subseteq {"err", "out"}, lpc = "events", lpc' = "events",
         UNCHANGED <<reopened, serverMap, serving>>
  PROVE  Watched' /\ Reported' /\ Removed'
<1>0. /\ TypeOK /\ downs \in Nat /\ removals \in Nat /\ closed \in BOOLEAN
      /\ Watched /\ Reported /\ Established
  BY DEF Ending, Typed, TypeOK
<1>1. state # "kConnecting"
  BY <1>0 DEF Established, Untouched
<1>2. /\ state' = "kDisconnected" /\ closed' = TRUE /\ events' = {}
      /\ downs' = downs + 1 /\ removals' = removals + 1
      /\ index' = IF index = "kAdded" THEN "kDeleted" ELSE "kAdded"
  BY DEF HandleClose, Update
<1>3. closed => reopened
  BY <1>0 DEF Watched
<1>4. Watched'
  <2>1. ~reopened => index' = "kDeleted"
    BY <1>0, <1>1, <1>2, <1>3 DEF Watched
  <2>. QED
    BY <1>0, <1>2, <2>1 DEF Watched
<1>5. Reported'
  <2>1. downs' >= 1 /\ downs' # 0
    BY <1>0, <1>2
  <2>2. downs' > 1 => reopened'
    BY <1>0, <1>2, <1>3 DEF Reported
  <2>. QED
    BY <1>2, <2>1, <2>2 DEF Reported
<1>6. Removed'
  <2>1. ASSUME ~serverMap, ~reopened PROVE "connectDestroyed" \in Queued'
    <3>1. "connectDestroyed" \in Queued
      BY <2>1 DEF Ending, Removed
    <3>2. ~RunConnectDestroyed
      BY DEF RunConnectDestroyed, RunHead
    <3>. QED
      BY <3>1, <3>2, DestroyStaysQueued
  <2>. QED
    BY <2>1 DEF Removed
<1>. QED
  BY <1>4, <1>5, <1>6

(* Where the fields do not change the queues keep the rest.                 *)
LEMMA EndUnchanged ==
  ASSUME Ending, [Next]_vars, UNCHANGED EndFields,
         lpc' = lpc \/ revents' = {},
         ~RunConnectDestroyed, UNCHANGED <<serving, serverMap>>
  PROVE  Watched' /\ Reported' /\ Removed'
<1>0. Watched /\ Reported /\ Removed /\ Typed /\ Established
  BY DEF Ending
<1>1. Watched'
  BY <1>0 DEF Watched, EndFields
<1>2. Reported'
  <2>1. "connectDestroyed" \in Queued' => downs' >= 1 \/ ~serving'
    <3>1. downs \in Nat
      BY <1>0 DEF Typed, TypeOK
    <3>. QED
      BY <3>1, DestroyComesAfter DEF EndFields
  <2>. QED
    BY <1>0, <2>1 DEF Reported, EndFields
<1>3. Removed'
  <2>1. "connectDestroyed" \in Queued => "connectDestroyed" \in Queued'
    BY DestroyStaysQueued
  <2>. QED
    BY <1>0, <2>1 DEF Removed, EndFields
<1>. QED
  BY <1>1, <1>2, <1>3

(* Every step of the loop but the functors of sends and of the two ends.    *)
LEMMA EventsKeepEnding ==
  ASSUME Ending, [Next]_vars, Poll \/ HandleEvent
  PROVE  Watched' /\ Reported' /\ Removed'
<1> USE DEF channel, queues, loop, strings, users, server, kernel, history
<1>0. /\ Watched /\ Reported /\ Removed /\ Typed /\ TypeOK /\ Established
      /\ downs \in Nat
  BY DEF Ending, Typed, TypeOK
<1>1. ASSUME UNCHANGED <<state, events, index, removals, downs, closed, reopened>>,
             UNCHANGED <<serving, serverMap>>, lpc' = "events",
             ~RunConnectDestroyed,
             revents' \subseteq revents \/ (index = "kAdded" \/ revents' = {})
      PROVE  Watched' /\ Reported' /\ Removed'
  <2>1. Watched'
    BY <1>0, <1>1 DEF Watched
  <2>2. "connectDestroyed" \in Queued' => downs' >= 1 \/ ~serving'
    BY <1>0, <1>1, DestroyComesAfter
  <2>3. Reported'
    BY <1>0, <1>1, <2>2 DEF Reported
  <2>4. Removed'
    BY <1>0, <1>1, DestroyStaysQueued DEF Removed
  <2>. QED
    BY <2>1, <2>3, <2>4
<1>2. ~RunConnectDestroyed
  BY DEF Poll, HandleEvent, EventHup, EventErr, EventIn, EventOut, Handle,
     RunConnectDestroyed, RunHead
<1>3. CASE Poll
  BY <1>1, <1>2, <1>3 DEF Poll, OnlyLoopMoves
<1>4. CASE EventErr
  BY <1>1, <1>2, <1>4 DEF EventErr, Handle, NoClose
<1>5. CASE EventHup
  <2>1. /\ "hup" \in revents /\ revents' = revents \ {"hup"} /\ lpc = "events"
        /\ lpc' = "events" /\ UNCHANGED <<serving, serverMap, reopened>>
        /\ revents \subseteq {"hup", "err", "in", "out"}
    BY <1>0, <1>5 DEF EventHup, Handle, TypeOK
  <2>2. CASE "in" \in revents
    BY <1>1, <1>2, <1>5, <2>1, <2>2 DEF EventHup, NoClose
  <2>3. CASE "in" \notin revents
    <3>1. HandleClose /\ revents' \subseteq {"err", "out"} /\ revents # {}
      BY <1>5, <2>1, <2>3 DEF EventHup
    <3>. QED
      BY <2>1, <3>1, ClosingEvent
  <2>. QED
    BY <2>2, <2>3
<1>6. CASE EventIn
  <2>1. /\ "in" \in revents /\ "hup" \notin revents /\ revents' = revents \ {"in"}
        /\ lpc = "events" /\ lpc' = "events"
        /\ UNCHANGED <<serving, serverMap, reopened>>
        /\ revents \subseteq {"hup", "err", "in", "out"}
    BY <1>0, <1>6 DEF EventIn, Handle, TypeOK
  <2>2. CASE NoClose
    BY <1>1, <1>2, <1>6, <2>1, <2>2 DEF NoClose
  <2>3. CASE HandleClose
    <3>1. revents' \subseteq {"err", "out"} /\ revents # {}
      BY <2>1
    <3>. QED
      BY <2>1, <2>3, <3>1, ClosingEvent
  <2>. QED
    BY <1>6, <2>2, <2>3 DEF EventIn
<1>7. CASE EventOut
  <2>1. /\ "out" \in revents /\ revents' = revents \ {"out"}
        /\ lpc = "events" /\ lpc' = "events"
        /\ UNCHANGED <<serving, serverMap, reopened, state, removals, downs, closed>>
    BY <1>7 DEF EventOut, Handle
  <2>2. CASE UNCHANGED <<events, index>>
    BY <1>1, <1>2, <2>1, <2>2
  <2>3. CASE ~UNCHANGED <<events, index>>
    <3>1. IsWriting /\ Update(events \ {"out"})
      BY <1>7, <2>3 DEF EventOut, Drained
    <3>2. ~closed \/ reopened
      BY <1>0, <2>1, <3>1 DEF Watched, IsWriting
    <3>3. state # "kConnecting"
      BY <1>0, <2>1 DEF Established, Untouched
    <3>4. ~closed => "in" \in events' /\ index' = "kAdded"
      BY <1>0, <3>1, <3>3 DEF Watched, Update
    <3>5. Watched'
      BY <1>0, <2>1, <3>2, <3>4 DEF Watched, TypeOK
    <3>6. "connectDestroyed" \in Queued' => downs' >= 1 \/ ~serving'
      BY <1>0, <2>1, DestroyComesAfter
    <3>7. Reported'
      BY <1>0, <2>1, <3>6 DEF Reported
    <3>8. Removed'
      BY <1>0, <1>2, <2>1, <3>2, DestroyStaysQueued DEF Removed
    <3>. QED
      BY <3>5, <3>7, <3>8
  <2>. QED
    BY <2>2, <2>3
<1>. QED
  BY <1>3, <1>4, <1>5, <1>6, <1>7 DEF HandleEvent

(* A send that comes too late may watch the channel of a closed connection *)
(* again, and then `reopened' says so.                                     *)
LEMMA SendsKeepEnding ==
  ASSUME Ending, [Next]_vars, LoopSend \/ RunSend
  PROVE  Watched' /\ Reported' /\ Removed'
<1>0. /\ Watched /\ Reported /\ Removed /\ TypeOK /\ Established
      /\ downs \in Nat /\ closed \in BOOLEAN
  BY DEF Ending, Typed, TypeOK
<1>1. /\ UNCHANGED <<state, lpc, revents, removals, downs, closed, serving, serverMap>>
      /\ ~RunConnectDestroyed
  <2>1. CASE LoopSend
    <3>1. UNCHANGED functors
      BY <2>1 DEF LoopSend
    <3>2. closed' = closed /\ (closed => state # "kConnected")
      BY <1>0, <2>1 DEF LoopSend, Reported
    <3>3. closed = FALSE
      BY <1>0, <2>1, <3>2 DEF LoopSend, InUserCode
    <3>4. ~RunConnectDestroyed
      BY <3>2, <3>3 DEF RunConnectDestroyed
    <3>. QED
      BY <2>1, <3>4 DEF LoopSend, loop, server
  <2>2. CASE RunSend
    BY <2>2 DEF RunSend, RunHead, RunConnectDestroyed, server
  <2>. QED
    BY <2>1, <2>2
<1>2. state # "kConnecting"
  BY <1>0 DEF LoopSend, RunSend, RunHead, InUserCode, Established, Untouched, FirstOf
<1>3. PICK data, bytes \in Seq(Unit) : SendInLoop(data, bytes)
  BY <1>0, SendCalls
<1>4. /\ events' \in {events, events \cup {"out"}}
      /\ index' \in {index, "kAdded"}
  BY <1>0, <1>3, SendInLoopChannel
<1>5. /\ reopened => reopened'
      /\ closed /\ ~reopened' => UNCHANGED <<events, index>>
  BY <1>0, <1>3, SendInLoopReopens
<1>6. Watched'
  BY <1>0, <1>1, <1>2, <1>4, <1>5 DEF Watched
<1>7. "connectDestroyed" \in Queued' => downs' >= 1 \/ ~serving'
  BY <1>0, <1>1, DestroyComesAfter
<1>8. Reported'
  BY <1>0, <1>1, <1>5, <1>7 DEF Reported
<1>9. Removed'
  BY <1>0, <1>1, <1>5, DestroyStaysQueued DEF Removed
<1>. QED
  BY <1>6, <1>8, <1>9

(* Every step preserves how a connection ends.                              *)
LEMMA EndingStep == Ending /\ [Next]_vars => Ending'
<1> SUFFICES ASSUME Ending, [Next]_vars
             PROVE  Watched' /\ Reported' /\ Removed'
  BY TypeStep, CountedStep, EstablishedStep DEF Ending, Typed
<1> USE DEF channel, queues, loop, strings, users, server, kernel, history
<1>0. /\ Watched /\ Reported /\ Removed /\ Typed /\ TypeOK /\ Established
      /\ downs \in Nat /\ removals \in Nat /\ closed \in BOOLEAN
  BY DEF Ending, Typed, TypeOK
<1>1. CASE LoopSend \/ RunSend
  BY <1>1, SendsKeepEnding
<1>2. CASE Poll \/ HandleEvent
  BY <1>2, EventsKeepEnding
<1>3. CASE RunConnectEstablished
  <2>1. "connectEstablished" \in Queued
    BY <1>0, <1>3, RunHeadEffect DEF RunConnectEstablished, Queued
  <2>2. Untouched
    BY <1>0, <2>1 DEF Established
  <2>3. /\ ~closed /\ downs = 0 /\ removals = 0 /\ revents = {} /\ index = "kNew"
    BY <2>2 DEF Untouched
  <2>4. /\ state' = "kConnected" /\ "in" \in events' /\ index' = "kAdded"
        /\ UNCHANGED <<revents, removals, downs, closed, reopened, serving, serverMap>>
        /\ lpc' = lpc /\ ~RunConnectDestroyed
    BY <1>3, <2>3 DEF RunConnectEstablished, Update, RunHead, RunConnectDestroyed
  <2>5. "connectDestroyed" \in Queued' => downs' >= 1 \/ ~serving'
    BY <1>0, <2>4, DestroyComesAfter
  <2>6. Watched' /\ Reported'
    BY <2>3, <2>4, <2>5 DEF Watched, Reported
  <2>7. Removed'
    BY <1>0, <2>3, <2>4, DestroyStaysQueued DEF Removed
  <2>. QED
    BY <2>6, <2>7
<1>4. CASE RunConnectDestroyed
  <2>1. /\ lpc = "functors" /\ lpc' = "functors" /\ revents' = revents
        /\ index' = "kNew" /\ closed' = TRUE
        /\ UNCHANGED <<removals, serving, serverMap, reopened>>
    BY <1>4 DEF RunConnectDestroyed, RunHead
  <2>2. revents = {} /\ state # "kConnecting"
    <3>1. state # "kConnecting"
      BY <1>0, <1>4 DEF RunConnectDestroyed, RunHead, Established, Untouched, FirstOf
    <3>. QED
      BY <1>0, <2>1, <3>1 DEF Watched
  <2>3. downs >= 1 \/ ~serving
    <3>1. "connectDestroyed" \in Queued
      BY <1>0, <1>4, RunHeadEffect DEF RunConnectDestroyed, Queued
    <3>. QED
      BY <1>0, <3>1 DEF Reported
  <2>4. CASE state = "kConnected"
    <3>1. state' = "kDisconnected" /\ downs' = downs + 1 /\ downs = 0
      BY <1>0, <1>4, <2>4 DEF RunConnectDestroyed, Reported
    <3>. QED
      BY <2>1, <2>2, <3>1 DEF Watched, Reported, Removed
  <2>5. CASE state # "kConnected"
    <3>1. UNCHANGED <<state, downs>>
      BY <1>4, <2>5 DEF RunConnectDestroyed
    <3>. QED
      BY <1>0, <2>1, <2>2, <2>3, <2>5, <3>1 DEF Watched, Reported, Removed
  <2>. QED
    BY <2>4, <2>5
<1>5. CASE RemoveConnectionInLoop
  <2>1. /\ removals' \in Nat
        /\ UNCHANGED <<state, events, index, revents, lpc, downs, closed, reopened, serving>>
    BY <1>0, <1>5 DEF RemoveConnectionInLoop
  <2>2. downs >= 1
    BY <1>0, <1>5 DEF RemoveConnectionInLoop, Reported
  <2>3. "connectDestroyed" \in Queued'
    BY <1>0, <1>5, DestroyFunctor, QueueEffect DEF RemoveConnectionInLoop, Queued
  <2>. QED
    BY <1>0, <2>1, <2>2, <2>3 DEF Watched, Reported, Removed
<1>6. CASE ServerStop
  <2>1. /\ UNCHANGED <<state, events, index, revents, lpc, removals, downs, closed, reopened>>
        /\ serving' = FALSE
    BY <1>6 DEF ServerStop
  <2>2. CASE serverMap
    <3>1. "connectDestroyed" \in Queued'
      BY <1>0, <1>6, <2>2, DestroyFunctor, QueueEffect DEF ServerStop, Queued
    <3>. QED
      BY <1>0, <2>1, <3>1 DEF Watched, Reported, Removed
  <2>3. CASE ~serverMap
    <3>1. UNCHANGED functors
      BY <1>6 DEF ServerStop
    <3>2. "connectDestroyed" \in Queued => "connectDestroyed" \in Queued'
      <4>1. Queue(<<>>)
        BY <1>6, <2>3 DEF ServerStop
      <4>2. OpsIn(pendingFunctors') = OpsIn(pendingFunctors) \cup OpsIn(<<>>)
        BY <1>0, <4>1, Callbacks, QueueEffect
      <4>. QED
        BY <3>1, <4>2 DEF Queued
    <3>. QED
      BY <1>0, <2>1, <2>3, <3>2 DEF Watched, Reported, Removed
  <2>. QED
    BY <2>2, <2>3
<1>7. ASSUME state # "kConnecting", state' = "kDisconnecting", state # "kConnected" \/ ~closed,
             UNCHANGED <<events, index, revents, removals, downs, closed, reopened>>,
             UNCHANGED <<lpc, queues, serving, serverMap>>
      PROVE  Watched' /\ Reported' /\ Removed'
  <2>1. Watched'
    BY <1>0, <1>7 DEF Watched
  <2>2. Queued' = Queued
    BY <1>7 DEF Queued
  <2>. QED
    BY <1>0, <1>7, <2>1, <2>2 DEF Reported, Removed
<1>8. CASE LoopShutdown
  <2>1. state = "kConnected" /\ ~closed
    BY <1>0, <1>8 DEF LoopShutdown, InUserCode, Reported
  <2>. QED
    BY <1>7, <1>8, <2>1 DEF LoopShutdown
<1>9. ASSUME NEW t \in Sharers, ShutdownStore(t)
      PROVE  Watched' /\ Reported' /\ Removed'
  <2>1. state # "kConnecting"
    BY <1>0, <1>9 DEF ShutdownStore, Established, Untouched
  <2>2. state # "kConnected" \/ ~closed
    BY <1>0 DEF Reported
  <2>. QED
    BY <1>7, <1>9, <2>1, <2>2 DEF ShutdownStore, OnlyUserMoves
<1>10. CASE \/ LoopSendFile \/ SwapFunctors \/ EndFunctors \/ RunShutdown
            \/ RunSendFile \/ RunCallback \/ PeerClose \/ PeerReset \/ UNCHANGED vars
  <2>1. UNCHANGED EndFields /\ UNCHANGED <<serving, serverMap>>
    BY <1>10 DEF EndFields, LoopSendFile, SwapFunctors, EndFunctors, RunShutdown,
       RunSendFile, RunCallback, PeerClose, PeerReset, vars, OnlyLoopMoves, RunHead
  <2>2. lpc' = lpc \/ revents' = {}
    BY <1>0, <1>10, <2>1 DEF LoopSendFile, SwapFunctors, EndFunctors, RunShutdown,
       RunSendFile, RunCallback, PeerClose, PeerReset, vars, OnlyLoopMoves, RunHead,
       Watched, EndFields
  <2>3. CASE ~RunConnectDestroyed
    BY <2>1, <2>2, <2>3, EndUnchanged
  <2>. QED
    BY <1>4, <2>3
<1>11. ASSUME NEW t \in Sharers,
              \/ SendTest(t) \/ SendFileTest(t) \/ ShutdownTest(t) \/ CallPush(t)
              \/ Release(t) \/ \E k \in 1..MaxSends : ChangeString(t, k)
       PROVE  Watched' /\ Reported' /\ Removed'
  <2>1. UNCHANGED EndFields /\ UNCHANGED <<serving, serverMap, lpc>>
    BY <1>11 DEF EndFields, SendTest, SendFileTest, ShutdownTest, CallPush, Release,
       ChangeString, OnlyUserMoves, BeginCall
  <2>2. CASE ~RunConnectDestroyed
    BY <2>1, <2>2, EndUnchanged
  <2>. QED
    BY <1>4, <2>2
<1>. QED
  BY <1>1, <1>2, <1>3, <1>4, <1>5, <1>6, <1>8, <1>9, <1>10, <1>11
     DEF Next, UserOnLoop, SharerStep, LoopRuns, RunFunctor

(* Ending holds in every state.                                             *)
LEMMA EndingAlways == SafeSpec => []Ending
<1>1. Init => Ending
  <2> SUFFICES ASSUME Init PROVE Ending
    OBVIOUS
  <2>1. Queued = {"connectEstablished"}
    BY NoData, OneFunctor, Callbacks DEF Init, OwningOps, Queued
  <2>2. Watched /\ Reported /\ Removed
    BY <2>1 DEF Init, Watched, Reported, Removed
  <2>. QED
    BY <2>2, TypeInit, EstablishedInit DEF Ending
<1>. QED
  BY <1>1, EndingStep, PTL DEF SafeSpec

(* Whoever ends the connection, handleClose, the main loop or ~TcpServer,  *)
(* and whatever other threads call meanwhile: its user is told DOWN once,  *)
(* but for a connection that was half closed when the server was           *)
(* destroyed, and a channel that a late send has watched again.            *)
THEOREM DownOnce == SafeSpec => []DownReportedOnce
<1>1. Ending => DownReportedOnce
  <2> SUFFICES ASSUME Ending PROVE DownReportedOnce
    OBVIOUS
  <2>1. state \in States /\ downs \in Nat /\ serving \in BOOLEAN
    BY DEF Ending, Typed, TypeOK
  <2>. QED
    BY <2>1 DEF Ending, Reported, DownReportedOnce, States
<1>. QED
  BY <1>1, EndingAlways, PTL

(* The object goes only after connectDestroyed has taken its channel out   *)
(* of the poller, on every way a connection can end and whoever holds the  *)
(* last pointer, unless a late send has watched the channel again.         *)
THEOREM FreedOutOfPoller == SafeSpec => []FreedWhenRemoved
<1>1. Ending => FreedWhenRemoved
  <2> SUFFICES ASSUME Ending, ~Owned, ~reopened PROVE index = "kNew"
    BY DEF FreedWhenRemoved
  <2>1. ~serverMap /\ "connectDestroyed" \notin Queued
    BY DEF Owned, Queued, OpsIn, OwningOps
  <2>. QED
    BY <2>1 DEF Ending, Removed
<1>. QED
  BY <1>1, EndingAlways, PTL

-----------------------------------------------------------------------------
(* Without other threads no functor is bound to a bare `this`.              *)
OnlyBoundOwning == Queued \cap RawOps = {}

(* Without other threads none is queued, so none runs.                      *)
LEMMA NoRawFunctors ==
  ASSUME Sharers = {}, Typed, OnlyBoundOwning, [Next]_vars
  PROVE  /\ OnlyBoundOwning'
         /\ ~RunSend /\ ~RunShutdown
<1>1. OnlyBoundOwning'
  BY NewlyQueued DEF OnlyBoundOwning, RawOps, MayQueue
<1>2. ~RunSend /\ ~RunShutdown
  BY RunHeadEffect DEF RunSend, RunShutdown, OnlyBoundOwning, Queued, RawOps, Typed
<1>. QED
  BY <1>1, <1>2

(* Without sendFile and other threads: what was sent before shutdown() was *)
(* accepted by then, and shutdown() promised no more.                      *)
BeforeShutdown == state \in {"kConnecting", "kConnected"}

Promise ==
  /\ BeforeShutdown => ~finSent /\ promised = {}
  /\ (BeforeShutdown /\ peer # "reset") =>
       \A u \in Message \X (1..Length) :
         u[1][2] <= sent[u[1][1]] => In(u, accepted)
  /\ (~closed /\ peer # "reset") => \A u \in promised : In(u, accepted)

(* A unit is one of those of its message.                                   *)
LEMMA UnitOfItsMessage ==
  ASSUME NEW u \in Message \X (1..Length)
  PROVE  /\ u[1] \in Message /\ u[1] = <<u[1][1], u[1][2]>>
         /\ u[1][1] \in Threads /\ u[1][2] \in 1..MaxSends
         /\ In(u, Units(u[1]))
<1>1. /\ u[1] \in Message /\ u[2] \in 1..Length /\ u = <<u[1], u[2]>>
  OBVIOUS
<1>2. /\ u[1] = <<u[1][1], u[1][2]>>
      /\ u[1][1] \in Threads /\ u[1][2] \in 1..MaxSends
  BY <1>1 DEF Message
<1>3. /\ Len(Units(u[1])) = Length /\ Units(u[1])[u[2]] = u
  BY <1>1, UnitsOfMessage DEF Units
<1>. QED
  BY <1>1, <1>2, <1>3 DEF In

(* What the loop took charge of is never forgotten.                         *)
LEMMA AcceptedGrows ==
  ASSUME Typed, [Next]_vars, NEW u, In(u, accepted)
  PROVE  In(u, accepted')
<1> USE DEF channel, queues, loop, strings, users, server, kernel, history
<1>0. TypeOK
  BY DEF Typed
<1>1. ASSUME NEW data \in Seq(Unit), accepted' = accepted \o data
      PROVE  In(u, accepted')
  BY <1>0, <1>1, InConcat DEF TypeOK
<1>2. CASE LoopSend \/ RunSend
  <2>1. PICK data, bytes \in Seq(Unit) : SendInLoop(data, bytes)
    BY <1>0, <1>2, SendCalls
  <2>. QED
    BY <1>0, <1>1, <2>1, SendInLoopBytes DEF TakenCharge, Dropped
<1>3. CASE LoopSendFile
  <2>1. Units(NextMessage(LoopThread)) \in Seq(Unit)
    BY <1>0, <1>3, UnitsOfCall DEF LoopSendFile, Threads
  <2>. QED
    BY <1>1, <1>3, <2>1 DEF LoopSendFile
<1>5. CASE RunSendFile
  <2>1. Head(functors).data \in Seq(Unit)
    BY <1>0, <1>5, RunHeadEffect DEF RunSendFile
  <2>. QED
    BY <1>1, <1>5, <2>1 DEF RunSendFile
<1>6. CASE ~(LoopSend \/ LoopSendFile \/ RunSend \/ RunSendFile)
  <2>1. UNCHANGED accepted
    BY <1>6 DEF Next, UserOnLoop, LoopShutdown, SharerStep,
       SendTest, SendFileTest, ShutdownTest, ShutdownStore, CallPush, ChangeString, Release,
       OnlyUserMoves, LoopRuns, Poll, SwapFunctors, EndFunctors, OnlyLoopMoves,
       HandleEvent, EventHup, EventErr, EventIn, EventOut,
       RunFunctor, RunConnectEstablished, RunShutdown,
       RunCallback, RunConnectDestroyed, RemoveConnectionInLoop, ServerStop,
       PeerClose, PeerReset, vars
  <2>. QED
    BY <2>1
<1>. QED
  BY <1>2, <1>3, <1>5, <1>6

(* Every step preserves Promise.                                            *)
LEMMA PromiseStep ==
  ASSUME Sharers = {}, ~UsesSendFile, Typed, Established, OnlyBoundOwning, Promise,
         [Next]_vars
  PROVE  Promise'
<1> USE DEF channel, queues, loop, strings, users, server, kernel, history
<1>0. TypeOK /\ Threads = {LoopThread}
  BY DEF Typed, Threads
<1>1. ASSUME BeforeShutdown' => BeforeShutdown,
             BeforeShutdown' => UNCHANGED finSent,
             ~closed' => ~closed, peer' # "reset" => peer # "reset",
             UNCHANGED <<sent, promised>>
      PROVE  Promise'
  BY <1>1, AcceptedGrows DEF Promise
<1>2. CASE LoopSend
  <2>1. /\ state = "kConnected" /\ CountSend(LoopThread)
        /\ SendInLoop(Units(NextMessage(LoopThread)), Units(NextMessage(LoopThread)))
        /\ UNCHANGED <<state, finSent, peer, promised, closed>>
    BY <1>2 DEF LoopSend, InUserCode
  <2>2. /\ sent' = [sent EXCEPT ![LoopThread] = sent[LoopThread] + 1]
        /\ Units(NextMessage(LoopThread)) \in Seq(Unit)
    BY <1>0, <2>1, UnitsOfCall
  <2>3. ~finSent
    BY <2>1 DEF Promise, BeforeShutdown
  <2>4. ASSUME peer # "reset", NEW u \in Message \X (1..Length), u[1][2] <= sent'[u[1][1]]
        PROVE  In(u, accepted')
    <3>1. /\ u[1] = <<LoopThread, u[1][2]>> /\ u[1][2] \in 1..MaxSends
          /\ In(u, Units(u[1])) /\ u[1][1] = LoopThread
      BY <1>0, UnitOfItsMessage
    <3>2. sent[LoopThread] \in Nat /\ u[1][2] <= sent[LoopThread] + 1
      BY <1>0, <2>2, <2>4, <3>1 DEF TypeOK
    <3>3. CASE u[1][2] <= sent[LoopThread]
      <4>1. In(u, accepted)
        BY <2>1, <2>4, <3>1, <3>3 DEF Promise, BeforeShutdown
      <4>. QED
        BY <4>1, AcceptedGrows
    <3>4. CASE ~(u[1][2] <= sent[LoopThread])
      <4>1. u[1][2] = sent[LoopThread] + 1
        BY <3>1, <3>2, <3>4
      <4>2. u[1] = NextMessage(LoopThread)
        BY <3>1, <4>1 DEF NextMessage
      <4>3. CanWrite
        BY <2>3, <2>4 DEF CanWrite
      <4>4. accepted' = accepted \o Units(NextMessage(LoopThread))
        BY <2>1, <4>3 DEF SendInLoop
      <4>5. In(u, Units(NextMessage(LoopThread)))
        BY <3>1, <4>2
      <4>. QED
        BY <1>0, <2>2, <4>4, <4>5, InConcat DEF TypeOK
    <3>. QED
      BY <3>3, <3>4
  <2>. QED
    BY <2>1, <2>3, <2>4, AcceptedGrows DEF Promise, BeforeShutdown
<1>3. CASE LoopShutdown
  <2>1. /\ state = "kConnected" /\ state' = "kDisconnecting"
        /\ promised' = {u \in Message \X (1..Length) : u[1][1] = LoopThread /\ u[1][2] <= sent[LoopThread]}
        /\ UNCHANGED <<peer, accepted>>
    BY <1>3 DEF LoopShutdown, InUserCode, PromiseSends
  <2>2. peer # "reset" => \A u \in promised' : In(u, accepted)
    BY <2>1 DEF Promise, BeforeShutdown
  <2>. QED
    BY <2>1, <2>2 DEF Promise, BeforeShutdown
<1>4. CASE EventHup \/ EventIn \/ RunConnectDestroyed
  BY <1>1, <1>4 DEF EventHup, EventIn, HandleClose, NoClose, RunConnectDestroyed,
     BeforeShutdown
<1>5. CASE RunConnectEstablished
  <2>1. "connectEstablished" \in Queued
    BY <1>0, <1>5, RunHeadEffect DEF RunConnectEstablished, Queued
  <2>2. state = "kConnecting"
    BY <2>1 DEF Established
  <2>. QED
    BY <1>1, <1>5, <2>2 DEF RunConnectEstablished, BeforeShutdown
<1>6. CASE EventOut
  <2>1. /\ UNCHANGED <<state, closed, peer, sent, promised>>
        /\ UNCHANGED finSent \/ finSent' = (finSent \/ state = "kDisconnecting")
    BY <1>6 DEF EventOut, Drained
  <2>2. BeforeShutdown => UNCHANGED finSent
    BY <1>0, <2>1 DEF BeforeShutdown, TypeOK
  <2>. QED
    BY <1>1, <2>1, <2>2 DEF BeforeShutdown
<1>7. CASE PeerClose \/ PeerReset
  BY <1>1, <1>7 DEF PeerClose, PeerReset, BeforeShutdown
<1>8. CASE RunSend \/ RunShutdown \/ LoopSendFile \/ \E t \in Sharers : SharerStep(t)
  BY <1>8, NoRawFunctors DEF LoopSendFile
<1>9. CASE \/ Poll \/ EventErr \/ SwapFunctors \/ EndFunctors \/ RunSendFile
           \/ RunCallback \/ RemoveConnectionInLoop \/ ServerStop \/ UNCHANGED vars
  <2>1. UNCHANGED <<state, finSent, closed, peer, sent, promised>>
    BY <1>9 DEF Poll, EventErr, SwapFunctors, EndFunctors, RunSendFile, RunCallback,
       RemoveConnectionInLoop, ServerStop, vars, OnlyLoopMoves, NoClose
  <2>. QED
    BY <1>1, <2>1 DEF BeforeShutdown
<1>. QED
  BY <1>2, <1>3, <1>4, <1>5, <1>6, <1>7, <1>8, <1>9
     DEF Next, UserOnLoop, LoopRuns, HandleEvent, RunFunctor

(* send() and then shutdown(), by the loop on a connection it does not     *)
(* share: unless the peer resets it, the peer gets the message before the  *)
(* FIN.                                                                    *)
THEOREM PromisesKept ==
  ASSUME Sharers = {}, ~UsesSendFile
  PROVE  SafeSpec => []PromiseKept
<1>1. Init => OnlyBoundOwning /\ Promise
  <2> SUFFICES ASSUME Init PROVE OnlyBoundOwning /\ Promise
    OBVIOUS
  <2>1. Queued = {"connectEstablished"}
    BY NoData, OneFunctor, Callbacks DEF Init, OwningOps, Queued
  <2>2. ASSUME NEW u \in Message \X (1..Length) PROVE ~(u[1][2] <= sent[u[1][1]])
    <3>1. u[1][1] \in Threads /\ u[1][2] \in 1..MaxSends
      BY UnitOfItsMessage
    <3>2. sent[u[1][1]] = 0
      BY <3>1 DEF Init
    <3>. QED
      BY <3>1, <3>2
  <2>. QED
    BY <2>1, <2>2 DEF Init, OnlyBoundOwning, RawOps, Promise
<1>2. Typed /\ Established /\ OnlyBoundOwning /\ Promise /\ [Next]_vars =>
        OnlyBoundOwning' /\ Promise'
  BY PromiseStep, NoRawFunctors
<1>3. Typed /\ Promise /\ FinAfterOutput /\ StreamInOrder /\ ~filed /\ FlushedAtFin
        => PromiseKept
  <2> SUFFICES ASSUME Typed, Promise, FinAfterOutput, StreamInOrder, ~filed, FlushedAtFin,
                      finSent, ~closed, peer # "reset",
                      NEW u \in promised, u[1] \notin changed
               PROVE  \E i \in 1..Len(wire) : wire[i] = u
    BY DEF PromiseKept
  <2>1. PICK i \in 1..Len(accepted) : accepted[i] = u
    BY DEF Promise, In
  <2>2. outputBuffer = <<>> /\ wire \in Seq(Unit) /\ Len(wire) = Len(accepted)
    BY DEF FlushedAtFin, FinAfterOutput, Typed, TypeOK
  <2>3. Output = wire
    BY <2>2, ConcatEmptySeq DEF Output
  <2>4. i \in 1..Len(wire) /\ wire[i] = u
    BY <2>1, <2>2, <2>3 DEF StreamInOrder
  <2>. QED
    BY <2>4
<1>4. Init => ~filed
  BY DEF Init
<1>5. Typed /\ ~filed /\ [Next]_vars => ~filed'
  BY DEF Next, UserOnLoop, LoopSend, LoopSendFile, LoopShutdown, SharerStep,
     SendTest, SendFileTest, ShutdownTest, ShutdownStore, CallPush, ChangeString,
     Release, LoopRuns, Poll, SwapFunctors, EndFunctors, OnlyLoopMoves,
     HandleEvent, EventHup, EventErr, EventIn, EventOut,
     RunFunctor, RunConnectEstablished, RunSend, RunShutdown, RunSendFile,
     RunCallback, RunConnectDestroyed, RemoveConnectionInLoop, ServerStop,
     PeerClose, PeerReset, vars, users, strings
<1>. QED
  BY <1>1, <1>2, <1>3, <1>4, <1>5, EstablishedAlways, FinFollowsOutput,
     OutputInOrder, FlushedAlways, PTL DEF SafeSpec

-----------------------------------------------------------------------------
-----------------------------------------------------------------------------
(* The functors in a queue.                                                *)
FunctorsIn(q) == {q[i] : i \in 1..Len(q)}

(* The functors of a queue with another one behind it.                      *)
LEMMA FunctorsConcat ==
  ASSUME NEW q \in Seq(Functor), NEW r \in Seq(Functor)
  PROVE  FunctorsIn(q \o r) = FunctorsIn(q) \cup FunctorsIn(r)
<1>1. /\ Len(q \o r) = Len(q) + Len(r)
      /\ \A i \in 1..(Len(q) + Len(r)) :
           (q \o r)[i] = IF i <= Len(q) THEN q[i] ELSE r[i - Len(q)]
  BY ConcatProperties
<1>2. \A i \in 1..Len(q) : i \in 1..Len(q \o r) /\ (q \o r)[i] = q[i]
  BY <1>1
<1>3. \A i \in 1..Len(r) :
        i + Len(q) \in 1..Len(q \o r) /\ (q \o r)[i + Len(q)] = r[i]
  BY <1>1
<1>4. \A i \in 1..Len(q \o r) :
        \/ i \in 1..Len(q) /\ (q \o r)[i] = q[i]
        \/ i - Len(q) \in 1..Len(r) /\ (q \o r)[i] = r[i - Len(q)]
  BY <1>1
<1>5. FunctorsIn(q) \cup FunctorsIn(r) \subseteq FunctorsIn(q \o r)
  BY <1>2, <1>3 DEF FunctorsIn
<1>6. FunctorsIn(q \o r) \subseteq FunctorsIn(q) \cup FunctorsIn(r)
  BY <1>4 DEF FunctorsIn
<1>. QED
  BY <1>5, <1>6

(* Those behind the head of a queue were in it.                             *)
LEMMA FunctorsTail ==
  ASSUME NEW q \in Seq(Functor), q # <<>>
  PROVE  FunctorsIn(Tail(q)) \subseteq FunctorsIn(q) /\ Head(q) \in FunctorsIn(q)
<1>1. /\ Len(Tail(q)) = Len(q) - 1 /\ Head(q) = q[1] /\ Len(q) \in Nat \ {0}
      /\ \A j \in 1..Len(Tail(q)) : Tail(q)[j] = q[j + 1]
  BY HeadTailProperties, EmptySeq
<1>2. \A i \in 1..Len(Tail(q)) : i + 1 \in 1..Len(q)
  BY <1>1
<1>. QED
  BY <1>1, <1>2 DEF FunctorsIn

(* The functors bound to a bare `this` that are queued.                    *)
Raw(q) == {f \in FunctorsIn(q) : f.op \in RawOps}

RawQueued == Raw(pendingFunctors) \cup Raw(functors)

(* A push of other functors adds none.                                      *)
LEMMA QueueOwning ==
  ASSUME TypeOK, NEW fs \in Seq(Functor), Queue(fs), OpsIn(fs) \cap RawOps = {}
  PROVE  Raw(pendingFunctors') = Raw(pendingFunctors)
<1>1. pendingFunctors \in Seq(Functor) /\ pendingFunctors' = pendingFunctors \o fs
  BY DEF TypeOK, Queue
<1>2. FunctorsIn(pendingFunctors \o fs) = FunctorsIn(pendingFunctors) \cup FunctorsIn(fs)
  BY <1>1, FunctorsConcat
<1>3. Raw(fs) = {}
  BY DEF Raw, FunctorsIn, OpsIn
<1>. QED
  BY <1>1, <1>2, <1>3 DEF Raw

(* What the loop itself queues is owned.                                    *)
LEMMA LoopQueuesOwning ==
  ASSUME TypeOK,
         \/ \E data, bytes \in Seq(Unit) : SendInLoop(data, bytes)
         \/ \E data \in Seq(Unit) : SendFileInLoop(data)
         \/ Drained
  PROVE  Raw(pendingFunctors') = Raw(pendingFunctors)
<1>1. \/ UNCHANGED pendingFunctors
      \/ \E fs \in {<<Bind("callback", <<>>)>>, WriteComplete, <<>>} : Queue(fs)
      \/ \E rest \in Seq(Unit) : Queue(<<Bind("sendFileRest", rest)>>)
  <2>1. ASSUME NEW data \in Seq(Unit), SendFileInLoop(data)
        PROVE  \/ UNCHANGED pendingFunctors
               \/ Queue(WriteComplete)
               \/ \E rest \in Seq(Unit) : Queue(<<Bind("sendFileRest", rest)>>)
    <3>1. \A n \in 0..Len(data) : SubSeq(data, n + 1, Len(data)) \in Seq(Unit)
      BY CutInTwo
    <3>. QED
      BY <2>1, <3>1 DEF SendFileInLoop
  <2>2. ASSUME NEW data \in Seq(Unit), NEW bytes \in Seq(Unit), SendInLoop(data, bytes)
        PROVE  \/ UNCHANGED pendingFunctors
               \/ \E fs \in {<<Bind("callback", <<>>)>>, WriteComplete, <<>>} : Queue(fs)
    BY <2>2 DEF SendInLoop, AcceptAll, KeepRest
  <2>. QED
    BY <2>1, <2>2 DEF Drained
<1>2. ASSUME NEW fs \in {<<Bind("callback", <<>>)>>, WriteComplete, <<>>}, Queue(fs)
      PROVE  Raw(pendingFunctors') = Raw(pendingFunctors)
  <2>1. fs \in Seq(Functor) /\ OpsIn(fs) \subseteq {"callback"}
    BY Callbacks
  <2>. QED
    BY <1>2, <2>1, QueueOwning DEF RawOps
<1>3. ASSUME NEW rest \in Seq(Unit), Queue(<<Bind("sendFileRest", rest)>>)
      PROVE  Raw(pendingFunctors') = Raw(pendingFunctors)
  <2>1. /\ <<Bind("sendFileRest", rest)>> \in Seq(Functor)
        /\ OpsIn(<<Bind("sendFileRest", rest)>>) = {"sendFileRest"}
    BY OneFunctor DEF OwningOps
  <2>. QED
    BY <1>3, <2>1, QueueOwning DEF RawOps
<1>. QED
  BY <1>1, <1>2, <1>3

(* Running a functor adds none that was not queued.                         *)
LEMMA RunRaw ==
  ASSUME TypeOK, NEW op, RunHead(op)
  PROVE  Raw(functors') \subseteq Raw(functors)
<1>1. functors \in Seq(Functor) /\ functors # <<>> /\ functors' = Tail(functors)
  BY DEF TypeOK, RunHead
<1>. QED
  BY <1>1, FunctorsTail DEF Raw

(* Only the push of another thread queues a functor bound to `this`.       *)
LEMMA NewRaw ==
  ASSUME Typed, [Next]_vars, ~\E t \in Sharers : CallPush(t)
  PROVE  RawQueued' \subseteq RawQueued
<1> USE DEF channel, queues, loop, strings, users, server, kernel, history, RawQueued
<1>0. TypeOK
  BY DEF Typed
<1>1. CASE UNCHANGED queues
  BY <1>1
<1>2. CASE LoopSend \/ RunSend
  <2>1. PICK data, bytes \in Seq(Unit) : SendInLoop(data, bytes)
    BY <1>0, <1>2, SendCalls
  <2>2. Raw(pendingFunctors') = Raw(pendingFunctors)
    BY <1>0, <2>1, LoopQueuesOwning
  <2>3. Raw(functors') \subseteq Raw(functors)
    BY <1>0, <1>2, RunRaw DEF LoopSend, RunSend
  <2>. QED
    BY <2>2, <2>3
<1>3. CASE LoopSendFile
  <2>1. Units(NextMessage(LoopThread)) \in Seq(Unit)
    BY <1>0, <1>3, UnitsOfCall DEF LoopSendFile, Threads
  <2>2. Raw(pendingFunctors') = Raw(pendingFunctors)
    BY <1>0, <1>3, <2>1, LoopQueuesOwning DEF LoopSendFile
  <2>. QED
    BY <1>3, <2>2 DEF LoopSendFile
<1>4. CASE RunSendFile
  <2>1. PICK op \in {"sendFile", "sendFileRest"} : RunHead(op)
    BY <1>4 DEF RunSendFile
  <2>2. Head(functors).data \in Seq(Unit) /\ Raw(functors') \subseteq Raw(functors)
    BY <1>0, <2>1, RunHeadEffect, RunRaw
  <2>3. Raw(pendingFunctors') = Raw(pendingFunctors)
    BY <1>0, <1>4, <2>2, LoopQueuesOwning DEF RunSendFile
  <2>. QED
    BY <2>2, <2>3
<1>5. CASE EventOut
  <2>1. UNCHANGED functors /\ (UNCHANGED pendingFunctors \/ Drained)
    BY <1>5 DEF EventOut
  <2>. QED
    BY <1>0, <2>1, LoopQueuesOwning
<1>6. CASE SwapFunctors
  <2>1. functors' = pendingFunctors /\ pendingFunctors' = <<>> /\ Raw(<<>>) = {}
    BY <1>6 DEF SwapFunctors, Raw, FunctorsIn
  <2>. QED
    BY <2>1
<1>8. CASE RunConnectEstablished \/ RunShutdown \/ RunCallback \/ RunConnectDestroyed
  BY <1>0, <1>8, RunRaw
     DEF RunConnectEstablished, RunShutdown, RunCallback, RunConnectDestroyed
<1>11. ASSUME NEW fs \in {<<Bind("connectDestroyed", <<>>)>>, <<>>}, Queue(fs),
              UNCHANGED functors
       PROVE  RawQueued' \subseteq RawQueued
  <2>1. fs \in Seq(Functor) /\ OpsIn(fs) \subseteq {"connectDestroyed"}
    BY DestroyFunctor, Callbacks
  <2>2. Raw(pendingFunctors') = Raw(pendingFunctors)
    BY <1>0, <1>11, <2>1, QueueOwning DEF RawOps
  <2>. QED
    BY <1>11, <2>2
<1>12. CASE RemoveConnectionInLoop \/ ServerStop
  BY <1>11, <1>12 DEF RemoveConnectionInLoop, ServerStop
<1>13. CASE \/ LoopShutdown \/ Poll \/ EventHup \/ EventErr \/ EventIn
            \/ EndFunctors \/ PeerClose \/ PeerReset \/ UNCHANGED vars
  BY <1>1, <1>13 DEF LoopShutdown, Poll, EventHup, EventErr, EventIn, EndFunctors,
     PeerClose, PeerReset, vars
<1>14. ASSUME NEW t \in Sharers, SharerStep(t)
       PROVE  UNCHANGED queues
  BY <1>14 DEF SharerStep, SendTest, SendFileTest, ShutdownTest, ShutdownStore, Release,
     ChangeString, OnlyUserMoves
<1>. QED
  BY <1>1, <1>2, <1>3, <1>4, <1>5, <1>6, <1>8, <1>12,
     <1>13, <1>14 DEF Next, UserOnLoop, LoopRuns, HandleEvent, RunFunctor

-----------------------------------------------------------------------------
(* A thread that is in a call, or whose call is queued, holds its pointer. *)
PointersKept ==
  /\ \A t \in Sharers : tpc[t] # "idle" => t \in holders
  /\ \A f \in RawQueued : f.from \in holders

(* Every step preserves PointersKept.                                       *)
LEMMA PointersKeptStep ==
  ASSUME KeepsPointer, Typed, Established, PointersKept, [Next]_vars
  PROVE  PointersKept'
<1> USE DEF channel, queues, loop, strings, users, server, kernel, history
<1>0. TypeOK /\ InCallCounted
  BY DEF Typed
<1>1. CASE UNCHANGED <<tpc, holders>> /\ ~\E t \in Sharers : CallPush(t)
  BY <1>1, NewRaw DEF PointersKept
<1>2. ASSUME NEW t \in Sharers, CallPush(t)
      PROVE  PointersKept'
  <2>1. PICK op \in {"sendInLoop", "sendFile", "shutdownInLoop"}, data \in Seq(Unit) :
          /\ Queue(<<BindBy(t, op, data)>>)
          /\ <<BindBy(t, op, data)>> \in Seq(Functor)
    BY <1>0, <1>2, CallPushQueues
  <2>2. /\ tpc[t] # "idle" /\ tpc' = [tpc EXCEPT ![t] = "idle"]
        /\ UNCHANGED <<holders, functors>>
    BY <1>2 DEF CallPush, Goto, OnlyUserMoves
  <2>3. t \in holders
    BY <2>2 DEF PointersKept
  <2>4. FunctorsIn(<<BindBy(t, op, data)>>) = {BindBy(t, op, data)}
    BY DEF FunctorsIn
  <2>5. FunctorsIn(pendingFunctors') = FunctorsIn(pendingFunctors) \cup {BindBy(t, op, data)}
    <3>1. pendingFunctors \in Seq(Functor)
      BY <1>0 DEF TypeOK
    <3>2. FunctorsIn(pendingFunctors \o <<BindBy(t, op, data)>>) =
            FunctorsIn(pendingFunctors) \cup FunctorsIn(<<BindBy(t, op, data)>>)
      BY <2>1, <3>1, FunctorsConcat
    <3>. QED
      BY <2>1, <2>4, <3>2 DEF Queue
  <2>6. BindBy(t, op, data).from = t
    BY DEF BindBy
  <2>7. \A f \in RawQueued' : f \in RawQueued \/ f.from = t
    BY <2>2, <2>5, <2>6 DEF RawQueued, Raw
  <2>8. \A f \in RawQueued' : f.from \in holders'
    BY <2>2, <2>3, <2>7 DEF PointersKept
  <2>9. \A u \in Sharers : tpc'[u] # "idle" => u \in holders'
    BY <1>0, <2>2 DEF PointersKept, TypeOK
  <2>. QED
    BY <2>8, <2>9 DEF PointersKept
<1>3. CASE RunConnectEstablished
  <2>1. "connectEstablished" \in Queued
    BY <1>0, <1>3, RunHeadEffect DEF RunConnectEstablished, Queued
  <2>2. Untouched
    BY <2>1 DEF Established
  <2>3. holders = {} /\ holders' = Sharers /\ tpc' = tpc
    BY <1>3, <2>2 DEF RunConnectEstablished, Untouched
  <2>4. ~\E t \in Sharers : CallPush(t)
    BY <2>2 DEF Untouched, CallPush
  <2>5. RawQueued' = {}
    BY <2>3, <2>4, NewRaw DEF PointersKept
  <2>. QED
    BY <2>3, <2>5 DEF PointersKept
<1>4. ASSUME NEW t \in Sharers, Release(t), ~\E u \in Sharers : CallPush(u)
      PROVE  PointersKept'
  <2>1. /\ tpc[t] = "idle" /\ tpc' = tpc /\ holders' = holders \ {t}
        /\ \A op \in RawOps : ~QueuedBy(t, op)
        /\ UNCHANGED queues
    BY <1>4 DEF Release, OnlyUserMoves
  <2>2. ASSUME NEW f \in RawQueued PROVE f.from # t
    <3>1. f.op \in RawOps /\ (f \in FunctorsIn(pendingFunctors) \/ f \in FunctorsIn(functors))
      BY DEF RawQueued, Raw
    <3>2. ~QueuedBy(t, f.op)
      BY <2>1, <3>1
    <3>. QED
      BY <3>1, <3>2 DEF QueuedBy, FunctorsIn
  <2>3. RawQueued' = RawQueued
    BY <2>1 DEF RawQueued
  <2>. QED
    BY <2>1, <2>2, <2>3 DEF PointersKept
<1>5. ASSUME NEW t \in Sharers,
             SendTest(t) \/ SendFileTest(t) \/ ShutdownTest(t) \/ ShutdownStore(t)
      PROVE  PointersKept'
  <2>1. /\ t \in holders /\ holders' = holders /\ UNCHANGED queues
        /\ \E pc \in {"send", "sendFile", "shutdown", "stored"} :
             tpc' = [tpc EXCEPT ![t] = pc]
    BY <1>5 DEF SendTest, SendFileTest, ShutdownTest, ShutdownStore, BeginCall,
       Goto, OnlyUserMoves, PointersKept
  <2>2. RawQueued' = RawQueued
    BY <2>1 DEF RawQueued
  <2>3. \A u \in Sharers : tpc'[u] # "idle" => u \in holders'
    BY <1>0, <2>1 DEF PointersKept, TypeOK
  <2>. QED
    BY <2>1, <2>2, <2>3 DEF PointersKept
<1>6. ASSUME NEW t \in Sharers, NEW k \in 1..MaxSends, ChangeString(t, k)
      PROVE  UNCHANGED <<tpc, holders>>
  BY <1>6 DEF ChangeString
<1>7. CASE UserOnLoop \/ LoopRuns \/ RemoveConnectionInLoop \/ ServerStop
           \/ PeerClose \/ PeerReset \/ UNCHANGED vars
  <2>1. CASE ~RunConnectEstablished
    <3>1. UNCHANGED <<tpc, holders>>
      BY <1>7, <2>1 DEF UserOnLoop, LoopSend, LoopSendFile, LoopShutdown, LoopRuns,
         RemoveConnectionInLoop, ServerStop,
         PeerClose, PeerReset, vars, Poll, HandleEvent, EventHup,
         EventErr, EventIn, EventOut, SwapFunctors, EndFunctors, OnlyLoopMoves,
         RunFunctor, RunSend, RunShutdown, RunSendFile, RunCallback, RunConnectDestroyed
    <3>. QED
      BY <1>1, <1>2, <3>1
  <2>. QED
    BY <1>3, <2>1
<1>. QED
  BY <1>1, <1>2, <1>4, <1>5, <1>6, <1>7 DEF Next, SharerStep

(* As long as every thread keeps its TcpConnectionPtr until the calls it   *)
(* made have run, a functor bound to a bare `this` never runs on a dead    *)
(* object: dropping it earlier is what it takes (run ConnDanglingThis).    *)
THEOREM NoDanglingIfKept ==
  ASSUME KeepsPointer
  PROVE  SafeSpec => []NoDanglingFunctor
<1>1. Init => PointersKept
  <2> SUFFICES ASSUME Init PROVE PointersKept
    OBVIOUS
  <2>1. Queued = {"connectEstablished"}
    BY NoData, OneFunctor, Callbacks DEF Init, OwningOps, Queued
  <2>2. RawQueued = {}
    BY <2>1 DEF RawQueued, Raw, FunctorsIn, Queued, OpsIn, RawOps
  <2>. QED
    BY <2>2 DEF Init, PointersKept
<1>2. Typed /\ PointersKept => NoDanglingFunctor
  <2> SUFFICES ASSUME Typed, PointersKept, AtHead(RawOps)
               PROVE  Owned
    BY DEF NoDanglingFunctor
  <2>1. functors \in Seq(Functor) /\ functors # <<>> /\ Head(functors).op \in RawOps
    BY DEF AtHead, Typed, TypeOK
  <2>2. Head(functors) \in RawQueued
    BY <2>1, FunctorsTail DEF RawQueued, Raw
  <2>. QED
    BY <2>2 DEF PointersKept, Owned
<1>. QED
  BY <1>1, <1>2, EstablishedAlways, PointersKeptStep, PTL DEF SafeSpec
=============================================================================
