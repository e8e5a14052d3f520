------------------------------- MODULE Buffer -------------------------------
(***************************************************************************)
(* The Buffer of a connection (src/include/Buffer.h, src/src/Buffer.cc):   *)
(* one array, two indices, and a reserve of kCheapPrepend bytes in front.  *)
(* An array is a sequence, so array[k] of the code is data[k + 1] here.    *)
(* A buffer is used by the thread of its loop only; every member function  *)
(* is one step.                                                            *)
(***************************************************************************)
EXTENDS Naturals, Sequences

CONSTANTS
  Byte,             \* values of a char
  Zero,             \* the char that vector::resize fills with
  kCheapPrepend,
  kInitialSize,
  ExtraSize,        \* sizeof(extrabuf) of readFd
  MaxReadable,      \* bound: bytes a buffer holds
  MaxChunk          \* bound: bytes in one append or read

ASSUME ByteAssumption == Zero \in Byte
ASSUME SizeAssumption ==
  /\ kCheapPrepend \in Nat /\ kInitialSize \in Nat /\ ExtraSize \in Nat
  /\ MaxReadable \in Nat /\ MaxChunk \in Nat

VARIABLES
  buffer,           \* [data |-> buffer_, r |-> readerIndex_, w |-> writerIndex_]
  call              \* history: the last call, as in ByteQueue

vars == <<buffer, call>>

-----------------------------------------------------------------------------
ReadableBytes(b) == b.w - b.r
WritableBytes(b) == Len(b.data) - b.w
PrependableBytes(b) == b.r

(* The bytes from peek() to beginWrite().                                  *)
Readable(b) == SubSeq(b.data, b.r + 1, b.w)

(* std::copy of s to index `at` of the array.                              *)
CopyTo(data, at, s) ==
  [i \in 1..Len(data) |->
     IF at < i /\ i <= at + Len(s) THEN s[i - at] ELSE data[i]]

Resize(data, n) ==
  [i \in 1..n |-> IF i <= Len(data) THEN data[i] ELSE Zero]

EmptyBuffer ==
  [data |-> [i \in 1..(kCheapPrepend + kInitialSize) |-> Zero],
   r |-> kCheapPrepend,
   w |-> kCheapPrepend]

MakeSpaceGreedy(b, len) ==
  [data |-> Resize(b.data, b.w + len), r |-> b.r, w |-> b.w]

MakeSpaceOverPrepend(b, len) ==
  IF WritableBytes(b) + PrependableBytes(b) < len
  THEN [data |-> Resize(b.data, b.w + len), r |-> b.r, w |-> b.w]
  ELSE [data |-> CopyTo(b.data, kCheapPrepend, Readable(b)),
        r |-> kCheapPrepend,
        w |-> kCheapPrepend + ReadableBytes(b)]

(* Grow the array, or move the readable bytes to its front.                *)
MakeSpace(b, len) ==
  IF WritableBytes(b) + PrependableBytes(b) < len + kCheapPrepend
  THEN [data |-> Resize(b.data, b.w + len), r |-> b.r, w |-> b.w]
  ELSE [data |-> CopyTo(b.data, kCheapPrepend, Readable(b)),
        r |-> kCheapPrepend,
        w |-> kCheapPrepend + ReadableBytes(b)]

EnsureWritable(b, len) ==
  IF WritableBytes(b) < len THEN MakeSpace(b, len) ELSE b

(* Copy s to beginWrite() and advance writerIndex_.                        *)
Write(b, s) ==
  [data |-> CopyTo(b.data, b.w, s), r |-> b.r, w |-> b.w + Len(s)]

Appended(b, s) == Write(EnsureWritable(b, Len(s)), s)

RetrievedAll(b) ==
  [data |-> b.data, r |-> kCheapPrepend, w |-> kCheapPrepend]

Retrieved(b, len) ==
  IF len < ReadableBytes(b)
  THEN [data |-> b.data, r |-> b.r + len, w |-> b.w]
  ELSE RetrievedAll(b)

(* readFd: what readv may return, and where it puts it: the writable part  *)
(* first, then extrabuf, which is appended.                                *)
ReadCapacity(b) ==
  IF WritableBytes(b) < ExtraSize THEN WritableBytes(b) + ExtraSize
                                  ELSE WritableBytes(b)

ReadIntoUncounted(b, s) ==
  IF Len(s) <= WritableBytes(b)
  THEN Write(b, s)
  ELSE Appended([Write(b, SubSeq(s, 1, WritableBytes(b))) EXCEPT !.w = b.w],
                SubSeq(s, WritableBytes(b) + 1, Len(s)))

ReadInto(b, s) ==
  IF Len(s) <= WritableBytes(b)
  THEN Write(b, s)
  ELSE Appended(Write(b, SubSeq(s, 1, WritableBytes(b))),
                SubSeq(s, WritableBytes(b) + 1, Len(s)))

-----------------------------------------------------------------------------
Called(op, s, n, out) == [op |-> op, stored |-> s, asked |-> n, given |-> out]

Init == buffer = EmptyBuffer /\ call = Called("none", <<>>, 0, <<>>)

Chunk == UNION {[1..n -> Byte] : n \in 0..MaxChunk}

Asked == 0..(MaxReadable + 1)

Fits(s) == ReadableBytes(buffer) + Len(s) <= MaxReadable

AppendBytes(s) ==
  /\ Fits(s)
  /\ buffer' = Appended(buffer, s)
  /\ call' = Called("put", s, 0, <<>>)

Retrieve(len) ==
  /\ buffer' = Retrieved(buffer, len)
  /\ call' = Called("drop", <<>>, len, <<>>)

(* len bytes from peek() on.                                               *)
FromPeek(len) == SubSeq(buffer.data, buffer.r + 1, buffer.r + len)

(* retrieveAsString copies len bytes without looking at readableBytes():   *)
(* its callers ask for no more than there is.                              *)
RetrieveAsString(len) ==
  /\ len <= ReadableBytes(buffer)
  /\ buffer' = Retrieved(buffer, len)
  /\ call' = Called("take", <<>>, len, FromPeek(len))

ReadFd(s) ==
  /\ Fits(s)
  /\ Len(s) <= ReadCapacity(buffer)
  /\ buffer' = ReadInto(buffer, s)
  /\ call' = Called("put", s, 0, <<>>)

(* The kernel takes the first n readable bytes; the caller retrieves them  *)
(* afterwards.                                                             *)
WriteFd(n) ==
  /\ n <= ReadableBytes(buffer)
  /\ call' = Called("show", <<>>, n, FromPeek(n))
  /\ UNCHANGED buffer

Next ==
  \/ \E s \in Chunk : AppendBytes(s) \/ ReadFd(s)
  \/ \E n \in Asked : Retrieve(n) \/ RetrieveAsString(n) \/ WriteFd(n)

Spec == Init /\ [][Next]_vars

-----------------------------------------------------------------------------
(* The buffers a program can have: 0 <= kCheapPrepend <= readerIndex_ <=   *)
(* writerIndex_ <= buffer_.size(), so that the unsigned differences of     *)
(* Buffer.h:28-30 never wrap and no copy leaves the array.                 *)
Buffers ==
  {b \in [data : Seq(Byte), r : Nat, w : Nat] :
     kCheapPrepend <= b.r /\ b.r <= b.w /\ b.w <= Len(b.data)}

Calls ==
  [op : {"none", "put", "drop", "take", "show"},
   stored : Seq(Byte), asked : Nat, given : Seq(Byte)]

TypeOK == buffer \in Buffers /\ call \in Calls

(* The array grows only when the readable bytes and the new ones do not    *)
(* fit behind the reserve: the space of retrieved bytes is used again      *)
(* (makeSpace, Buffer.h:91-112).                                           *)
GrowsOnlyWhenFull ==
  [][Len(buffer'.data) > Len(buffer.data)
       => kCheapPrepend + ReadableBytes(buffer') > Len(buffer.data)]_vars

(* The readable bytes are a queue: no operation reorders, loses or repeats *)
(* a byte, across growth, compaction and the detour through extrabuf       *)
(* (Buffer.h:36-77, 91-112, Buffer.cc:46-61).                              *)
Queue == INSTANCE ByteQueue WITH queue <- Readable(buffer)

ImplementsQueue == Queue!Spec
=============================================================================
