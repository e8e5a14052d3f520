----------------------------- MODULE BufferProofs -----------------------------
(***************************************************************************)
(* Proofs about Buffer, for every set of bytes, every size of the array,   *)
(* the reserve and extrabuf, and every bound: its indices stay ordered and *)
(* inside the array, and its readable bytes are a queue.                   *)
(***************************************************************************)
EXTENDS Buffer, SequenceTheorems, TLAPS

-----------------------------------------------------------------------------
(* Copying bytes into an array yields an array of the same length, with    *)
(* the bytes where they were copied to and the rest as it was.             *)
LEMMA CopyToArray ==
  ASSUME NEW d \in Seq(Byte), NEW at \in Nat, NEW s \in Seq(Byte)
  PROVE  /\ CopyTo(d, at, s) \in Seq(Byte)
         /\ Len(CopyTo(d, at, s)) = Len(d)
         /\ \A i \in 1..Len(d) :
              CopyTo(d, at, s)[i] =
                IF at < i /\ i <= at + Len(s) THEN s[i - at] ELSE d[i]
<1>1. \A i \in 1..Len(d) :
        (IF at < i /\ i <= at + Len(s) THEN s[i - at] ELSE d[i]) \in Byte
  BY ElementOfSeq
<1>2. CopyTo(d, at, s) \in [1..Len(d) -> Byte]
  BY <1>1 DEF CopyTo
<1>. QED
  BY <1>2 DEF CopyTo

(* Resizing keeps the bytes that were there.                               *)
LEMMA ResizedArray ==
  ASSUME NEW d \in Seq(Byte), NEW n \in Nat, Len(d) <= n
  PROVE  /\ Resize(d, n) \in Seq(Byte)
         /\ Len(Resize(d, n)) = n
         /\ \A i \in 1..Len(d) : Resize(d, n)[i] = d[i]
<1>1. Resize(d, n) \in [1..n -> Byte]
  BY ByteAssumption DEF Resize
<1>. QED
  BY <1>1 DEF Resize

(* The bytes of an array between two indices.                              *)
Stretch(d, r, w) == SubSeq(d, r + 1, w)

(* The bytes between two indices of an array, one by one.                  *)
LEMMA Between ==
  ASSUME NEW d \in Seq(Byte), NEW r \in Nat, NEW w \in Nat, r <= w, w <= Len(d)
  PROVE  /\ Stretch(d, r, w) \in Seq(Byte)
         /\ Len(Stretch(d, r, w)) = w - r
         /\ \A i \in 1..(w - r) : Stretch(d, r, w)[i] = d[r + i]
<1>1. \A i \in (r + 1)..w : d[i] \in Byte
  BY ElementOfSeq
<1>2. /\ SubSeq(d, r + 1, w) \in Seq(Byte)
      /\ Len(SubSeq(d, r + 1, w)) = IF r + 1 <= w THEN w - (r + 1) + 1 ELSE 0
      /\ \A i \in 1..(w - (r + 1) + 1) :
           SubSeq(d, r + 1, w)[i] = d[(r + 1) + i - 1]
  <2>1. r + 1 \in Int /\ w \in Int
    OBVIOUS
  <2>. QED
    BY <1>1, <2>1, SubSeqProperties
<1>3. Len(SubSeq(d, r + 1, w)) = w - r
  <2>1. CASE r + 1 <= w
    BY <1>2, <2>1
  <2>2. CASE ~(r + 1 <= w)
    BY <1>2, <2>2
  <2>. QED
    BY <2>1, <2>2
<1>4. ASSUME NEW i \in 1..(w - r)
      PROVE  SubSeq(d, r + 1, w)[i] = d[r + i]
  <2>1. i \in 1..(w - (r + 1) + 1) /\ (r + 1) + i - 1 = r + i
    OBVIOUS
  <2>. QED
    BY <1>2, <2>1
<1>. QED
  BY <1>2, <1>3, <1>4 DEF Stretch

(* Two arrays that agree between two indices.                             *)
LEMMA SameBetween ==
  ASSUME NEW d \in Seq(Byte), NEW e \in Seq(Byte),
         NEW r \in Nat, NEW w \in Nat, r <= w, w <= Len(d), w <= Len(e),
         \A i \in 1..(w - r) : d[r + i] = e[r + i]
  PROVE  Stretch(d, r, w) = Stretch(e, r, w)
<1>1. /\ Stretch(d, r, w) \in Seq(Byte)
      /\ Len(Stretch(d, r, w)) = w - r
      /\ \A i \in 1..(w - r) : Stretch(d, r, w)[i] = d[r + i]
  BY Between
<1>2. /\ Stretch(e, r, w) \in Seq(Byte)
      /\ Len(Stretch(e, r, w)) = w - r
      /\ \A i \in 1..(w - r) : Stretch(e, r, w)[i] = e[r + i]
  BY Between
<1>3. /\ Len(Stretch(d, r, w)) = Len(Stretch(e, r, w))
      /\ \A i \in 1..Len(Stretch(d, r, w)) :
           Stretch(d, r, w)[i] = Stretch(e, r, w)[i]
  BY <1>1, <1>2
<1>. QED
  BY <1>1, <1>2, <1>3, SeqEqual

(* Bytes copied to the end of a stretch of the array prolong it.           *)
LEMMA CopiedBehind ==
  ASSUME NEW d \in Seq(Byte), NEW r \in Nat, NEW w \in Nat, r <= w,
         NEW s \in Seq(Byte), w + Len(s) <= Len(d)
  PROVE  Stretch(CopyTo(d, w, s), r, w + Len(s)) = Stretch(d, r, w) \o s
<1> DEFINE e == CopyTo(d, w, s)
<1> DEFINE old == Stretch(d, r, w)
<1> DEFINE new == Stretch(e, r, w + Len(s))
<1>1. Len(s) \in Nat /\ Len(d) \in Nat /\ w <= Len(d) /\ r <= w + Len(s) /\ w + Len(s) \in Nat
  OBVIOUS
<1>2. /\ e \in Seq(Byte) /\ Len(e) = Len(d)
      /\ \A i \in 1..Len(d) :
           e[i] = IF w < i /\ i <= w + Len(s) THEN s[i - w] ELSE d[i]
  BY CopyToArray
<1>3. /\ old \in Seq(Byte) /\ Len(old) = w - r
      /\ \A i \in 1..(w - r) : old[i] = d[r + i]
  BY <1>1, Between, Zenon
<1> HIDE DEF e, old
<1>4. /\ new \in Seq(Byte) /\ Len(new) = (w + Len(s)) - r
      /\ \A i \in 1..((w + Len(s)) - r) : new[i] = e[r + i]
  <2>1. /\ e \in Seq(Byte) /\ r \in Nat /\ w + Len(s) \in Nat
        /\ r <= w + Len(s) /\ w + Len(s) <= Len(e)
    BY <1>1, <1>2
  <2>. QED
    BY <2>1, Between, Zenon
<1> HIDE DEF new
<1>5. /\ old \o s \in Seq(Byte)
      /\ Len(old \o s) = Len(old) + Len(s)
      /\ \A i \in 1..(Len(old) + Len(s)) :
           (old \o s)[i] = IF i <= Len(old) THEN old[i] ELSE s[i - Len(old)]
  BY <1>3, ConcatProperties
<1>6. ASSUME NEW i \in 1..((w + Len(s)) - r)
      PROVE  new[i] = (old \o s)[i]
  <2>1. r + i \in 1..Len(d) /\ i \in 1..(Len(old) + Len(s))
    BY <1>1, <1>3
  <2>2. new[i] = e[r + i]
    BY <1>4
  <2>3. e[r + i] = IF w < r + i THEN s[r + i - w] ELSE d[r + i]
    BY <1>1, <1>2, <2>1
  <2>4. CASE i <= w - r
    BY <1>3, <1>5, <2>1, <2>2, <2>3, <2>4
  <2>5. CASE ~(i <= w - r)
    <3>1. r + i - w = i - (w - r)
      OBVIOUS
    <3>. QED
      BY <1>3, <1>5, <2>1, <2>2, <2>3, <2>5, <3>1
  <2>. QED
    BY <2>4, <2>5
<1>7. Len(new) = (w + Len(s)) - r /\ Len(old \o s) = (w + Len(s)) - r
  BY <1>1, <1>3, <1>4, <1>5
<1>8. new = old \o s
  BY <1>4, <1>5, <1>6, <1>7, SeqEqual
<1>. QED
  BY <1>8 DEF new, old, e

-----------------------------------------------------------------------------
(* What is known of the parts of a buffer.                                 *)
LEMMA BufferParts ==
  ASSUME NEW b \in Buffers
  PROVE  /\ b.data \in Seq(Byte) /\ b.r \in Nat /\ b.w \in Nat
         /\ kCheapPrepend <= b.r /\ b.r <= b.w /\ b.w <= Len(b.data)
         /\ Len(b.data) \in Nat /\ kCheapPrepend \in Nat
BY SizeAssumption DEF Buffers

(* What makes a buffer.                                                    *)
LEMMA BufferFromParts ==
  ASSUME NEW d \in Seq(Byte), NEW r \in Nat, NEW w \in Nat,
         kCheapPrepend <= r, r <= w, w <= Len(d)
  PROVE  [data |-> d, r |-> r, w |-> w] \in Buffers
BY DEF Buffers

(* The readable bytes are a sequence of readableBytes() bytes.             *)
LEMMA ReadableSeq ==
  ASSUME NEW b \in Buffers
  PROVE  /\ Readable(b) \in Seq(Byte)
         /\ Len(Readable(b)) = ReadableBytes(b)
         /\ ReadableBytes(b) = b.w - b.r
         /\ ReadableBytes(b) \in Nat
<1>1. /\ Stretch(b.data, b.r, b.w) \in Seq(Byte)
      /\ Len(Stretch(b.data, b.r, b.w)) = b.w - b.r
  BY BufferParts, Between
<1>. QED
  BY <1>1, BufferParts DEF Readable, ReadableBytes, Stretch

(* Writing into the free space appends to the readable bytes.              *)
LEMMA WriteAppends ==
  ASSUME NEW b \in Buffers, NEW s \in Seq(Byte), Len(s) <= WritableBytes(b)
  PROVE  /\ Write(b, s) \in Buffers
         /\ Readable(Write(b, s)) = Readable(b) \o s
         /\ Len(Write(b, s).data) = Len(b.data)
         /\ WritableBytes(Write(b, s)) = WritableBytes(b) - Len(s)
<1>1. /\ b.data \in Seq(Byte) /\ b.r \in Nat /\ b.w \in Nat
      /\ kCheapPrepend <= b.r /\ b.r <= b.w /\ b.w <= Len(b.data)
      /\ Len(b.data) \in Nat /\ kCheapPrepend \in Nat
  BY BufferParts
<1>2. Len(s) \in Nat /\ b.w + Len(s) <= Len(b.data) /\ b.w + Len(s) \in Nat
  BY <1>1 DEF WritableBytes
<1>3. /\ CopyTo(b.data, b.w, s) \in Seq(Byte)
      /\ Len(CopyTo(b.data, b.w, s)) = Len(b.data)
  BY <1>1, CopyToArray
<1>4. Stretch(CopyTo(b.data, b.w, s), b.r, b.w + Len(s))
        = Stretch(b.data, b.r, b.w) \o s
  <2>1. /\ b.data \in Seq(Byte) /\ b.r \in Nat /\ b.w \in Nat
        /\ b.r <= b.w /\ b.w + Len(s) <= Len(b.data)
    BY <1>1, <1>2
  <2>. QED
    BY <2>1, CopiedBehind, Zenon
<1>5. Write(b, s) \in Buffers
  BY <1>1, <1>2, <1>3, BufferFromParts DEF Write
<1>6. /\ Write(b, s).data = CopyTo(b.data, b.w, s)
      /\ Write(b, s).r = b.r
      /\ Write(b, s).w = b.w + Len(s)
  BY DEF Write
<1>7. Readable(Write(b, s)) = Readable(b) \o s
  BY <1>4, <1>6 DEF Readable, Stretch
<1>8. WritableBytes(Write(b, s)) = WritableBytes(b) - Len(s)
  BY <1>1, <1>2, <1>3, <1>6 DEF WritableBytes
<1>. QED
  BY <1>3, <1>5, <1>6, <1>7, <1>8

(* makeSpace keeps the readable bytes, makes the room it was asked for, and*)
(* enlarges the array only when moving the bytes would not make the room.  *)
LEMMA MakeSpaceKeeps ==
  ASSUME NEW b \in Buffers, NEW len \in Nat, WritableBytes(b) < len
  PROVE  /\ MakeSpace(b, len) \in Buffers
         /\ Readable(MakeSpace(b, len)) = Readable(b)
         /\ len <= WritableBytes(MakeSpace(b, len))
         /\ \/ Len(MakeSpace(b, len).data) = Len(b.data)
            \/ kCheapPrepend + ReadableBytes(b) + len > Len(b.data)
<1>1. /\ b.data \in Seq(Byte) /\ b.r \in Nat /\ b.w \in Nat
      /\ kCheapPrepend <= b.r /\ b.r <= b.w /\ b.w <= Len(b.data)
      /\ Len(b.data) \in Nat /\ kCheapPrepend \in Nat
  BY BufferParts
<1>2. Len(b.data) - b.w < len
  BY DEF WritableBytes
<1> DEFINE d == b.data
<1> DEFINE r == b.r
<1> DEFINE w == b.w
<1>3. CASE WritableBytes(b) + PrependableBytes(b) < len + kCheapPrepend
  <2> DEFINE e == Resize(d, w + len)
  <2>1. /\ w + len \in Nat /\ Len(d) <= w + len /\ w <= w + len
    BY <1>1, <1>2
  <2>2. /\ e \in Seq(Byte) /\ Len(e) = w + len
        /\ \A i \in 1..Len(d) : e[i] = d[i]
    BY <1>1, <2>1, ResizedArray
  <2> HIDE DEF e
  <2>3. \A i \in 1..(w - r) : e[r + i] = d[r + i]
    <3>1. ASSUME NEW i \in 1..(w - r)
          PROVE  r + i \in 1..Len(d)
      BY <1>1
    <3>. QED
      BY <2>2, <3>1
  <2>4. Stretch(e, r, w) = Stretch(d, r, w)
    <3>1. /\ e \in Seq(Byte) /\ d \in Seq(Byte) /\ r \in Nat /\ w \in Nat
          /\ r <= w /\ w <= Len(e) /\ w <= Len(d)
      BY <1>1, <2>1, <2>2
    <3>. QED
      BY <2>3, <3>1, SameBetween, Zenon
  <2>5. /\ MakeSpace(b, len) = [data |-> e, r |-> r, w |-> w]
        /\ MakeSpace(b, len).data = e
        /\ MakeSpace(b, len).r = r
        /\ MakeSpace(b, len).w = w
    BY <1>3 DEF MakeSpace, e
  <2>6. MakeSpace(b, len) \in Buffers
    <3>1. /\ e \in Seq(Byte) /\ r \in Nat /\ w \in Nat
          /\ kCheapPrepend <= r /\ r <= w /\ w <= Len(e)
      BY <1>1, <2>1, <2>2
    <3>. QED
      BY <2>5, <3>1, BufferFromParts
  <2>7. kCheapPrepend + (w - r) + len > Len(d)
    BY <1>1, <1>3 DEF WritableBytes, PrependableBytes
  <2>8. Readable(MakeSpace(b, len)) = Readable(b)
    BY <2>4, <2>5 DEF Readable, Stretch
  <2>9. len <= WritableBytes(MakeSpace(b, len))
    BY <1>1, <2>2, <2>5 DEF WritableBytes
  <2>. QED
    BY <2>6, <2>7, <2>8, <2>9 DEF ReadableBytes
<1>4. CASE ~(WritableBytes(b) + PrependableBytes(b) < len + kCheapPrepend)
  <2> DEFINE s == Readable(b)
  <2> DEFINE e == CopyTo(d, kCheapPrepend, s)
  <2> DEFINE k == kCheapPrepend
  <2>1. s \in Seq(Byte) /\ Len(s) = w - r /\ ReadableBytes(b) = w - r
    BY ReadableSeq
  <2>2. k + (w - r) \in Nat /\ k <= k + (w - r) /\ k + (w - r) <= Len(d)
    BY <1>1
  <2> HIDE DEF s
  <2>3. e \in Seq(Byte) /\ Len(e) = Len(d)
    BY <1>1, <2>1, CopyToArray
  <2>4. Stretch(e, k, k + (w - r)) = Stretch(d, k, k) \o s
    <3>1. /\ d \in Seq(Byte) /\ k \in Nat /\ k <= k /\ s \in Seq(Byte)
          /\ k + Len(s) <= Len(d)
      BY <1>1, <2>1, <2>2
    <3>2. Stretch(e, k, k + Len(s)) = Stretch(d, k, k) \o s
      BY <3>1, CopiedBehind, Zenon
    <3>. QED
      BY <2>1, <3>2
  <2>5. Stretch(d, k, k) = <<>>
    BY <1>1, SubSeqEmpty DEF Stretch
  <2>6. Stretch(e, k, k + (w - r)) = s
    BY <2>1, <2>4, <2>5, ConcatEmptySeq
  <2> HIDE DEF e
  <2>7. /\ MakeSpace(b, len) = [data |-> e, r |-> k, w |-> k + (w - r)]
        /\ MakeSpace(b, len).data = e
        /\ MakeSpace(b, len).r = k
        /\ MakeSpace(b, len).w = k + (w - r)
    BY <1>4, <2>1 DEF MakeSpace, e, s
  <2>8. MakeSpace(b, len) \in Buffers
    <3>1. /\ e \in Seq(Byte) /\ k \in Nat /\ k + (w - r) \in Nat
          /\ kCheapPrepend <= k /\ k <= k + (w - r) /\ k + (w - r) <= Len(e)
      BY <1>1, <2>2, <2>3
    <3>2. [data |-> e, r |-> k, w |-> k + (w - r)] \in Buffers
      BY <3>1, BufferFromParts, Zenon
    <3>. QED
      BY <2>7, <3>2
  <2>9. len <= WritableBytes(MakeSpace(b, len))
    BY <1>1, <1>4, <2>3, <2>7 DEF WritableBytes, PrependableBytes
  <2>10. Readable(MakeSpace(b, len)) = Readable(b)
    BY <2>6, <2>7 DEF Readable, Stretch, s
  <2>. QED
    BY <2>3, <2>7, <2>8, <2>9, <2>10
<1>. QED
  BY <1>3, <1>4

(* append puts its bytes behind the readable ones, and enlarges the array  *)
(* only when they do not fit behind the reserve together.                  *)
LEMMA AppendedKeeps ==
  ASSUME NEW b \in Buffers, NEW s \in Seq(Byte)
  PROVE  /\ Appended(b, s) \in Buffers
         /\ Readable(Appended(b, s)) = Readable(b) \o s
         /\ \/ Len(Appended(b, s).data) = Len(b.data)
            \/ kCheapPrepend + ReadableBytes(b) + Len(s) > Len(b.data)
<1> DEFINE c == EnsureWritable(b, Len(s))
<1>1. Len(s) \in Nat /\ WritableBytes(b) \in Int
  BY BufferParts DEF WritableBytes
<1>2. /\ c \in Buffers /\ Readable(c) = Readable(b)
      /\ Len(s) <= WritableBytes(c)
      /\ \/ Len(c.data) = Len(b.data)
         \/ kCheapPrepend + ReadableBytes(b) + Len(s) > Len(b.data)
  <2>1. CASE WritableBytes(b) < Len(s)
    BY <1>1, <2>1, MakeSpaceKeeps DEF EnsureWritable
  <2>2. CASE ~(WritableBytes(b) < Len(s))
    BY <1>1, <2>2 DEF EnsureWritable
  <2>. QED
    BY <2>1, <2>2
<1> HIDE DEF c
<1>3. /\ Write(c, s) \in Buffers
      /\ Readable(Write(c, s)) = Readable(c) \o s
      /\ Len(Write(c, s).data) = Len(c.data)
  BY <1>2, WriteAppends
<1>4. Appended(b, s) = Write(c, s)
  BY DEF Appended, c
<1>. QED
  BY <1>2, <1>3, <1>4

(* retrieve drops bytes at the front of the readable ones, all of them when*)
(* it is asked for as many or more.                                        *)
LEMMA RetrievedDrops ==
  ASSUME NEW b \in Buffers, NEW n \in Nat
  PROVE  /\ Retrieved(b, n) \in Buffers
         /\ Readable(Retrieved(b, n)) =
              IF n < Len(Readable(b))
              THEN SubSeq(Readable(b), n + 1, Len(Readable(b)))
              ELSE <<>>
         /\ Len(Retrieved(b, n).data) = Len(b.data)
<1> DEFINE d == b.data
<1> DEFINE r == b.r
<1> DEFINE w == b.w
<1>1. /\ d \in Seq(Byte) /\ r \in Nat /\ w \in Nat
      /\ kCheapPrepend <= r /\ r <= w /\ w <= Len(d)
      /\ Len(d) \in Nat /\ kCheapPrepend \in Nat
  BY BufferParts
<1>2. /\ Readable(b) \in Seq(Byte) /\ Len(Readable(b)) = w - r
      /\ ReadableBytes(b) = w - r
  BY ReadableSeq
<1>3. Readable(b) = Stretch(d, r, w)
  BY DEF Readable, Stretch
<1> HIDE DEF d, r, w
<1>4. CASE n < w - r
  <2>1. /\ Retrieved(b, n) = [data |-> d, r |-> r + n, w |-> w]
        /\ Retrieved(b, n).data = d
        /\ Retrieved(b, n).r = r + n
        /\ Retrieved(b, n).w = w
    BY <1>2, <1>4 DEF Retrieved, d, r, w
  <2>2. /\ r + n \in Nat /\ kCheapPrepend <= r + n /\ r + n <= w
    BY <1>1, <1>4
  <2>3. [data |-> d, r |-> r + n, w |-> w] \in Buffers
    BY <1>1, <2>2, BufferFromParts, Zenon
  <2>4. Readable(Retrieved(b, n)) = Stretch(d, r + n, w)
    BY <2>1 DEF Readable, Stretch
  <2>5. /\ Stretch(d, r, w) \in Seq(Byte)
        /\ Len(Stretch(d, r, w)) = w - r
        /\ \A i \in 1..(w - r) : Stretch(d, r, w)[i] = d[r + i]
    BY <1>1, Between
  <2>6. /\ Stretch(d, r + n, w) \in Seq(Byte)
        /\ Len(Stretch(d, r + n, w)) = w - (r + n)
        /\ \A i \in 1..(w - (r + n)) : Stretch(d, r + n, w)[i] = d[(r + n) + i]
    BY <1>1, <2>2, Between, Zenon
  <2> DEFINE x == Stretch(d, r, w)
  <2> HIDE DEF x
  <2>7. /\ SubSeq(x, n + 1, w - r) \in Seq(Byte)
        /\ Len(SubSeq(x, n + 1, w - r)) = (w - r) - n
        /\ \A i \in 1..((w - r) - n) : SubSeq(x, n + 1, w - r)[i] = x[n + i]
    <3>1. /\ x \in Seq(Byte) /\ n \in Nat /\ w - r \in Nat
          /\ n <= w - r /\ w - r <= Len(x)
      BY <1>1, <1>4, <2>5 DEF x
    <3>. QED
      BY <3>1, Between, Zenon DEF Stretch
  <2>8. Stretch(d, r + n, w) = SubSeq(x, n + 1, w - r)
    <3>1. Len(Stretch(d, r + n, w)) = Len(SubSeq(x, n + 1, w - r))
      BY <1>1, <2>6, <2>7
    <3>2. ASSUME NEW i \in 1..(w - (r + n))
          PROVE  Stretch(d, r + n, w)[i] = SubSeq(x, n + 1, w - r)[i]
      <4>1. /\ i \in 1..((w - r) - n) /\ n + i \in 1..(w - r)
            /\ r + (n + i) = (r + n) + i
        BY <1>1
      <4>. QED
        BY <2>5, <2>6, <2>7, <4>1 DEF x
    <3>. QED
      BY <2>6, <2>7, <3>1, <3>2, SeqEqual
  <2>. QED
    BY <1>2, <1>3, <1>4, <2>1, <2>3, <2>4, <2>8 DEF x, d
<1>5. CASE ~(n < w - r)
  <2>1. /\ Retrieved(b, n)
             = [data |-> d, r |-> kCheapPrepend, w |-> kCheapPrepend]
        /\ Retrieved(b, n).data = d
        /\ Retrieved(b, n).r = kCheapPrepend
        /\ Retrieved(b, n).w = kCheapPrepend
    BY <1>2, <1>5 DEF Retrieved, RetrievedAll, d
  <2>2. /\ kCheapPrepend <= kCheapPrepend /\ kCheapPrepend <= Len(d)
    BY <1>1
  <2>3. Retrieved(b, n) \in Buffers
    BY <1>1, <2>1, <2>2, BufferFromParts
  <2>4. Readable(Retrieved(b, n)) = SubSeq(d, kCheapPrepend + 1, kCheapPrepend)
    BY <2>1 DEF Readable
  <2>5. SubSeq(d, kCheapPrepend + 1, kCheapPrepend) = <<>>
    BY <1>1, SubSeqEmpty
  <2>. QED
    BY <1>2, <1>5, <2>1, <2>3, <2>4, <2>5 DEF d
<1>. QED
  BY <1>4, <1>5
(* readFd puts what it read behind the readable bytes, whether it went into*)
(* the array or through extrabuf.                                          *)
LEMMA ReadIntoKeeps ==
  ASSUME NEW b \in Buffers, NEW s \in Seq(Byte)
  PROVE  /\ ReadInto(b, s) \in Buffers
         /\ Readable(ReadInto(b, s)) = Readable(b) \o s
         /\ \/ Len(ReadInto(b, s).data) = Len(b.data)
            \/ kCheapPrepend + ReadableBytes(b) + Len(s) > Len(b.data)
<1> DEFINE k == WritableBytes(b)
<1>1. k \in Nat /\ Len(s) \in Nat
  BY BufferParts DEF WritableBytes
<1>2. CASE Len(s) <= k
  BY <1>2, WriteAppends DEF ReadInto
<1>3. CASE ~(Len(s) <= k)
  <2> DEFINE head == SubSeq(s, 1, k)
  <2> DEFINE tail == SubSeq(s, k + 1, Len(s))
  <2> DEFINE c == Write(b, head)
  <2>1. /\ head \in Seq(Byte) /\ tail \in Seq(Byte)
        /\ Len(head) = k /\ Len(tail) = Len(s) - k
        /\ head \o tail = s
    <3>1. /\ 0 <= k /\ k <= Len(s) /\ Len(s) <= Len(s) /\ 0 \in Nat
      BY <1>1, <1>3
    <3>2. /\ SubSeq(s, 0 + 1, k) \in Seq(Byte)
          /\ Len(SubSeq(s, 0 + 1, k)) = k - 0
          /\ \A i \in 1..(k - 0) : SubSeq(s, 0 + 1, k)[i] = s[0 + i]
      BY <1>1, <3>1, Between, Zenon DEF Stretch
    <3>3. /\ tail \in Seq(Byte) /\ Len(tail) = Len(s) - k
          /\ \A i \in 1..(Len(s) - k) : tail[i] = s[k + i]
      BY <1>1, <3>1, Between, Zenon DEF Stretch
    <3> HIDE DEF tail
    <3>4. /\ head \in Seq(Byte) /\ Len(head) = k
          /\ \A i \in 1..k : head[i] = s[i]
      BY <1>1, <3>2
    <3> HIDE DEF head
    <3>5. /\ head \o tail \in Seq(Byte)
          /\ Len(head \o tail) = Len(head) + Len(tail)
          /\ \A i \in 1..(Len(head) + Len(tail)) :
               (head \o tail)[i] = IF i <= Len(head) THEN head[i]
                                                    ELSE tail[i - Len(head)]
      BY <3>3, <3>4, ConcatProperties
    <3>6. Len(head \o tail) = Len(s)
      BY <1>1, <3>3, <3>4, <3>5
    <3>7. ASSUME NEW i \in 1..Len(s)
          PROVE  (head \o tail)[i] = s[i]
      <4>1. i \in 1..(Len(head) + Len(tail)) /\ k + (i - k) = i
        BY <1>1, <3>3, <3>4
      <4>2. CASE i <= k
        BY <1>1, <3>4, <3>5, <4>1, <4>2
      <4>3. CASE ~(i <= k)
        <5>1. i - k \in 1..(Len(s) - k)
          BY <1>1, <4>3
        <5>. QED
          BY <3>3, <3>4, <3>5, <4>1, <4>3, <5>1
      <4>. QED
        BY <4>2, <4>3
    <3>8. head \o tail = s
      BY <3>5, <3>6, <3>7, SeqEqual
    <3>. QED
      BY <3>3, <3>4, <3>8
  <2> HIDE DEF head, tail
  <2>2. /\ c \in Buffers /\ Readable(c) = Readable(b) \o head
        /\ Len(c.data) = Len(b.data)
    BY <1>1, <2>1, WriteAppends
  <2>3. ReadInto(b, s) = Appended(c, tail)
    BY <1>3 DEF ReadInto, head, tail
  <2> HIDE DEF c
  <2>4. /\ Appended(c, tail) \in Buffers
        /\ Readable(Appended(c, tail)) = Readable(c) \o tail
        /\ \/ Len(Appended(c, tail).data) = Len(c.data)
           \/ kCheapPrepend + ReadableBytes(c) + Len(tail) > Len(c.data)
    BY <2>1, <2>2, AppendedKeeps
  <2>5. (Readable(b) \o head) \o tail = Readable(b) \o s
    <3>1. /\ Readable(b) \in Seq(Byte)
          /\ head \in Seq(Byte) /\ tail \in Seq(Byte)
      BY <2>1, ReadableSeq
    <3>2. (Readable(b) \o head) \o tail = Readable(b) \o (head \o tail)
      BY <3>1, ConcatAssociative
    <3>. QED
      BY <2>1, <3>2
  <2>6. ReadableBytes(c) + Len(tail) = ReadableBytes(b) + Len(s)
    <3>1. /\ Len(Readable(c)) = Len(Readable(b)) + Len(head)
      BY <2>1, <2>2, ReadableSeq, ConcatProperties
    <3>2. /\ ReadableBytes(c) \in Nat /\ ReadableBytes(c) = Len(Readable(c))
          /\ ReadableBytes(b) \in Nat /\ ReadableBytes(b) = Len(Readable(b))
      BY <2>2, ReadableSeq
    <3>. QED
      BY <1>1, <2>1, <3>1, <3>2
  <2>7. /\ ReadableBytes(c) \in Nat /\ ReadableBytes(b) \in Nat
        /\ Len(tail) \in Nat /\ kCheapPrepend \in Nat
    BY <2>1, <2>2, ReadableSeq, SizeAssumption
  <2>8. kCheapPrepend + ReadableBytes(c) + Len(tail)
          = kCheapPrepend + ReadableBytes(b) + Len(s)
    BY <1>1, <2>6, <2>7
  <2>. QED
    BY <2>2, <2>3, <2>4, <2>5, <2>8
<1>. QED
  BY <1>2, <1>3
(* What peek() leads to is the front of the readable bytes.                *)
LEMMA FromPeekIsFront ==
  ASSUME buffer \in Buffers, NEW n \in Nat, n <= ReadableBytes(buffer)
  PROVE  /\ FromPeek(n) \in Seq(Byte)
         /\ FromPeek(n) = SubSeq(Readable(buffer), 1, n)
<1> DEFINE d == buffer.data
<1> DEFINE r == buffer.r
<1> DEFINE w == buffer.w
<1>1. /\ d \in Seq(Byte) /\ r \in Nat /\ w \in Nat
      /\ r <= w /\ w <= Len(d) /\ Len(d) \in Nat
      /\ Readable(buffer) = Stretch(d, r, w)
      /\ FromPeek(n) = SubSeq(d, r + 1, r + n)
      /\ ReadableBytes(buffer) = w - r
  BY BufferParts DEF Readable, Stretch, FromPeek, ReadableBytes
<1> HIDE DEF d, r, w
<1>2. /\ r + n \in Nat /\ r <= r + n /\ r + n <= Len(d) /\ n <= w - r
  BY <1>1
<1>3. /\ FromPeek(n) \in Seq(Byte)
      /\ Len(FromPeek(n)) = (r + n) - r
      /\ \A i \in 1..((r + n) - r) : FromPeek(n)[i] = d[r + i]
  <2>1. /\ Stretch(d, r, r + n) \in Seq(Byte)
        /\ Len(Stretch(d, r, r + n)) = (r + n) - r
        /\ \A i \in 1..((r + n) - r) : Stretch(d, r, r + n)[i] = d[r + i]
    BY <1>1, <1>2, Between, Zenon
  <2>. QED
    BY <1>1, <2>1 DEF Stretch
<1> DEFINE x == Readable(buffer)
<1>4. /\ x \in Seq(Byte) /\ Len(x) = w - r
      /\ \A i \in 1..(w - r) : x[i] = d[r + i]
  <2>1. /\ Stretch(d, r, w) \in Seq(Byte)
        /\ Len(Stretch(d, r, w)) = w - r
        /\ \A i \in 1..(w - r) : Stretch(d, r, w)[i] = d[r + i]
    BY <1>1, Between
  <2>. QED
    BY <1>1, <2>1
<1> HIDE DEF x
<1>5. /\ SubSeq(x, 0 + 1, n) \in Seq(Byte)
      /\ Len(SubSeq(x, 0 + 1, n)) = n - 0
      /\ \A i \in 1..(n - 0) : SubSeq(x, 0 + 1, n)[i] = x[0 + i]
  <2>1. 0 \in Nat /\ 0 <= n /\ n <= Len(x)
    BY <1>2, <1>4
  <2>. QED
    BY <1>4, <2>1, Between, Zenon DEF Stretch
<1>6. /\ SubSeq(x, 1, n) \in Seq(Byte)
      /\ Len(SubSeq(x, 1, n)) = n
      /\ \A i \in 1..n : SubSeq(x, 1, n)[i] = x[i]
  BY <1>5
<1>7. Len(FromPeek(n)) = Len(SubSeq(x, 1, n))
  BY <1>1, <1>3, <1>6
<1>8. ASSUME NEW i \in 1..n
      PROVE  FromPeek(n)[i] = SubSeq(x, 1, n)[i]
  <2>1. i \in 1..((r + n) - r) /\ i \in 1..(w - r)
    BY <1>1, <1>2
  <2>. QED
    BY <1>3, <1>4, <1>6, <2>1
<1>9. FromPeek(n) = SubSeq(x, 1, n)
  BY <1>3, <1>6, <1>7, <1>8, SeqEqual
<1>. QED
  BY <1>3, <1>9 DEF x

-----------------------------------------------------------------------------
(* Every string that arrives is a sequence of bytes.                       *)
LEMMA ChunkSeq == ASSUME NEW s \in Chunk PROVE s \in Seq(Byte)
<1>1. PICK n \in 0..MaxChunk : s \in [1..n -> Byte]
  BY DEF Chunk
<1>2. n \in Nat
  BY SizeAssumption
<1>. QED
  BY <1>1, <1>2

(* A new buffer is one, and holds nothing.                                 *)
LEMMA EmptyBufferIsEmpty ==
  EmptyBuffer \in Buffers /\ Readable(EmptyBuffer) = <<>>
<1> DEFINE d == [i \in 1..(kCheapPrepend + kInitialSize) |-> Zero]
<1>1. /\ kCheapPrepend \in Nat /\ kCheapPrepend + kInitialSize \in Nat
      /\ kCheapPrepend <= kCheapPrepend + kInitialSize
  BY SizeAssumption
<1>2. d \in [1..(kCheapPrepend + kInitialSize) -> Byte]
  BY ByteAssumption
<1>3. d \in Seq(Byte) /\ Len(d) = kCheapPrepend + kInitialSize
  BY <1>1, <1>2
<1>4. EmptyBuffer = [data |-> d, r |-> kCheapPrepend, w |-> kCheapPrepend]
  BY DEF EmptyBuffer
<1> HIDE DEF d
<1>5. EmptyBuffer \in Buffers
  BY <1>1, <1>3, <1>4, BufferFromParts
<1>6. Readable(EmptyBuffer) = SubSeq(d, kCheapPrepend + 1, kCheapPrepend)
  BY <1>4 DEF Readable
<1>. QED
  BY <1>1, <1>5, <1>6, SubSeqEmpty

(* What one step does, in terms of the parts it is made of: the buffer     *)
(* stays one, the queue takes the corresponding step, and the array grows  *)
(* only when it must.                                                      *)
StepIsRight ==
  /\ TypeOK'
  /\ Queue!Next
  /\ Len(buffer'.data) > Len(buffer.data)
       => kCheapPrepend + ReadableBytes(buffer') > Len(buffer.data)

(* A step that stores the bytes s, by append or by readFd.                 *)
LEMMA PutIsRight ==
  ASSUME TypeOK, NEW s \in Chunk,
         AppendBytes(s) \/ ReadFd(s)
  PROVE  StepIsRight
<1>1. buffer \in Buffers /\ s \in Seq(Byte) /\ Len(s) \in Nat
  BY ChunkSeq DEF TypeOK
<1>2. /\ buffer' \in Buffers
      /\ Readable(buffer') = Readable(buffer) \o s
      /\ \/ Len(buffer'.data) = Len(buffer.data)
         \/ kCheapPrepend + ReadableBytes(buffer) + Len(s) > Len(buffer.data)
  BY <1>1, AppendedKeeps, ReadIntoKeeps DEF AppendBytes, ReadFd
<1>3. call' = Called("put", s, 0, <<>>)
  BY DEF AppendBytes, ReadFd
<1>4. TypeOK'
  BY <1>1, <1>2, <1>3 DEF TypeOK, Calls, Called
<1>5. Queue!Put(s)
  BY <1>2, <1>3 DEF Queue!Put, Queue!Called, Called
<1>6. ReadableBytes(buffer') = ReadableBytes(buffer) + Len(s)
  <2>1. /\ Readable(buffer) \in Seq(Byte)
        /\ Len(Readable(buffer)) = ReadableBytes(buffer)
    BY <1>1, ReadableSeq
  <2>2. Len(Readable(buffer')) = ReadableBytes(buffer')
    BY <1>2, ReadableSeq
  <2>. QED
    BY <1>1, <1>2, <2>1, <2>2, ConcatProperties
<1>7. /\ ReadableBytes(buffer) \in Nat /\ Len(buffer.data) \in Nat
      /\ kCheapPrepend \in Nat
  BY <1>1, ReadableSeq, BufferParts
<1>8. Len(buffer'.data) > Len(buffer.data)
        => kCheapPrepend + ReadableBytes(buffer') > Len(buffer.data)
  BY <1>1, <1>2, <1>6, <1>7
<1>. QED
  BY <1>4, <1>5, <1>8 DEF StepIsRight, Queue!Next

(* A step that asks for n bytes: retrieve, retrieveAsString or writeFd.    *)
LEMMA TakeIsRight ==
  ASSUME TypeOK, NEW n \in Asked,
         Retrieve(n) \/ RetrieveAsString(n) \/ WriteFd(n)
  PROVE  StepIsRight
<1>1. buffer \in Buffers /\ n \in Nat
  BY SizeAssumption DEF TypeOK, Asked
<1>2. /\ Readable(buffer) \in Seq(Byte)
      /\ Len(Readable(buffer)) = ReadableBytes(buffer)
  BY <1>1, ReadableSeq
<1>3. /\ Retrieved(buffer, n) \in Buffers
      /\ Readable(Retrieved(buffer, n)) = Queue!Rest(n)
      /\ Len(Retrieved(buffer, n).data) = Len(buffer.data)
  BY <1>1, RetrievedDrops DEF Queue!Rest
<1>4. n <= ReadableBytes(buffer)
        => FromPeek(n) \in Seq(Byte) /\ FromPeek(n) = Queue!Front(n)
  BY <1>1, FromPeekIsFront DEF Queue!Front
<1>5. Len(buffer.data) \in Nat
  BY <1>1, BufferParts
<1>6. CASE Retrieve(n)
  <2>1. buffer' = Retrieved(buffer, n) /\ call' = Called("drop", <<>>, n, <<>>)
    BY <1>6 DEF Retrieve
  <2>2. TypeOK'
    BY <1>1, <1>3, <2>1 DEF TypeOK, Calls, Called
  <2>3. Queue!Drop(n)
    BY <1>3, <2>1 DEF Queue!Drop, Queue!Called, Called
  <2>. QED
    BY <1>3, <1>5, <2>1, <2>2, <2>3 DEF StepIsRight, Queue!Next
<1>7. CASE RetrieveAsString(n)
  <2>1. /\ n <= ReadableBytes(buffer)
        /\ buffer' = Retrieved(buffer, n)
        /\ call' = Called("take", <<>>, n, FromPeek(n))
    BY <1>7 DEF RetrieveAsString
  <2>2. TypeOK'
    BY <1>1, <1>3, <1>4, <2>1 DEF TypeOK, Calls, Called
  <2>3. Queue!Take(n)
    BY <1>2, <1>3, <1>4, <2>1 DEF Queue!Take, Queue!Called, Called
  <2>. QED
    BY <1>3, <1>5, <2>1, <2>2, <2>3 DEF StepIsRight, Queue!Next
<1>8. CASE WriteFd(n)
  <2>1. /\ n <= ReadableBytes(buffer)
        /\ buffer' = buffer
        /\ call' = Called("show", <<>>, n, FromPeek(n))
    BY <1>8 DEF WriteFd
  <2>2. TypeOK'
    BY <1>1, <1>4, <2>1 DEF TypeOK, Calls, Called
  <2>3. Queue!Show(n)
    BY <1>2, <1>4, <2>1 DEF Queue!Show, Queue!Called, Called
  <2>. QED
    BY <1>5, <2>1, <2>2, <2>3 DEF StepIsRight, Queue!Next
<1>. QED
  BY <1>6, <1>7, <1>8

(* Every step is right.                                                    *)
LEMMA NextIsRight == TypeOK /\ Next => StepIsRight
BY PutIsRight, TakeIsRight DEF Next

(* The indices of a buffer stay ordered and inside its array               *)
(* (Buffer.h:28-30, 62-112, Buffer.cc:46-61).                              *)
THEOREM TypeCorrect == Spec => []TypeOK
<1>1. Init => TypeOK
  BY EmptyBufferIsEmpty DEF Init, TypeOK, Calls, Called
<1>2. TypeOK /\ [Next]_vars => TypeOK'
  BY NextIsRight DEF StepIsRight, TypeOK, vars
<1>. QED
  BY <1>1, <1>2, PTL DEF Spec

(* The readable bytes are a queue, whatever the array goes through         *)
(* (Buffer.h:36-112, Buffer.cc:46-61).                                     *)
THEOREM BufferIsQueue == Spec => ImplementsQueue
<1>1. Init => Queue!Init
  BY EmptyBufferIsEmpty DEF Init, Queue!Init, Queue!Called, Called
<1>2. TypeOK /\ [Next]_vars => [Queue!Next]_<<Readable(buffer), call>>
  BY NextIsRight DEF StepIsRight, vars
<1>. QED
  BY <1>1, <1>2, TypeCorrect, PTL DEF Spec, ImplementsQueue, Queue!Spec

(* The space of retrieved bytes is used again before the array grows       *)
(* (makeSpace, Buffer.h:91-112).                                           *)
THEOREM SpaceIsReused == Spec => GrowsOnlyWhenFull
<1>1. TypeOK /\ [Next]_vars
        => [Len(buffer'.data) > Len(buffer.data)
              => kCheapPrepend + ReadableBytes(buffer') > Len(buffer.data)]_vars
  BY NextIsRight DEF StepIsRight
<1>. QED
  BY <1>1, TypeCorrect, PTL DEF Spec, GrowsOnlyWhenFull
=============================================================================
