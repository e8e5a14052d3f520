---------------------------- MODULE SequenceLemmas ----------------------------
(***************************************************************************)
(* Facts about sequences that the proofs about the queues and the byte     *)
(* streams of the connection and the server share: what is in a sequence   *)
(* and how often, a sequence cut in two, and one sequence behind another.  *)
(***************************************************************************)
EXTENDS Integers, Sequences, FiniteSets, SequenceTheorems, FiniteSetTheorems,
        TLAPS

(* The elements of a sequence.                                             *)
In(u, q) == \E i \in 1..Len(q) : q[i] = u

(* Nothing is in the empty sequence.                                        *)
LEMMA InEmpty == \A u : ~In(u, <<>>)
BY DEF In

(* A sequence cut in two: both parts are sequences and give it back.        *)
LEMMA CutInTwo ==
  ASSUME NEW S, NEW q \in Seq(S), NEW n \in 0..Len(q)
  PROVE  /\ SubSeq(q, 1, n) \in Seq(S)
         /\ SubSeq(q, n + 1, Len(q)) \in Seq(S)
         /\ Len(SubSeq(q, n + 1, Len(q))) = Len(q) - n
         /\ SubSeq(q, 1, n) \o SubSeq(q, n + 1, Len(q)) = q
<1>1. /\ \A i \in 1..n : q[i] \in S
      /\ \A i \in (n + 1)..Len(q) : q[i] \in S
  BY ElementOfSeq
<1>2. SubSeq(q, 1, n) \in Seq(S)
  BY <1>1, SubSeqProperties
<1>3. /\ SubSeq(q, n + 1, Len(q)) \in Seq(S)
      /\ Len(SubSeq(q, n + 1, Len(q))) =
           IF n + 1 <= Len(q) THEN Len(q) - (n + 1) + 1 ELSE 0
  BY <1>1, SubSeqProperties
<1>4. Len(SubSeq(q, n + 1, Len(q))) = Len(q) - n
  BY <1>3
<1>5. SubSeq(q, 1, n) \o SubSeq(q, n + 1, Len(q)) = SubSeq(q, 1, Len(q))
  <2>1. 1 \in 1..(Len(q) + 1) /\ n \in (1 - 1)..Len(q) /\ Len(q) \in n..Len(q)
    OBVIOUS
  <2>. QED
    BY <2>1, ConcatAdjacentSubSeq
<1>. QED
  BY <1>2, <1>3, <1>4, <1>5, SubSeqFull

(* Taking the second part of a cut behind what the first part was put       *)
(* behind.                                                                  *)
LEMMA ConcatCut ==
  ASSUME NEW S, NEW p \in Seq(S), NEW q \in Seq(S), NEW n \in 0..Len(q)
  PROVE  (p \o SubSeq(q, 1, n)) \o SubSeq(q, n + 1, Len(q)) = p \o q
<1>. DEFINE a == SubSeq(q, 1, n)
            b == SubSeq(q, n + 1, Len(q))
<1>1. a \in Seq(S) /\ b \in Seq(S)
  BY CutInTwo
<1>2. a \o b = q
  BY CutInTwo
<1>. HIDE DEF a, b
<1>3. (p \o a) \o b = p \o (a \o b)
  BY <1>1, ConcatAssociative, SMTT(40)
<1>4. (p \o a) \o b = p \o q
  BY <1>2, <1>3
<1>. QED
  BY <1>4 DEF a, b

(* The head and the tail of a nonempty sequence with another one behind it. *)
LEMMA HeadTailOfConcat ==
  ASSUME NEW S, NEW q \in Seq(S), q # <<>>, NEW r \in Seq(S)
  PROVE  /\ q \o r # <<>>
         /\ Head(q \o r) = Head(q)
         /\ Tail(q \o r) = Tail(q) \o r
<1>1. /\ q \o r \in Seq(S)
      /\ Len(q \o r) = Len(q) + Len(r)
      /\ \A i \in 1..(Len(q) + Len(r)) :
           (q \o r)[i] = IF i <= Len(q) THEN q[i] ELSE r[i - Len(q)]
  BY ConcatProperties
<1>2. Len(q) \in Nat \ {0} /\ Len(r) \in Nat
  BY EmptySeq
<1>3. q \o r # <<>>
  BY <1>1, <1>2, EmptySeq
<1>4. Head(q \o r) = Head(q)
  BY <1>1, <1>2, <1>3
<1>5. /\ Tail(q) \in Seq(S) /\ Len(Tail(q)) = Len(q) - 1
      /\ \A i \in 1..Len(Tail(q)) : Tail(q)[i] = q[i + 1]
  BY HeadTailProperties
<1>6. /\ Tail(q \o r) \in Seq(S) /\ Len(Tail(q \o r)) = Len(q) + Len(r) - 1
      /\ \A i \in 1..(Len(q) + Len(r) - 1) : Tail(q \o r)[i] = (q \o r)[i + 1]
  BY <1>1, <1>3, HeadTailProperties
<1>7. /\ Tail(q) \o r \in Seq(S)
      /\ Len(Tail(q) \o r) = Len(q) - 1 + Len(r)
      /\ \A i \in 1..(Len(q) - 1 + Len(r)) :
           (Tail(q) \o r)[i] = IF i <= Len(q) - 1 THEN Tail(q)[i] ELSE r[i - (Len(q) - 1)]
  BY <1>5, ConcatProperties
<1>8. ASSUME NEW i \in 1..(Len(q) + Len(r) - 1)
      PROVE  Tail(q \o r)[i] = (Tail(q) \o r)[i]
  BY <1>1, <1>2, <1>5, <1>6, <1>7
<1>9. Tail(q \o r) = Tail(q) \o r
  BY <1>2, <1>6, <1>7, <1>8, SeqEqual
<1>. QED
  BY <1>3, <1>4, <1>9

(* What is in a concatenation is in one of its parts.                       *)
LEMMA InConcat ==
  ASSUME NEW S, NEW q \in Seq(S), NEW r \in Seq(S), NEW u
  PROVE  In(u, q \o r) <=> In(u, q) \/ In(u, r)
<1>1. /\ Len(q \o r) = Len(q) + Len(r)
      /\ \A i \in 1..(Len(q) + Len(r)) :
           (q \o r)[i] = IF i <= Len(q) THEN q[i] ELSE r[i - Len(q)]
  BY ConcatProperties
<1>2. ASSUME In(u, q) PROVE In(u, q \o r)
  BY <1>1, <1>2 DEF In
<1>3. ASSUME In(u, r) PROVE In(u, q \o r)
  <2>1. PICK i \in 1..Len(r) : r[i] = u
    BY <1>3 DEF In
  <2>2. i + Len(q) \in 1..(Len(q) + Len(r)) /\ (q \o r)[i + Len(q)] = u
    BY <1>1, <2>1
  <2>. QED
    BY <1>1, <2>2 DEF In
<1>4. ASSUME In(u, q \o r) PROVE In(u, q) \/ In(u, r)
  <2>1. PICK i \in 1..(Len(q) + Len(r)) : (q \o r)[i] = u
    BY <1>1, <1>4 DEF In
  <2>2. CASE i <= Len(q)
    BY <1>1, <2>1, <2>2 DEF In
  <2>3. CASE ~(i <= Len(q))
    <3>1. i - Len(q) \in 1..Len(r) /\ r[i - Len(q)] = u
      BY <1>1, <2>1, <2>3
    <3>. QED
      BY <3>1 DEF In
  <2>. QED
    BY <2>2, <2>3
<1>. QED
  BY <1>2, <1>3, <1>4

(* What is in a sequence is in one of the parts it is cut into.             *)
LEMMA InCut ==
  ASSUME NEW S, NEW q \in Seq(S), NEW n \in 0..Len(q), NEW u
  PROVE  In(u, q) <=> \/ In(u, SubSeq(q, 1, n))
                      \/ In(u, SubSeq(q, n + 1, Len(q)))
<1>1. /\ SubSeq(q, 1, n) \in Seq(S)
      /\ SubSeq(q, n + 1, Len(q)) \in Seq(S)
      /\ SubSeq(q, 1, n) \o SubSeq(q, n + 1, Len(q)) = q
  BY CutInTwo
<1>2. In(u, SubSeq(q, 1, n) \o SubSeq(q, n + 1, Len(q))) <=>
        In(u, SubSeq(q, 1, n)) \/ In(u, SubSeq(q, n + 1, Len(q)))
  BY <1>1, InConcat
<1>. QED
  BY <1>1, <1>2

-----------------------------------------------------------------------------
(* How often an element is in a sequence.                                   *)
Times(u, q) == Cardinality({i \in 1..Len(q) : q[i] = u})

(* It is a number, positive exactly when the element is in the sequence.    *)
LEMMA TimesType ==
  ASSUME NEW S, NEW q \in Seq(S), NEW u
  PROVE  /\ IsFiniteSet({i \in 1..Len(q) : q[i] = u})
         /\ Times(u, q) \in Nat
         /\ Times(u, q) > 0 <=> In(u, q)
<1>. DEFINE places == {i \in 1..Len(q) : q[i] = u}
<1>1. IsFiniteSet(1..Len(q))
  BY FS_Interval
<1>2. places \in SUBSET (1..Len(q))
  OBVIOUS
<1>3. IsFiniteSet(places)
  BY <1>1, <1>2, FS_Subset
<1>4. Cardinality(places) \in Nat
  BY <1>3, FS_CardinalityType
<1>5. Cardinality(places) = 0 <=> places = {}
  BY <1>3, FS_EmptySet
<1>6. places # {} <=> In(u, q)
  BY DEF In
<1>. HIDE DEF places
<1>7. /\ Cardinality(places) \in Nat
      /\ Cardinality(places) > 0 <=> In(u, q)
  BY <1>4, <1>5, <1>6
<1>. QED
  BY <1>3, <1>7 DEF places, Times

(* Nothing is in the empty sequence, not even once.                         *)
LEMMA TimesEmpty == \A u : Times(u, <<>>) = 0
<1> SUFFICES ASSUME NEW u PROVE Times(u, <<>>) = 0
  OBVIOUS
<1>1. {i \in 1..Len(<<>>) : <<>>[i] = u} = {}
  OBVIOUS
<1>. QED
  BY <1>1, FS_EmptySet DEF Times

(* One more element at the end counts for itself and for no other.          *)
LEMMA TimesAppend ==
  ASSUME NEW S, NEW q \in Seq(S), NEW v \in S, NEW u
  PROVE  Times(u, Append(q, v)) = Times(u, q) + (IF v = u THEN 1 ELSE 0)
<1>. DEFINE before == {i \in 1..Len(q) : q[i] = u}
            after == {i \in 1..Len(Append(q, v)) : Append(q, v)[i] = u}
<1>1. /\ Len(q) \in Nat
      /\ Len(Append(q, v)) = Len(q) + 1
      /\ \A i \in 1..Len(q) : Append(q, v)[i] = q[i]
      /\ Append(q, v)[Len(q) + 1] = v
  BY AppendProperties
<1>2. IsFiniteSet(before)
  BY TimesType
<1>3. Len(q) + 1 \notin before
  BY <1>1
<1>4. v = u => after = before \cup {Len(q) + 1}
  BY <1>1
<1>5. v # u => after = before
  BY <1>1
<1>6. Cardinality(before \cup {Len(q) + 1}) = Cardinality(before) + 1
  BY <1>2, <1>3, FS_AddElement
<1>7. Times(u, q) = Cardinality(before) /\ Times(u, Append(q, v)) = Cardinality(after)
  BY DEF Times
<1>8. Times(u, q) \in Nat
  BY TimesType
<1>. HIDE DEF before, after
<1>9. CASE v = u
  BY <1>4, <1>6, <1>7, <1>9
<1>10. CASE v # u
  BY <1>5, <1>7, <1>8, <1>10
<1>. QED
  BY <1>9, <1>10

(* Without its head a sequence has the head once less, and every other      *)
(* element as often as before: its places move down by one.                 *)
LEMMA TimesTail ==
  ASSUME NEW S, NEW q \in Seq(S), q # <<>>, NEW u
  PROVE  Times(u, Tail(q)) = Times(u, q) - (IF Head(q) = u THEN 1 ELSE 0)
<1>. DEFINE before == {i \in 1..Len(q) : q[i] = u}
            after == {i \in 1..Len(Tail(q)) : Tail(q)[i] = u}
            down == [i \in before \ {1} |-> i - 1]
<1>1. /\ Len(q) \in Nat \ {0}
      /\ Head(q) = q[1]
      /\ Len(Tail(q)) = Len(q) - 1
      /\ \A i \in 1..Len(Tail(q)) : Tail(q)[i] = q[i + 1]
  BY HeadTailProperties, EmptySeq
<1>2. IsFiniteSet(before)
  BY TimesType
<1>3. /\ IsFiniteSet(before \ {1})
      /\ Cardinality(before \ {1}) =
           IF 1 \in before THEN Cardinality(before) - 1 ELSE Cardinality(before)
  BY <1>2, FS_RemoveElement
<1>4. down \in Bijection(before \ {1}, after)
  <2>1. \A i \in before \ {1} : i - 1 \in after
    BY <1>1
  <2>2. \A i, j \in before \ {1} : i - 1 = j - 1 => i = j
    OBVIOUS
  <2>3. \A i \in after : i + 1 \in before \ {1} /\ (i + 1) - 1 = i
    BY <1>1
  <2>. QED
    BY <2>1, <2>2, <2>3 DEF Bijection, Injection, Surjection, IsInjective
<1>5. Cardinality(after) = Cardinality(before \ {1})
  <2>. HIDE DEF before, after, down
  <2>1. ExistsBijection(before \ {1}, after)
    BY <1>4 DEF ExistsBijection
  <2>. QED
    BY <1>3, <2>1, FS_Bijection
<1>6. 1 \in before <=> Head(q) = u
  BY <1>1
<1>7. Times(u, q) = Cardinality(before) /\ Times(u, Tail(q)) = Cardinality(after)
  BY DEF Times
<1>8. Times(u, q) \in Nat
  BY TimesType
<1>. HIDE DEF before, after, down
<1>. QED
  BY <1>3, <1>5, <1>6, <1>7, <1>8

-----------------------------------------------------------------------------
(* In a sequence, u is only found before v.                                 *)
Precedes(u, v, q) ==
  \A i, j \in 1..Len(q) : (q[i] = u /\ q[j] = v) => i < j

(* Nothing is out of order in the empty sequence.                           *)
LEMMA PrecedesEmpty == \A u, v : Precedes(u, v, <<>>)
BY DEF Precedes

(* One more element at the end keeps the order, unless it is u and v is     *)
(* already there.                                                           *)
LEMMA PrecedesAppend ==
  ASSUME NEW S, NEW q \in Seq(S), NEW w \in S, NEW u, NEW v, u # v,
         Precedes(u, v, q), w # u \/ ~In(v, q)
  PROVE  Precedes(u, v, Append(q, w))
<1>1. /\ Len(q) \in Nat
      /\ Len(Append(q, w)) = Len(q) + 1
      /\ \A i \in 1..Len(q) : Append(q, w)[i] = q[i]
      /\ Append(q, w)[Len(q) + 1] = w
  BY AppendProperties
<1> SUFFICES ASSUME NEW i \in 1..(Len(q) + 1), NEW j \in 1..(Len(q) + 1),
                    Append(q, w)[i] = u, Append(q, w)[j] = v
             PROVE  i < j
  BY <1>1 DEF Precedes
<1>2. CASE i \in 1..Len(q) /\ j \in 1..Len(q)
  BY <1>1, <1>2 DEF Precedes
<1>3. CASE i \in 1..Len(q) /\ j = Len(q) + 1
  BY <1>1, <1>3
<1>4. CASE i = Len(q) + 1 /\ j \in 1..Len(q)
  BY <1>1, <1>4 DEF In
<1>5. CASE i = Len(q) + 1 /\ j = Len(q) + 1
  BY <1>5
<1>. QED
  BY <1>1, <1>2, <1>3, <1>4, <1>5

(* Taking the head keeps the order; behind a head v there is no u.          *)
LEMMA PrecedesTail ==
  ASSUME NEW S, NEW q \in Seq(S), q # <<>>, NEW u, NEW v, u # v,
         Precedes(u, v, q)
  PROVE  /\ Precedes(u, v, Tail(q))
         /\ Head(q) = v => ~In(u, q)
<1>1. /\ Len(q) \in Nat \ {0}
      /\ Head(q) = q[1]
      /\ Len(Tail(q)) = Len(q) - 1
      /\ \A i \in 1..Len(Tail(q)) : Tail(q)[i] = q[i + 1]
  BY HeadTailProperties, EmptySeq
<1>2. ASSUME NEW i \in 1..Len(Tail(q)), NEW j \in 1..Len(Tail(q)),
             Tail(q)[i] = u, Tail(q)[j] = v
      PROVE  i < j
  <2>1. i + 1 \in 1..Len(q) /\ j + 1 \in 1..Len(q)
    BY <1>1
  <2>2. q[i + 1] = u /\ q[j + 1] = v
    BY <1>1, <1>2
  <2>3. i + 1 < j + 1
    BY <2>1, <2>2 DEF Precedes
  <2>. QED
    BY <2>3
<1>3. ASSUME Head(q) = v, NEW i \in 1..Len(q), q[i] = u
      PROVE  FALSE
  <2>1. 1 \in 1..Len(q) /\ q[1] = v
    BY <1>1, <1>3
  <2>2. i < 1
    BY <1>3, <2>1 DEF Precedes
  <2>. QED
    BY <2>2
<1>4. Precedes(u, v, Tail(q))
  BY <1>2 DEF Precedes
<1>5. Head(q) = v => ~In(u, q)
  BY <1>3 DEF In
<1>. QED
  BY <1>4, <1>5
=============================================================================
