------------------------- MODULE ConsistentHashProofs -------------------------
(***************************************************************************)
(* Proofs about ConsistentHash, for every hash function, every number of   *)
(* nodes, replicas and hash values: a lookup finds a loop of the pool, the *)
(* right one, and adding a loop moves keys to that loop only.              *)
(***************************************************************************)
EXTENDS ConsistentHash, FiniteSetTheorems, WellFoundedInduction, TLAPS

-----------------------------------------------------------------------------
(* A set of numbers that is not empty has a least element, and only one.   *)
LEMMA LeastIsLeast ==
  ASSUME NEW S \in SUBSET Nat, S # {}
  PROVE  Least(S) \in S /\ \A k \in S : Least(S) <= k
<1>1. \E h \in S : \A k \in S : h <= k
  <2>1. \E h \in S : \A k \in S : ~ (<<k, h>> \in OpToRel(<, Nat))
    BY NatLessThanWellFounded, WFMin
  <2>2. PICK h \in S : \A k \in S : ~ (<<k, h>> \in OpToRel(<, Nat))
    BY <2>1
  <2>3. \A k \in S : ~ (k < h)
    BY <2>2 DEF OpToRel
  <2>. QED
    BY <2>3
<1>. QED
  BY <1>1 DEF Least

(* Least is the only minimum.                                              *)
LEMMA LeastIsUnique ==
  ASSUME NEW S \in SUBSET Nat, NEW h \in S, \A k \in S : h <= k
  PROVE  Least(S) = h
<1>1. Least(S) \in S /\ \A k \in S : Least(S) <= k
  BY LeastIsLeast
<1>2. Least(S) <= h /\ h <= Least(S) /\ Least(S) \in Nat /\ h \in Nat
  BY <1>1
<1>. QED
  BY <1>2

(* A hash occurs among the virtual nodes of n as often as Times says.      *)
LEMMA TimesCounts ==
  ASSUME NEW f, NEW n, NEW h
  PROVE  Times(f, n, h) \in Nat /\ (Times(f, n, h) > 0 <=> h \in Hashes(f, n))
<1> DEFINE S == {i \in 1..Replicas : f[<<n, i>>] = h}
<1>1. IsFiniteSet(1..Replicas)
  BY ReplicaAssumption, FS_Interval
<1>2. IsFiniteSet(S)
  BY <1>1, FS_Subset
<1>3. Cardinality(S) \in Nat /\ (Cardinality(S) = 0 <=> S = {})
  BY <1>2, FS_CardinalityType, FS_EmptySet
<1>4. S = {} <=> h \notin Hashes(f, n)
  BY DEF Hashes
<1>. QED
  BY <1>3, <1>4 DEF Times

(* What addNode and removeNode hash are hashes.                            *)
LEMMA HashesAreHashes ==
  ASSUME TypeOK, NEW n \in Nodes
  PROVE  Hashes(addHash, n) \subseteq Hash /\ Hashes(removeHash, n) \subseteq Hash
BY DEF TypeOK, Hashes, Virtual

(* Hashes are numbers.                                                     *)
LEMMA HashIsNat == Hash \subseteq Nat /\ Present \subseteq Nat
BY HashAssumption DEF Hash, Present

(* s is the first number of P past h, or the first of all.                 *)
IsNext(P, h, s) ==
  /\ s \in P
  /\ \/ s > h /\ \A k \in P : k > h => s <= k
     \/ (\A k \in P : k <= h) /\ \A k \in P : s <= k

(* The code's choice of a slot, the first hash greater or the first of     *)
(* all, is what IsNext says.                                               *)
LEMMA LeastAboveIsNext ==
  ASSUME NEW P \in SUBSET Nat, P # {}, NEW h \in Nat
  PROVE  LET above == {k \in P : k > h}
         IN  IsNext(P, h, Least(IF above = {} THEN P ELSE above))
<1> DEFINE above == {k \in P : k > h}
           s == Least(IF above = {} THEN P ELSE above)
<1>1. CASE above # {}
  <2>1. s = Least(above)
    BY <1>1
  <2>2. Least(above) \in above /\ \A k \in above : Least(above) <= k
    BY <1>1, LeastIsLeast
  <2>. QED
    BY <2>1, <2>2 DEF IsNext
<1>2. CASE above = {}
  <2>1. s = Least(P)
    BY <1>2
  <2>2. Least(P) \in P /\ \A k \in P : Least(P) <= k
    BY LeastIsLeast
  <2>3. \A k \in P : k <= h
    BY <1>2
  <2>. QED
    BY <2>1, <2>2, <2>3 DEF IsNext
<1>. QED
  BY <1>1, <1>2

(* A number that is next in two sets, one part of the other, is one.       *)
LEMMA NextIsUnique ==
  ASSUME NEW Q \in SUBSET Nat, NEW P \in SUBSET Q, NEW h \in Nat, NEW s, NEW t,
         IsNext(P, h, s), IsNext(Q, h, t), t \in P
  PROVE  s = t
<1>1. s \in Nat /\ t \in Nat /\ s \in P /\ s \in Q
  BY DEF IsNext
<1>2. CASE t > h /\ \A k \in Q : k > h => t <= k
  <2>1. s > h /\ \A k \in P : k > h => s <= k
    BY <1>1, <1>2 DEF IsNext
  <2>2. s <= t /\ t <= s
    BY <1>1, <1>2, <2>1
  <2>. QED
    BY <1>1, <2>2
<1>3. CASE (\A k \in Q : k <= h) /\ \A k \in Q : t <= k
  <2>1. s <= h /\ t <= s
    BY <1>1, <1>3
  <2>2. \A k \in P : s <= k
    BY <1>1, <2>1 DEF IsNext
  <2>. QED
    BY <1>1, <2>1, <2>2
<1>. QED
  BY <1>2, <1>3 DEF IsNext

(* The slot of a key is the hash of the ring that is next.                 *)
LEMMA SlotIsNext ==
  ASSUME Present # {}, NEW h \in Hash
  PROVE  IsNext(Present, h, Slot(h))
<1>1. Present \in SUBSET Nat /\ h \in Nat
  BY HashIsNat
<1>. QED
  BY <1>1, LeastAboveIsNext DEF Slot

-----------------------------------------------------------------------------
(* A lookup on a ring that has an entry finds a slot and a loop.           *)
LEMMA LookupFinds ==
  ASSUME IInv, DOMAIN circle # {}, NEW h \in Hash
  PROVE  /\ Slot(h) \in Present /\ Slot(h) \in Hash
         /\ Lookup(h) \in Nat /\ Lookup(h) < Len(added)
<1>1. Slot(h) \in Present
  BY SlotIsNext DEF IInv, EntriesAreSorted, IsNext
<1>2. Slot(h) \in Hash
  BY <1>1 DEF Present
<1>3. Len(added) \in Nat /\ Len(added) > 0
  BY DEF IInv, IndexInRange, TypeOK
<1>4. CASE Slot(h) \in DOMAIN circle
  BY <1>1, <1>2, <1>4 DEF Lookup, IInv, IndexInRange
<1>5. CASE Slot(h) \notin DOMAIN circle
  BY <1>1, <1>2, <1>3, <1>5 DEF Lookup
<1>. QED
  BY <1>4, <1>5

(* The empty ring is sound.                                                *)
LEMMA RingInit == Init => IInv
<1> SUFFICES ASSUME Init PROVE IInv
  OBVIOUS
<1>1. DOMAIN circle = {} /\ added = <<>>
  BY DEF Init
<1>2. sortedHashes \in [Hash -> Nat]
  BY DEF Init
<1>3. TypeOK
  <2>1. addHash \in [Virtual -> Hash] /\ removeHash \in [Virtual -> Hash]
        /\ removed \in BOOLEAN
    BY Zenon DEF Init
  <2>2. added \in Seq(Nodes)
    BY <1>1
  <2>3. DOMAIN circle \subseteq Hash
    BY <1>1
  <2>. QED
    BY <1>2, <2>1, <2>2, <2>3 DEF TypeOK
<1>4. EntriesAreSorted /\ IndexInRange
  BY <1>1 DEF EntriesAreSorted, IndexInRange
<1>. QED
  BY <1>3, <1>4 DEF IInv

(* addNode: every new entry has its hash in sortedHashes_, and is the last *)
(* loop of loops_.                                                         *)
LEMMA AddKeeps ==
  ASSUME IInv, NEW n \in Nodes, AddNode(n)
  PROVE  IInv'
<1> DEFINE hs == Hashes(addHash, n)
<1>1. /\ added' = Append(added, n)
      /\ circle' = Overwrite(hs, Len(added))
      /\ sortedHashes' = [h \in Hash |-> sortedHashes[h]
                                          + Times(addHash, n, h)]
      /\ UNCHANGED <<removed, addHash, removeHash>>
  BY DEF AddNode, hashFunction
<1>2. hs \subseteq Hash
  BY HashesAreHashes DEF IInv
<1>3. added' \in Seq(Nodes) /\ Len(added) \in Nat
      /\ Len(added') = Len(added) + 1 /\ added' # <<>>
  BY <1>1 DEF IInv, TypeOK
<1>4. sortedHashes \in [Hash -> Nat]
  BY DEF IInv, TypeOK
<1>5. \A h \in Hash : /\ sortedHashes'[h] \in Nat
                      /\ sortedHashes[h] > 0 => sortedHashes'[h] > 0
                      /\ h \in hs => sortedHashes'[h] > 0
  <2> SUFFICES ASSUME NEW h \in Hash
               PROVE  /\ sortedHashes'[h] \in Nat
                      /\ sortedHashes[h] > 0 => sortedHashes'[h] > 0
                      /\ h \in hs => sortedHashes'[h] > 0
    OBVIOUS
  <2>1. sortedHashes'[h] = sortedHashes[h] + Times(addHash, n, h)
    BY <1>1
  <2>2. Times(addHash, n, h) \in Nat /\ (Times(addHash, n, h) > 0 <=> h \in hs)
    BY TimesCounts
  <2>. QED
    BY <1>4, <2>1, <2>2
<1>6. DOMAIN circle' = DOMAIN circle \cup hs
      /\ \A h \in DOMAIN circle' :
           circle'[h] = IF h \in hs THEN Len(added) ELSE circle[h]
  BY <1>1 DEF Overwrite
<1>7. TypeOK'
  <2>1. sortedHashes' \in [Hash -> Nat]
    BY <1>1, <1>5
  <2>. QED
    BY <1>1, <1>2, <1>3, <1>6, <2>1 DEF IInv, TypeOK
<1>8. EntriesAreSorted'
  BY <1>2, <1>5, <1>6 DEF IInv, EntriesAreSorted, Present
<1>9. IndexInRange'
  BY <1>3, <1>6 DEF IInv, IndexInRange
<1>. QED
  BY <1>7, <1>8, <1>9 DEF IInv

(* removeNode: an entry that stays keeps its hash in sortedHashes_.        *)
LEMMA RemoveKeeps ==
  ASSUME IInv, NEW n \in Nodes, RemoveNode(n)
  PROVE  IInv'
<1> DEFINE hs == Hashes(removeHash, n)
<1>1. /\ circle' = [h \in DOMAIN circle \ hs |-> circle[h]]
      /\ removed' = TRUE
      /\ UNCHANGED <<added, addHash, removeHash>>
  BY DEF RemoveNode, hashFunction
<1>2. sortedHashes' =
        [h \in Hash |-> IF sortedHashes[h] <= Times(removeHash, n, h) THEN 0
                        ELSE sortedHashes[h] - Times(removeHash, n, h)]
  BY DEF RemoveNode
<1>3. \A h \in Hash : /\ sortedHashes'[h] \in Nat
                      /\ h \notin hs => sortedHashes'[h] = sortedHashes[h]
  <2> SUFFICES ASSUME NEW h \in Hash
               PROVE  /\ sortedHashes'[h] \in Nat
                      /\ h \notin hs => sortedHashes'[h] = sortedHashes[h]
    OBVIOUS
  <2>1. sortedHashes[h] \in Nat
    BY DEF IInv, TypeOK
  <2>2. sortedHashes'[h] =
          IF sortedHashes[h] <= Times(removeHash, n, h) THEN 0
          ELSE sortedHashes[h] - Times(removeHash, n, h)
    BY <1>2
  <2>3. /\ Times(removeHash, n, h) \in Nat
        /\ Times(removeHash, n, h) > 0 <=> h \in hs
    BY TimesCounts
  <2>. QED
    BY <2>1, <2>2, <2>3
<1>4. TypeOK'
  <2>1. sortedHashes' \in [Hash -> Nat]
    BY <1>2, <1>3
  <2>. QED
    BY <1>1, <2>1 DEF IInv, TypeOK
<1>5. EntriesAreSorted'
  BY <1>1, <1>3 DEF IInv, TypeOK, EntriesAreSorted, Present
<1>6. IndexInRange'
  BY <1>1 DEF IInv, IndexInRange
<1>. QED
  BY <1>4, <1>5, <1>6 DEF IInv

(* getNode: operator[] may insert an entry, for a hash of the ring.        *)
LEMMA GetKeeps ==
  ASSUME IInv, NEW h \in Hash, GetNode(h)
  PROVE  IInv'
<1>1. DOMAIN circle # {}
  BY DEF GetNode
<1>2. Slot(h) \in Present /\ Slot(h) \in Hash
      /\ Lookup(h) \in Nat /\ Lookup(h) < Len(added)
  BY <1>1, LookupFinds
<1>3. /\ UNCHANGED <<sortedHashes, added, removed, addHash, removeHash>>
      /\ Present' = Present
      /\ DOMAIN circle' = DOMAIN circle \cup {Slot(h)}
      /\ \A k \in DOMAIN circle' :
           circle'[k] = IF k = Slot(h) THEN Lookup(h) ELSE circle[k]
  BY DEF GetNode, Overwrite, hashFunction, Present
<1>4. TypeOK' /\ EntriesAreSorted'
  BY <1>2, <1>3 DEF IInv, TypeOK, EntriesAreSorted
<1>5. added # <<>> /\ Len(added) \in Nat
  BY <1>1 DEF IInv, TypeOK, IndexInRange
<1>6. IndexInRange'
  BY <1>2, <1>3, <1>5 DEF IInv, IndexInRange
<1>. QED
  BY <1>4, <1>6 DEF IInv

(* addNode, removeNode and getNode keep the ring sound.                    *)
LEMMA RingStep == IInv /\ [Next]_vars => IInv'
<1> SUFFICES ASSUME IInv, [Next]_vars PROVE IInv'
  OBVIOUS
<1>1. CASE UNCHANGED vars
  BY <1>1 DEF vars, IInv, TypeOK, EntriesAreSorted, IndexInRange, Present
<1>. QED
  BY <1>1, AddKeeps, RemoveKeeps, GetKeeps DEF Next

(* Whatever collides and whatever is removed, every entry of circle_ has   *)
(* its hash in sortedHashes_ and every index in it is one of loops_        *)
(* (ConsistenHash.h:43-99).                                                *)
THEOREM RingIsSound == Spec => []IInv
BY RingInit, RingStep, PTL DEF Spec

(* getNode never dereferences the end of sortedHashes_, and answers an     *)
(* index of loops_: the fallback of getNextLoop is not reached             *)
(* (EventLoopThreadPool.cc:53-61).                                         *)
THEOREM LookupIsSafe == Spec => []LookupSafe
<1>1. IInv => LookupSafe
  BY LookupFinds DEF LookupSafe
<1>. QED
  BY <1>1, RingIsSound, PTL

-----------------------------------------------------------------------------
(* A hash that is on the ring afterwards and is no virtual node of the new *)
(* loop was there before.                                                  *)
LEMMA AddPresent ==
  ASSUME IInv, NEW n \in Nodes, AddNode(n)
  PROVE  Present' = Present \cup Hashes(addHash, n)
<1>1. Hashes(addHash, n) \subseteq Hash
  BY HashesAreHashes DEF IInv
<1>2. \A h \in Hash : sortedHashes'[h] > 0
                        <=> sortedHashes[h] > 0 \/ h \in Hashes(addHash, n)
  <2> SUFFICES ASSUME NEW h \in Hash
               PROVE  sortedHashes'[h] > 0
                        <=> sortedHashes[h] > 0 \/ h \in Hashes(addHash, n)
    OBVIOUS
  <2>1. sortedHashes'[h] = sortedHashes[h] + Times(addHash, n, h)
    BY DEF AddNode
  <2>2. /\ Times(addHash, n, h) \in Nat
        /\ Times(addHash, n, h) > 0 <=> h \in Hashes(addHash, n)
    BY TimesCounts
  <2>3. sortedHashes[h] \in Nat
    BY DEF IInv, TypeOK
  <2>. QED
    BY <2>1, <2>2, <2>3
<1>. QED
  BY <1>1, <1>2 DEF Present

(* What addNode does to a lookup.                                          *)
LEMMA AddMovesToNew ==
  ASSUME IInv, NEW n \in Nodes, AddNode(n), DOMAIN circle # {}, NEW h \in Hash
  PROVE  Lookup(h)' \in {Lookup(h), Len(added)}
<1> DEFINE hs == Hashes(addHash, n)
           s == Slot(h)
           t == Slot(h)'
<1>1. IInv' /\ DOMAIN circle' # {}
      /\ DOMAIN circle' = DOMAIN circle \cup hs
      /\ \A k \in DOMAIN circle' :
           circle'[k] = IF k \in hs THEN Len(added) ELSE circle[k]
  BY AddKeeps DEF AddNode, Overwrite
<1>2. Present # {} /\ Present' # {} /\ Present' = Present \cup hs
  BY <1>1, AddPresent DEF IInv, EntriesAreSorted
<1>3. Present \in SUBSET Nat /\ Present' \in SUBSET Nat /\ h \in Nat
  BY HashIsNat DEF Present
<1>4. IsNext(Present, h, s) /\ IsNext(Present', h, t)
  <2>1. IsNext(Present, h, s)
    BY <1>2, SlotIsNext
  <2>2. t = LET above == {k \in Present' : k > h}
            IN  Least(IF above = {} THEN Present' ELSE above)
    BY DEF Slot
  <2>3. IsNext(Present', h, t)
    BY <1>2, <1>3, <2>2, LeastAboveIsNext
  <2>. QED
    BY <2>1, <2>3
<1>5. Lookup(h)' = IF t \in DOMAIN circle' THEN circle'[t] ELSE 0
  BY DEF Lookup
<1>6. CASE t \in hs
  BY <1>1, <1>5, <1>6
<1>7. CASE t \notin hs
  <2>1. t \in Present /\ Present \in SUBSET Present'
    BY <1>2, <1>4, <1>7 DEF IsNext
  <2>2. s = t
    BY <1>3, <1>4, <2>1, NextIsUnique
  <2>3. Lookup(h) = IF t \in DOMAIN circle THEN circle[t] ELSE 0
    BY <2>2 DEF Lookup
  <2>. QED
    BY <1>1, <1>5, <1>7, <2>3
<1>. QED
  BY <1>6, <1>7

(* Adding a loop moves keys to that loop and none between two others,      *)
(* whatever collides and whatever was removed before.                      *)
THEOREM AddDisturbsNobody == Spec => OnlyNewNodeGains
<1>1. IInv /\ [Next]_vars =>
        [(added' # added /\ DOMAIN circle # {}) =>
           \A h \in Hash : Lookup(h)' \in {Lookup(h), Len(added)}]_vars
  <2> SUFFICES ASSUME IInv, [Next]_vars, added' # added, DOMAIN circle # {},
                      NEW h \in Hash
               PROVE  Lookup(h)' \in {Lookup(h), Len(added)}
    OBVIOUS
  <2>1. PICK n \in Nodes : AddNode(n)
    BY DEF Next, RemoveNode, GetNode, vars
  <2>. QED
    BY <2>1, AddMovesToNew
<1>. QED
  BY <1>1, RingIsSound, PTL DEF Spec, OnlyNewNodeGains

-----------------------------------------------------------------------------
(* Until a node is removed, the ring holds the virtual nodes of the loops  *)
(* that were added, each under the loop that was added last.               *)
LastOwner(k, i) == i \in OwnersAt(k) /\ \A j \in OwnersAt(k) : j <= i

FreshRing ==
  ~removed =>
    /\ DOMAIN circle = Present
    /\ \A k \in Hash : k \in Present <=> OwnersAt(k) # {}
    /\ \A k \in DOMAIN circle : LastOwner(k, circle[k] + 1)

(* A new loop owns its own virtual nodes besides.                          *)
LEMMA AddOwners ==
  ASSUME IInv, NEW n \in Nodes, AddNode(n), NEW k
  PROVE  OwnersAt(k)' = OwnersAt(k) \cup
           (IF k \in Hashes(addHash, n) THEN {Len(added) + 1} ELSE {})
<1>1. added \in Seq(Nodes) /\ added' = Append(added, n)
      /\ addHash' = addHash
  BY DEF IInv, TypeOK, AddNode, hashFunction
<1>2. /\ Len(added) \in Nat /\ Len(added') = Len(added) + 1
      /\ added'[Len(added) + 1] = n
      /\ \A j \in 1..Len(added) : added'[j] = added[j]
  BY <1>1
<1>3. OwnersAt(k)' = {j \in 1..Len(added') : k \in Hashes(addHash, added'[j])}
  BY <1>1 DEF OwnersAt, Hashes
<1>4. OwnersAt(k) = {j \in 1..Len(added) : k \in Hashes(addHash, added[j])}
  BY DEF OwnersAt
<1>5. 1..Len(added') = 1..Len(added) \cup {Len(added) + 1}
  BY <1>2
<1>. QED
  BY <1>2, <1>3, <1>4, <1>5

(* The empty ring holds exactly the virtual nodes of no loop.              *)
LEMMA FreshInit == Init => FreshRing
<1> SUFFICES ASSUME Init PROVE FreshRing
  OBVIOUS
<1>1. DOMAIN circle = {} /\ added = <<>>
  BY DEF Init
<1>2. Present = {}
  BY DEF Init, Present
<1>3. \A k : OwnersAt(k) = {}
  BY <1>1 DEF OwnersAt
<1>. QED
  BY <1>1, <1>2, <1>3 DEF FreshRing

(* addNode keeps the ring to the virtual nodes of its loops: those of the  *)
(* new loop join it and take over where they collide.                      *)
LEMMA FreshAdd ==
  ASSUME IInv, FreshRing, NEW n \in Nodes, AddNode(n)
  PROVE  FreshRing'
<1> SUFFICES ASSUME ~removed'
             PROVE  /\ DOMAIN circle' = Present'
                    /\ \A k \in Hash : k \in Present' <=> OwnersAt(k)' # {}
                    /\ \A k \in DOMAIN circle' : LastOwner(k, circle[k] + 1)'
  BY DEF FreshRing
<1> DEFINE hs == Hashes(addHash, n)
<1>1. /\ DOMAIN circle = Present
      /\ \A k \in Hash : k \in Present <=> OwnersAt(k) # {}
      /\ \A k \in DOMAIN circle : LastOwner(k, circle[k] + 1)
  BY DEF FreshRing, AddNode
<1>2. /\ DOMAIN circle' = DOMAIN circle \cup hs
      /\ \A k \in DOMAIN circle' :
           circle'[k] = IF k \in hs THEN Len(added) ELSE circle[k]
  BY DEF AddNode, Overwrite
<1>3. Present' = Present \cup hs
  BY AddPresent
<1>4. \A k : OwnersAt(k)' = OwnersAt(k) \cup
                (IF k \in hs THEN {Len(added) + 1} ELSE {})
  BY AddOwners
<1>5. \A k \in Hash : k \in Present' <=> OwnersAt(k)' # {}
  BY <1>1, <1>3, <1>4
<1>6. ASSUME NEW k \in DOMAIN circle'
      PROVE  LastOwner(k, circle[k] + 1)'
  <2>1. SUFFICES /\ circle'[k] + 1 \in OwnersAt(k)'
                 /\ \A j \in OwnersAt(k)' : j <= circle'[k] + 1
    BY DEF LastOwner
  <2>2. CASE k \in hs
    <3>1. circle'[k] = Len(added) /\ Len(added) \in Nat
      BY <1>2, <2>2 DEF IInv, TypeOK
    <3>2. \A j \in OwnersAt(k) : j \in 1..Len(added)
      BY DEF OwnersAt
    <3>. QED
      BY <1>4, <2>2, <3>1, <3>2
  <2>3. CASE k \notin hs
    <3>1. k \in DOMAIN circle /\ circle'[k] = circle[k]
          /\ OwnersAt(k)' = OwnersAt(k)
      BY <1>2, <1>4, <2>3
    <3>. QED
      BY <1>1, <3>1 DEF LastOwner
  <2>. QED
    BY <2>2, <2>3
<1>. QED
  BY <1>1, <1>2, <1>3, <1>5, <1>6

(* getNode keeps it: operator[] finds the entry and inserts nothing.       *)
LEMMA FreshGet ==
  ASSUME IInv, FreshRing, NEW h \in Hash, GetNode(h)
  PROVE  FreshRing'
<1>1. /\ UNCHANGED <<sortedHashes, added, removed, addHash, removeHash>>
      /\ DOMAIN circle # {}
      /\ DOMAIN circle' = DOMAIN circle \cup {Slot(h)}
      /\ \A k \in DOMAIN circle' :
           circle'[k] = IF k = Slot(h) THEN Lookup(h) ELSE circle[k]
  BY DEF GetNode, Overwrite, hashFunction
<1>2. Present' = Present /\ \A k : OwnersAt(k)' = OwnersAt(k)
  BY <1>1 DEF Present, OwnersAt, Hashes
<1>3. CASE removed
  BY <1>1, <1>3 DEF FreshRing
<1>4. CASE ~removed
  <2>1. Slot(h) \in DOMAIN circle
    BY <1>1, <1>4, LookupFinds DEF FreshRing
  <2>2. Lookup(h) = circle[Slot(h)]
    BY <2>1 DEF Lookup
  <2>3. DOMAIN circle' = DOMAIN circle
        /\ \A k \in DOMAIN circle' : circle'[k] = circle[k]
    BY <1>1, <2>1, <2>2
  <2>. QED
    BY <1>2, <1>4, <2>3 DEF FreshRing, LastOwner
<1>. QED
  BY <1>3, <1>4

(* Every step keeps it, as long as no node was removed.                    *)
LEMMA FreshStep == IInv /\ FreshRing /\ [Next]_vars => FreshRing'
<1> SUFFICES ASSUME IInv, FreshRing, [Next]_vars PROVE FreshRing'
  OBVIOUS
<1>1. ASSUME NEW n \in Nodes, RemoveNode(n)
      PROVE  FreshRing'
  BY <1>1 DEF RemoveNode, FreshRing
<1>2. CASE UNCHANGED vars
  BY <1>2 DEF vars, FreshRing, LastOwner, OwnersAt, Hashes, Present
<1>. QED
  BY <1>1, <1>2, FreshAdd, FreshGet DEF Next

(* The virtual nodes of the loops that were added are on the ring.         *)
LEMMA FreshIsFull ==
  ASSUME IInv, FreshRing, ~removed, added # <<>>
  PROVE  Present # {}
<1>1. added[1] \in Nodes /\ 1 \in 1..Len(added)
  BY DEF IInv, TypeOK
<1>2. 1 \in 1..Replicas
  BY ReplicaAssumption
<1>3. addHash[<<added[1], 1>>] \in Hashes(addHash, added[1])
  BY <1>2 DEF Hashes
<1>4. addHash[<<added[1], 1>>] \in Hash
  BY <1>1, <1>3, HashesAreHashes DEF IInv
<1>5. 1 \in OwnersAt(addHash[<<added[1], 1>>])
  BY <1>1, <1>3 DEF OwnersAt
<1>. QED
  BY <1>4, <1>5 DEF FreshRing

(* The next hash of the ring is the nearest one clockwise.                 *)
LEMMA NextIsNearest ==
  ASSUME NEW h \in Hash, NEW s, IsNext(Present, h, s), NEW g \in Present
  PROVE  Clockwise(h, s) <= Clockwise(h, g)
<1>1. /\ h \in Nat /\ s \in Nat /\ g \in Nat /\ MaxHash \in Nat
      /\ s <= MaxHash /\ h <= MaxHash
  BY HashAssumption DEF IsNext, Present, Hash
<1>2. CASE s > h /\ \A k \in Present : k > h => s <= k
  <2>1. Clockwise(h, s) = s - h
    BY <1>2 DEF Clockwise
  <2>2. CASE g > h
    <3>1. Clockwise(h, g) = g - h /\ s <= g
      BY <1>2, <2>2 DEF Clockwise
    <3>. QED
      BY <1>1, <2>1, <3>1
  <2>3. CASE ~ (g > h)
    <3>1. Clockwise(h, g) = g + MaxHash + 1 - h
      BY <2>3 DEF Clockwise
    <3>. QED
      BY <1>1, <2>1, <3>1
  <2>. QED
    BY <2>2, <2>3
<1>3. CASE (\A k \in Present : k <= h) /\ \A k \in Present : s <= k
  <2>1. s \in Present /\ s <= h /\ g <= h /\ s <= g
    BY <1>3 DEF IsNext
  <2>2. ~ (s > h) /\ ~ (g > h)
    BY <1>1, <2>1
  <2>3. /\ Clockwise(h, s) = s + MaxHash + 1 - h
        /\ Clockwise(h, g) = g + MaxHash + 1 - h
    BY <2>2 DEF Clockwise
  <2>. QED
    BY <1>1, <2>1, <2>3
<1>. QED
  BY <1>2, <1>3 DEF IsNext

(* As long as no node was removed, getNode sends every key to the loop,    *)
(* added last, of the nearest virtual node past the key                    *)
(* (ConsistenHash.h:86-99), for every hash function.                       *)
THEOREM LookupIsRight == Spec => []LookupIsSuccessor
<1>1. ASSUME IInv, FreshRing
      PROVE  LookupIsSuccessor
  <2> SUFFICES ASSUME ~removed, added # <<>>, NEW h \in Hash
               PROVE  \E k \in Hash :
                        /\ OwnersAt(k) # {}
                        /\ \A g \in Hash : OwnersAt(g) # {} =>
                                            Clockwise(h, k) <= Clockwise(h, g)
                        /\ Lookup(h) + 1 \in OwnersAt(k)
                        /\ \A j \in OwnersAt(k) : j <= Lookup(h) + 1
    BY DEF LookupIsSuccessor
  <2>1. IsNext(Present, h, Slot(h))
    BY <1>1, FreshIsFull, SlotIsNext
  <2>2. /\ DOMAIN circle = Present
        /\ \A k \in Hash : k \in Present <=> OwnersAt(k) # {}
        /\ \A k \in DOMAIN circle : LastOwner(k, circle[k] + 1)
    BY <1>1 DEF FreshRing
  <2>3. Slot(h) \in Present /\ Slot(h) \in Hash
    BY <2>1 DEF IsNext, Present
  <2>4. Lookup(h) = circle[Slot(h)]
    BY <2>2, <2>3 DEF Lookup
  <2>5. LastOwner(Slot(h), Lookup(h) + 1) /\ OwnersAt(Slot(h)) # {}
    BY <2>2, <2>3, <2>4
  <2>6. \A g \in Hash : OwnersAt(g) # {} =>
                        Clockwise(h, Slot(h)) <= Clockwise(h, g)
    BY <2>1, <2>2, NextIsNearest
  <2>. QED
    BY <2>3, <2>5, <2>6 DEF LastOwner
<1>. QED
  BY <1>1, RingInit, RingStep, FreshInit, FreshStep, PTL DEF Spec
=============================================================================
