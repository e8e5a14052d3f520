---------------------------- MODULE ConsistentHash ----------------------------
(***************************************************************************)
(* The ring that assigns connections to I/O loops (ConsistenHash.h), as    *)
(* EventLoopThreadPool uses it: loops are added one by one, each with its  *)
(* position in loops_, and an address is looked up for every connection.   *)
(* Every operation holds mtx_ from its first line to its last, so each is  *)
(* one step.                                                               *)
(*                                                                         *)
(* The hash function is an unknown but fixed function of the strings that  *)
(* are hashed: it is chosen in Init, collisions included, and a key is its *)
(* hash.  sortedHashes_ is sorted whenever the mutex is free, so it is its *)
(* bag of values: how often each hash occurs.                              *)
(***************************************************************************)
EXTENDS Naturals, Sequences, FiniteSets

CONSTANTS
  Nodes,         \* node names
  Replicas,      \* numReplicas_
  MaxHash,       \* bound: hash values are 0..MaxHash
  MaxAdds        \* bound: calls of addNode

Hash == 0..MaxHash
Virtual == Nodes \X (1..Replicas)

ASSUME HashAssumption == MaxHash \in Nat /\ MaxAdds \in Nat
ASSUME ReplicaAssumption == Replicas \in Nat \ {0}

VARIABLES
  addHash,       \* hashFunction_(node + "_0" + i), what addNode hashes
  removeHash,    \* hashFunction_(node + i), what removeNode hashes
  circle,        \* circle_: a function on the hashes that have an entry
  sortedHashes,  \* sortedHashes_: the occurrences of each hash
  added,         \* the node of each loop of loops_, oldest first
  removed        \* history: removeNode was called

vars == <<addHash, removeHash, circle, sortedHashes, added, removed>>

hashFunction == <<addHash, removeHash>>

-----------------------------------------------------------------------------
Init ==
  /\ addHash \in [Virtual -> Hash]
  /\ removeHash \in [Virtual -> Hash]
  /\ circle = [h \in {} |-> 0]
  /\ sortedHashes = [h \in Hash |-> 0]
  /\ added = <<>>
  /\ removed = FALSE

Hashes(f, n) == {f[<<n, i>>] : i \in 1..Replicas}

(* How many of the virtual nodes of n have hash h.                         *)
Times(f, n, h) == Cardinality({i \in 1..Replicas : f[<<n, i>>] = h})

Present == {h \in Hash : sortedHashes[h] > 0}

Least(S) == CHOOSE h \in S : \A k \in S : h <= k

(* upper_bound, or the first hash of the ring past the last one.           *)
Slot(h) ==
  LET above == {k \in Present : k > h}
  IN  Least(IF above = {} THEN Present ELSE above)

(* circle_[*it]: operator[] answers 0 for a hash without an entry.         *)
Lookup(h) == IF Slot(h) \in DOMAIN circle THEN circle[Slot(h)] ELSE 0

Overwrite(hs, index) ==
  [h \in DOMAIN circle \cup hs |-> IF h \in hs THEN index ELSE circle[h]]

-----------------------------------------------------------------------------
AddNodeOffByOne(n) ==
  /\ Len(added) < MaxAdds
  /\ added' = Append(added, n)
  /\ circle' = Overwrite(Hashes(addHash, n), Len(added) + 1)
  /\ sortedHashes' =
       [h \in Hash |-> sortedHashes[h] + Times(addHash, n, h)]
  /\ UNCHANGED <<removed, hashFunction>>

AddNodeOtherName(n) ==
  /\ Len(added) < MaxAdds
  /\ added' = Append(added, n)
  /\ circle' = Overwrite(Hashes(addHash, n), Len(added))
  /\ sortedHashes' =
       [h \in Hash |-> sortedHashes[h] + Times(removeHash, n, h)]
  /\ UNCHANGED <<removed, hashFunction>>

AddNodeByEmplace(n) ==
  /\ Len(added) < MaxAdds
  /\ added' = Append(added, n)
  /\ circle' = Overwrite(Hashes(addHash, n) \ DOMAIN circle, Len(added))
  /\ sortedHashes' =
       [h \in Hash |-> sortedHashes[h] + Times(addHash, n, h)]
  /\ UNCHANGED <<removed, hashFunction>>

(* EventLoopThreadPool::start pushes the loop and calls addNode with       *)
(* loops_.size() - 1.  A hash that is taken gets a new owner and occurs    *)
(* once more in sortedHashes_.                                             *)
AddNode(n) ==
  /\ Len(added) < MaxAdds
  /\ added' = Append(added, n)
  /\ circle' = Overwrite(Hashes(addHash, n), Len(added))
  /\ sortedHashes' =
       [h \in Hash |-> sortedHashes[h] + Times(addHash, n, h)]
  /\ UNCHANGED <<removed, hashFunction>>

(* removeNode: each hash loses its entry in circle_ and one occurrence in  *)
(* sortedHashes_, if it has any.                                           *)
RemoveNode(n) ==
  /\ removed' = TRUE
  /\ circle' = [h \in DOMAIN circle \ Hashes(removeHash, n) |-> circle[h]]
  /\ sortedHashes' =
       [h \in Hash |-> IF sortedHashes[h] <= Times(removeHash, n, h) THEN 0
                       ELSE sortedHashes[h] - Times(removeHash, n, h)]
  /\ UNCHANGED <<added, hashFunction>>

(* getNode for a key with hash h: operator[] also inserts the 0.  With an  *)
(* empty circle_ it throws and changes nothing.                            *)
GetNode(h) ==
  /\ DOMAIN circle # {}
  /\ circle' = Overwrite({Slot(h)}, Lookup(h))
  /\ UNCHANGED <<sortedHashes, added, removed, hashFunction>>

Next ==
  \/ \E n \in Nodes : AddNode(n) \/ RemoveNode(n)
  \/ \E h \in Hash : GetNode(h)

Spec == Init /\ [][Next]_vars

-----------------------------------------------------------------------------
(* Types of the variables.                                                 *)
TypeOK ==
  /\ addHash \in [Virtual -> Hash]
  /\ removeHash \in [Virtual -> Hash]
  /\ DOMAIN circle \subseteq Hash
  /\ sortedHashes \in [Hash -> Nat]
  /\ added \in Seq(Nodes)
  /\ removed \in BOOLEAN

(* Every entry of circle_ has its hash in sortedHashes_: getNode, which    *)
(* tests circle_ only, never dereferences the end of sortedHashes_         *)
(* (ConsistenHash.h:88, 96-98), whatever collided or was removed.          *)
EntriesAreSorted == DOMAIN circle \subseteq Present

(* Every index in the ring is one of loops_, and so is the 0 of operator[] *)
(* (EventLoopThreadPool.cc:55-61).                                         *)
IndexInRange ==
  /\ \A h \in DOMAIN circle : circle[h] \in Nat /\ circle[h] < Len(added)
  /\ DOMAIN circle # {} => added # <<>>

(* The inductive invariant of the ring.                                    *)
IInv == TypeOK /\ EntriesAreSorted /\ IndexInRange

(* A lookup on a ring with an entry finds a slot, and a loop of loops_.    *)
LookupSafe ==
  DOMAIN circle # {} =>
    \A h \in Hash : Slot(h) \in Present /\ Lookup(h) < Len(added)

Clockwise(h, k) == IF k > h THEN k - h ELSE k + MaxHash + 1 - h

(* The owner of a virtual node: the loop added last among those with it.   *)
OwnersAt(k) == {j \in 1..Len(added) : k \in Hashes(addHash, added[j])}

(* Until a node is removed, a key goes to the loop, added last, of the     *)
(* virtual node that is nearest clockwise and strictly after the key, as   *)
(* upper_bound and its comment say (ConsistenHash.h:92,                    *)
(* "第一个大于键哈希值的位置"), however the hashes collide.                    *)
LookupIsSuccessor ==
  (~removed /\ added # <<>>) =>
    \A h \in Hash :
      \E k \in Hash :
        /\ OwnersAt(k) # {}
        /\ \A g \in Hash : OwnersAt(g) # {} => Clockwise(h, k) <= Clockwise(h, g)
        /\ Lookup(h) + 1 \in OwnersAt(k)
        /\ \A j \in OwnersAt(k) : j <= Lookup(h) + 1

(* What the documentation of getNode says instead (ConsistenHash.h:78,     *)
(* "第一个大于等于该值的节点", and EventLoopThreadPool.cc:48): the first       *)
(* virtual node whose hash is not less than that of the key.               *)
LookupAsDocumented ==
  (~removed /\ added # <<>>) =>
    LET nodes == {k \in Hash : OwnersAt(k) # {}}
    IN  \A h \in Hash :
          LET from == {k \in nodes : k >= h}
          IN  Lookup(h) + 1 \in
                OwnersAt(Least(IF from = {} THEN nodes ELSE from))

(* Adding a loop moves keys to that loop only (ConsistenHash.h:13,         *)
(* "旨在最小化在节点添加或移除时键的重新分配"): no connection of a client that *)
(* comes back changes between two older loops.                             *)
OnlyNewNodeGains ==
  [][(added' # added /\ DOMAIN circle # {}) =>
        \A h \in Hash : Lookup(h)' \in {Lookup(h), Len(added)}]_vars

(* removeNode takes all virtual nodes of the node off the ring             *)
(* (ConsistenHash.h:58, "删除该节点的所有虚拟节点及其对应的哈希值").            *)
RemovedNodeServesNothing ==
  [][\A n \in Nodes : RemoveNode(n) =>
        \A h \in DOMAIN circle' : added[circle'[h] + 1] # n]_vars
=============================================================================
