-------------------------------- MODULE CellPool --------------------------------
(***************************************************************************)
(* CellPool.hpp: cObjectPool, a fixed buffer whose free objects are linked *)
(* through their own first word. The same word holds an allocated object's *)
(* own index, and that is the only record that it is allocated.            *)
(***************************************************************************)
EXTENDS Integers

CONSTANT Int32Max  \* the largest capacity an int32_t can hold

ASSUME Int32MaxAssumption == Int32Max \in Nat

VARIABLES
  mNumObjects,
  mNextAvailableIndex,   \* head of the free list
  mNumAllocatedObjects,
  mObjectPoolIndex       \* [index -> first word]; empty while mpData is null

poolVars ==
  <<mNumObjects, mNextAvailableIndex, mNumAllocatedObjects, mObjectPoolIndex>>

kInvalidIndex == -1      \* 0xFFFFFFFF as an int32_t

Indices == 0 .. mNumObjects - 1

(* A default-constructed pool: the head is 0, and there is no buffer.       *)
PoolInit ==
  /\ mNumObjects = 0
  /\ mNextAvailableIndex = 0
  /\ mNumAllocatedObjects = 0
  /\ mObjectPoolIndex = [i \in {} |-> kInvalidIndex]

PoolTypeOK ==
  /\ mNumObjects \in 0 .. Int32Max
  /\ mNextAvailableIndex \in (-1 .. Int32Max - 1) \cup {0}
  /\ mNumAllocatedObjects \in 0 .. Int32Max
  /\ mObjectPoolIndex \in [Indices -> Indices \cup {kInvalidIndex}]

isAllocated(i) == i \in Indices /\ mObjectPoolIndex[i] = i

Allocated == {i \in Indices : isAllocated(i)}

(* Mutant: the last object is left out of the list.                         *)
initializeShort(capacity) ==
  /\ mNumObjects' = capacity
  /\ mNumAllocatedObjects' = 0
  /\ mNextAvailableIndex' = IF capacity = 0 THEN kInvalidIndex ELSE 0
  /\ mObjectPoolIndex' = [i \in 0 .. capacity - 1 |->
                            IF i + 2 < capacity THEN i + 1 ELSE kInvalidIndex]

initialize(capacity) ==
  /\ mNumObjects' = capacity
  /\ mNumAllocatedObjects' = 0
  /\ mNextAvailableIndex' = IF capacity = 0 THEN kInvalidIndex ELSE 0
  /\ mObjectPoolIndex' = [i \in 0 .. capacity - 1 |->
                            IF i + 1 < capacity THEN i + 1 ELSE kInvalidIndex]

(* Mutant: the free object's link is read after it was overwritten.         *)
allocateLinkLast ==
  LET obj == mNextAvailableIndex IN
  /\ obj >= 0
  /\ obj \in Indices
  /\ mObjectPoolIndex' = [mObjectPoolIndex EXCEPT ![obj] = obj]
  /\ mNextAvailableIndex' = mObjectPoolIndex'[obj]
  /\ mNumAllocatedObjects' = mNumAllocatedObjects + 1
  /\ UNCHANGED mNumObjects

(* The head is unlinked; with no buffer behind it the result is undefined. *)
allocate ==
  LET obj == mNextAvailableIndex IN
  /\ obj >= 0
  /\ obj \in Indices
  /\ mObjectPoolIndex' = [mObjectPoolIndex EXCEPT ![obj] = obj]
  /\ mNextAvailableIndex' = mObjectPoolIndex[obj]
  /\ mNumAllocatedObjects' = mNumAllocatedObjects + 1
  /\ UNCHANGED mNumObjects

(* Mutant: the head is moved to the object before the object is linked.     *)
releaseHeadFirst(i) ==
  /\ isAllocated(i)
  /\ mNextAvailableIndex' = i
  /\ mObjectPoolIndex' = [mObjectPoolIndex EXCEPT ![i] = mNextAvailableIndex']
  /\ mNumAllocatedObjects' = mNumAllocatedObjects - 1
  /\ UNCHANGED mNumObjects

(* release of the object at i; one that is not allocated is refused.        *)
release(i) ==
  /\ isAllocated(i)
  /\ mObjectPoolIndex' = [mObjectPoolIndex EXCEPT ![i] = mNextAvailableIndex]
  /\ mNextAvailableIndex' = i
  /\ mNumAllocatedObjects' = mNumAllocatedObjects - 1
  /\ UNCHANGED mNumObjects

(* s lists the free objects in the order of their links.                    *)
FreeList(n, s) ==
  /\ \A j, k \in 1 .. n : s[j] = s[k] => j = k
  /\ \A i \in Indices : (\E k \in 1 .. n : s[k] = i) <=> ~isAllocated(i)
  /\ mNextAvailableIndex = IF n = 0 THEN kInvalidIndex ELSE s[1]
  /\ \A k \in 1 .. n :
       mObjectPoolIndex[s[k]] = IF k = n THEN kInvalidIndex ELSE s[k + 1]
  /\ mNumAllocatedObjects = mNumObjects - n

(* From the head one meets every free object once and no other, and the     *)
(* count is that of the rest: no sequence of allocations and releases,      *)
(* double ones included, loses an object or hands one out twice.            *)
FreeListSound ==
  \E n \in 0 .. mNumObjects : \E s \in [1 .. n -> Indices] : FreeList(n, s)

(* The promise of the pool, kept by what its objects' words say.            *)
Handles == INSTANCE HandlePool WITH size <- mNumObjects, held <- Allocated,
                               count <- mNumAllocatedObjects
=============================================================================
