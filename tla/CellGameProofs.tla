----------------------------- MODULE CellGameProofs -----------------------------
(***************************************************************************)
(* The free list of the cell pool is sound for every capacity, and the     *)
(* game's steps keep the promise of a handle pool.                         *)
(***************************************************************************)
EXTENDS CellGame, FiniteSetTheorems, TLAPS

USE Int32MaxAssumption

(* The list of a buffer just linked is 0, 1, ..., capacity - 1.             *)
LEMMA InitializeIsSound ==
  ASSUME NEW c \in 1 .. Int32Max, initialize(c)
  PROVE  PoolTypeOK' /\ FreeListSound' /\ Allocated' = {}
<1> DEFINE s == [k \in 1 .. c |-> k - 1]
<1>1. /\ mNumObjects' = c
      /\ mNextAvailableIndex' = 0
      /\ mNumAllocatedObjects' = 0
      /\ Indices' = 0 .. c - 1
  BY DEF initialize, Indices
<1>2. \A i \in 0 .. c - 1 : mObjectPoolIndex'[i] =
                              IF i + 1 < c THEN i + 1 ELSE kInvalidIndex
  BY DEF initialize
<1>3. mObjectPoolIndex' \in [0 .. c - 1 -> (0 .. c - 1) \cup {kInvalidIndex}]
  BY DEF initialize
<1>4. PoolTypeOK'
  BY <1>1, <1>3 DEF PoolTypeOK
<1>5. \A i \in 0 .. c - 1 : mObjectPoolIndex'[i] # i
  BY <1>2 DEF kInvalidIndex
<1>6. \A i : ~isAllocated(i)'
  BY <1>1, <1>5 DEF isAllocated
<1>7. s \in [1 .. c -> Indices']
  BY <1>1
<1>8. FreeList(c, s)'
  <2>1. \A i \in 0 .. c - 1 : \E k \in 1 .. c : s[k] = i
    <3> TAKE i \in 0 .. c - 1
    <3>1. i + 1 \in 1 .. c /\ s[i + 1] = i
      OBVIOUS
    <3> QED BY <3>1
  <2>2. \A k \in 1 .. c :
          mObjectPoolIndex'[s[k]] = IF k = c THEN kInvalidIndex ELSE s[k + 1]
    BY <1>2
  <2> QED BY <1>1, <1>6, <2>1, <2>2 DEF FreeList
<1>9. c \in 0 .. mNumObjects'
  BY <1>1
<1> HIDE DEF s
<1>10. FreeListSound'
  BY <1>7, <1>8, <1>9 DEF FreeListSound
<1>11. Allocated' = {}
  BY <1>6 DEF Allocated
<1> QED BY <1>4, <1>10, <1>11

(* As many distinct indices as there are objects, at most.                  *)
LEMMA Pigeonhole ==
  ASSUME NEW N \in Nat, NEW m \in Nat, NEW t \in [1 .. m -> 0 .. N - 1],
         \A j, k \in 1 .. m : t[j] = t[k] => j = k
  PROVE  m <= N
<1> DEFINE R == {t[k] : k \in 1 .. m}
<1>1. t \in Bijection(1 .. m, R)
  BY DEF Bijection, Injection, Surjection, IsInjective
<1>2. Cardinality(R) = m
  BY <1>1, FS_CountingElements DEF ExistsBijection
<1>3. IsFiniteSet(0 .. N - 1) /\ Cardinality(0 .. N - 1) = N
  BY FS_Interval
<1>4. R \in SUBSET (0 .. N - 1)
  OBVIOUS
<1> HIDE DEF R
<1>5. Cardinality(R) <= Cardinality(0 .. N - 1)
  BY <1>3, <1>4, FS_Subset
<1> QED BY <1>2, <1>3, <1>5

(* An allocation takes the head, which nobody holds, off the list.          *)
LEMMA AllocateIsSound ==
  ASSUME PoolTypeOK, FreeListSound, allocate
  PROVE  /\ PoolTypeOK' /\ FreeListSound'
         /\ mNextAvailableIndex \in Indices \ Allocated
         /\ Allocated' = Allocated \cup {mNextAvailableIndex}
<1>1. PICK n \in 0 .. mNumObjects :
        \E s \in [1 .. n -> Indices] : FreeList(n, s)
  BY DEF FreeListSound
<1>2. PICK s \in [1 .. n -> Indices] : FreeList(n, s)
  BY <1>1
<1> DEFINE obj == mNextAvailableIndex
           t   == [k \in 1 .. n - 1 |-> s[k + 1]]
<1>3. /\ mNumObjects \in Nat
      /\ mObjectPoolIndex \in [Indices -> Indices \cup {kInvalidIndex}]
      /\ obj \in Indices
      /\ Indices' = Indices
      /\ mNumObjects' = mNumObjects
      /\ mNumAllocatedObjects' = mNumAllocatedObjects + 1
      /\ mNextAvailableIndex' = mObjectPoolIndex[obj]
  BY DEF allocate, PoolTypeOK, Indices
<1>4. /\ mObjectPoolIndex' \in [Indices -> Indices \cup {kInvalidIndex}]
      /\ mObjectPoolIndex'[obj] = obj
      /\ \A i \in Indices \ {obj} : mObjectPoolIndex'[i] = mObjectPoolIndex[i]
  BY <1>3 DEF allocate
<1>5. n \in 1 .. mNumObjects /\ s[1] = obj
  BY <1>2, <1>3 DEF FreeList, kInvalidIndex, Indices
<1>6. ~isAllocated(obj)
  BY <1>2, <1>3, <1>5 DEF FreeList
<1>7. \A i \in Indices : isAllocated(i)' <=> isAllocated(i) \/ i = obj
  BY <1>3, <1>4 DEF isAllocated
<1>8. \A k \in 2 .. n : s[k] \in Indices \ {obj}
  BY <1>2, <1>5 DEF FreeList
<1>9. t \in [1 .. n - 1 -> Indices']
  BY <1>2, <1>3, <1>5
<1>10. FreeList(n - 1, t)'
  <2>1. \A j, k \in 1 .. n - 1 : t[j] = t[k] => j = k
    BY <1>2, <1>5 DEF FreeList
  <2>2. \A i \in Indices : (\E k \in 1 .. n - 1 : t[k] = i) <=> ~isAllocated(i)'
    <3> TAKE i \in Indices
    <3>1. ASSUME NEW k \in 1 .. n - 1, t[k] = i PROVE ~isAllocated(i)'
      <4>1. k + 1 \in 2 .. n /\ s[k + 1] = i
        BY <3>1, <1>5
      <4> QED BY <4>1, <1>2, <1>7, <1>8 DEF FreeList
    <3>2. ASSUME ~isAllocated(i)' PROVE \E k \in 1 .. n - 1 : t[k] = i
      <4>1. PICK k \in 1 .. n : s[k] = i
        BY <3>2, <1>2, <1>7 DEF FreeList
      <4>2. k # 1
        BY <3>2, <4>1, <1>5, <1>7
      <4>3. k - 1 \in 1 .. n - 1 /\ t[k - 1] = i
        BY <4>1, <4>2, <1>5
      <4> QED BY <4>3
    <3> QED BY <3>1, <3>2
  <2>3. mNextAvailableIndex' = IF n - 1 = 0 THEN kInvalidIndex ELSE t[1]
    BY <1>2, <1>3, <1>5 DEF FreeList
  <2>4. \A k \in 1 .. n - 1 : mObjectPoolIndex'[t[k]] =
                                IF k = n - 1 THEN kInvalidIndex ELSE t[k + 1]
    <3> TAKE k \in 1 .. n - 1
    <3>1. k + 1 \in 2 .. n /\ t[k] = s[k + 1]
      BY <1>5
    <3>2. mObjectPoolIndex'[t[k]] = mObjectPoolIndex[s[k + 1]]
      BY <3>1, <1>4, <1>8
    <3> QED BY <3>1, <3>2, <1>2, <1>5 DEF FreeList
  <2>5. mNumAllocatedObjects' = mNumObjects' - (n - 1)
    BY <1>2, <1>3, <1>5 DEF FreeList, PoolTypeOK
  <2> HIDE DEF t
  <2> QED BY <2>1, <2>2, <2>3, <2>4, <2>5, <1>3 DEF FreeList
<1> HIDE DEF t
<1>11. FreeListSound'
  BY <1>3, <1>5, <1>9, <1>10 DEF FreeListSound
<1>12. PoolTypeOK'
  BY <1>2, <1>3, <1>4, <1>5 DEF PoolTypeOK, FreeList, Indices, kInvalidIndex
<1>13. Allocated' = Allocated \cup {obj}
  BY <1>3, <1>7 DEF Allocated
<1> QED BY <1>3, <1>6, <1>11, <1>12, <1>13 DEF Allocated

(* A release puts the object in front of the list.                          *)
LEMMA ReleaseIsSound ==
  ASSUME PoolTypeOK, FreeListSound, NEW i, release(i)
  PROVE  /\ PoolTypeOK' /\ FreeListSound'
         /\ i \in Allocated
         /\ Allocated' = Allocated \ {i}
<1>1. PICK n \in 0 .. mNumObjects :
        \E s \in [1 .. n -> Indices] : FreeList(n, s)
  BY DEF FreeListSound
<1>2. PICK s \in [1 .. n -> Indices] : FreeList(n, s)
  BY <1>1
<1> DEFINE t == [k \in 1 .. n + 1 |-> IF k = 1 THEN i ELSE s[k - 1]]
<1>3. /\ mNumObjects \in Nat
      /\ mObjectPoolIndex \in [Indices -> Indices \cup {kInvalidIndex}]
      /\ i \in Indices /\ isAllocated(i)
      /\ Indices' = Indices
      /\ mNumObjects' = mNumObjects
      /\ mNumAllocatedObjects' = mNumAllocatedObjects - 1
      /\ mNextAvailableIndex' = i
  BY DEF release, PoolTypeOK, Indices, isAllocated
<1>4. /\ mNextAvailableIndex \in Indices \cup {kInvalidIndex}
      /\ mNextAvailableIndex # i
  BY <1>2, <1>3 DEF FreeList, kInvalidIndex, Indices
<1>5. /\ mObjectPoolIndex' \in [Indices -> Indices \cup {kInvalidIndex}]
      /\ mObjectPoolIndex'[i] = mNextAvailableIndex
      /\ \A j \in Indices \ {i} : mObjectPoolIndex'[j] = mObjectPoolIndex[j]
  BY <1>3, <1>4 DEF release
<1>6. \A j \in Indices : isAllocated(j)' <=> isAllocated(j) /\ j # i
  BY <1>3, <1>4, <1>5 DEF isAllocated
<1>7. \A k \in 1 .. n : s[k] \in Indices \ {i}
  BY <1>2, <1>3 DEF FreeList
<1>8. t \in [1 .. n + 1 -> Indices']
  BY <1>2, <1>3
<1>9. \A j, k \in 1 .. n + 1 : t[j] = t[k] => j = k
  BY <1>2, <1>7 DEF FreeList
<1>10. FreeList(n + 1, t)'
  <2>1. \A j \in Indices : (\E k \in 1 .. n + 1 : t[k] = j) <=> ~isAllocated(j)'
    <3> TAKE j \in Indices
    <3>1. ASSUME NEW k \in 1 .. n + 1, t[k] = j PROVE ~isAllocated(j)'
      <4>1. CASE k = 1
        BY <4>1, <3>1, <1>6
      <4>2. CASE k # 1
        <5>1. k - 1 \in 1 .. n /\ s[k - 1] = j
          BY <4>2, <3>1
        <5> QED BY <5>1, <1>2, <1>6 DEF FreeList
      <4> QED BY <4>1, <4>2
    <3>2. ASSUME ~isAllocated(j)' PROVE \E k \in 1 .. n + 1 : t[k] = j
      <4>1. CASE j = i
        <5>1. 1 \in 1 .. n + 1 /\ t[1] = j
          BY <4>1
        <5> QED BY <5>1
      <4>2. CASE j # i
        <5>1. PICK k \in 1 .. n : s[k] = j
          BY <4>2, <3>2, <1>2, <1>6 DEF FreeList
        <5>2. k + 1 \in 1 .. n + 1 /\ t[k + 1] = j
          BY <5>1
        <5> QED BY <5>2
      <4> QED BY <4>1, <4>2
    <3> QED BY <3>1, <3>2
  <2>2. mNextAvailableIndex' = IF n + 1 = 0 THEN kInvalidIndex ELSE t[1]
    BY <1>3
  <2>3. \A k \in 1 .. n + 1 : mObjectPoolIndex'[t[k]] =
                                IF k = n + 1 THEN kInvalidIndex ELSE t[k + 1]
    <3> TAKE k \in 1 .. n + 1
    <3>1. CASE k = 1
      BY <3>1, <1>2, <1>5 DEF FreeList
    <3>2. CASE k # 1
      <4>1. k - 1 \in 1 .. n /\ t[k] = s[k - 1]
        BY <3>2
      <4>2. mObjectPoolIndex'[t[k]] = mObjectPoolIndex[s[k - 1]]
        BY <4>1, <1>5, <1>7
      <4> QED BY <4>1, <4>2, <1>2 DEF FreeList
    <3> QED BY <3>1, <3>2
  <2>4. mNumAllocatedObjects' = mNumObjects' - (n + 1)
    BY <1>2, <1>3 DEF FreeList, PoolTypeOK
  <2> HIDE DEF t
  <2> QED BY <1>3, <1>9, <2>1, <2>2, <2>3, <2>4 DEF FreeList
<1> HIDE DEF t
<1>11. n + 1 <= mNumObjects
  <2>1. t \in [1 .. n + 1 -> 0 .. mNumObjects - 1]
    BY <1>3, <1>8 DEF Indices
  <2>2. n + 1 \in Nat
    BY <1>3
  <2> QED BY <1>3, <1>9, <2>1, <2>2, Pigeonhole
<1>12. FreeListSound'
  BY <1>3, <1>8, <1>10, <1>11 DEF FreeListSound
<1>13. PoolTypeOK'
  BY <1>2, <1>3, <1>5, <1>11 DEF PoolTypeOK, FreeList, Indices, kInvalidIndex
<1>14. Allocated' = Allocated \ {i}
  BY <1>3, <1>6 DEF Allocated
<1> QED BY <1>3, <1>12, <1>13, <1>14 DEF Allocated

(* What holds in every state of the game.                                   *)
IInv ==
  /\ TypeOK
  /\ PoolIsSound
  /\ MoverIsOfThisPool
  /\ ~mInitialized => mNumObjects = 0 /\ ~mMovementState.moving

LEMMA InitIInv == Init => IInv
<1> SUFFICES ASSUME Init PROVE IInv
  OBVIOUS
<1>1. Indices = {} /\ mObjectPoolIndex \in [{} -> {kInvalidIndex}]
  BY DEF Init, PoolInit, Indices
<1>2. PoolTypeOK
  BY <1>1 DEF Init, PoolInit, PoolTypeOK, kInvalidIndex
<1>3. mMovementState = [moving |-> FALSE, ownerIndex |-> kInvalidIndex]
  BY DEF Init, Still
<1>4. mMovementState \in [moving : BOOLEAN,
                          ownerIndex : (0 .. Int32Max - 1) \cup {kInvalidIndex}]
  BY <1>3
<1>5. mInitialized = FALSE /\ mConfiguredCapacity \in 0 .. Int32Max
  BY DEF Init
<1>6. TypeOK
  BY <1>2, <1>4, <1>5, Zenon DEF TypeOK
<1>7. mMovementState.moving = FALSE
  BY <1>3
<1> QED BY <1>5, <1>6, <1>7 DEF Init, PoolInit, IInv, PoolIsSound, MoverIsOfThisPool

LEMMA InitializeKeepsIInv ==
  ASSUME NEW c \in 0 .. Int32Max + 1, Initialize(c)
  PROVE  IInv' /\ Allocated' = {}
<1>1. c \in 1 .. Int32Max /\ initialize(c)
  BY DEF Initialize
<1>2. PoolTypeOK' /\ FreeListSound' /\ Allocated' = {}
  BY <1>1, InitializeIsSound
<1>3. /\ mInitialized' = TRUE
      /\ mConfiguredCapacity' = c
      /\ mMovementState' = [moving |-> FALSE, ownerIndex |-> kInvalidIndex]
  BY DEF Initialize, Still
<1>4. TypeOK'
  BY <1>1, <1>2, <1>3 DEF TypeOK
<1> QED BY <1>2, <1>3, <1>4 DEF IInv, PoolIsSound, MoverIsOfThisPool

LEMMA ReleaseNeedsInitialized ==
  ASSUME IInv, NEW i, isAllocated(i)
  PROVE  mInitialized
BY DEF IInv, TypeOK, isAllocated, Indices

LEMMA NextKeepsIInv == IInv /\ [Next]_vars => IInv'
<1> SUFFICES ASSUME IInv, [Next]_vars PROVE IInv'
  OBVIOUS
<1>1. ASSUME NEW c \in 0 .. Int32Max + 1, Initialize(c) PROVE IInv'
  BY <1>1, InitializeKeepsIInv
<1>2. CASE Reset
  <2>1. mConfiguredCapacity \in 0 .. Int32Max + 1
    BY DEF IInv, TypeOK
  <2> QED BY <1>2, <2>1, InitializeKeepsIInv DEF Reset
<1>3. CASE CreateCellObject
  <2>1. mInitialized /\ allocate /\ UNCHANGED gameVars
    BY <1>3 DEF CreateCellObject
  <2>2. PoolTypeOK' /\ FreeListSound'
    BY <2>1, AllocateIsSound DEF IInv, TypeOK, PoolIsSound
  <2>3. Indices' = Indices /\ mNumObjects' = mNumObjects
    BY <2>1 DEF allocate, Indices
  <2> QED BY <2>1, <2>2, <2>3
          DEF IInv, TypeOK, PoolIsSound, MoverIsOfThisPool, gameVars
<1>4. ASSUME NEW i \in 0 .. Int32Max, ReleaseCell(i) PROVE IInv'
  <2>1. release(i) /\ UNCHANGED gameVars
    BY <1>4 DEF ReleaseCell
  <2>2. mInitialized
    BY <2>1, ReleaseNeedsInitialized DEF release
  <2>3. PoolTypeOK' /\ FreeListSound'
    BY <2>1, <2>2, ReleaseIsSound DEF IInv, TypeOK, PoolIsSound
  <2>4. Indices' = Indices /\ mNumObjects' = mNumObjects
    BY <2>1 DEF release, Indices
  <2> QED BY <2>1, <2>2, <2>3, <2>4
          DEF IInv, TypeOK, PoolIsSound, MoverIsOfThisPool, gameVars
<1>5. ASSUME NEW i \in 0 .. Int32Max, ApplyCellMovement(i) PROVE IInv'
  <2>1. /\ mInitialized /\ i \in Indices
        /\ mMovementState' = [moving |-> TRUE, ownerIndex |-> i]
        /\ UNCHANGED <<poolVars, mInitialized, mConfiguredCapacity>>
    BY <1>5 DEF ApplyCellMovement, isAllocated
  <2>2. PoolTypeOK' /\ FreeListSound' /\ Indices' = Indices
    BY <2>1 DEF IInv, TypeOK, PoolIsSound, PoolTypeOK, FreeListSound, FreeList,
                isAllocated, Indices, poolVars
  <2>3. i \in 0 .. Int32Max - 1
    BY <2>1 DEF IInv, TypeOK, PoolTypeOK, Indices
  <2> QED BY <2>1, <2>2, <2>3 DEF IInv, TypeOK, PoolIsSound, MoverIsOfThisPool
<1>6. CASE UNCHANGED vars
  BY <1>6 DEF vars, poolVars, gameVars, IInv, TypeOK, PoolTypeOK, PoolIsSound,
              FreeListSound, FreeList, isAllocated, Indices, MoverIsOfThisPool
<1> QED BY <1>1, <1>2, <1>3, <1>4, <1>5, <1>6 DEF Next

LEMMA AlwaysIInv == Spec => []IInv
BY InitIInv, NextKeepsIInv, PTL DEF Spec

(* The variables of the pool and the game stay of their types.              *)
THEOREM TypeCorrect == Spec => []TypeOK
<1>1. IInv => TypeOK
  BY DEF IInv
<1> QED BY <1>1, AlwaysIInv, PTL

(* No sequence of resets, creations, releases and double releases breaks    *)
(* the list of free cells (CellPool.hpp:88-134), whatever the capacity.     *)
THEOREM FreeListStaysSound == Spec => []PoolIsSound
<1>1. IInv => PoolIsSound
  BY DEF IInv
<1> QED BY <1>1, AlwaysIInv, PTL

(* The mover is a cell of this game's pool (CellGame.cpp:30).               *)
THEOREM MoverStaysInPool == Spec => []MoverIsOfThisPool
<1>1. IInv => MoverIsOfThisPool
  BY DEF IInv
<1> QED BY <1>1, AlwaysIInv, PTL

(* A creation is refused only when every cell is in use (CellGame.cpp:110). *)
THEOREM RefusalsAreEarned == Spec => []RefusedOnlyWhenFull
<1>1. IInv => RefusedOnlyWhenFull
  <2> SUFFICES ASSUME IInv, mInitialized
               PROVE  mNextAvailableIndex = kInvalidIndex <=> Allocated = Indices
    BY DEF RefusedOnlyWhenFull
  <2>1. PICK n \in 0 .. mNumObjects :
          \E s \in [1 .. n -> Indices] : FreeList(n, s)
    BY DEF IInv, PoolIsSound, FreeListSound
  <2>2. PICK s \in [1 .. n -> Indices] : FreeList(n, s)
    BY <2>1
  <2>3. CASE n = 0
    BY <2>2, <2>3 DEF FreeList, Allocated
  <2>4. CASE n # 0
    <3>1. 1 \in 1 .. n /\ mNextAvailableIndex = s[1]
      BY <2>2, <2>4 DEF FreeList
    <3>2. s[1] \in Indices /\ ~isAllocated(s[1])
      BY <2>2, <3>1 DEF FreeList
    <3>3. mNextAvailableIndex # kInvalidIndex
      BY <3>1, <3>2 DEF Indices, kInvalidIndex
    <3> QED BY <3>2, <3>3 DEF Allocated
  <2> QED BY <2>3, <2>4
<1> QED BY <1>1, AlwaysIInv, PTL

(* The game's pool keeps the promise of a handle pool: no cell is handed    *)
(* out twice, none is taken back twice, and the count is right.             *)
THEOREM GameKeepsPoolPromise == Spec => CellsAreExclusive
<1>1. Init => Handles!Init
  BY DEF Init, PoolInit, Handles!Init, Allocated, Indices
<1>2. IInv /\ [Next]_vars
        => [Handles!Next]_<<mNumObjects, Allocated, mNumAllocatedObjects>>
  <2> SUFFICES ASSUME IInv, [Next]_vars
      PROVE \/ Handles!Next
            \/ UNCHANGED <<mNumObjects, Allocated, mNumAllocatedObjects>>
    OBVIOUS
  <2>1. ASSUME NEW c \in 0 .. Int32Max + 1, Initialize(c) PROVE Handles!Next
    <3>1. Allocated' = {}
      BY <2>1, InitializeKeepsIInv
    <3>2. mNumObjects' = c /\ mNumAllocatedObjects' = 0
      BY <2>1 DEF Initialize, initialize
    <3> QED BY <3>1, <3>2 DEF Handles!Next, Handles!Empty
  <2>2. CASE Reset
    <3>1. mConfiguredCapacity \in 0 .. Int32Max + 1
      BY DEF IInv, TypeOK
    <3> QED BY <2>1, <2>2, <3>1 DEF Reset
  <2>3. CASE CreateCellObject
    <3>1. mInitialized /\ allocate
      BY <2>3 DEF CreateCellObject
    <3>2. /\ mNextAvailableIndex \in Indices \ Allocated
          /\ Allocated' = Allocated \cup {mNextAvailableIndex}
      BY <3>1, AllocateIsSound DEF IInv, TypeOK, PoolIsSound
    <3>3. /\ mNumObjects' = mNumObjects
          /\ mNumAllocatedObjects' = mNumAllocatedObjects + 1
      BY <3>1 DEF allocate
    <3> QED BY <3>2, <3>3 DEF Handles!Next, Handles!Take, Indices
  <2>4. ASSUME NEW i \in 0 .. Int32Max, ReleaseCell(i) PROVE Handles!Next
    <3>1. release(i)
      BY <2>4 DEF ReleaseCell
    <3>2. mInitialized
      BY <3>1, ReleaseNeedsInitialized DEF release
    <3>3. i \in Allocated /\ Allocated' = Allocated \ {i}
      BY <3>1, <3>2, ReleaseIsSound DEF IInv, TypeOK, PoolIsSound
    <3>4. /\ mNumObjects' = mNumObjects
          /\ mNumAllocatedObjects' = mNumAllocatedObjects - 1
      BY <3>1 DEF release
    <3> QED BY <3>3, <3>4 DEF Handles!Next, Handles!Give, Allocated, Indices
  <2>5. ASSUME UNCHANGED poolVars
        PROVE  UNCHANGED <<mNumObjects, Allocated, mNumAllocatedObjects>>
    BY <2>5 DEF poolVars, Allocated, isAllocated, Indices
  <2> QED BY <2>1, <2>2, <2>3, <2>4, <2>5 DEF Next, ApplyCellMovement, vars
<1> QED BY <1>1, <1>2, AlwaysIInv, PTL DEF Spec, CellsAreExclusive, Handles!Spec
=============================================================================
