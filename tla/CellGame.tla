-------------------------------- MODULE CellGame --------------------------------
(***************************************************************************)
(* CellGame.cpp over its pool: the game is initialized, reset, populated,  *)
(* and moves one cell by an index its caller kept. Callers reach the pool  *)
(* (the public mCells) too, and may release any cell they can look up.     *)
(***************************************************************************)
EXTENDS CellPool

VARIABLES
  mInitialized,
  mConfiguredCapacity,
  mMovementState     \* [moving, ownerIndex]

gameVars == <<mInitialized, mConfiguredCapacity, mMovementState>>
vars     == <<poolVars, gameVars>>

Still == [moving |-> FALSE, ownerIndex |-> kInvalidIndex]

Init ==
  /\ PoolInit
  /\ mInitialized = FALSE
  /\ mConfiguredCapacity = 0
  /\ mMovementState = Still

(* Mutant: the mover of the previous game is kept.                          *)
InitializeKeepsMover(poolCapacity) ==
  /\ poolCapacity # 0 /\ poolCapacity <= Int32Max
  /\ initialize(poolCapacity)
  /\ mInitialized' = TRUE
  /\ mConfiguredCapacity' = poolCapacity
  /\ UNCHANGED mMovementState

(* CellGame::initialize; a capacity it refuses changes nothing.             *)
Initialize(poolCapacity) ==
  /\ poolCapacity # 0 /\ poolCapacity <= Int32Max
  /\ initialize(poolCapacity)
  /\ mMovementState' = Still
  /\ mConfiguredCapacity' = poolCapacity
  /\ mInitialized' = TRUE

Reset ==
  /\ mInitialized /\ mConfiguredCapacity # 0
  /\ Initialize(mConfiguredCapacity)

(* createCellObject; a full pool yields kInvalidIndex and changes nothing.  *)
CreateCellObject ==
  /\ mInitialized
  /\ allocate
  /\ UNCHANGED gameVars

ReleaseCell(i) == release(i) /\ UNCHANGED gameVars

(* Mutant: a movement routed to whatever the index names.                   *)
MoveAnything(targetIndex) ==
  /\ mInitialized
  /\ mMovementState' = [moving |-> TRUE, ownerIndex |-> targetIndex]
  /\ UNCHANGED <<poolVars, mInitialized, mConfiguredCapacity>>

(* applyCellMovement, when the ray and the orientation resolve; every other *)
(* answer leaves the cell and the movement state alone.                     *)
ApplyCellMovement(targetIndex) ==
  /\ mInitialized
  /\ isAllocated(targetIndex)
  /\ mMovementState' = [moving |-> TRUE, ownerIndex |-> targetIndex]
  /\ UNCHANGED <<poolVars, mInitialized, mConfiguredCapacity>>

(* Callers pass capacities and indices beyond the ones that are accepted.   *)
Next ==
  \/ \E c \in 0 .. Int32Max + 1 : Initialize(c)
  \/ Reset
  \/ CreateCellObject
  \/ \E i \in 0 .. Int32Max : ReleaseCell(i) \/ ApplyCellMovement(i)

Spec == Init /\ [][Next]_vars

TypeOK ==
  /\ PoolTypeOK
  /\ mInitialized \in BOOLEAN
  /\ mConfiguredCapacity \in 0 .. Int32Max
  /\ mMovementState \in [moving : BOOLEAN,
                         ownerIndex : (0 .. Int32Max - 1) \cup {kInvalidIndex}]

(* Once the game is initialized its pool's free list is sound, through any  *)
(* number of resets, creations and releases (CellPool.hpp:88-134).          *)
PoolIsSound == mInitialized => FreeListSound

(* The pool never hands out a cell that is in use, nor takes back one that  *)
(* is not: the game's steps are those of a handle pool.                     *)
CellsAreExclusive == Handles!Spec

(* A creation is refused only when every cell is in use (CellGame.cpp:110). *)
RefusedOnlyWhenFull ==
  mInitialized => (mNextAvailableIndex = kInvalidIndex <=> Allocated = Indices)

(* The mover names a cell of this game's pool, never one of the pool a      *)
(* re-initialization replaced (CellGame.cpp:30).                            *)
MoverIsOfThisPool == mMovementState.moving => mMovementState.ownerIndex \in Indices
=============================================================================
