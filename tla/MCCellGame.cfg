SPECIFICATION Spec
CONSTANT Int32Max = 5
INVARIANTS PoolIsSound RefusedOnlyWhenFull MoverIsOfThisPool
PROPERTY CellsAreExclusive
