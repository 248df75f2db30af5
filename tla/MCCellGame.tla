------------------------------- MODULE MCCellGame -------------------------------
(* Pools of 1 to Int32Max cells; capacities 0 and Int32Max + 1 are refused.  *)
EXTENDS CellGame
=============================================================================
