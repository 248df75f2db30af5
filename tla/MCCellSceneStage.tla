---------------------------- MODULE MCCellSceneStage ----------------------------
(* Two stages over one renderer and one presenter; enough descriptor sets,   *)
(* attachments and effects for every handle to be given back and used again, *)
(* and few enough for the pool to run dry.                                   *)
EXTENDS CellSceneStage, TLC

Symmetry == Permutations(Stages) \cup Permutations(Images)
=============================================================================
