---------------------------- MODULE MCCellStageLoop ----------------------------
(* Two flat meshes and a textured one, two images and two window sizes:      *)
(* enough for every slot to be reused, every image to come round again and a *)
(* resize to fall between any two steps.                                     *)
EXTENDS CellStageLoop

MCEntities == 1 .. 3
MCKindOf   == <<"tex", "flat", "flat">>
=============================================================================
