------------------------------ MODULE MCFight -------------------------------
(* Small instances of Fight for TLC.                                        *)
EXTENDS Fight

BulbsAndPlants == { <<"bulb", TRUE>>, <<"plant", TRUE>> }
PlantsOnly == { <<"plant", TRUE>> }
=============================================================================
