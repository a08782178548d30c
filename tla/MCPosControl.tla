------------------------------ MODULE MCPosControl -----------------------------
(* Instances of PosControl for TLC: a few counts of travel, and the speeds  *)
(* from no braking distance left to more than the cruising speed.           *)
EXTENDS PosControl

MCPositions == -2..2
MCTargets == {-2, 0, 1}
MCBrakes == {0, 4}
================================================================================
