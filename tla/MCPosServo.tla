------------------------------- MODULE MCPosServo ------------------------------
(* Instances of PosServo for TLC: targets in both directions, near, at the  *)
(* middle of the ramp's range, and far enough to cruise and to overshoot.   *)
EXTENDS PosServo

MCShafts == {0, 40}
MCTargets == {-1000, 0, 21, 300, 3109, 10000}
MCNoNoise == {0}
MCNoise == {-1, 0, 1}
================================================================================
