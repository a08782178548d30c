------------------------------ MODULE MCSpeedServo -----------------------------
(* Instances of SpeedServo for TLC: targets of both signs, slow and fast, and *)
(* one within 20% of another; the shaft where the encoder was cleared, or     *)
(* some turns away from it.                                                   *)
EXTENDS SpeedServo

MCTargets == {-2000, 5000, 5900}
MCPositions == {0, 20000}
================================================================================
