------------------------------ MODULE MCSpeedLoop ------------------------------
(* The instance of SpeedLoop for TLC: targets of both signs, one within 20%  *)
(* of another and one beyond the limit; standstill and full speed measured.  *)
EXTENDS SpeedLoop

MCTargets == {-9, 5, 6}
MCSpeeds == {-6, 0, 6}
================================================================================
