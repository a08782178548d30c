----------------------------- MODULE MCPositionLoop ----------------------------
(* Instances of PositionLoop for TLC: three counts of travel, the switch at  *)
(* one end.                                                                  *)
EXTENDS PositionLoop

MCTravel == -1..1
MCTargets == {-1, 1}
MCSwitchAt == -1
================================================================================
