------------------------------ MODULE MCLoopInit -------------------------------
(***************************************************************************)
(* Two position loops with a timer and a motor each, and a speed loop on   *)
(* the timer and motor of the first, as the shipped configuration has it.  *)
(***************************************************************************)
EXTENDS LoopInit

CONSTANTS p1, p2, s1, position, speed, timer4, timer5, motor1, motor2

MCLoops == {p1, p2, s1}
MCKinds == {position, speed}
MCTimers == {timer4, timer5}
MCMotors == {motor1, motor2}
MCKind == [l \in MCLoops |-> IF l = s1 THEN speed ELSE position]
MCTimer == [l \in MCLoops |-> IF l = p2 THEN timer5 ELSE timer4]
MCMotor == [l \in MCLoops |-> IF l = p2 THEN motor2 ELSE motor1]
================================================================================
