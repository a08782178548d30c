----------------------------- MODULE MCMotorDriver ----------------------------
(* Instances of MotorDriver for TLC: who calls what.                         *)
EXTENDS MotorDriver

CONSTANTS t1, t2

\* One caller; and a shell that homes and brakes against a control thread that
\* handles faults and idleness.
SoloThreads == {t1}
PairThreads == {t1, t2}

ControlCalls == {"check_fault", "idle_tick"}
ShellCalls ==
  {"enable", "disable", "start", "stop", "brake_async", "set_direction",
   "set_frequency", "get_steps", "clear_steps", "clear_fault", "brake", "home"}
BlockingCalls == [t \in PairThreads |-> IF t = t1 THEN ShellCalls ELSE ControlCalls]

AsyncBrakeCalls == [t \in SoloThreads |-> {"set_direction", "set_frequency", "brake_async"}]
HomeCalls == [t \in SoloThreads |-> {"home"}]
StartCalls == [t \in SoloThreads |-> {"start", "stop", "set_direction", "set_frequency"}]
IdleCalls ==
  [t \in SoloThreads |->
     {"enable", "start", "set_direction", "set_frequency", "idle_tick"}]
FaultCalls ==
  [t \in SoloThreads |-> {"set_direction", "set_frequency", "check_fault", "clear_fault"}]

ASSUME CallsAssumption == OneDriver
================================================================================
