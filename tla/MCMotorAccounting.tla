--------------------------- MODULE MCMotorAccounting --------------------------
(* The instance of MotorAccounting for TLC: two threads that make any call of *)
(* one section and retune the motor between each other's steps.              *)
EXTENDS MotorAccounting

CountingCalls ==
  [t \in Threads |->
     {"enable", "disable", "start", "stop", "brake_async", "set_direction",
      "set_frequency", "get_steps", "clear_steps"}]
================================================================================
