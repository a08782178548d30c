------------------------------ MODULE PositionLoop -----------------------------
(***************************************************************************)
(* position_loop.c composed with the motor driver, the encoder, the pins   *)
(* and the shaft: the control thread (priority 5) against the shell        *)
(* (priority 20) that calls start, stop, move_to and home.  A control      *)
(* period is one step, for no thread of the application preempts it; the   *)
(* shell is preempted between any two of its critical sections and         *)
(* unlocked accesses.  The encoder is the position counter that Encoder is *)
(* shown to implement, and far from the target the output of the control   *)
(* law (PosLaw) is any frequency in any direction.  Steps are counted in   *)
(* MotorAccounting: here no time passes for the count.  IdleTimeout is in  *)
(* control periods.                                                        *)
(***************************************************************************)
EXTENDS MotorOps

CONSTANTS
  Travel,       (* the mechanical range of the shaft, a set of integers   *)
  SwitchAt,     (* the home switch is closed at this position and below   *)
  Targets,      (* the arguments of move_to, within the soft limits       *)
  Near,         (* the counts from the target where PID control ends      *)
  Threshold,    (* move_threshold                                         *)
  Calls         (* the functions the shell calls                          *)

VARIABLES
  m,            (* the motor, see MotorOps                                *)
  faultPin,     (* the fault pin reads PIN_LOW                            *)
  shaft, zero,  (* the true position, and where the encoder was cleared   *)
  running,      (* pl->running                                            *)
  target,       (* pl->target_pos                                         *)
  current,      (* pl->current_pos                                        *)
  pc, arg       (* the shell: its next access, and its call's arguments   *)

pins == <<faultPin, shaft>>
loop == <<running, target, current>>
vars == <<m, faultPin, shaft, zero, running, target, current, pc, arg>>

NoArg == [goal |-> 0, dir |-> "CW", timed |-> FALSE, ok |-> TRUE]
Encoder == shaft - zero
HomePin == shaft <= SwitchAt

\* position_loop_is_arrived
IsArrived == Abs(target - current) < Threshold

Init ==
  /\ m \in {[n EXCEPT !.idle = 0] : n \in InitialMotors}
  /\ faultPin = FALSE
  /\ shaft \in Travel /\ zero = shaft
  /\ running = FALSE /\ target = 0 /\ current = 0
  /\ pc = "idle" /\ arg = NoArg

--------------------------------------------------------------------------------
\* The control thread.

\* A control period goes by for the motor.
Elapse(n) == [n EXCEPT !.idle = Age(n).idle]

\* The frequencies, signed by direction, the law may output at position p.
Outputs(p) ==
  LET err == target - p
  IN  IF Abs(err) <= Near THEN {Sgn(err) * MinFreq} ELSE -MaxFreq..MaxFreq

\* The motor after a period that found no fault and outputs f.
Driven(f) ==
  LET n == IdleTick(CheckFault(Elapse(m), FALSE))
  IN  SetFrequency(SetDirection(n, IF f > 0 THEN "CW" ELSE "CCW"),
                         Abs(f))

\* Mutant: the period does not look whether the loop runs.
MutControlPeriod ==
  /\ ~faultPin
  /\ \E f \in Outputs(Encoder) : m' = Driven(f)
  /\ current' = Encoder
  /\ UNCHANGED <<pins, zero, running, target, pc, arg>>

ControlPeriod ==
  /\ running /\ ~faultPin
  /\ \E f \in Outputs(Encoder) : m' = Driven(f)
  /\ current' = Encoder
  /\ UNCHANGED <<pins, zero, running, target, pc, arg>>

\* check_fault finds the pin low: position_loop_stop in the control thread.
FaultPeriod ==
  /\ running /\ faultPin
  /\ m' = Stop(CheckFault(Elapse(m), TRUE))
  /\ current' = Encoder
  /\ running' = FALSE
  /\ target' = 0
  /\ UNCHANGED <<pins, zero, pc, arg>>

RestPeriod ==
  /\ ~running
  /\ m' = Elapse(m)
  /\ UNCHANGED <<pins, zero, loop, pc, arg>>

Period == ControlPeriod \/ FaultPeriod \/ RestPeriod

--------------------------------------------------------------------------------
\* The shell.

Call(c) == pc = "idle" /\ c \in Calls

\* Steps of the shell that change the motor, and that change the loop.
Goto(to) == pc' = to /\ arg' = IF to = "idle" THEN NoArg ELSE arg
MotorStep(from, n, to) == pc = from /\ m' = n /\ Goto(to) /\ UNCHANGED <<pins, zero, loop>>
LoopStep(from, to) == pc = from /\ Goto(to) /\ UNCHANGED <<m, pins, zero>>
Look(from, to) == LoopStep(from, to) /\ UNCHANGED loop

\* Mutant: the fault of the last run is not cleared.
MutStartCall == Call("start") /\ ~running /\ Look("idle", "start_pos")

\* position_loop_start.  State FAULT never outlives the period that found the
\* fault, so only the first of clear_fault's two accesses changes anything.
StartCall == Call("start") /\ ~running /\ Look("idle", "start_fault")

Starting ==
  \/ MotorStep("start_fault", ClearFault(m), "start_pos")
  \/ /\ LoopStep("start_pos", "start_target")
     /\ current' = Encoder /\ UNCHANGED <<running, target>>
  \/ /\ LoopStep("start_target", "start_motor")
     /\ target' = current /\ UNCHANGED <<running, current>>
  \/ MotorStep("start_motor", Start(m), "start_run")
  \/ /\ LoopStep("start_run", "idle")
     /\ running' = TRUE /\ UNCHANGED <<target, current>>

\* position_loop_stop
StopCall ==
  /\ Call("stop")
  /\ LoopStep("idle", "stop_motor")
  /\ running' = FALSE /\ UNCHANGED <<target, current>>

Stopping ==
  \/ MotorStep("stop_motor", Stop(m), "stop_target")
  \/ /\ LoopStep("stop_target", "idle")
     /\ target' = 0 /\ UNCHANGED <<running, current>>

\* position_loop_move_to: the checks, the target, then polling for arrival,
\* for a fault and for the deadline, which may pass at any poll.
MoveCall ==
  /\ Call("move_to") /\ running /\ ~m.fault
  /\ \E t \in Targets, w \in BOOLEAN : arg' = [NoArg EXCEPT !.goal = t, !.timed = w]
  /\ pc' = "move_target"
  /\ UNCHANGED <<m, pins, zero, loop>>

\* Mutant: move_to waits without having set its target.
MutMoveTarget == Look("move_target", "move_poll")

MoveTarget ==
  /\ LoopStep("move_target", "move_poll")
  /\ target' = arg.goal /\ UNCHANGED <<running, current>>

\* Mutant: the poll does not look for a fault.
MutMovePoll == Look("move_poll", IF IsArrived THEN "idle" ELSE "move_wait")

MovePoll == Look("move_poll", IF IsArrived THEN "idle" ELSE "move_fault")
MoveFault == Look("move_fault", IF m.fault THEN "idle" ELSE "move_wait")
MoveWait ==
  \/ Look("move_wait", "move_poll")
  \/ arg.timed /\ Look("move_wait", "idle")
Move == MoveTarget \/ MovePoll \/ MoveFault \/ MoveWait

\* position_loop_home: stepper_motor_driver_home without back-off, then the
\* zeroing of encoder and loop.
HomeCall ==
  /\ Call("home") /\ running
  /\ \E d \in {"CW", "CCW"}, w \in BOOLEAN : arg' = [NoArg EXCEPT !.dir = d, !.timed = w]
  /\ m' = [m EXCEPT !.state = "HOMING"]
  /\ pc' = "home_dir"
  /\ UNCHANGED <<pins, zero, loop>>

\* One look at the switch; open, and no deadline passed, home polls again.
HomePoll ==
  /\ pc = "home_poll"
  /\ \/ HomePin /\ UNCHANGED arg
     \/ ~HomePin /\ arg.timed /\ arg' = [arg EXCEPT !.ok = FALSE]
  /\ pc' = "home_stop"
  /\ UNCHANGED <<m, pins, zero, loop>>

HomeMotor ==
  \/ MotorStep("home_dir", SetDirection(m, arg.dir), "home_enable")
  \/ MotorStep("home_enable", Enable(m), "home_check")
  \/ Look("home_check", IF Refused(m, MaxFreq) THEN "home_poll" ELSE "home_run")
  \/ MotorStep("home_run", SetFrequency(m, MaxFreq), "home_poll")
  \/ HomePoll
  \/ MotorStep("home_stop", SetFrequency(m, 0), "home_end")
  \/ MotorStep("home_end", [m EXCEPT !.state = "IDLE"],
               IF arg.ok THEN "home_clear" ELSE "idle")

HomeZero ==
  \/ /\ pc = "home_clear" /\ pc' = "home_current"
     /\ zero' = shaft
     /\ UNCHANGED <<m, pins, loop, arg>>
  \/ /\ LoopStep("home_current", "home_target")
     /\ current' = 0 /\ UNCHANGED <<running, target>>
  \/ /\ LoopStep("home_target", "idle")
     /\ target' = 0 /\ UNCHANGED <<running, current>>

--------------------------------------------------------------------------------
\* The mechanics and the fault pin.

ShaftMoves ==
  /\ m.en /\ Rate(m) # 0
  /\ shaft' = shaft + Sgn(Rate(m)) /\ shaft' \in Travel
  /\ UNCHANGED <<m, faultPin, zero, loop, pc, arg>>

FaultPinChanges ==
  faultPin' = ~faultPin /\ UNCHANGED <<m, shaft, zero, loop, pc, arg>>

\* A step of a call in progress, and the start of a call.
Continue == Starting \/ Stopping \/ Move \/ HomeMotor \/ HomeZero
Begin == StartCall \/ StopCall \/ MoveCall \/ HomeCall

Next == Period \/ Continue \/ Begin \/ ShaftMoves \/ FaultPinChanges

Spec == Init /\ [][Next]_vars

\* The timer releases the control thread every period, and the thread leaves
\* the processor to the shell between two periods.
FairSpec == Spec /\ WF_vars(Period) /\ WF_vars(Continue)

--------------------------------------------------------------------------------

HomeLabels ==
  {"home_dir", "home_enable", "home_check", "home_run", "home_poll", "home_stop",
   "home_end", "home_clear", "home_current", "home_target"}
MoveLabels == {"move_target", "move_poll", "move_fault", "move_wait"}
StartLabels == {"start_pos", "start_target", "start_motor", "start_run"}

\* The shell's call in progress, as LoopContract names it.
Calling ==
  IF pc = "idle" THEN "none"
  ELSE IF pc \in {"start_fault"} \cup StartLabels THEN "start"
  ELSE IF pc \in {"stop_motor", "stop_target"} THEN "stop" ELSE "command"

Contract == INSTANCE LoopContract WITH
  runs <- running, tripped <- m.fault, call <- Calling, turning <- m.oc

(* The loop keeps its contract: between any two accesses of the shell a      *)
(* fault may stop it, yet no call returns with the motor turning while no    *)
(* loop runs, and only a start, the fault cleared, sets it running.          *)
KeepsContract == Contract!Spec

(* A loop that was stopped, by the shell or by a fault and whatever it was   *)
(* doing then, has also left the motor stopped.                              *)
StoppedLoopIsStill == ~running /\ pc = "idle" => ~m.oc

(* With a fault latched the motor is stopped, save for a home under way,     *)
(* whose check of the fault may be stale.                                    *)
LatchedFaultIsStill == m.fault /\ pc \notin HomeLabels => ~m.oc

(* move_to, returning OK with no fault latched, has seen the loop at the     *)
(* goal it was called with.                                                  *)
MoveOkMeansArrived ==
  [][pc = "move_poll" /\ pc' = "idle" /\ ~m.fault
       => Abs(arg.goal - current) < Threshold]_vars

(* move_to without a deadline still returns when a fault stops the loop: the *)
(* latch outlives the stop, so the poll cannot miss it.                      *)
FaultEndsMove == pc \in MoveLabels /\ m.fault ~> pc = "idle"

--------------------------------------------------------------------------------
\* What comments of the source say and the code does not do.

(* set_frequency "refuses to run on a fault": its check is made before the   *)
(* lock, and a fault may be latched and the motor stopped in between.        *)
FaultRefusesToRun == m.fault => ~m.oc

(* home "moves towards home_pin": the control thread keeps the loop on its   *)
(* target and turns the motor as it sees fit.                                *)
HomingTurnsToSwitch == pc = "home_poll" /\ m.oc => m.dir = arg.dir

(* MOTOR_STATE_IDLE is "idle (stopped)": home ends by assigning it after a   *)
(* control period may have set the motor going again.                        *)
IdleIsStopped == m.state = "IDLE" => ~m.oc

(* move_to returns "OK (arrived) / FAULT": the stop after a fault moves the  *)
(* target to 0, and a motor near 0 is then found to have arrived.            *)
MoveOkIsArrival ==
  [][pc = "move_poll" /\ pc' = "idle"
       => Abs(arg.goal - current) < Threshold]_vars

(* set_idle_reduce "releases EN after stopping": a loop that holds its       *)
(* target writes 0 Hz every period, and each write restarts the idle time.   *)
RestReleasesEn == running /\ ~m.oc /\ m.en ~> ~m.en \/ m.oc \/ ~running
================================================================================
