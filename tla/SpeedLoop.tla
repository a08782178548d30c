-------------------------------- MODULE SpeedLoop ------------------------------
(***************************************************************************)
(* speed_loop.c: a control thread that turns the measured speed into a     *)
(* pulse frequency, and the shell that starts, stops and retargets it.     *)
(* The thread preempts the shell anywhere and finishes its period before   *)
(* the shell goes on, so a period is one step and the shell makes one      *)
(* assignment per step.  What the encoder measures is arbitrary.  No time  *)
(* passes for the motor's step count (see MotorAccounting), and the loop   *)
(* never looks at the fault pin.                                           *)
(***************************************************************************)
EXTENDS MotorOps, SpeedLaw

CONSTANTS
  Speeds,     (* the speeds a period may measure, in 1/Scale Hz         *)
  Targets,    (* the arguments of set_target, Hz                        *)
  MaxPeriods  (* BOUND: periods counted within a call                   *)

ASSUME SpeedLoopAssumption ==
  /\ Speeds \subseteq Int /\ Targets \subseteq Int /\ MaxPeriods \in Nat
  /\ OutputLimit = Unit * SpeedLimit        (* ensure_inited: one limit  *)

\* A step of the ramp is at least the driver's least frequency: 200 and 50 Hz.
ASSUME AccelAssumption == Unit * MinFreq <= MaxAccel

VARIABLES
  running,    (* sl->running                                            *)
  s,          (* the loop's and the PID's fields, see SpeedLaw          *)
  m,          (* the motor, see MotorOps                                *)
  pc, arg,    (* the shell: its next assignment, set_target's argument  *)
  n,          (* history: periods since the call began, to MaxPeriods   *)
  renewed     (* history: the ramp was cleared since the last period    *)

vars == <<running, s, m, pc, arg, n, renewed>>

NoTarget == 0   (* cmd_speedloop never sets it: 0 is its call of stop    *)

Init ==
  /\ running = FALSE
  /\ s = [speed |-> 0, target |-> 0, ramp |-> 0, err_last |-> 0, i |-> 0]
  /\ m \in InitialMotors
  /\ pc = "idle" /\ arg = NoTarget /\ n = 0 /\ renewed = FALSE

--------------------------------------------------------------------------------
\* The control thread.

\* The motor after a period that commands f, signed by direction.
Driven(f) ==
  IF f = 0 THEN SetFrequency(m, 0)
  ELSE SetFrequency(SetDirection(m, IF f > 0 THEN "CW" ELSE "CCW"), Abs(f))

RestPeriod ==
  /\ ~running
  /\ s' = [s EXCEPT !.ramp = 0]
  /\ UNCHANGED m

RunPeriod ==
  /\ running
  /\ \E raw \in Speeds : s' = Control(s, raw)
  /\ m' = Driven(Commanded(s'.ramp, MinFreq))

Period ==
  /\ RestPeriod \/ RunPeriod
  /\ n' = Smaller(MaxPeriods, n + 1)
  /\ renewed' = FALSE
  /\ UNCHANGED <<running, pc, arg>>

--------------------------------------------------------------------------------
\* The shell, one assignment at a time.

Goto(from, to) == pc = from /\ pc' = to
Assign(from, field, to) ==
  /\ Goto(from, to)
  /\ s' = [s EXCEPT ![field] = 0]
  /\ UNCHANGED <<running, m, arg, n, renewed>>
Move(from, motor, to) ==
  Goto(from, to) /\ m' = motor /\ UNCHANGED <<running, s, arg, n, renewed>>
Run(from, value, to) ==
  Goto(from, to) /\ running' = value /\ UNCHANGED <<s, m, arg, n, renewed>>
Call(to, t) ==
  /\ Goto("idle", to)
  /\ arg' = t /\ n' = 0
  /\ UNCHANGED <<running, s, m, renewed>>

Starting ==
  \/ Assign("start", "err_last", "start_i")
  \/ Assign("start_i", "i", "start_ramp")
  \/ Assign("start_ramp", "ramp", "start_target")
  \/ Assign("start_target", "target", "start_motor")
  \/ Move("start_motor", Start(m), "start_run")
  \/ Run("start_run", TRUE, IF arg = NoTarget THEN "idle" ELSE "set")

\* Mutants: the motor stops before the loop does; and the speed measured last
\* survives the stop.
MutStopping ==
  \/ Move("stop", Stop(m), "stop_run")
  \/ Run("stop_run", FALSE, "stop_err")
  \/ Assign("stop_err", "err_last", "stop_i")
  \/ Assign("stop_i", "i", "stop_ramp")
  \/ Assign("stop_ramp", "ramp", "stop_speed")
  \/ Assign("stop_speed", "speed", "idle")
MutStopSpeed ==
  \/ Run("stop", FALSE, "stop_motor")
  \/ Move("stop_motor", Stop(m), "stop_err")
  \/ Assign("stop_err", "err_last", "stop_i")
  \/ Assign("stop_i", "i", "stop_ramp")
  \/ Assign("stop_ramp", "ramp", "idle")

Stopping ==
  \/ Run("stop", FALSE, "stop_motor")
  \/ Move("stop_motor", Stop(m), "stop_err")
  \/ Assign("stop_err", "err_last", "stop_i")
  \/ Assign("stop_i", "i", "stop_ramp")
  \/ Assign("stop_ramp", "ramp", "stop_speed")
  \/ Assign("stop_speed", "speed", "idle")

Setting ==
  \/ /\ Goto("set", IF Renews(s.target, Limited(arg)) THEN "set_err" ELSE "set_target")
     /\ UNCHANGED <<running, s, m, arg, n, renewed>>
  \/ Assign("set_err", "err_last", "set_i")
  \/ Assign("set_i", "i", "set_ramp")
  \/ /\ Goto("set_ramp", "set_target")
     /\ s' = [s EXCEPT !.ramp = 0]
     /\ renewed' = TRUE
     /\ UNCHANGED <<running, m, arg, n>>
  \/ /\ Goto("set_target", "idle")
     /\ s' = [s EXCEPT !.target = Limited(arg)]
     /\ arg' = NoTarget
     /\ UNCHANGED <<running, m, n, renewed>>

\* The commands: speedloop_start, speedloop_stop (and speedloop 0), speedloop t.
StartCall == ~running /\ Call("start", NoTarget)
StopCall == Call("stop", NoTarget)
TargetCall(t) == Call(IF running THEN "set" ELSE "start", t)

Next ==
  \/ Period
  \/ Starting \/ Stopping \/ Setting
  \/ StartCall \/ StopCall
  \/ \E t \in Targets : TargetCall(t)

Spec == Init /\ [][Next]_vars

--------------------------------------------------------------------------------

StartLabels == {"start", "start_i", "start_ramp", "start_target", "start_motor", "start_run"}
StopLabels == {"stop_motor", "stop_err", "stop_i", "stop_ramp", "stop_speed"}
SetLabels == {"set", "set_err", "set_i", "set_ramp", "set_target"}
Labels == {"idle", "stop"} \cup StartLabels \cup StopLabels \cup SetLabels

(* Types; and no command and no measurement takes the target, the ramp or   *)
(* the error past their limits.                                             *)
TypeOK ==
  /\ running \in BOOLEAN /\ renewed \in BOOLEAN /\ n \in 0..MaxPeriods
  /\ s \in [speed : Int, target : -SpeedLimit..SpeedLimit,
            ramp : -OutputLimit..OutputLimit, err_last : -ErrorLimit..ErrorLimit, i : Int]
  /\ m \in Motors
  /\ pc \in Labels /\ arg \in Targets \cup {NoTarget}

(* A stopped loop leaves its motor still, whatever period fell between the  *)
(* assignments of stop.                                                     *)
StoppedLoopIsStill == ~running /\ pc = "idle" => ~m.oc

\* The shell's call in progress, as LoopContract names it.
Calling ==
  IF pc = "idle" THEN "none"
  ELSE IF pc \in StartLabels THEN "start"
  ELSE IF pc \in {"stop"} \cup StopLabels THEN "stop" ELSE "command"

Contract == INSTANCE LoopContract WITH
  runs <- running, tripped <- FALSE, call <- Calling, turning <- m.oc

(* The loop keeps its contract: whatever period fell between the assignments *)
(* of a call, the call does not return with the motor turning while no loop  *)
(* runs, and only a start sets the loop running.                             *)
KeepsContract == Contract!Spec

Turning(k) == IF k.current_dir = "CCW" THEN -k.current_freq ELSE k.current_freq

(* Unless set_target has just cleared the ramp, the frequency the loop      *)
(* commands, signed by its direction, changes by at most max_accel in a     *)
(* period (and the dead zone, which it enters and leaves at once): no       *)
(* reversal at speed, and the first command after a start is small.  What   *)
(* the registers pulse between a start and that command is not the loop's   *)
(* command: see StartIsFirstStep of OpenLoop.                               *)
MotorFollowsRamp ==
  [][renewed \/ Unit * Abs(Turning(m') - Turning(m))
                  <= MaxAccel + Larger(Threshold, Unit * MinFreq) + Unit
     \/ ~running']_vars

(* "Start resets": a loop that begins to run knows nothing of the last run, *)
(* neither its integral nor its speed.                                      *)
StartIsFresh == [][running' /\ ~running => s = Fresh(s)]_vars

(* "Resets the integral, against running away": after a call that turns the *)
(* target round or changes it by more than 20%, the integral holds nothing  *)
(* but the errors of periods within that call.                              *)
RenewalDropsIntegral ==
  [][pc = "set_target" /\ pc' = "idle" /\ n < MaxPeriods
     /\ (s.target * s'.target < 0 \/ 5 * Abs(s'.target - s.target) > Abs(s.target))
       => Abs(s'.i) <= n * Ki * ErrorLimit]_vars

--------------------------------------------------------------------------------
\* What comments of the source say and the code does not do.

(* max_accel "maximum acceleration (Hz/period), limit of the ramp": a new    *)
(* target clears the ramp, and the motor drops from any speed to the first  *)
(* step of the ramp, of either direction.                                   *)
OutputWithinAccel ==
  [][Unit * Abs(Turning(m') - Turning(m)) <= MaxAccel + Larger(Threshold, Unit * MinFreq) + Unit
     \/ ~running']_vars
================================================================================
