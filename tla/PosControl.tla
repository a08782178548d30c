------------------------------- MODULE PosControl ------------------------------
(***************************************************************************)
(* The state of position_loop.c as its two threads write it: the control   *)
(* thread, which runs one whole period at a time (priority 5), and the     *)
(* shell (priority 20), which a period may preempt between any two of the  *)
(* assignments of start, stop and set_target.  The feedback is arbitrary:  *)
(* what the encoder reads is not assumed to be what was commanded, so what *)
(* holds here holds for a blocked, slipping or pushed shaft.               *)
(***************************************************************************)
EXTENDS PosLaw

CONSTANTS
  Positions,  (* what the encoder may read, in counts                  *)
  Targets,    (* the targets within the soft limits                    *)
  Brakes      (* the values v_stop_limit may take, in units            *)

ASSUME FeedbackAssumption ==
  /\ Positions \subseteq Int /\ Targets \subseteq Int /\ 0 \in Targets
  /\ Brakes \subseteq Nat

VARIABLES
  l,          (* the loop and its PID, see PosLaw, and pl->running     *)
  pc,         (* the shell: its next assignment                        *)
  arg         (* the shell: the target it will set, the position read  *)

vars == <<l, pc, arg>>

AtRest == [target |-> 0, ramp |-> 0, pos |-> 0, prev_err |-> 0, speed |-> 0,
           accel |-> 0, err_last |-> 0, i |-> 0, running |-> FALSE]

\* position_loop_init
Init == l = AtRest /\ pc = "idle" /\ arg = [target |-> 0, pos |-> 0]

--------------------------------------------------------------------------------
\* The control thread.

\* position_loop_stop
Stopped(k) ==
  [PidReset(k) EXCEPT !.running = FALSE, !.speed = 0, !.accel = 0,
                      !.ramp = 0, !.target = 0]

Period(p, v) ==
  /\ l.running
  /\ l' = Control([l EXCEPT !.pos = p], v)
  /\ UNCHANGED <<pc, arg>>

FaultPeriod(p) ==
  /\ l.running
  /\ l' = Stopped([l EXCEPT !.pos = p])
  /\ UNCHANGED <<pc, arg>>

RestPeriod ==
  /\ ~l.running
  /\ l' = [l EXCEPT !.speed = 0, !.accel = 0]
  /\ UNCHANGED <<pc, arg>>

--------------------------------------------------------------------------------
\* The shell, one assignment at a time.

Assign(from, field, value, to) ==
  /\ pc = from
  /\ l' = [l EXCEPT ![field] = value]
  /\ pc' = to
  /\ UNCHANGED arg

Start ==
  /\ pc = "idle" /\ ~l.running
  /\ pc' = "start_err"
  /\ UNCHANGED <<l, arg>>

\* Mutant: the target of the last run is kept.
MutStarting ==
  \/ Assign("start_err", "err_last", 0, "start_i")
  \/ Assign("start_i", "i", 0, "start_pos")
  \/ \E p \in Positions : Assign("start_pos", "pos", p, "start_ramp")
  \/ Assign("start_ramp", "ramp", l.pos, "start_speed")
  \/ Assign("start_speed", "speed", 0, "start_accel")
  \/ Assign("start_accel", "accel", 0, "start_run")
  \/ Assign("start_run", "running", TRUE, "idle")

Starting ==
  \/ Assign("start_err", "err_last", 0, "start_i")
  \/ Assign("start_i", "i", 0, "start_pos")
  \/ \E p \in Positions : Assign("start_pos", "pos", p, "start_target")
  \/ Assign("start_target", "target", l.pos, "start_ramp")
  \/ Assign("start_ramp", "ramp", l.pos, "start_speed")
  \/ Assign("start_speed", "speed", 0, "start_accel")
  \/ Assign("start_accel", "accel", 0, "start_run")
  \/ Assign("start_run", "running", TRUE, "idle")

Stop == Assign("idle", "running", FALSE, "stop_err")

Stopping ==
  \/ Assign("stop_err", "err_last", 0, "stop_i")
  \/ Assign("stop_i", "i", 0, "stop_speed")
  \/ Assign("stop_speed", "speed", 0, "stop_accel")
  \/ Assign("stop_accel", "accel", 0, "stop_ramp")
  \/ Assign("stop_ramp", "ramp", 0, "stop_target")
  \/ Assign("stop_target", "target", 0, "idle")

SetTarget(t) ==
  /\ pc = "idle"
  /\ arg' = [target |-> t, pos |-> l.pos]
  /\ pc' = IF l.running THEN "set_ramp" ELSE "set_target"
  /\ UNCHANGED l

SettingTarget ==
  \/ Assign("set_ramp", "ramp", arg.pos, "set_speed")
  \/ Assign("set_speed", "speed", 0, "set_accel")
  \/ Assign("set_accel", "accel", 0, "set_err")
  \/ Assign("set_err", "err_last", 0, "set_i")
  \/ Assign("set_i", "i", 0, "set_target")
  \/ Assign("set_target", "target", arg.target, "idle")

Next ==
  \/ \E p \in Positions, v \in Brakes : Period(p, v)
  \/ \E p \in Positions : FaultPeriod(p)
  \/ RestPeriod
  \/ Start \/ Starting
  \/ Stop \/ Stopping
  \/ \E t \in Targets : SetTarget(t)
  \/ SettingTarget

Spec == Init /\ [][Next]_vars

--------------------------------------------------------------------------------

Labels ==
  {"idle", "start_err", "start_i", "start_pos", "start_target", "start_ramp",
   "start_speed", "start_accel", "start_run", "stop_err", "stop_i", "stop_speed",
   "stop_accel", "stop_ramp", "stop_target", "set_ramp", "set_speed", "set_accel",
   "set_err", "set_i", "set_target"}

Loops ==
  [target : Int, ramp : Int, pos : Int, prev_err : -1..1, speed : Int,
   accel : Int, err_last : Int, i : Int, running : BOOLEAN]

(* Types; and no interleaving of resets, retargets and periods drives the   *)
(* ramp past its cruising speed or the acceleration past max_accel.         *)
TypeOK ==
  /\ l \in Loops
  /\ pc \in Labels
  /\ arg \in [target : Int, pos : Int]
  /\ Abs(l.speed) <= RampMax /\ Abs(l.accel) <= MaxAccel

(* Anti-windup: the integral never exceeds integral_limit, although the     *)
(* back-calculation on saturation assigns it without applying that limit.   *)
IntegralIsLimited == Abs(l.i) <= IntegralLimit

\* A step of the control thread that neither found nor left the loop stopped.
PeriodRuns == l.running /\ l'.running /\ pc' = pc

(* S-curve: from one period to the next the acceleration changes by at most *)
(* s_curve_jerk and the speed by at most max_accel, unless they are reset.  *)
RampIsSmooth ==
  [][PeriodRuns => /\ l'.accel # 0 => Abs(l'.accel - l.accel) <= Jerk
                   /\ l'.speed # 0 => Abs(l'.speed - l.speed) <= MaxAccel]_vars

(* The ramp never crosses the target before the motor does, whatever half   *)
(* of a retarget the period preempted.                                      *)
RampStaysBefore ==
  [][PeriodRuns => Sgn(l'.ramp - l'.target) \in {0, Sgn(l'.pos - l'.target)}]_vars

(* The ramp does not run away from a motor that does not follow it.         *)
RampStaysNearMotor ==
  [][PeriodRuns => \/ l'.ramp = l'.target
                   \/ Abs(l'.ramp - l'.pos) <= LeadMax]_vars

(* A loop that starts holds the position it reads: neither the target of an *)
(* earlier run nor the zeroes of a stop can make the shaft jump.            *)
StartHoldsPosition ==
  [][~l.running /\ l'.running
       => l.target = l.pos /\ l.ramp = l.pos /\ l.speed = 0 /\ l.accel = 0]_vars

(* set_target "restarts the ramp from the current position": a period that  *)
(* preempts it between two assignments has moved the ramp on.               *)
RetargetFromRest ==
  [][pc = "set_target" /\ l.running /\ pc' = "idle"
       => l.ramp = l.pos /\ l.speed = 0 /\ l.accel = 0]_vars
================================================================================
