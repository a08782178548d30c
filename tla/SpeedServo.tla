------------------------------- MODULE SpeedServo ------------------------------
(***************************************************************************)
(* The speed loop closed around a motor that follows its pulses: SpeedLaw  *)
(* with the parameters of rtconfig.h, and an encoder that counts 1 for     *)
(* every Fine hertz of a period (0.625 counts a step, 20 ms), as many of   *)
(* them as the pulse timer makes (PulseTimer).  The loop begins as         *)
(* speed_loop_start leaves it; set_target falls between two periods.  Time *)
(* is counted in control periods.                                          *)
(***************************************************************************)
EXTENDS SpeedLaw, PulseTimer

CONSTANTS
  Fine,         (* 80: freq_hz * speed_ratio                             *)
  Positions,    (* the encoder's counts at the start, clockwise positive *)
  Invert,       (* enc_invert                                            *)
  Targets,      (* the arguments of set_target                           *)
  MaxTargets,   (* BOUND: targets set                                    *)
  Deadline,     (* periods a new target may take                         *)
  Band,         (* Hz from the target that count as reached              *)
  Excess,       (* percent the motor may exceed its fastest target by    *)
  Kick          (* Hz a start off the encoder's zero may add to that     *)

VARIABLES
  s,            (* the loop, see SpeedLaw                                *)
  moved,        (* what the encoder moved since last_enc, in 1/Fine counts *)
  hz,           (* the pulse frequency in force, signed by direction     *)
  sets,         (* targets set so far                                    *)
  age,          (* history: periods since the last target was set        *)
  fastest,      (* history: the greatest target so far, regardless of sign *)
  kicked        (* history: the loop was started off the encoder's zero  *)

vars == <<s, moved, hz, sets, age, fastest, kicked>>

\* What start stores in last_enc: the count as the driver reads it, while the
\* periods take it with its sign inverted.
LastEnc(p) == IF Invert THEN -p ELSE p

Init ==
  /\ s = [speed |-> 0, target |-> 0, ramp |-> 0, err_last |-> 0, i |-> 0]
  /\ \E p \in Positions : moved = Fine * (p - LastEnc(p)) /\ kicked = (p # 0)
  /\ hz = 0 /\ sets = 0 /\ age = 0 /\ fastest = 0

\* speed_loop_set_target while running.
SetTarget(t) ==
  /\ sets < MaxTargets /\ age < Deadline    \* BOUND: later it has settled
  /\ s' = [(IF Renews(s.target, Limited(t)) THEN [PidReset(s) EXCEPT !.ramp = 0] ELSE s)
             EXCEPT !.target = Limited(t)]
  /\ sets' = sets + 1
  /\ age' = 0
  /\ fastest' = Larger(fastest, Abs(Limited(t)))
  /\ UNCHANGED <<moved, hz, kicked>>

\* One control period, and the motion it commands until the next.
Period ==
  /\ s' = Control(s, (moved \div Fine) * Fine * Scale)
  /\ hz' = Commanded(s'.ramp, SlowFreq)
  /\ moved' = (moved % Fine) + Turned(hz')
  /\ age' = Smaller(age + 1, Deadline)
  /\ UNCHANGED <<sets, fastest, kicked>>

Next == Period \/ \E t \in Targets : SetTarget(t)

Spec == Init /\ [][Next]_vars

--------------------------------------------------------------------------------

(* A new target, set at any moment of the last one, is reached within       *)
(* Deadline periods and held from then on: neither the integral that winds  *)
(* up on the ramp nor the coarse measurement keeps the speed swinging.      *)
SpeedSettles == sets > 0 /\ age = Deadline => Abs(hz - s.target) <= Band

(* The integral winds up while the ramp limits the acceleration, and carries *)
(* the motor past its target: retargeted or not, by no more than Excess     *)
(* percent of the fastest target so far (of the present one it may be more, *)
(* while the motor comes down from a faster one), and by at most Kick more  *)
(* when the start measured a false motion.                                  *)
OvershootIsBounded ==
  100 * Abs(hz) <= (100 + Excess) * fastest + (IF kicked THEN 100 * Kick ELSE 0)

--------------------------------------------------------------------------------
\* What comments of the source say and the code does not do.

(* "Start from the current encoder position, initial target 0": last_enc is *)
(* stored without enc_invert, and the first period measures twice the       *)
(* position as a motion.                                                    *)
StartHoldsStill == sets = 0 => hz = 0
================================================================================
