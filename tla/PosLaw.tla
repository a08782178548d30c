--------------------------------- MODULE PosLaw --------------------------------
(***************************************************************************)
(* The control law of position_loop.c with the PID of stepper_pid_pos.c:   *)
(* what one control period computes, as operators on the record of the     *)
(* loop's and the PID's fields                                             *)
(*   target ramp pos prev_err     counts (prev_err: the sign of            *)
(*                                prev_pos_err, all the code looks at)     *)
(*   speed accel                  ramp_speed, ramp_accel                   *)
(*   err_last i                   the PID's, see Pid                        *)
(* Frequencies and gains are fixed-point: integers in units of 1/Unit Hz.  *)
(***************************************************************************)
EXTENDS Pid

CONSTANTS
  Unit,                                 (* units per hertz                *)
  LoopUnits,                            (* freq_hz * Unit                 *)
  MaxAccel, Jerk, RampMax, SpeedLimit,  (* max_accel .. speed_limit       *)
  LeadMin, LeadMax,                     (* 200 and 2000 counts            *)
  Near, PerCount, NearMin, NearMax,     (* 20 counts, 27, 50 and 500 Hz   *)
  CorrLimit                             (* 5% of ramp_max_speed           *)

ASSUME LawAssumption ==
  /\ Unit \in Nat \ {0} /\ LoopUnits \in Nat \ {0}
  /\ MaxAccel \in Nat /\ Jerk \in Nat /\ RampMax \in Nat /\ SpeedLimit \in Nat
  /\ LeadMin \in Nat /\ LeadMax \in Nat /\ LeadMin <= LeadMax
  /\ Near \in Nat /\ PerCount \in Nat /\ NearMin \in Nat /\ NearMax \in Nat
  /\ CorrLimit \in Nat

--------------------------------------------------------------------------------
\* The S-curve ramp; v is v_stop_limit, the speed from which the ramp can
\* still brake in the distance that remains.

\* Mutants: the acceleration jumps to the desired one; and is not limited.
MutRampAccel(l, v) ==
  Bound(Sgn(l.target - l.ramp) * Smaller(v, RampMax) - l.speed, MaxAccel)

RampAccel(l, v) ==
  LET desired == Bound(Sgn(l.target - l.ramp) * Smaller(v, RampMax) - l.speed,
                       MaxAccel)
  IN  l.accel + Bound(desired - l.accel, Jerk)

\* Mutant: the speed is not limited to the cruising speed.
MutRampSpeed(l, v) == l.speed + RampAccel(l, v)

RampSpeed(l, v) == Bound(l.speed + RampAccel(l, v), RampMax)

\* The ramp moves on by one period's travel, but not past the target.
Advance(l, speed) ==
  LET r == l.ramp + Quotient(speed, LoopUnits)
  IN  IF Sgn(l.target - r) = -Sgn(l.target - l.ramp) THEN l.target ELSE r

\* The ramp may be ahead of or behind the motor by two periods' travel.
Lead(speed) ==
  Larger(LeadMin, Smaller(LeadMax, Quotient(2 * Abs(speed), LoopUnits)))

\* Mutants: the ramp is pushed across the target; and is left to run away.
MutFollow(l, r, lead) == l.pos + Bound(r - l.pos, lead)
MutRunAway(l, r, lead) ==
  IF r # l.target /\ Sgn(r - l.target) # Sgn(l.pos - l.target) THEN l.target ELSE r

Follow(l, r, lead) ==
  LET near == l.pos + Bound(r - l.pos, lead)
  IN  IF \/ near > l.target /\ l.pos <= l.target
         \/ near < l.target /\ l.pos >= l.target
      THEN l.target ELSE near

\* Mutant: a ramp that has arrived keeps its speed.
MutRampStep(l, v) ==
  IF l.ramp = l.target THEN l
  ELSE LET s == RampSpeed(l, v)
       IN  [l EXCEPT !.accel = RampAccel(l, v), !.speed = s,
                     !.ramp = Follow(l, Advance(l, s), Lead(s))]

RampStep(l, v) ==
  IF l.ramp = l.target THEN [l EXCEPT !.accel = 0, !.speed = 0]
  ELSE LET s == RampSpeed(l, v)
       IN  [l EXCEPT !.accel = RampAccel(l, v), !.speed = s,
                     !.ramp = Follow(l, Advance(l, s), Lead(s))]

--------------------------------------------------------------------------------
\* The rest of the period: PID reset on a change of sign of the ramp error,
\* then the proportional approach near the target, or feed-forward plus PID.


CrossZero(l) ==
  LET s == Sgn(l.ramp - l.pos)
      reset == s # 0 /\ s = -l.prev_err
  IN  [(IF reset THEN PidReset(l) ELSE l) EXCEPT !.prev_err = s]

IsNear(l) == Abs(l.target - l.pos) <= Near

\* Mutants: full approach speed down to the last count; no stop at it; and
\* an approach that has lost its sign.
MutNearSign(l) ==
  Smaller(NearMax, Larger(NearMin, PerCount * Abs(l.target - l.pos)))
MutNearFreq(l) == Sgn(l.target - l.pos) * NearMax

NearFreq(l) ==
  LET err == l.target - l.pos
      f == Smaller(NearMax, Larger(NearMin, PerCount * Abs(err)))
  IN  Sgn(err) * f

PosErr(l) == PidErr(l.ramp - l.pos)
FarFreq(l) == Bound(l.speed + Bound(PidOut(l, PosErr(l)), CorrLimit), SpeedLimit)

\* The state after the period that began in l, and the frequency it outputs.
\* l already holds the position read from the encoder.
Ramped(l, v) == CrossZero(RampStep(l, v))
Control(l, v) ==
  LET r == Ramped(l, v)
  IN  IF IsNear(l) THEN [r EXCEPT !.speed = 0] ELSE PidStep(r, PosErr(r))
Output(l, v) ==
  LET r == Ramped(l, v)
  IN  IF IsNear(l) THEN NearFreq(r) ELSE FarFreq(r)
================================================================================
