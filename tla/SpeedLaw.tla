-------------------------------- MODULE SpeedLaw -------------------------------
(***************************************************************************)
(* The control law of speed_loop.c over the PID: what one control period   *)
(* computes from the measured speed, on the record of the fields that      *)
(* outlive a period                                                        *)
(*   speed    current_speed, in 1/Scale Hz                                 *)
(*   target   the PID's target, in Hz, positive clockwise                  *)
(*   ramp     ramp_current, in 1/Unit Hz                                   *)
(*   err_last i      the PID's, see Pid                                    *)
(* ramp_target, output_freq and enc_delta are only displayed.              *)
(***************************************************************************)
EXTENDS Pid

CONSTANTS
  Unit,         (* units of the output per hertz                         *)
  Scale,        (* units of the measured speed per hertz                 *)
  SpeedLimit,   (* speed_limit, Hz                                       *)
  MaxAccel,     (* max_accel, 1/Unit Hz per period                       *)
  Threshold     (* move_threshold, 1/Unit Hz                             *)

ASSUME SpeedAssumption ==
  /\ Unit \in Nat \ {0} /\ Scale \in Nat \ {0} /\ SpeedLimit \in Nat
  /\ MaxAccel \in Nat /\ Threshold \in Nat

\* What start and stop leave: PID, ramp and measured speed at 0.
Fresh(s) == [s EXCEPT !.speed = 0, !.target = 0, !.ramp = 0, !.err_last = 0, !.i = 0]

\* The low-pass filter, and the error the PID sees.
Measured(s, raw) == Quotient(s.speed + raw, 2)
SpeedErr(s, raw) == PidErr(Scale * s.target - Measured(s, raw))

\* Mutant: the ramp follows the PID at once while it slows down.
MutRamp(s, out) == IF out < s.ramp THEN out ELSE s.ramp + Bound(out - s.ramp, MaxAccel)

\* The ramp, one period on towards the PID's output.
Ramp(s, out) == s.ramp + Bound(out - s.ramp, MaxAccel)

Control(s, raw) ==
  LET e == SpeedErr(s, raw)
  IN  [PidStep(s, e) EXCEPT !.speed = Measured(s, raw), !.ramp = Ramp(s, PidOut(s, e))]

\* The frequency commanded, signed by direction: limited, 0 in the dead zone,
\* whole hertz and at least min above it.
Commanded(ramp, min) ==
  LET f == Bound(ramp, Unit * SpeedLimit)
  IN  IF Abs(f) < Threshold THEN 0 ELSE Sgn(f) * Larger(min, Abs(f) \div Unit)

\* Mutant: a smaller target of the same sign is never a change of more than 20%.
MutRenews(old, new) == 5 * (new - old) > Abs(old)

\* Mutant: only a change of sign starts them afresh.
MutRenewsSign(old, new) == old * new < 0

\* set_target starts the PID and the ramp afresh: the target changes by more
\* than 20%.  A change of sign, which the code tests too, is such a change.
Renews(old, new) == 5 * Abs(new - old) > Abs(old)

\* Mutant: only the upper limit is enforced.
MutLimited(t) == Smaller(SpeedLimit, t)

Limited(t) == Bound(t, SpeedLimit)
================================================================================
