---------------------------------- MODULE Pid ----------------------------------
(***************************************************************************)
(* stepper_pid_pos.c in fixed point.  A record l of the loop that owns the *)
(* PID carries err_last and i, which is ki * integral_acc; e is the error  *)
(* of the period after PidErr.                                             *)
(***************************************************************************)
EXTENDS Arith

CONSTANTS
  Kp, Ki, Kd,                           (* gains, output units per unit of error *)
  ErrorLimit, OutputLimit,              (* error_limit, output_limit             *)
  IntegralLimit                         (* ki * integral_limit                   *)

ASSUME PidAssumption ==
  /\ Kp \in Nat /\ Ki \in Nat /\ Kd \in Nat
  /\ ErrorLimit \in Nat \ {0} /\ OutputLimit \in Nat \ {0}
  /\ IntegralLimit \in Nat \ {0}          (* <= 0 switches a limit off *)

PidReset(l) == [l EXCEPT !.err_last = 0, !.i = 0]

\* Mutant: the error is not limited.
MutPidErr(x) == x

PidErr(x) == Bound(x, ErrorLimit)
PidPD(l, e) == Kp * e + Kd * (e - l.err_last)
PidOut(l, e) == Bound(PidPD(l, e) + l.i, OutputLimit)

\* Mutant: the back-calculated integral may change its sign.
MutPidIntegral(l, e) ==
  IF PidPD(l, e) + l.i > OutputLimit THEN OutputLimit - PidPD(l, e)
  ELSE IF PidPD(l, e) + l.i < -OutputLimit THEN -OutputLimit - PidPD(l, e)
  ELSE Bound(l.i + Ki * e, IntegralLimit)

\* The integral after the anti-windup back-calculation or the accumulation.
PidIntegral(l, e) ==
  IF Ki = 0 THEN l.i
  ELSE IF PidPD(l, e) + l.i > OutputLimit THEN Larger(0, OutputLimit - PidPD(l, e))
  ELSE IF PidPD(l, e) + l.i < -OutputLimit THEN Smaller(0, -OutputLimit - PidPD(l, e))
  ELSE Bound(l.i + Ki * e, IntegralLimit)

PidStep(l, e) == [l EXCEPT !.i = PidIntegral(l, e), !.err_last = e]
================================================================================
