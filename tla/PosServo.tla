-------------------------------- MODULE PosServo -------------------------------
(***************************************************************************)
(* The position loop closed around a motor that follows its pulses: the    *)
(* control law of PosLaw with the parameters of rtconfig.h, an encoder     *)
(* that reads the shaft, and targets set between two periods.  Time is     *)
(* counted in control periods.  f Hz for one period are f / Fine counts    *)
(* (position_loop.c:275-279: 0.625 counts a step, 20 ms), and PulseTimer   *)
(* says how many of them the pulse timer makes.  The names differ from     *)
(* those of PosControl: both are proved about together.                    *)
(***************************************************************************)
EXTENDS PosLaw, PulseTimer, FiniteSets

CONSTANTS
  Fine,         (* 80: the shaft is kept in 1/Fine counts                *)
  Threshold,    (* move_threshold, counts                                *)
  Decel,        (* 2 * max_accel * freq_hz * 0.75, Hz^2 per count        *)
  Shafts,       (* where the shaft may be when the loop starts           *)
  Goals,        (* the targets set                                       *)
  Noise,        (* what the encoder may read off the true count          *)
  Excess,       (* counts a move may overshoot                           *)
  Deadline,     (* periods a move may take                               *)
  MaxMoves      (* BOUND: targets set                                    *)

\* A loop that counts as arrived is near; the approach from there is slow
\* enough not to leave the threshold on the other side within one period.
ASSUME ServoAssumption ==
  /\ Fine \in Nat \ {0} /\ Decel \in Nat /\ Shafts \subseteq Int /\ Goals \subseteq Int
  /\ Threshold \in Nat /\ Threshold <= Near + 1
  /\ SlowFreq <= FastFreq /\ NearMax <= Unit * FastFreq /\ SpeedLimit <= Unit * FastFreq
  /\ \A e \in 1..Threshold - 1 :
       7 * Larger(Unit * SlowFreq, Smaller(NearMax, Larger(NearMin, PerCount * e)))
         <= 2 * Unit * Fine * (e + Threshold - 1)

\* Three digits are enough for the distances moved, overshoot included.
ASSUME RootAssumption == \A t, u \in Goals : 2 * Decel * Abs(t - u) < 1073741824

VARIABLES
  loop,         (* the loop, see PosLaw                                  *)
  shaft,        (* the true position, in 1/Fine counts                   *)
  hz,           (* the pulse frequency in force, signed by direction     *)
  moves,        (* targets set so far                                    *)
  origin,       (* history: where the first period of the move finds it  *)
  age,          (* history: periods since then, 0 once at rest           *)
  side,         (* history: the last sign, not 0, of ramp_pos - current  *)
  missed        (* history: that sign changed in this move, and the      *)
                (* integral was kept                                     *)

servoVars == <<loop, shaft, hz, moves, origin, age, side, missed>>

\* floor(sqrt(n)), digit by digit to the base 32, and v_stop_limit.
\* BOUND: n is below 32^6, which is 71000 counts (RootAssumption).
Digit(r, b, n) == r + b * Cardinality({d \in 1..31 : (r + b * d) * (r + b * d) <= n})
Root(n) == Digit(Digit(Digit(0, 1024, n), 32, n), 1, n)
StopLimit(k) == Unit * Root(Decel * Abs(k.target - k.ramp))

\* The frequency on the pins: the output's whole hertz, and the clamp of
\* set_frequency (the lift to the minimum at line 319 is that clamp).
Command(out) ==
  LET f == Abs(out) \div Unit
  IN  Sgn(out) * (IF f = 0 THEN 0 ELSE Larger(f, SlowFreq))

ServoInit ==
  /\ shaft \in Shafts
  /\ loop = [target |-> shaft \div Fine, ramp |-> shaft \div Fine,
             pos |-> shaft \div Fine, prev_err |-> 0, speed |-> 0, accel |-> 0,
             err_last |-> 0, i |-> 0, running |-> TRUE]
  /\ hz = 0 /\ moves = 0 /\ origin = loop.pos /\ age = 0
  /\ side = 0 /\ missed = FALSE

\* position_loop_set_target while running.
Retarget(t) ==
  /\ moves < MaxMoves
  /\ loop' = [PidReset(loop) EXCEPT !.ramp = loop.pos, !.speed = 0, !.accel = 0, !.target = t]
  /\ moves' = moves + 1
  /\ origin' = shaft \div Fine
  /\ age' = 0
  /\ missed' = FALSE
  /\ UNCHANGED <<shaft, hz, side>>

\* The ramp error has changed sign, and the integral is not what one period
\* made of it since it was cleared.
Crossed == side' # side /\ side # 0
Cleared == Abs(loop'.i) <= Ki * Abs(loop'.ramp - loop'.pos)

\* The motor is stopped with the shaft on the very count of the target.
Settled == hz = 0 /\ shaft \div Fine = loop.target

\* One control period, and the motion it commands until the next.
ServoPeriod(n) ==
  \E k \in {[loop EXCEPT !.pos = shaft \div Fine + n]} :
  \E v \in {StopLimit(k)} :
  \E f \in {Command(Output(k, v))} :
    /\ loop' = Control(k, v)
    /\ hz' = f
    /\ shaft' = shaft + Turned(f)
    /\ age' = IF Settled' THEN 0 ELSE age + 1
    /\ side' = IF loop'.ramp = loop'.pos THEN side ELSE Sgn(loop'.ramp - loop'.pos)
    /\ missed' = (missed \/ (Crossed /\ ~Cleared))
    /\ UNCHANGED <<moves, origin>>

ServoNext == (\E t \in Goals : Retarget(t)) \/ (\E n \in Noise : ServoPeriod(n))

ServoSpec == ServoInit /\ [][ServoNext]_servoVars

--------------------------------------------------------------------------------

\* position_loop_is_arrived
IsArrived(k) == Abs(k.target - k.pos) < Threshold

Reported == IsArrived(loop) /\ moves' = moves

(* "arrived" is final, and so is rest: once a period of the move reports    *)
(* arrival, the loop reports it until a new target is set, so that a        *)
(* move_to that polls every 10 ms does not return from a pass through the   *)
(* target; and nothing left in the ramp or the PID moves a motor at rest.   *)
ArrivalIsFinal ==
  [][/\ Reported /\ (age > 0 \/ Settled) => IsArrived(loop')
     /\ Settled /\ moves' = moves => Settled']_servoVars

\* How far the shaft is past the target, seen from where the move began.
Past == Sgn(loop.target - origin) * (shaft - Fine * loop.target)

(* A move, from rest or cut short by a new target in either direction, does *)
(* not carry the shaft further than Excess counts past its target, as long  *)
(* as no zero crossing of the ramp error is missed.                         *)
OvershootIsBounded == loop.target # origin /\ ~missed => Past <= Fine * Excess

(* Every such move comes to rest within Deadline periods, on the very count *)
(* of its last target: neither the 50 Hz minimum nor the integral keeps it  *)
(* hunting around it.                                                       *)
SettlesInTime == ~missed => age <= Deadline

--------------------------------------------------------------------------------
\* What the documentation says and the code does not do.

(* "at a zero crossing only the integral is cleared": a crossing that one    *)
(* sample finds exactly at 0 is not seen, and the integral drives the motor  *)
(* on past the target.                                                       *)
CrossingClearsIntegral == [][Crossed => Cleared]_servoVars

(* max_accel "maximum acceleration (Hz/period)": it bounds the ramp's, while *)
(* the PID's correction and the switch to the proportional approach change   *)
(* the output by much more in one period.                                    *)
OutputWithinAccel == [][Abs(hz' - hz) * Unit <= MaxAccel]_servoVars

(* "wait for arrival" of move_to: a target set while the shaft sweeps past  *)
(* it counts as arrived at once, from the last position sampled.            *)
ArrivalIsEarned == [][Reported => IsArrived(loop')]_servoVars

(* "latched on arrival, unlocked only by a new target, so that encoder noise *)
(* does not trigger new corrections": the loop moves on a single noisy count. *)
ArrivalIsLatched == [][IsArrived(loop) /\ hz = 0 /\ moves' = moves => hz' = 0]_servoVars
================================================================================
