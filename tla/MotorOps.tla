-------------------------------- MODULE MotorOps -------------------------------
(***************************************************************************)
(* stepper_motor_driver.c, the body of each function under motor->lock, as *)
(* an operator from the state of a motor to its next state.  The state is  *)
(* the driver's struct together with the hardware it drives:               *)
(*   enabled running state brake_decel current_freq current_dir            *)
(*   total_steps    the fields of stepper_motor_driver_t                   *)
(*   fault          fault_state # MOTOR_FAULT_NONE                         *)
(*   since          ticks since last_tick, Unset for its sentinel 0        *)
(*   idle           ticks since idle_since, up to IdleTimeout              *)
(*   en oc hz dir   EN pin, OC channel on, the frequency in PSC/ARR, and   *)
(*                  the direction of rotation the DIR pin selects          *)
(***************************************************************************)
EXTENDS Arith

CONSTANTS
  MinFreq,      (* MOTOR_MIN_FREQ_HZ                                   *)
  MaxFreq,      (* MOTOR_MAX_FREQ_HZ                                   *)
  ResetHz,      (* the frequency of the registers init leaves behind   *)
  TicksPerSec,  (* RT_TICK_PER_SECOND                                  *)
  IdleTimeout   (* idle_timeout_ms in ticks                            *)

ASSUME MotorAssumption ==
  /\ MinFreq \in Nat \ {0} /\ MaxFreq \in Nat /\ MinFreq <= MaxFreq
  /\ ResetHz \in Nat /\ TicksPerSec \in Nat \ {0} /\ IdleTimeout \in Nat

States == {"IDLE", "RUNNING", "BRAKING", "HOMING", "FAULT"}
Unset == -1
Opposite(dir) == IF dir = "CW" THEN "CCW" ELSE "CW"

\* 0, or within the limits set_frequency clamps to.
Frequencies == {0} \cup (MinFreq..MaxFreq)

Motors ==
  [enabled : BOOLEAN, running : BOOLEAN, state : States, brake_decel : Nat,
   current_freq : Frequencies, current_dir : {"CW", "CCW", "unset"}, total_steps : Int,
   fault : BOOLEAN, since : Nat \cup {Unset}, idle : 0..IdleTimeout,
   en : BOOLEAN, oc : BOOLEAN, hz : {ResetHz} \cup Frequencies, dir : {"CW", "CCW"}]

\* EN and DIR are low; the rotation a low DIR selects depends on dir_invert.
InitialMotors ==
  [enabled : {FALSE}, running : {FALSE}, state : {"IDLE"}, brake_decel : {0},
   current_freq : {0}, current_dir : {"unset"}, total_steps : {0},
   fault : {FALSE}, since : {Unset}, idle : {IdleTimeout},
   en : {FALSE}, oc : {FALSE}, hz : {ResetHz}, dir : {"CW", "CCW"}]

\* (int64)(current_freq * elapsed / RT_TICK_PER_SECOND), truncated, signed.
Increment(m) ==
  LET inc == (m.current_freq * m.since) \div TicksPerSec
  IN  IF m.current_dir = "CCW" THEN -inc ELSE inc

\* steps_accumulate
Accumulate(m) ==
  IF m.since = Unset THEN [m EXCEPT !.since = 0]
  ELSE [m EXCEPT !.total_steps = @ + Increment(m), !.since = 0]

\* freq_write_raw: the OC channel is started once and stopped at 0 Hz.
WriteFreq(m, f) ==
  IF f = 0 THEN [m EXCEPT !.oc = FALSE, !.running = FALSE]
  ELSE [m EXCEPT !.oc = m.oc \/ ~m.running, !.running = TRUE, !.hz = f]

Enable(m) == [m EXCEPT !.en = TRUE, !.enabled = TRUE]

Start(m) ==
  [m EXCEPT !.en = @ \/ ~m.enabled, !.enabled = TRUE, !.oc = TRUE,
            !.running = TRUE, !.state = "RUNNING", !.since = 0]

\* Mutant: stop leaves the OC channel to the next frequency change.
MutStop(m) ==
  [Accumulate(m) EXCEPT !.running = FALSE, !.state = "IDLE",
                        !.current_freq = 0, !.idle = 0]

Stop(m) ==
  [Accumulate(m) EXCEPT !.oc = FALSE, !.running = FALSE, !.state = "IDLE",
                        !.current_freq = 0, !.idle = 0]

Disable(m) == [Stop(m) EXCEPT !.en = FALSE, !.enabled = FALSE]

BrakeAsync(m, rate) == [m EXCEPT !.brake_decel = rate, !.state = "BRAKING"]

\* Mutant: the direction changes before the steps made so far are counted.
MutSetDirection(m, dir) == Accumulate([m EXCEPT !.dir = dir, !.current_dir = dir])

SetDirection(m, dir) == [Accumulate(m) EXCEPT !.dir = dir, !.current_dir = dir]

\* Mutant: only the upper limit is enforced.
MutClamp(f) == IF f > MaxFreq THEN MaxFreq ELSE f

\* The clamp of set_frequency and the code it returns for it.
Clamp(f) == IF f = 0 THEN 0
            ELSE IF f < MinFreq THEN MinFreq
            ELSE IF f > MaxFreq THEN MaxFreq ELSE f

\* The fault check of set_frequency, made before the lock is taken.
Refused(m, f) == Clamp(f) > 0 /\ m.fault

\* Mutant: the new frequency is in force while the old period is counted.
MutSetFrequency(m, f) ==
  LET w == WriteFreq(Accumulate([m EXCEPT !.current_freq = Clamp(f)]), Clamp(f))
  IN  IF Clamp(f) = 0
      THEN [w EXCEPT !.current_freq = 0, !.state = "IDLE", !.idle = 0]
      ELSE [w EXCEPT !.current_freq = Clamp(f),
                     !.state = IF @ = "BRAKING" THEN @ ELSE "RUNNING"]

\* set_frequency under the lock.
SetFrequency(m, f) ==
  LET w == WriteFreq(Accumulate(m), Clamp(f))
  IN  IF Clamp(f) = 0
      THEN [w EXCEPT !.current_freq = 0, !.state = "IDLE", !.idle = 0]
      ELSE [w EXCEPT !.current_freq = Clamp(f),
                     !.state = IF @ = "BRAKING" THEN @ ELSE "RUNNING"]

\* check_fault up to its call of stop, and whether it makes that call.
FaultLatches(m, pinLow) == pinLow /\ ~m.fault
LatchFault(m, pinLow) ==
  IF FaultLatches(m, pinLow) THEN [m EXCEPT !.fault = TRUE, !.state = "FAULT"]
  ELSE [m EXCEPT !.fault = pinLow]

\* check_fault called by a thread that nothing preempts.
CheckFault(m, pinLow) ==
  IF FaultLatches(m, pinLow) THEN Stop(LatchFault(m, pinLow))
  ELSE LatchFault(m, pinLow)

ClearFault(m) ==
  [m EXCEPT !.fault = FALSE, !.state = IF @ = "FAULT" THEN "IDLE" ELSE @]

\* The test of idle_tick, with idle_reduce set, and its effect.
IdleExpired(m) == ~m.running /\ m.idle >= IdleTimeout
ReleaseEn(m) == [m EXCEPT !.en = FALSE]
IdleTick(m) == IF IdleExpired(m) THEN ReleaseEn(m) ELSE m

ClearSteps(m) == [Accumulate(m) EXCEPT !.total_steps = 0]

\* One RTOS tick goes by.
Age(m) == [m EXCEPT !.since = IF @ = Unset THEN @ ELSE @ + 1,
                    !.idle = IF @ < IdleTimeout THEN @ + 1 ELSE @]

\* Pulses per second the hardware emits, signed by the direction of rotation.
Rate(m) == IF ~m.oc THEN 0 ELSE IF m.dir = "CW" THEN m.hz ELSE -m.hz
================================================================================
