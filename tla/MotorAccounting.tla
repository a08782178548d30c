----------------------------- MODULE MotorAccounting ---------------------------
(***************************************************************************)
(* The step count of stepper_motor_driver.c against the pulses it counts.  *)
(* The driver integrates its own frequency in whole steps, at every change *)
(* of frequency or direction and at every query; the history variables     *)
(* integrate what the hardware emits, exactly.                             *)
(***************************************************************************)
EXTENDS MotorDriver

CONSTANTS
  MaxSamples, (* BOUND: accumulations between two clear_steps          *)
  MaxStray    (* BOUND: |stray| at the end of a tick                   *)

VARIABLES
  pulses,     (* history: pulses the hardware made * TicksPerSec, signed  *)
              (* by the direction of rotation, since the last clear_steps *)
  stray,      (* history: those of them made at a current_freq of 0       *)
  samples     (* history: accumulations at a frequency since then         *)

avars == <<m, faultPin, homePin, pc, loc, pulses, stray, samples>>

Sampled == m.since > 0 /\ m.current_freq > 0 /\ m'.since = 0
Cleared == \E t \in Threads : DoClearSteps(t)

\* In a tick the hardware makes pulses, whatever the driver knows of them.
TickHistory ==
  /\ pulses' = pulses + Rate(m)
  /\ stray' = IF m.current_freq = 0 THEN stray + Rate(m) ELSE stray
  /\ UNCHANGED samples

\* Other steps take no time; a clear_steps starts the history afresh.
ActHistory ==
  IF Cleared THEN pulses' = 0 /\ stray' = 0 /\ samples' = 0
  ELSE /\ UNCHANGED <<pulses, stray>>
       /\ samples' = IF Sampled THEN samples + 1 ELSE samples

AInit == Init /\ pulses = 0 /\ stray = 0 /\ samples = 0
ANext ==
  \/ Act /\ ActHistory /\ samples' <= MaxSamples
  \/ m.since < MaxAge /\ Tick /\ TickHistory /\ Abs(stray') <= MaxStray
ASpec == AInit /\ [][ANext]_avars

\* The steps of the period not yet accumulated, times TicksPerSec.
Pending ==
  LET p == IF m.since = Unset THEN 0 ELSE m.current_freq * m.since
  IN  IF m.current_dir = "CCW" THEN -p ELSE p

\* Pulses made and not counted: neither in the count nor pending.
Missing == pulses - TicksPerSec * m.total_steps - Pending

(* get_steps "accumulated pulse count, CW positive, CCW negative": however   *)
(* direction and frequency change, two kinds of pulses are missing from the  *)
(* count and no others: those made while the driver says 0 Hz (a start       *)
(* pulses at the registers' old frequency until the first set_frequency),    *)
(* all of them, and less than one step per accumulation lost to truncation.  *)
OnlyStrayPulsesAreLost == Abs(Missing - stray) <= samples * (TicksPerSec - 1)

--------------------------------------------------------------------------------
\* What a comment of the source says and the code does not do.

(* The same comment, taken at its word: every pulse is counted.              *)
CountsEveryPulse == Abs(Missing) <= samples * (TicksPerSec - 1)
================================================================================
