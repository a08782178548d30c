------------------------------- MODULE PulseSweep ------------------------------
(***************************************************************************)
(* The frequencies set_frequency lets through, one hertz after another, and *)
(* the pulses of a control period at each.  The names differ from those of *)
(* MotorDriver, which owns the timer: both are proved about together.      *)
(***************************************************************************)
EXTENDS PulseTimer

\* A timer of less than 1 GHz: where a prescaler is needed, one hertz more
\* saves more clocks than the coarser prescaler may have lost.
ASSUME ClockAssumption == TimClk \div Top <= Top \div 4

VARIABLE freq       (* the frequency written                               *)

PulseInit == freq \in Pulsed
PulseNext == freq < FastFreq /\ freq' = freq + 1
PulseSpec == PulseInit /\ [][PulseNext]_freq

\* The reload register never counts fewer: as few as at the highest
\* frequency, or half of what it holds where a prescaler is needed.
FewestCounts ==
  LET fast == TimClk \div (2 * FastFreq)
  IN  IF fast < Top \div 2 THEN fast ELSE Top \div 2

(* A frequency fits registers of 16 bits and makes an edge in every period. *)
(* The edges of a period are those it stands for, to half an edge and, for  *)
(* too many, one in FewestCounts (a thousand, as configured): divisions     *)
(* that round down and the restart of the counter cost no more.             *)
EdgesMatchFrequency ==
  LET made == EdgeFreq * Edges(freq)
      top  == Reload(freq, Prescaler(freq)) + 1
  IN  /\ Edges(freq) > 0 /\ Prescaler(freq) \in 0..Top
      /\ FewestCounts <= top /\ top <= Top + 1
      /\ 2 * (freq - made) < EdgeFreq
      /\ 2 * FewestCounts * (made - freq) <= FewestCounts * EdgeFreq + 2 * (freq + EdgeFreq)

(* A higher frequency never makes fewer edges, where the prescaler changes  *)
(* neither: the ramp accelerates the motor at every step.                   *)
FasterIsFaster == [][Edges(freq') >= Edges(freq)]_freq
================================================================================
