------------------------------- MODULE PulseTimer ------------------------------
(***************************************************************************)
(* The pulse timer as freq_write_raw sets it: prescaler, reload and        *)
(* compare register for a frequency, and the edges its output makes until  *)
(* the next control period writes it again.  Every write restarts the      *)
(* counter, so a period begins with half a step and the fraction of a step *)
(* at its end is lost.  A step is two edges.                               *)
(***************************************************************************)
EXTENDS Integers

CONSTANTS
  TimClk,             (* clock of the timer, Hz                          *)
  PeriodClocks,       (* ticks of that clock in a control period         *)
  SlowFreq, FastFreq  (* MOTOR_MIN_FREQ_HZ, MOTOR_MAX_FREQ_HZ            *)

Top == 65535          (* PSC, ARR and CCR have 16 bits                   *)
Pulsed == SlowFreq..FastFreq

\* What the reload register is to hold under a prescaler; mutant: one more.
MutReload(f, psc) == TimClk \div (2 * f * (psc + 1))
Reload(f, psc) == TimClk \div (2 * f * (psc + 1)) - 1

\* The least prescaler under which it fits (the range ends where it does).
Prescaler(f) ==
  CHOOSE p \in 0..(TimClk \div (2 * f)) \div (Top + 1) :
    Reload(f, p) <= Top /\ (p = 0 \/ Reload(f, p - 1) > Top)

\* Mutant: CCR keeps the value init gave it.
MutEdges(f) ==
  LET psc == Prescaler(f)  arr == Reload(f, psc)
  IN  IF arr < 32767 THEN 0
      ELSE 1 + ((PeriodClocks - 1) \div (psc + 1) - 32767) \div (arr + 1)

\* The counter passes CCR = ARR / 2 once in every ARR + 1 of its counts.
Edges(f) ==
  LET psc == Prescaler(f)  arr == Reload(f, psc)
  IN  1 + ((PeriodClocks - 1) \div (psc + 1) - arr \div 2) \div (arr + 1)

\* The frequency one edge in a period stands for.
EdgeFreq == TimClk \div (2 * PeriodClocks)

\* A frequency fits the registers, and makes an edge in every period; an edge
\* stands for whole hertz (25 of 200 MHz and 20 ms).
ASSUME PulseAssumption ==
  /\ TimClk \in Nat /\ PeriodClocks \in Nat \ {0}
  /\ SlowFreq \in Nat \ {0} /\ FastFreq \in Nat /\ 2 * FastFreq <= TimClk
  /\ (TimClk \div (2 * SlowFreq)) \div (Top + 2) <= Top
  /\ EdgeFreq <= SlowFreq /\ TimClk = 2 * PeriodClocks * EdgeFreq

\* What the pulses of a period turn the motor by, in hertz times its length.
Turned(f) == IF f = 0 THEN 0 ELSE EdgeFreq * (IF f > 0 THEN Edges(f) ELSE -Edges(-f))
================================================================================
