----------------------------- MODULE MCConversions -----------------------------
(***************************************************************************)
(* The program's two conversions one after the other: the frequencies of   *)
(* PulseSweep, and at the last of them the moves of PositionScale, on an   *)
(* axis of 2425 counts either way under floats of 10 bits, in about the    *)
(* proportion of 40 million counts (100 units of 400000) to 24 bits: many  *)
(* neighbouring counts are one float.                                      *)
(***************************************************************************)
EXTENDS PulseSweep, PositionScale

MCGranule == [e \in 0..MaxExp |-> 2^e]
MCPosMin == -100 * One
MCHomes == {0, 700, -1501}

\* Every float within the limits and a little beyond.
MCPositions == {p \in -1760..1760 : Float(p, 1) = p}

Init == PulseInit /\ ScaleInit
Next ==
  \/ PulseNext /\ UNCHANGED scaleVars
  \/ freq = FastFreq /\ ScaleNext /\ UNCHANGED freq
Spec == Init /\ [][Next]_<<freq, scaleVars>>
================================================================================
