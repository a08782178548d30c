----------------------------- MODULE PositionScale -----------------------------
(***************************************************************************)
(* position_scale.c: physical positions and encoder counts, converted in   *)
(* single precision, and the moves to physical positions that pass through *)
(* it.  Positions, counts_per_unit and floats are integers here, in units  *)
(* of 1/One.  The names of the specification differ from those of Encoder, *)
(* whose counts it converts: both are proved about together.               *)
(***************************************************************************)
EXTENDS Arith

CONSTANTS
  Significands,     (* a float has fewer: 2^24 on the target              *)
  MaxExp, Granule,  (* Granule[e] = 2^e; BOUND: no float is coarser       *)
  One,              (* BOUND: no float is finer than 1/One                *)
  CountsPerUnit,    (* counts_per_unit, as configured                     *)
  PosMin, PosMax,   (* pos_min, pos_max                                   *)
  Homes,            (* the counts set_home is given                       *)
  Positions         (* the positions asked for                            *)

\* init replaces what is not positive by 1.
Scale == IF CountsPerUnit > 0 THEN CountsPerUnit ELSE One

\* Granules double from 1, and floats are even in number between two of them.
ASSUME FloatAssumption ==
  /\ MaxExp \in Nat /\ Granule \in [0..MaxExp -> Nat \ {0}] /\ Granule[0] = 1
  /\ \A e \in 1..MaxExp : Granule[e] = 2 * Granule[e - 1]
  /\ \A e, g \in 0..MaxExp : e <= g => Granule[e] <= Granule[g]
  /\ Significands \in Nat \ {0} /\ Significands % 2 = 0

\* No conversion overflows a float.
ASSUME RangeAssumption ==
  /\ One \in Nat \ {0} /\ CountsPerUnit \in Int
  /\ Homes \subseteq Int /\ 0 \in Homes
  /\ Positions \cup {PosMin, PosMax} \subseteq Int
  /\ \A h \in Homes \cup {1} : 16 * One * One * Abs(h) <= Significands * Granule[MaxExp]
  /\ \A p \in Positions \cup {PosMin, PosMax} :
       16 * Abs(p) * Scale <= Significands * Granule[MaxExp]

VARIABLES
  fused,    (* the compiler makes one operation of a product and a sum, as *)
            (* it may with -ffp-contract=fast (gcc's default)              *)
  scale,    (* home_offset and the limits in counts                        *)
  answer,   (* "none"; of the move in progress: "ok", or "limit" when it   *)
            (* is refused                                                  *)
  asked,    (* the physical position it asks for                           *)
  counts    (* the target it is given                                      *)

scaleVars == <<fused, scale, asked, answer, counts>>

--------------------------------------------------------------------------------
\* Conversions.

\* The integer nearest to n / d, of two such the even one; the float so.
Nearest(n, d) ==
  IF 2 * (n % d) > d \/ (2 * (n % d) = d /\ (n \div d) % 2 = 1)
  THEN n \div d + 1 ELSE n \div d
Exponent(n, d) ==
  CHOOSE e \in 0..MaxExp :
    /\ n < d * Significands * Granule[e]
    /\ e = 0 \/ n >= d * Significands * Granule[e - 1]
Float(n, d) ==
  LET g == Granule[Exponent(Abs(n), d)]
  IN  Sgn(n) * g * Nearest(Abs(n), d * g)

\* The sum of to_counts, and its cast, which truncates.
Sum(home, physical) ==
  LET h == Float(One * home, 1)
  IN  IF fused THEN Float(One * h + physical * Scale, One)
      ELSE Float(h + Float(physical * Scale, One), 1)
ToCounts(home, physical) == Quotient(Sum(home, physical), One)
ToPhysical(home, c) == Float(One * Float(One * (c - home), 1), Scale)

\* position_scale_check_range
InRange(physical) == PosMin <= physical /\ physical <= PosMax

\* Mutant: the limits in counts stay those of the first home.
MutWithHome(home) ==
  [home_offset |-> home,
   pos_min_counts |-> ToCounts(0, PosMin), pos_max_counts |-> ToCounts(0, PosMax)]

WithHome(home) ==
  [home_offset |-> home,
   pos_min_counts |-> ToCounts(home, PosMin), pos_max_counts |-> ToCounts(home, PosMax)]

--------------------------------------------------------------------------------
\* What the shell does with them.

ScaleInit ==
  /\ fused \in BOOLEAN
  /\ scale = WithHome(0)
  /\ asked = 0 /\ answer = "none" /\ counts = 0

SetHome(home) ==
  /\ answer = "none"
  /\ scale' = WithHome(home)
  /\ UNCHANGED <<fused, asked, answer, counts>>

\* position_loop_move_to_physical, up to the limits that move_to checks; that
\* the loop runs, and the way there, are PositionLoop's.
Admitted(physical) ==
  /\ InRange(physical)
  /\ ToCounts(scale.home_offset, physical) \in scale.pos_min_counts..scale.pos_max_counts
Refuse(physical) ==
  /\ answer = "none" /\ ~Admitted(physical)
  /\ asked' = physical /\ answer' = "limit"
  /\ UNCHANGED <<fused, scale, counts>>
MoveToPhysical(physical) ==
  /\ answer = "none" /\ Admitted(physical)
  /\ counts' = ToCounts(scale.home_offset, physical)
  /\ asked' = physical /\ answer' = "ok"
  /\ UNCHANGED <<fused, scale>>
MoveReturns ==
  /\ answer # "none" /\ answer' = "none"
  /\ asked' = 0 /\ counts' = 0
  /\ UNCHANGED <<fused, scale>>

ScaleNext ==
  \/ \E home \in Homes : SetHome(home)
  \/ \E physical \in Positions : Refuse(physical) \/ MoveToPhysical(physical)
  \/ MoveReturns
ScaleSpec == ScaleInit /\ [][ScaleNext]_scaleVars

--------------------------------------------------------------------------------

\* c counts are where the position p is, to two counts and what a float
\* rounds of home and distance; v is where they are shown.
CountsNear(home, p, c) ==
  Significands * (Abs(One * One * (c - home) - p * Scale) - 2 * One * One)
    <= 3 * (One * One * Abs(home) + Abs(p) * Scale)
ShownNear(home, v, c) ==
  Significands * (Abs(v * Scale - One * One * (c - home)) - Scale)
    <= 3 * One * One * Abs(c - home)

(* A position the soft limits admit is not refused as a count afterwards,   *)
(* although both round, and on a long axis by several counts; the target it *)
(* is given is where it was asked for, and so is the position shown there.  *)
TargetsKeepLimits ==
  /\ answer = "limit" => ~InRange(asked)
  /\ answer = "ok" =>
       LET home == scale.home_offset
       IN  CountsNear(home, asked, counts) /\ ShownNear(home, ToPhysical(home, counts), counts)
================================================================================
