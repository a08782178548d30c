---------------------------- MODULE PosControlProofs ---------------------------
(***************************************************************************)
(* Theorems about PosControl, for every value of its constants: every      *)
(* geometry of the ramp, every gain and every behaviour of the encoder.    *)
(* First what each operator of the control law returns, then what one      *)
(* control period does to a loop within its limits, then the invariants.   *)
(* Then the pulse timer, the edges it makes of a frequency; and, from      *)
(* both, the arrival of PosServo, the loop closed around the motor.        *)
(***************************************************************************)
EXTENDS PosControl, PosServo, PulseSweep, FiniteSetTheorems, TLAPS

(* Bound returns an integer within the bound, and moves towards x.           *)
LEMMA BoundRange ==
  ASSUME NEW x \in Int, NEW b \in Nat
  PROVE  Bound(x, b) \in Int /\ Abs(Bound(x, b)) <= b
BY DEF Bound, Abs

(* The limited error, and the output, are integers within their limits.      *)
LEMMA PidRange ==
  ASSUME NEW k, k.i \in Int, k.err_last \in Int, NEW x \in Int
  PROVE  /\ PidErr(x) \in Int /\ Abs(PidErr(x)) <= ErrorLimit
         /\ PidOut(k, PidErr(x)) \in Int /\ Abs(PidOut(k, PidErr(x))) <= OutputLimit
<1>1. PidErr(x) \in Int /\ Abs(PidErr(x)) <= ErrorLimit
  BY BoundRange, PidAssumption DEF PidErr
<1>2. PICK pd \in Int : pd = PidPD(k, PidErr(x))
  BY <1>1, PidAssumption DEF PidPD
<1>3. PidOut(k, PidErr(x)) = Bound(pd + k.i, OutputLimit)
  BY <1>2 DEF PidOut
<1>4. QED
  BY <1>1, <1>3, BoundRange, PidAssumption

(* The PID returns an integer integral within its limit, although the back-  *)
(* calculation assigns it without comparing it with the limit: on saturation *)
(* it moves towards 0.                                                       *)
LEMMA PidIntegralRange ==
  ASSUME NEW k, k.i \in Int, k.err_last \in Int, NEW e \in Int,
         Abs(k.i) <= IntegralLimit
  PROVE  PidIntegral(k, e) \in Int /\ Abs(PidIntegral(k, e)) <= IntegralLimit
<1>1. PICK pd \in Int : pd = PidPD(k, e)
  BY PidAssumption DEF PidPD
<1>2. PICK ie \in Int : ie = Ki * e
  BY PidAssumption
<1>3. Bound(k.i + ie, IntegralLimit) \in Int
      /\ Abs(Bound(k.i + ie, IntegralLimit)) <= IntegralLimit
  BY BoundRange, PidAssumption
<1>4. PidIntegral(k, e) =
        IF Ki = 0 THEN k.i
        ELSE IF pd + k.i > OutputLimit THEN Larger(0, OutputLimit - pd)
        ELSE IF pd + k.i < -OutputLimit THEN Smaller(0, -OutputLimit - pd)
        ELSE Bound(k.i + ie, IntegralLimit)
  BY <1>1, <1>2 DEF PidIntegral
<1>5. QED
  BY <1>1, <1>3, <1>4, PidAssumption DEF Larger, Smaller, Abs

(* A division rounded towards 0 yields an integer, natural for naturals.     *)
LEMMA QuotientType ==
  ASSUME NEW x \in Int, NEW y \in Nat \ {0}
  PROVE  Quotient(x, y) \in Int /\ (x >= 0 => Quotient(x, y) \in Nat)
BY DEF Quotient

(* Loops with a few fields assigned.  The values are parameters, for the     *)
(* provers handle a record with several literal fields badly.                *)
WithMotion(k, s, a) == [k EXCEPT !.accel = a, !.speed = s]
WithPid(k, e, i, p) == [k EXCEPT !.err_last = e, !.i = i, !.prev_err = p]
WithAll(k, e, i, s, a, r, t, p) ==
  [k EXCEPT !.err_last = e, !.i = i, !.running = FALSE, !.speed = s, !.accel = a,
            !.ramp = r, !.target = t, !.pos = p]

LEMMA WithMotionType ==
  ASSUME NEW k \in Loops, NEW s \in Int, NEW a \in Int
  PROVE  /\ WithMotion(k, s, a) \in Loops
         /\ WithMotion(k, s, a).speed = s /\ WithMotion(k, s, a).accel = a
         /\ WithMotion(k, s, a).target = k.target
         /\ WithMotion(k, s, a).ramp = k.ramp
         /\ WithMotion(k, s, a).pos = k.pos /\ WithMotion(k, s, a).i = k.i
         /\ WithMotion(k, s, a).running = k.running
BY DEF Loops, WithMotion

LEMMA WithPidType ==
  ASSUME NEW k \in Loops, NEW e \in Int, NEW i \in Int, NEW p \in -1..1
  PROVE  /\ WithPid(k, e, i, p) \in Loops /\ WithPid(k, e, i, p).i = i
         /\ WithPid(k, e, i, p).target = k.target
         /\ WithPid(k, e, i, p).ramp = k.ramp
         /\ WithPid(k, e, i, p).pos = k.pos
         /\ WithPid(k, e, i, p).speed = k.speed
         /\ WithPid(k, e, i, p).accel = k.accel
         /\ WithPid(k, e, i, p).running = k.running
BY DEF Loops, WithPid

LEMMA WithAllType ==
  ASSUME NEW k \in Loops, NEW e \in Int, NEW i \in Int, NEW s \in Int,
         NEW a \in Int, NEW r \in Int, NEW t \in Int, NEW p \in Int
  PROVE  /\ WithAll(k, e, i, s, a, r, t, p) \in Loops
         /\ WithAll(k, e, i, s, a, r, t, p).i = i
         /\ WithAll(k, e, i, s, a, r, t, p).speed = s
         /\ WithAll(k, e, i, s, a, r, t, p).accel = a
         /\ ~WithAll(k, e, i, s, a, r, t, p).running
BY DEF Loops, WithAll

(* A loop whose ramp is within its limits.                                   *)
Limited(k) == Abs(k.speed) <= RampMax /\ Abs(k.accel) <= MaxAccel

(* The next acceleration is within max_accel and within a jerk of the last.  *)
LEMMA AccelStep ==
  ASSUME NEW k \in Loops, NEW v \in Nat, Limited(k)
  PROVE  /\ RampAccel(k, v) \in Int
         /\ Abs(RampAccel(k, v)) <= MaxAccel
         /\ Abs(RampAccel(k, v) - k.accel) <= Jerk
<1> DEFINE w == Sgn(k.target - k.ramp) * Smaller(v, RampMax) - k.speed
           d == Bound(w, MaxAccel)
<1>1. w \in Int
  BY LawAssumption DEF Loops, Sgn, Smaller
<1>2. d \in Int /\ Abs(d) <= MaxAccel
  BY <1>1, BoundRange, LawAssumption
<1>3. RampAccel(k, v) = k.accel + Bound(d - k.accel, Jerk)
  BY DEF RampAccel
<1> HIDE DEF d
<1>4. QED
  BY <1>2, <1>3, LawAssumption DEF Loops, Limited, Bound, Abs

(* The next speed is within ramp_max_speed and within max_accel of the last. *)
LEMMA SpeedStep ==
  ASSUME NEW k \in Loops, NEW v \in Nat, Limited(k)
  PROVE  /\ RampSpeed(k, v) \in Int
         /\ Abs(RampSpeed(k, v)) <= RampMax
         /\ Abs(RampSpeed(k, v) - k.speed) <= MaxAccel
<1>1. RampAccel(k, v) \in Int /\ Abs(RampAccel(k, v)) <= MaxAccel
  BY AccelStep
<1>2. QED
  BY <1>1, LawAssumption DEF RampSpeed, Loops, Limited, Bound, Abs

(* The lead the ramp may have over the motor never exceeds LeadMax.          *)
LEMMA LeadRange ==
  ASSUME NEW s \in Int
  PROVE  Lead(s) \in Nat /\ Lead(s) <= LeadMax
<1>1. 2 * Abs(s) \in Int /\ 2 * Abs(s) >= 0
  BY DEF Abs
<1>2. Quotient(2 * Abs(s), LoopUnits) \in Nat
  BY <1>1, QuotientType, LawAssumption
<1>3. QED
  BY <1>2, LawAssumption DEF Lead, Larger, Smaller

LEMMA AdvanceType ==
  ASSUME NEW k \in Loops, NEW s \in Int
  PROVE  Advance(k, s) \in Int
<1>1. Quotient(s, LoopUnits) \in Int
  BY QuotientType, LawAssumption
<1>2. QED
  BY <1>1 DEF Advance, Loops

(* Side(r, k): position r is not across the target from the motor.           *)
Side(r, k) == Sgn(r - k.target) \in {0, Sgn(k.pos - k.target)}

(* Follow never leaves the ramp across the target from the motor, nor, off   *)
(* the target, further than the lead from it: the second correction, towards *)
(* the target, does not undo the first.                                      *)
LEMMA FollowStep ==
  ASSUME NEW k \in Loops, NEW r \in Int, NEW lead \in Nat
  PROVE  /\ Follow(k, r, lead) \in Int
         /\ Side(Follow(k, r, lead), k)
         /\ \/ Follow(k, r, lead) = k.target
            \/ Abs(Follow(k, r, lead) - k.pos) <= lead
<1>1. PICK b \in Int : b = Bound(r - k.pos, lead) /\ Abs(b) <= lead
  BY BoundRange DEF Loops
<1>2. Follow(k, r, lead) =
        IF \/ k.pos + b > k.target /\ k.pos <= k.target
           \/ k.pos + b < k.target /\ k.pos >= k.target
        THEN k.target ELSE k.pos + b
  BY <1>1 DEF Follow
<1>3. QED
  BY <1>1, <1>2 DEF Loops, Side, Sgn, Abs

(* What the ramp step yields, from a loop within its limits.                 *)
Smooth(k, n) ==
  /\ n.accel # 0 => Abs(n.accel - k.accel) <= Jerk
  /\ n.speed # 0 => Abs(n.speed - k.speed) <= MaxAccel

Placed(n) ==
  /\ Side(n.ramp, n)
  /\ n.ramp = n.target \/ Abs(n.ramp - n.pos) <= LeadMax

LEMMA RampStepMeets ==
  ASSUME NEW k \in Loops, NEW v \in Nat, Limited(k)
  PROVE  /\ RampStep(k, v) \in Loops
         /\ Limited(RampStep(k, v))
         /\ Smooth(k, RampStep(k, v))
         /\ Placed(RampStep(k, v))
         /\ RampStep(k, v).i = k.i /\ RampStep(k, v).running = k.running
<1>1. CASE k.ramp = k.target
  <2> DEFINE n == RampStep(k, v)
  <2>1. n = WithMotion(k, 0, 0)
    BY <1>1 DEF RampStep, WithMotion
  <2>2. n \in Loops /\ n.i = k.i /\ n.running = k.running
    BY <2>1, WithMotionType
  <2>3. n.accel = 0 /\ n.speed = 0 /\ n.ramp = n.target
    BY <1>1, <2>1, WithMotionType
  <2> HIDE DEF n
  <2>4. Limited(n) /\ Smooth(k, n)
    BY <2>3, LawAssumption DEF Limited, Smooth, Abs
  <2>5. Placed(n)
    BY <2>2, <2>3 DEF Loops, Placed, Side, Sgn
  <2>6. QED
    BY <2>2, <2>4, <2>5 DEF n
<1>2. CASE k.ramp # k.target
  <2> DEFINE s == RampSpeed(k, v)
             a == RampAccel(k, v)
             f == Follow(k, Advance(k, s), Lead(s))
  <2>1. a \in Int /\ Abs(a) <= MaxAccel /\ Abs(a - k.accel) <= Jerk
    BY AccelStep
  <2>2. s \in Int /\ Abs(s) <= RampMax /\ Abs(s - k.speed) <= MaxAccel
    BY SpeedStep
  <2>3. Lead(s) \in Nat /\ Lead(s) <= LeadMax
    BY <2>2, LeadRange
  <2>4. Advance(k, s) \in Int
    BY <2>2, AdvanceType
  <2>5. f \in Int /\ Side(f, k) /\ (f = k.target \/ Abs(f - k.pos) <= Lead(s))
    BY <2>3, <2>4, FollowStep
  <2>6. RampStep(k, v) = [k EXCEPT !.accel = a, !.speed = s, !.ramp = f]
    BY <1>2 DEF RampStep
  <2> HIDE DEF s, a, f
  <2>7. f = k.target \/ Abs(f - k.pos) <= LeadMax
    BY <2>3, <2>5, LawAssumption DEF Loops, Abs
  <2>8. QED
    BY <2>1, <2>2, <2>5, <2>6, <2>7 DEF Loops, Limited, Smooth, Placed, Side
<1>3. QED
  BY <1>1, <1>2

(* The reset on a zero crossing of the ramp error touches only the PID.      *)
LEMMA CrossZeroMeets ==
  ASSUME NEW k \in Loops, Abs(k.i) <= IntegralLimit
  PROVE  /\ CrossZero(k) \in Loops
         /\ Abs(CrossZero(k).i) <= IntegralLimit
         /\ CrossZero(k).target = k.target /\ CrossZero(k).ramp = k.ramp
         /\ CrossZero(k).pos = k.pos /\ CrossZero(k).speed = k.speed
         /\ CrossZero(k).accel = k.accel /\ CrossZero(k).running = k.running
<1>1. Sgn(k.ramp - k.pos) \in -1..1
  BY DEF Loops, Sgn
<1>2. CASE CrossZero(k) = [k EXCEPT !.prev_err = Sgn(k.ramp - k.pos)]
  BY <1>1, <1>2 DEF Loops
<1>3. CASE CrossZero(k) = WithPid(k, 0, 0, Sgn(k.ramp - k.pos))
  <2>1. Abs(0) <= IntegralLimit
    BY PidAssumption DEF Abs
  <2>2. QED
    BY <1>1, <1>3, <2>1, WithPidType
<1>4. QED
  BY <1>2, <1>3 DEF CrossZero, PidReset, WithPid

(* One control period, from a loop within its limits.                        *)
LEMMA ControlMeets ==
  ASSUME NEW k \in Loops, NEW v \in Nat, Limited(k), Abs(k.i) <= IntegralLimit
  PROVE  /\ Control(k, v) \in Loops
         /\ Limited(Control(k, v))
         /\ Abs(Control(k, v).i) <= IntegralLimit
         /\ Smooth(k, Control(k, v))
         /\ Placed(Control(k, v))
         /\ Control(k, v).running = k.running
<1> DEFINE s == RampStep(k, v)
           r == Ramped(k, v)
<1>1. /\ s \in Loops /\ Limited(s) /\ Smooth(k, s) /\ Placed(s)
      /\ s.i = k.i /\ s.running = k.running
  BY RampStepMeets
<1>2. Abs(s.i) <= IntegralLimit
  BY <1>1
<1>3. r \in Loops /\ Abs(r.i) <= IntegralLimit
  BY <1>1, <1>2, CrossZeroMeets DEF Ramped
<1>4. /\ r.target = s.target /\ r.ramp = s.ramp /\ r.pos = s.pos
      /\ r.speed = s.speed /\ r.accel = s.accel /\ r.running = s.running
  BY <1>1, <1>2, CrossZeroMeets DEF Ramped
<1> HIDE DEF s, r
<1>5. Limited(r) /\ Smooth(k, r) /\ Placed(r) /\ r.running = k.running
  BY <1>1, <1>4 DEF Limited, Smooth, Placed, Side
<1>6. CASE IsNear(k)
  <2>1. Control(k, v) = [r EXCEPT !.speed = 0]
    BY <1>6 DEF Control, r
  <2> DEFINE n == Control(k, v)
  <2>2. n \in Loops /\ n.speed = 0 /\ n.accel = r.accel /\ n.i = r.i
    BY <1>3, <2>1 DEF Loops
  <2>3. /\ n.target = r.target /\ n.ramp = r.ramp /\ n.pos = r.pos
        /\ n.running = r.running
    BY <1>3, <2>1 DEF Loops
  <2> HIDE DEF n
  <2>4. Limited(n) /\ Smooth(k, n)
    BY <1>5, <2>2, LawAssumption DEF Limited, Smooth, Abs
  <2>5. Placed(n)
    BY <1>5, <2>3 DEF Placed, Side
  <2>6. QED
    BY <1>3, <1>5, <2>2, <2>3, <2>4, <2>5 DEF n
<1>7. CASE ~IsNear(k)
  <2> DEFINE e == PosErr(r)
  <2>1. Control(k, v) = [r EXCEPT !.i = PidIntegral(r, e), !.err_last = e]
    BY <1>7 DEF Control, PidStep, r
  <2>2. r.i \in Int /\ r.err_last \in Int /\ r.ramp - r.pos \in Int
    BY <1>3 DEF Loops
  <2>3. e \in Int
    BY <2>2, PidRange DEF PosErr
  <2>4. /\ PidIntegral(r, e) \in Int
        /\ Abs(PidIntegral(r, e)) <= IntegralLimit
    BY <1>3, <2>2, <2>3, PidIntegralRange
  <2> HIDE DEF e
  <2>5. QED
    BY <1>3, <1>5, <2>1, <2>3, <2>4 DEF Loops, Limited, Smooth, Placed, Side
<1>8. QED
  BY <1>6, <1>7

--------------------------------------------------------------------------------
\* The inductive invariant.

(* How far a start in progress has got: what it will run from is set, and    *)
(* no period may run meanwhile.  StartHoldsPosition needs it.                *)
FromTarget == {"start_ramp", "start_speed", "start_accel", "start_run"}
FromRamp == {"start_speed", "start_accel", "start_run"}
FromSpeed == {"start_accel", "start_run"}
StartLabels == FromTarget \cup {"start_err", "start_i", "start_pos", "start_target"}

StartInv ==
  /\ pc \in StartLabels => ~l.running
  /\ pc \in FromTarget => l.target = l.pos
  /\ pc \in FromRamp => l.ramp = l.pos
  /\ pc \in FromSpeed => l.speed = 0
  /\ pc = "start_run" => l.accel = 0

IInv == TypeOK /\ IntegralIsLimited /\ StartInv

LEMMA InitInv == Init => IInv
BY LawAssumption, PidAssumption DEF Init, AtRest, IInv, TypeOK, Loops, Labels, IntegralIsLimited, StartInv, StartLabels, FromTarget, FromRamp, FromSpeed, Abs

(* One control period keeps the invariant and meets the promises about it.   *)
LEMMA PeriodMeets ==
  ASSUME IInv, NEW p \in Positions, NEW v \in Brakes, Period(p, v)
  PROVE  IInv' /\ Smooth(l, l') /\ Placed(l')
<1> DEFINE k == [l EXCEPT !.pos = p]
<1>1. p \in Int /\ v \in Nat
  BY FeedbackAssumption
<1>2. /\ k \in Loops /\ k.i = l.i /\ k.speed = l.speed /\ k.accel = l.accel
      /\ k.running = l.running
  BY <1>1 DEF IInv, TypeOK, Loops
<1>3. Limited(k) /\ Abs(k.i) <= IntegralLimit
  BY <1>2 DEF IInv, TypeOK, IntegralIsLimited, Limited
<1>4. l' = Control(k, v)
  BY DEF Period
<1> HIDE DEF k
<1>5. /\ l' \in Loops /\ Limited(l') /\ Abs(l'.i) <= IntegralLimit
      /\ Smooth(k, l') /\ Placed(l') /\ l'.running = k.running
  BY <1>1, <1>2, <1>3, <1>4, ControlMeets
<1>6. l'.running /\ pc' = pc /\ arg' = arg /\ l.running
  BY <1>2, <1>5 DEF Period
<1>7. TypeOK' /\ IntegralIsLimited'
  BY <1>5, <1>6 DEF IInv, TypeOK, IntegralIsLimited, Limited
<1>8. StartInv'
  BY <1>6 DEF IInv, StartInv, StartLabels, FromTarget, FromRamp, FromSpeed
<1>9. Smooth(l, l')
  BY <1>2, <1>5 DEF Smooth
<1>10. QED
  BY <1>5, <1>7, <1>8, <1>9 DEF IInv

(* Every step keeps the invariant.                                           *)
LEMMA StepInv == IInv /\ [Next]_vars => IInv'
<1> SUFFICES ASSUME IInv, [Next]_vars PROVE IInv'
  OBVIOUS
<1> USE LawAssumption, PidAssumption, FeedbackAssumption
    DEF IInv, TypeOK, Loops, Labels, IntegralIsLimited, Abs,
        StartInv, StartLabels, FromTarget, FromRamp, FromSpeed
<1>1. CASE \E p \in Positions, v \in Brakes : Period(p, v)
  BY <1>1, PeriodMeets
<1>2. CASE \E p \in Positions : FaultPeriod(p)
  <2>1. PICK p \in Positions : FaultPeriod(p)
    BY <1>2
  <2>2. l' = WithAll(l, 0, 0, 0, 0, 0, 0, p)
    BY <2>1 DEF FaultPeriod, Stopped, PidReset, WithAll
  <2>3. l' \in Loops /\ l'.i = 0 /\ l'.speed = 0 /\ l'.accel = 0 /\ ~l'.running
    BY <2>2, l \in Loops, p \in Int, WithAllType
  <2>4. l.running /\ pc' = pc /\ arg' = arg
    BY <2>1 DEF FaultPeriod
  <2>5. QED
    BY <2>3, <2>4
<1>3. CASE RestPeriod
  <2>1. l' = WithMotion(l, 0, 0)
    BY <1>3 DEF RestPeriod, WithMotion
  <2>2. /\ l' \in Loops /\ l'.i = l.i /\ l'.speed = 0 /\ l'.accel = 0
        /\ l'.running = l.running /\ l'.target = l.target /\ l'.ramp = l.ramp
        /\ l'.pos = l.pos
    BY <2>1, WithMotionType
  <2>3. pc' = pc /\ arg' = arg
    BY <1>3 DEF RestPeriod
  <2>4. QED
    BY <2>2, <2>3
<1>4. CASE Start
  BY <1>4 DEF Start
<1>5. CASE Starting
  <2>1. CASE Assign("start_err", "err_last", 0, "start_i")
    BY <2>1 DEF Assign
  <2>2. CASE Assign("start_i", "i", 0, "start_pos")
    BY <2>2 DEF Assign
  <2>3. CASE \E p \in Positions : Assign("start_pos", "pos", p, "start_target")
    BY <2>3 DEF Assign
  <2>4. CASE Assign("start_target", "target", l.pos, "start_ramp")
    BY <2>4 DEF Assign
  <2>5. CASE Assign("start_ramp", "ramp", l.pos, "start_speed")
    BY <2>5 DEF Assign
  <2>6. CASE Assign("start_speed", "speed", 0, "start_accel")
    BY <2>6 DEF Assign
  <2>7. CASE Assign("start_accel", "accel", 0, "start_run")
    BY <2>7 DEF Assign
  <2>8. CASE Assign("start_run", "running", TRUE, "idle")
    BY <2>8 DEF Assign
  <2>9. QED
    BY <1>5, <2>1, <2>2, <2>3, <2>4, <2>5, <2>6, <2>7, <2>8 DEF Starting
<1>6. CASE Stop
  BY <1>6 DEF Stop, Assign
<1>7. CASE Stopping
  <2>1. CASE Assign("stop_err", "err_last", 0, "stop_i")
    BY <2>1 DEF Assign
  <2>2. CASE Assign("stop_i", "i", 0, "stop_speed")
    BY <2>2 DEF Assign
  <2>3. CASE Assign("stop_speed", "speed", 0, "stop_accel")
    BY <2>3 DEF Assign
  <2>4. CASE Assign("stop_accel", "accel", 0, "stop_ramp")
    BY <2>4 DEF Assign
  <2>5. CASE Assign("stop_ramp", "ramp", 0, "stop_target")
    BY <2>5 DEF Assign
  <2>6. CASE Assign("stop_target", "target", 0, "idle")
    BY <2>6 DEF Assign
  <2>7. QED
    BY <1>7, <2>1, <2>2, <2>3, <2>4, <2>5, <2>6 DEF Stopping
<1>8. CASE \E t \in Targets : SetTarget(t)
  BY <1>8 DEF SetTarget
<1>9. CASE SettingTarget
  <2>1. CASE Assign("set_ramp", "ramp", arg.pos, "set_speed")
    BY <2>1 DEF Assign
  <2>2. CASE Assign("set_speed", "speed", 0, "set_accel")
    BY <2>2 DEF Assign
  <2>3. CASE Assign("set_accel", "accel", 0, "set_err")
    BY <2>3 DEF Assign
  <2>4. CASE Assign("set_err", "err_last", 0, "set_i")
    BY <2>4 DEF Assign
  <2>5. CASE Assign("set_i", "i", 0, "set_target")
    BY <2>5 DEF Assign
  <2>6. CASE Assign("set_target", "target", arg.target, "idle")
    BY <2>6 DEF Assign
  <2>7. QED
    BY <1>9, <2>1, <2>2, <2>3, <2>4, <2>5, <2>6 DEF SettingTarget
<1>10. CASE UNCHANGED vars
  BY <1>10 DEF vars
<1>11. QED
  BY <1>1, <1>2, <1>3, <1>4, <1>5, <1>6, <1>7, <1>8, <1>9, <1>10 DEF Next

(* The invariant holds of every reachable state.                             *)
THEOREM Invariance == Spec => []IInv
<1>1. Init => IInv
  BY InitInv
<1>2. IInv /\ [Next]_vars => IInv'
  BY StepInv
<1>3. QED
  BY <1>1, <1>2, PTL DEF Spec

(* The ramp's speed and acceleration stay within ramp_max_speed and          *)
(* max_accel however periods and shell commands interleave.                  *)
THEOREM TypeCorrect == Spec => []TypeOK
<1>1. IInv => TypeOK
  BY DEF IInv
<1>2. QED
  BY <1>1, Invariance, PTL

(* The integral of the PID stays within integral_limit.                      *)
THEOREM IntegralLimits == Spec => []IntegralIsLimited
<1>1. IInv => IntegralIsLimited
  BY DEF IInv
<1>2. QED
  BY <1>1, Invariance, PTL

--------------------------------------------------------------------------------
\* The action properties.

(* A step that finds and leaves the loop running and the shell where it was  *)
(* is a control period.                                                      *)
LEMMA OnlyPeriodsRun ==
  ASSUME IInv, Next, PeriodRuns
  PROVE  \E p \in Positions, v \in Brakes : Period(p, v)
<1>1. ASSUME NEW p \in Positions, FaultPeriod(p) PROVE FALSE
  <2>1. l' = WithAll(l, 0, 0, 0, 0, 0, 0, p)
    BY <1>1 DEF FaultPeriod, Stopped, PidReset, WithAll
  <2>2. l \in Loops /\ p \in Int
    BY FeedbackAssumption DEF IInv, TypeOK
  <2>3. QED
    BY <2>1, <2>2, WithAllType DEF PeriodRuns
<1>2. ~Starting
  BY DEF PeriodRuns, Starting, Assign
<1>3. ~Stop /\ ~Stopping
  BY DEF PeriodRuns, Stop, Stopping, Assign
<1>4. ~SettingTarget
  BY DEF PeriodRuns, SettingTarget, Assign
<1>5. ~Start /\ ~RestPeriod
  BY DEF PeriodRuns, Start, RestPeriod
<1>6. ~ \E t \in Targets : SetTarget(t)
  BY DEF PeriodRuns, SetTarget
<1>7. QED
  BY <1>1, <1>2, <1>3, <1>4, <1>5, <1>6 DEF Next

(* S-curve: acceleration and speed change by at most a jerk and max_accel    *)
(* per period, unless reset.                                                 *)
THEOREM SmoothRamp == Spec => RampIsSmooth
<1>1. IInv /\ [Next]_vars
        => [PeriodRuns => /\ l'.accel # 0 => Abs(l'.accel - l.accel) <= Jerk
                          /\ l'.speed # 0 => Abs(l'.speed - l.speed) <= MaxAccel]_vars
  BY OnlyPeriodsRun, PeriodMeets DEF Smooth
<1>2. QED
  BY <1>1, Invariance, PTL DEF Spec, RampIsSmooth

(* After every period the ramp is on the motor's side of the target.         *)
THEOREM RampBefore == Spec => RampStaysBefore
<1>1. IInv /\ [Next]_vars
        => [PeriodRuns => Sgn(l'.ramp - l'.target)
                            \in {0, Sgn(l'.pos - l'.target)}]_vars
  BY OnlyPeriodsRun, PeriodMeets DEF Placed, Side
<1>2. QED
  BY <1>1, Invariance, PTL DEF Spec, RampStaysBefore

(* After every period the ramp is at the target or near the motor.           *)
THEOREM RampNearMotor == Spec => RampStaysNearMotor
<1>1. IInv /\ [Next]_vars
        => [PeriodRuns => \/ l'.ramp = l'.target
                          \/ Abs(l'.ramp - l'.pos) <= LeadMax]_vars
  BY OnlyPeriodsRun, PeriodMeets DEF Placed
<1>2. QED
  BY <1>1, Invariance, PTL DEF Spec, RampStaysNearMotor

(* Only the last assignment of a start sets running.                         *)
LEMMA OnlyStartRuns ==
  ASSUME IInv, Next, ~l.running, l'.running
  PROVE  pc = "start_run"
<1> USE DEF IInv, TypeOK, Loops
<1>1. ~ \E p \in Positions, v \in Brakes : Period(p, v)
  BY DEF Period
<1>2. ~ \E p \in Positions : FaultPeriod(p)
  BY DEF FaultPeriod
<1>3. CASE RestPeriod
  BY <1>3 DEF RestPeriod
<1>4. CASE Start
  BY <1>4 DEF Start
<1>5. CASE Starting
  BY <1>5 DEF Starting, Assign
<1>6. CASE Stop
  BY <1>6 DEF Stop, Assign
<1>7. CASE Stopping
  BY <1>7 DEF Stopping, Assign
<1>8. CASE \E t \in Targets : SetTarget(t)
  BY <1>8 DEF SetTarget
<1>9. CASE SettingTarget
  BY <1>9 DEF SettingTarget, Assign
<1>10. QED
  BY <1>1, <1>2, <1>3, <1>4, <1>5, <1>6, <1>7, <1>8, <1>9 DEF Next

(* A loop that starts holds the position it has read.                        *)
THEOREM StartHolds == Spec => StartHoldsPosition
<1>1. IInv /\ [Next]_vars
        => [~l.running /\ l'.running
              => l.target = l.pos /\ l.ramp = l.pos /\ l.speed = 0 /\ l.accel = 0]_vars
  <2>1. IInv /\ pc = "start_run"
          => l.target = l.pos /\ l.ramp = l.pos /\ l.speed = 0 /\ l.accel = 0
    BY DEF IInv, StartInv, FromTarget, FromRamp, FromSpeed
  <2>2. QED
    BY <2>1, OnlyStartRuns
<1>2. QED
  BY <1>1, Invariance, PTL DEF Spec, StartHoldsPosition

--------------------------------------------------------------------------------
\* The pulse timer.

LEMMA Division ==
  ASSUME NEW a \in Nat, NEW b \in Nat \ {0}
  PROVE  a \div b \in Nat /\ b * (a \div b) <= a /\ a < b * (a \div b) + b
OBVIOUS

LEMMA DivisionIs ==
  ASSUME NEW a \in Nat, NEW b \in Nat \ {0}, NEW k \in Int, b * k <= a, a < b * k + b
  PROVE  a \div b = k
OBVIOUS

(* Two divisions that round down are one by the product.                     *)
LEMMA DivideTwice ==
  ASSUME NEW a \in Nat, NEW b \in Nat \ {0}, NEW c \in Nat \ {0}
  PROVE  a \div (b * c) = (a \div b) \div c
<1>1. PICK q \in Nat : q = a \div b /\ b * q <= a /\ a < b * q + b
  BY Division
<1>2. PICK k \in Nat : k = q \div c /\ c * k <= q /\ q < c * k + c
  BY Division
<1>3. (b * c) * k <= a /\ a < (b * c) * k + b * c
  <2>1. b * (c * k) <= b * q
    BY <1>2
  <2>2. q + 1 <= c * k + c
    BY <1>2
  <2>3. b * (q + 1) <= b * (c * k + c)
    BY <2>2
  <2>4. QED
    BY <1>1, <2>1, <2>3
<1>4. b * c \in Nat \ {0}
  OBVIOUS
<1>5. a \div (b * c) = k
  <2>1. PICK n \in Nat \ {0} : n = b * c
    BY <1>4
  <2>2. n * k <= a /\ a < n * k + n
    BY <1>3, <2>1, Zenon
  <2>3. k \in Int
    OBVIOUS
  <2>4. a \div n = k
    BY <2>2, <2>3, DivisionIs, Zenon
  <2>5. QED
    BY <2>1, <2>4, Zenon
<1>6. QED
  BY <1>1, <1>2, <1>5, Zenon

LEMMA ReloadIs ==
  ASSUME NEW f \in Nat \ {0}, NEW p \in Nat
  PROVE  Reload(f, p) = (TimClk \div (2 * f)) \div (p + 1) - 1
<1>1. 2 * f \in Nat \ {0} /\ p + 1 \in Nat \ {0} /\ TimClk \in Nat
  BY PulseAssumption
<1>2. TimClk \div (2 * f * (p + 1)) = (TimClk \div (2 * f)) \div (p + 1)
  BY <1>1, DivideTwice
<1>3. QED
  BY <1>2 DEF Reload

(* A number within the width of a register.                                  *)
LEMMA Enclosed ==
  ASSUME NEW x \in Nat
  PROVE  /\ x <= Top => x \in 0..Top
         /\ x <= Top + 1 /\ x >= 1 => x \in 1..Top + 1
<1>1. \A t \in Nat : (x <= t => x \in 0..t) /\ (x <= t /\ x >= 1 => x \in 1..t)
  OBVIOUS
<1>2. Top \in Nat /\ Top + 1 \in Nat
  BY DEF Top
<1>3. QED
  BY <1>1, <1>2, Zenon

(* A prescaler under which the reload register holds the period exists, and  *)
(* the register then holds one; no smaller one will do.                      *)
LEMMA PrescalerFits ==
  ASSUME NEW f \in Pulsed
  PROVE  /\ Prescaler(f) \in 0..Top
         /\ (TimClk \div (2 * f)) \div (Prescaler(f) + 1) \in 1..Top + 1
         /\ Prescaler(f) = 0 \/ (Top + 2) * Prescaler(f) <= TimClk \div (2 * f)
<1>a. PICK q \in Nat : q = TimClk \div (2 * f)
  <2>1. 2 * f \in Nat \ {0} /\ TimClk \in Nat
    BY PulseAssumption DEF Pulsed
  <2>2. QED
    BY <2>1, Division
<1> DEFINE Fits(p) == Reload(f, p) <= Top /\ (p = 0 \/ Reload(f, p - 1) > Top)
           Last == q \div (Top + 1)
           b == q \div (Top + 2)
           c == Prescaler(f)
<1>1. f \in Nat \ {0} /\ 2 * f <= TimClk /\ TimClk \in Nat /\ SlowFreq <= f
  BY PulseAssumption DEF Pulsed
<1>2. 1 <= q
  BY <1>a, <1>1, Division
<1>3. Last \in Nat /\ b \in Nat /\ b <= Last
  BY DEF Top
<1>4. Fits(b)
  <2>1. (Top + 2) * b <= q /\ q < (Top + 2) * b + (Top + 2)
    BY Division DEF Top
  <2>2. q \div (b + 1) <= Top + 1
    <3>1. PICK k \in Nat : k = q \div (b + 1) /\ (b + 1) * k <= q
      <4>1. b + 1 \in Nat \ {0}
        BY <1>3
      <4>2. QED
        BY <4>1, Division
    <3>2. (b + 1) * k < (b + 1) * (Top + 2)
      BY <1>3, <2>1, <3>1 DEF Top
    <3>3. k < Top + 2
      BY <1>3, <3>2 DEF Top
    <3>4. QED
      BY <3>1, <3>3 DEF Top
  <2>3. Reload(f, b) <= Top
    <3>1. Reload(f, b) = q \div (b + 1) - 1
      BY <1>a, <1>1, <1>3, ReloadIs
    <3>2. q \div (b + 1) \in Nat
      BY <1>3, Division
    <3>3. QED
      BY <2>2, <3>1, <3>2 DEF Top
  <2>4. ASSUME b # 0
        PROVE  Reload(f, b - 1) > Top
    <3>1. b - 1 \in Nat /\ Reload(f, b - 1) = q \div (b - 1 + 1) - 1
      BY <1>a, <1>1, <1>3, <2>4, ReloadIs
    <3>2. PICK k \in Nat : k = q \div b /\ q < b * k + b
      BY <1>3, <2>4, Division
    <3>3. b * (Top + 2) < b * (k + 1)
      BY <1>3, <2>1, <3>2 DEF Top
    <3>4. Top + 2 < k + 1
      BY <1>3, <3>3 DEF Top
    <3>5. QED
      BY <1>3, <3>1, <3>2, <3>4 DEF Top
  <2>5. QED
    BY <2>3, <2>4
<1>5. c \in 0..Last /\ Fits(c)
  <2>1. Prescaler(f) = CHOOSE p \in 0..Last : Fits(p)
    BY <1>a, Zenon DEF Prescaler
  <2>2. \E p \in 0..Last : Fits(p)
    BY <1>3, <1>4
  <2> HIDE DEF Fits, Last
  <2>3. QED
    BY <2>1, <2>2
<1> HIDE DEF c
<1>6. c \in Nat
  BY <1>3, <1>5
<1>7. PICK n \in Nat : n = q \div (c + 1) /\ (c + 1) * n <= q /\ q < (c + 1) * n + (c + 1)
  <2>1. c + 1 \in Nat \ {0}
    BY <1>6
  <2>2. QED
    BY <2>1, Division
<1>8. n <= Top + 1
  BY <1>a, <1>1, <1>5, <1>6, <1>7, ReloadIs DEF Top
<1>9. c = 0 \/ (Top + 2) * c <= q
  <2> SUFFICES ASSUME c # 0 PROVE (Top + 2) * c <= q
    OBVIOUS
  <2>1. c - 1 \in Nat /\ Reload(f, c - 1) = q \div (c - 1 + 1) - 1
    BY <1>a, <1>1, <1>6, ReloadIs
  <2>2. PICK k \in Nat : k = q \div c /\ c * k <= q
    BY <1>6, Division
  <2>3. k >= Top + 2
    BY <1>a, <1>5, <1>6, <2>1, <2>2 DEF Top
  <2>4. c * (Top + 2) <= c * k
    BY <1>6, <2>2, <2>3 DEF Top
  <2>5. QED
    BY <1>6, <2>2, <2>4 DEF Top
<1>10. n >= 1
  <2>1. c + 1 <= q
    BY <1>2, <1>6, <1>9 DEF Top
  <2>2. QED
    BY <1>6, <1>7, <2>1
<1>11. c <= Top
  <2>1. PICK q0 \in Nat : q0 = TimClk \div (2 * SlowFreq) /\ TimClk < 2 * SlowFreq * q0 + 2 * SlowFreq
    <3>1. 2 * SlowFreq \in Nat \ {0} /\ TimClk \in Nat
      BY PulseAssumption
    <3>2. QED
      BY <3>1, Division
  <2>2. 2 * f * q <= TimClk
    BY <1>a, <1>1, Division
  <2>3. q <= q0
    <3>1. 2 * SlowFreq * q <= 2 * f * q
      BY <1>1, PulseAssumption
    <3>2. 2 * SlowFreq * q < 2 * SlowFreq * (q0 + 1)
      BY <1>1, <2>1, <2>2, <3>1, PulseAssumption
    <3>3. QED
      BY <3>2, PulseAssumption
  <2>4. q0 \div (Top + 2) <= Top
    BY <2>1, PulseAssumption
  <2>5. q0 < (Top + 2) * (Top + 1)
    BY <2>4 DEF Top
  <2>6. QED
    BY <1>6, <1>9, <2>3, <2>5 DEF Top
<1>12. c \in 0..Top /\ n \in 1..Top + 1
  BY <1>6, <1>8, <1>10, <1>11, Enclosed, Zenon
<1>13. n = q \div (c + 1)
  BY <1>7
<1>14. QED
  BY <1>a, <1>9, <1>12, <1>13, Zenon DEF c

(* The arithmetic of EdgesMatchFrequency: C clocks a period, e hertz an edge, a        *)
(* prescaler d - 1 and a reload of n - 1; a period has r counts of the timer *)
(* left, the first edge falls after h of them and k more follow.             *)
LEMMA EdgeCount ==
  ASSUME NEW C \in Nat \ {0}, NEW e \in Nat, NEW f \in Nat \ {0}, NEW q \in Nat,
         NEW d \in Nat \ {0}, NEW n \in Nat \ {0}, NEW r \in Nat, NEW h \in Nat,
         NEW k \in Int,
         f * q <= C * e, C * e < f * q + f,
         d * n <= q, q < d * n + d,
         d * r <= C - 1, C - 1 < d * r + d,
         2 * h <= n - 1, n - 1 < 2 * h + 2,
         n * k <= r - h, r - h < n * k + n
  PROVE  /\ 2 * (f - e * (k + 1)) < e \/ e = 0
         /\ 2 * n * (e * (k + 1) - f) <= n * e + 2 * (f + e)
OBVIOUS


\* q clocks in half a step of f, d of them to one count of the timer, n counts
\* in the half step, r in the period; the first edge after h, then k more.
Pulses(f, q, d, n, r, h, k) ==
  /\ q = TimClk \div (2 * f) /\ 2 * f * q <= TimClk /\ TimClk < 2 * f * q + 2 * f
  /\ Prescaler(f) = d - 1 /\ Reload(f, Prescaler(f)) = n - 1
  /\ d <= Top + 1 /\ n <= Top + 1
  /\ d * n <= q /\ q < d * n + d
  /\ d = 1 \/ (Top + 2) * (d - 1) <= q
  /\ d * r <= PeriodClocks - 1 /\ PeriodClocks - 1 < d * r + d
  /\ 2 * h <= n - 1 /\ n - 1 < 2 * h + 2
  /\ n * k <= r - h /\ r - h < n * k + n
  /\ Edges(f) = k + 1

LEMMA PulseTypes ==
  ASSUME NEW f \in Pulsed
  PROVE  /\ f \in Nat \ {0} /\ 2 * f <= TimClk /\ TimClk \in Nat
         /\ SlowFreq \in Nat /\ SlowFreq <= f /\ PeriodClocks \in Nat \ {0}
         /\ EdgeFreq \in Nat \ {0} /\ EdgeFreq <= f /\ TimClk = 2 * PeriodClocks * EdgeFreq
<1>1. /\ f \in Nat \ {0} /\ 2 * f <= TimClk /\ TimClk \in Nat
      /\ SlowFreq \in Nat /\ SlowFreq <= f /\ PeriodClocks \in Nat \ {0}
  BY PulseAssumption DEF Pulsed
<1>2. 2 * PeriodClocks \in Nat \ {0}
  BY <1>1
<1>3. EdgeFreq \in Nat
  BY <1>1, <1>2, Division DEF EdgeFreq
<1>4. EdgeFreq <= SlowFreq /\ TimClk = 2 * PeriodClocks * EdgeFreq
  BY PulseAssumption
<1>5. EdgeFreq # 0
  BY <1>1, <1>4
<1>6. QED
  BY <1>1, <1>3, <1>4, <1>5

LEMMA PulsesExist ==
  ASSUME NEW f \in Pulsed
  PROVE  \E q \in Nat, d \in Nat \ {0}, n \in Nat \ {0}, r \in Nat, h \in Nat, k \in Nat :
           Pulses(f, q, d, n, r, h, k)
<1>1. /\ f \in Nat \ {0} /\ 2 * f <= TimClk /\ TimClk \in Nat /\ PeriodClocks \in Nat \ {0}
  BY PulseTypes
<1>2. EdgeFreq \in Nat \ {0} /\ EdgeFreq <= f /\ TimClk = 2 * PeriodClocks * EdgeFreq
  BY PulseTypes
<1>3. PICK q \in Nat : /\ q = TimClk \div (2 * f)
                       /\ 2 * f * q <= TimClk /\ TimClk < 2 * f * q + 2 * f
  <2>1. 2 * f \in Nat \ {0}
    BY <1>1
  <2>2. QED
    BY <1>1, <2>1, Division
<1>4. PICK p \in Nat, n \in Nat \ {0} :
        /\ p = Prescaler(f) /\ n = q \div (p + 1) /\ p <= Top /\ n <= Top + 1
        /\ p = 0 \/ (Top + 2) * p <= q
  <2>1. /\ Prescaler(f) \in 0..Top /\ q \div (Prescaler(f) + 1) \in 1..Top + 1
        /\ Prescaler(f) = 0 \/ (Top + 2) * Prescaler(f) <= q
    BY <1>3, PrescalerFits
  <2>2. \A x \in 0..Top : x \in Nat /\ x <= Top
    BY DEF Top
  <2>3. \A x \in 1..Top + 1 : x \in Nat \ {0} /\ x <= Top + 1
    BY DEF Top
  <2>4. QED
    BY <2>1, <2>2, <2>3, Zenon
<1> DEFINE d == p + 1
<1>d. d \in Nat \ {0} /\ d = p + 1 /\ p = d - 1
  OBVIOUS
<1>n. d * n <= q /\ q < d * n + d
  BY <1>4, <1>d, Division
<1> HIDE DEF d
<1>5. Reload(f, p) = n - 1
  BY <1>1, <1>3, <1>4, ReloadIs, Zenon
<1>6. PICK r \in Nat : /\ r = (PeriodClocks - 1) \div d
                       /\ d * r <= PeriodClocks - 1 /\ PeriodClocks - 1 < d * r + d
  <2>1. PeriodClocks - 1 \in Nat
    BY <1>1
  <2>2. QED
    BY <1>d, <2>1, Division
<1>7. PICK h \in Nat : h = (n - 1) \div 2 /\ 2 * h <= n - 1 /\ n - 1 < 2 * h + 2
  OBVIOUS
<1>8. h <= r
  <2>1. f * q <= PeriodClocks * EdgeFreq
    BY <1>1, <1>2, <1>3
  <2>2. EdgeFreq * q <= f * q
    BY <1>1, <1>2
  <2>3. q <= PeriodClocks
    BY <1>1, <1>2, <2>1, <2>2
  <2>4. d * n <= PeriodClocks
    BY <1>1, <1>d, <1>n, <2>3
  <2>5. 2 * (d * h) <= d * n - d
    BY <1>d, <1>7
  <2>6. d * h < d * (r + 1)
    BY <1>d, <1>1, <1>6, <2>4, <2>5
  <2>7. QED
    BY <1>d, <2>6
<1>9. PICK k \in Nat : k = (r - h) \div n /\ n * k <= r - h /\ r - h < n * k + n
  <2>1. r - h \in Nat
    BY <1>8
  <2>2. QED
    BY <2>1, Division
<1>10. Edges(f) = k + 1
  BY <1>d, <1>4, <1>5, <1>6, <1>7, <1>9 DEF Edges
<1>11. d <= Top + 1
  BY <1>4, <1>d DEF Top
<1>12. Pulses(f, q, d, n, r, h, k)
  <2>1. Prescaler(f) = d - 1 /\ Reload(f, Prescaler(f)) = n - 1
    BY <1>4, <1>5, <1>d, Zenon
  <2>2. d = 1 \/ (Top + 2) * (d - 1) <= q
    <3>1. p = 0 => d = 1
      BY <1>d
    <3>2. QED
      BY <1>4, <1>d, <3>1, Zenon
  <2>3. QED
    BY <1>3, <1>4, <1>n, <1>6, <1>7, <1>9, <1>10, <1>11, <2>1, <2>2, Zenon DEF Pulses
<1>13. QED
  BY <1>d, <1>12, Zenon

LEMMA Faster ==
  ASSUME NEW T \in Nat, NEW f \in Nat \ {0}, NEW g \in Nat, NEW q \in Nat, NEW p \in Nat,
         f <= g, 2 * g * p <= T, T < 2 * f * q + 2 * f
  PROVE  p <= q
<1>1. f * p <= g * p
  OBVIOUS
<1>2. f * p < f * (q + 1)
  BY <1>1
<1>3. QED
  BY <1>2

LEMMA HalfAtLeast ==
  ASSUME NEW t \in Nat, NEW d \in Nat \ {0}, NEW n \in Nat, NEW q \in Nat,
         d # 1, t * (d - 1) <= q, q < d * n + d
  PROVE  t < 2 * (n + 1)
<1>1. t * (d - 1) < (n + 1) * d
  OBVIOUS
<1>2. (n + 1) * d <= (n + 1) * (2 * (d - 1))
  OBVIOUS
<1>3. t * (d - 1) < (2 * (n + 1)) * (d - 1)
  BY <1>1, <1>2
<1>4. QED
  BY <1>3

(* The reload register never counts fewer than FewestCounts.                 *)
LEMMA CountsEnough ==
  ASSUME NEW f \in Pulsed, NEW q \in Nat, NEW d \in Nat \ {0}, NEW n \in Nat \ {0},
         q = TimClk \div (2 * f), q < d * n + d, d = 1 \/ (Top + 2) * (d - 1) <= q
  PROVE  FewestCounts \in Nat /\ FewestCounts <= n
<1>1. /\ f \in Nat \ {0} /\ TimClk \in Nat /\ FastFreq \in Nat \ {0} /\ f <= FastFreq
  BY PulseAssumption DEF Pulsed
<1>2. PICK fast \in Nat : fast = TimClk \div (2 * FastFreq) /\ 2 * FastFreq * fast <= TimClk
  <2>1. 2 * FastFreq \in Nat \ {0}
    BY <1>1
  <2>2. QED
    BY <1>1, <2>1, Division
<1>3. FewestCounts \in Nat /\ FewestCounts <= fast /\ 2 * FewestCounts <= Top
  BY <1>2 DEF FewestCounts, Top
<1>4. fast <= q
  <2>1. TimClk < 2 * f * q + 2 * f
    <3>1. 2 * f \in Nat \ {0}
      BY <1>1
    <3>2. QED
      BY <1>1, <3>1, Division
  <2>2. QED
    BY <1>1, <1>2, <2>1, Faster, Zenon
<1>5. CASE d = 1
  BY <1>3, <1>4, <1>5
<1>6. CASE d # 1
  <2>1. Top + 2 \in Nat
    BY DEF Top
  <2>2. Top + 2 < 2 * (n + 1)
    BY <1>6, <2>1, HalfAtLeast, Zenon
  <2>3. QED
    BY <1>3, <2>2 DEF Top
<1>7. QED
  BY <1>5, <1>6

(* An excess of edges bounded for n counts of the register is for fewer.     *)
LEMMA FewerCounts ==
  ASSUME NEW n \in Nat, NEW c \in Nat, NEW x \in Int, NEW e \in Nat, NEW b \in Nat,
         c <= n, 2 * n * x <= n * e + b
  PROVE  2 * c * x <= c * e + b
<1>1. CASE 2 * x <= e
  <2>1. c * (2 * x) <= c * e
    BY <1>1
  <2>2. QED
    BY <2>1
<1>2. CASE 2 * x > e
  <2>1. c * (2 * x - e) <= n * (2 * x - e)
    BY <1>2
  <2>2. QED
    BY <2>1
<1>3. QED
  BY <1>1, <1>2

(* The edges of a period, and what the register counts to: to half an edge,  *)
(* and, for too many, one in the counts of the register.                     *)
LEMMA EdgesClose ==
  ASSUME NEW f \in Pulsed, NEW q \in Nat, NEW d \in Nat \ {0}, NEW n \in Nat \ {0},
         NEW r \in Nat, NEW h \in Nat, NEW k \in Nat, Pulses(f, q, d, n, r, h, k)
  PROVE  /\ 2 * (f - EdgeFreq * (k + 1)) < EdgeFreq
         /\ 2 * n * (EdgeFreq * (k + 1) - f) <= n * EdgeFreq + 2 * (f + EdgeFreq)
<1>1. /\ f \in Nat \ {0} /\ TimClk \in Nat /\ PeriodClocks \in Nat \ {0}
      /\ EdgeFreq \in Nat \ {0} /\ TimClk = 2 * PeriodClocks * EdgeFreq
  BY PulseTypes
<1>2. f * q <= PeriodClocks * EdgeFreq /\ PeriodClocks * EdgeFreq < f * q + f
  BY <1>1 DEF Pulses
<1>3. EdgeFreq \in Nat /\ EdgeFreq # 0 /\ k \in Int
  BY <1>1
<1>4. /\ d * n <= q /\ q < d * n + d
      /\ d * r <= PeriodClocks - 1 /\ PeriodClocks - 1 < d * r + d
      /\ 2 * h <= n - 1 /\ n - 1 < 2 * h + 2
      /\ n * k <= r - h /\ r - h < n * k + n
  BY Zenon DEF Pulses
<1>5. QED
  BY <1>1, <1>2, <1>3, <1>4, EdgeCount, Zenon

InPulsed == freq \in Pulsed

LEMMA PulseNextPreserves == InPulsed /\ [PulseNext]_freq => InPulsed'
BY PulseAssumption DEF InPulsed, PulseNext, Pulsed

(* For every clock, period and frequency that fit the registers, a period    *)
(* makes the edges its frequency stands for, although every write restarts   *)
(* the counter and every division rounds down.                               *)
THEOREM PulsesMatchFrequency == PulseSpec => []EdgesMatchFrequency
<1>1. ASSUME NEW f \in Pulsed, f = freq
      PROVE  EdgesMatchFrequency
  <2>1. PICK q \in Nat, d \in Nat \ {0}, n \in Nat \ {0}, r \in Nat, h \in Nat, k \in Nat :
          Pulses(f, q, d, n, r, h, k)
    BY <1>1, PulsesExist
  <2>2. f \in Nat \ {0} /\ EdgeFreq \in Nat \ {0}
    BY PulseTypes
  <2>3. /\ 2 * (f - EdgeFreq * (k + 1)) < EdgeFreq
        /\ 2 * n * (EdgeFreq * (k + 1) - f) <= n * EdgeFreq + 2 * (f + EdgeFreq)
    BY <2>1, EdgesClose, Zenon
  <2>4. FewestCounts \in Nat /\ FewestCounts <= n
    BY <2>1, CountsEnough, Zenon DEF Pulses
  <2>5. 2 * FewestCounts * (EdgeFreq * (k + 1) - f)
          <= FewestCounts * EdgeFreq + 2 * (f + EdgeFreq)
    <3>1. /\ EdgeFreq * (k + 1) - f \in Int /\ EdgeFreq \in Nat
          /\ 2 * (f + EdgeFreq) \in Nat /\ n \in Nat
      BY <2>2
    <3>2. QED
      BY <2>3, <2>4, <3>1, FewerCounts, Zenon
  <2>6. Edges(f) > 0
    BY <2>1 DEF Pulses
  <2>7. Prescaler(f) \in 0..Top
    BY PrescalerFits
  <2>8. Reload(f, Prescaler(f)) + 1 = n /\ n <= Top + 1 /\ Edges(f) = k + 1
    BY <2>1 DEF Pulses
  <2>9. QED
    BY <1>1, <2>3, <2>4, <2>5, <2>6, <2>7, <2>8, Zenon DEF EdgesMatchFrequency
<1>2. InPulsed => EdgesMatchFrequency
  BY <1>1 DEF InPulsed
<1>3. PulseInit => InPulsed
  BY DEF PulseInit, InPulsed
<1>4. QED
  BY <1>2, <1>3, PulseNextPreserves, PTL DEF PulseSpec

(* Edges that fit a period still fit it when half step and half a half step  *)
(* are no longer.                                                            *)
LEMMA MoreEdges ==
  ASSUME NEW C \in Nat, NEW d \in Nat \ {0}, NEW n \in Nat, NEW r \in Nat, NEW h \in Nat,
         NEW k \in Nat, NEW d2 \in Nat \ {0}, NEW n2 \in Nat \ {0}, NEW r2 \in Nat,
         NEW h2 \in Nat, NEW k2 \in Nat,
         n * k <= r - h, d * r <= C, C < d2 * r2 + d2, r2 - h2 < n2 * k2 + n2,
         d2 * n2 <= d * n, d2 * h2 <= d * h
  PROVE  k <= k2
<1>1. d * (h + n * k) <= C
  <2>1. d * (h + n * k) <= d * r
    OBVIOUS
  <2>2. QED
    BY <2>1
<1>2. d2 * (h2 + n2 * k) <= C
  <2>1. (d2 * n2) * k <= (d * n) * k
    OBVIOUS
  <2>2. QED
    BY <1>1, <2>1
<1>3. h2 + n2 * k <= r2
  <2>1. d2 * (h2 + n2 * k) < d2 * (r2 + 1)
    BY <1>2
  <2>2. h2 + n2 * k \in Nat
    OBVIOUS
  <2>3. QED
    BY <2>1, <2>2
<1>4. n2 * k < n2 * (k2 + 1)
  BY <1>3
<1>5. QED
  BY <1>4

(* Under the same prescaler.                                                 *)
LEMMA SameScale ==
  ASSUME NEW q \in Nat, NEW q2 \in Nat, NEW d \in Nat \ {0}, NEW n \in Nat, NEW n2 \in Nat,
         NEW h \in Nat, NEW h2 \in Nat, q2 <= q, d * n2 <= q2, q < d * n + d,
         n - 1 < 2 * h + 2, 2 * h2 <= n2 - 1
  PROVE  d * n2 <= d * n /\ d * h2 <= d * h
<1>1. d * n2 < d * (n + 1)
  OBVIOUS
<1>2. n2 <= n
  BY <1>1
<1>3. h2 <= h
  BY <1>2
<1>4. QED
  BY <1>2, <1>3

(* Under a finer one, when the step is shorter by enough.                    *)
LEMMA FinerScale ==
  ASSUME NEW q \in Nat, NEW q2 \in Nat, NEW d \in Nat \ {0}, NEW d2 \in Nat \ {0},
         NEW n \in Nat, NEW n2 \in Nat \ {0}, NEW h \in Nat, NEW h2 \in Nat,
         q2 + 3 * d <= q, d2 * n2 <= q2, q < d * n + d,
         n - 1 < 2 * h + 2, 2 * h2 <= n2 - 1
  PROVE  d2 * n2 <= d * n /\ d2 * h2 <= d * h
<1>1. 2 * (d * h) >= d * n - 2 * d
  <2>1. d * (2 * h) >= d * (n - 2)
    OBVIOUS
  <2>2. QED
    BY <2>1
<1>2. 2 * (d2 * h2) <= d2 * n2
  <2>1. d2 * (2 * h2) <= d2 * n2
    OBVIOUS
  <2>2. QED
    BY <2>1
<1>3. QED
  BY <1>1, <1>2

(* One hertz saves more clocks than the coarser prescaler may have lost.     *)
LEMMA OneHertzSaves ==
  ASSUME NEW T \in Nat, NEW f \in Nat \ {0}, NEW q \in Nat, NEW q2 \in Nat,
         NEW d \in Nat \ {0, 1}, NEW t \in Nat,
         T < 2 * f * q + 2 * f, 2 * (f + 1) * q2 <= T,
         t * (d - 1) <= q, 7 * (f + 1) <= t
  PROVE  q2 + 3 * d <= q
<1>1. (f + 1) * (q - q2) > q - f
  OBVIOUS
<1>2. 7 * (f + 1) * (d - 1) <= q
  <2>1. (7 * (f + 1)) * (d - 1) <= t * (d - 1)
    OBVIOUS
  <2>2. QED
    BY <2>1
<1>3. SUFFICES ASSUME q - q2 <= 3 * d - 1 PROVE FALSE
  OBVIOUS
<1>4. (f + 1) * (q - q2) <= (f + 1) * (3 * d - 1)
  BY <1>3
<1>5. (f + 1) * (7 * (d - 1)) < (f + 1) * (3 * d)
  BY <1>1, <1>2, <1>4
<1>6. 7 * (d - 1) < 3 * d
  BY <1>5
<1>7. QED
  BY <1>6

LEMMA PrescaledIsSlow ==
  ASSUME NEW f \in Nat \ {0}, NEW q \in Nat, 2 * f * q <= TimClk, Top + 2 <= q, TimClk \in Nat
  PROVE  7 * (f + 1) <= Top + 2
<1>1. 2 * f * (Top + 2) <= TimClk
  <2>1. (2 * f) * (Top + 2) <= (2 * f) * q
    BY DEF Top
  <2>2. QED
    BY <2>1 DEF Top
<1>2. TimClk \div Top <= 16383
  BY ClockAssumption DEF Top
<1>3. TimClk < Top * 16384
  BY <1>2 DEF Top
<1>4. QED
  BY <1>1, <1>3 DEF Top

LEMMA HigherMakesMore ==
  ASSUME NEW f \in Pulsed, f + 1 \in Pulsed
  PROVE  Edges(f) <= Edges(f + 1)
<1>1. PICK q \in Nat, d \in Nat \ {0}, n \in Nat \ {0}, r \in Nat, h \in Nat, k \in Nat :
        Pulses(f, q, d, n, r, h, k)
  BY PulsesExist
<1>2. PICK q2 \in Nat, d2 \in Nat \ {0}, n2 \in Nat \ {0}, r2 \in Nat, h2 \in Nat, k2 \in Nat :
        Pulses(f + 1, q2, d2, n2, r2, h2, k2)
  BY PulsesExist
<1>3. /\ f \in Nat \ {0} /\ f + 1 \in Nat /\ f <= f + 1 /\ TimClk \in Nat
      /\ PeriodClocks - 1 \in Nat /\ Top + 2 \in Nat
  BY PulseTypes DEF Top
<1>4. /\ 2 * f * q <= TimClk /\ TimClk < 2 * f * q + 2 * f /\ 2 * (f + 1) * q2 <= TimClk
      /\ d = 1 \/ (Top + 2) * (d - 1) <= q
      /\ d2 = 1 \/ (Top + 2) * (d2 - 1) <= q2
      /\ n <= Top + 1 /\ q < d * n + d /\ d2 * n2 <= q2
      /\ n - 1 < 2 * h + 2 /\ 2 * h2 <= n2 - 1
      /\ n * k <= r - h /\ d * r <= PeriodClocks - 1
      /\ PeriodClocks - 1 < d2 * r2 + d2 /\ r2 - h2 < n2 * k2 + n2
  BY <1>1, <1>2, Zenon DEF Pulses
<1>5. q2 <= q
  BY <1>3, <1>4, Faster, Zenon
<1>6. d2 * n2 <= d * n /\ d2 * h2 <= d * h
  <2>1. CASE d2 = d
    <3>1. n \in Nat /\ n2 \in Nat /\ d * n2 <= q2
      BY <1>4, <2>1, Zenon
    <3>2. d * n2 <= d * n /\ d * h2 <= d * h
      BY <1>4, <1>5, <3>1, SameScale, Zenon
    <3>3. QED
      BY <2>1, <3>2, Zenon
  <2>2. CASE d2 # d
    <3>1. d # 1
      <4> SUFFICES ASSUME d = 1 PROVE FALSE
        OBVIOUS
      <4>1. q < Top + 2
        BY <1>4 DEF Top
      <4>2. (Top + 2) * (d2 - 1) <= q2 /\ d2 >= 2
        BY <1>4, <2>2
      <4>3. QED
        BY <1>5, <4>1, <4>2 DEF Top
    <3>2. d \in Nat \ {0, 1} /\ (Top + 2) * (d - 1) <= q
      BY <1>4, <3>1
    <3>3. Top + 2 <= q
      BY <3>2 DEF Top
    <3>4. 7 * (f + 1) <= Top + 2
      BY <1>3, <1>4, <3>3, PrescaledIsSlow, Zenon
    <3>5. q2 + 3 * d <= q
      BY <1>3, <1>4, <3>2, <3>4, OneHertzSaves, Zenon
    <3>6. /\ d2 * n2 <= q2 /\ q < d * n + d
          /\ n - 1 < 2 * h + 2 /\ 2 * h2 <= n2 - 1 /\ n \in Nat
      BY <1>4
    <3>7. QED
      BY <3>5, <3>6, FinerScale, Zenon
  <2>3. QED
    BY <2>1, <2>2
<1>7. k <= k2
  <2>1. n \in Nat
    OBVIOUS
  <2>2. QED
    BY <1>3, <1>4, <1>6, <2>1, MoreEdges, Zenon
<1>8. QED
  BY <1>1, <1>2, <1>7 DEF Pulses

(* The ramp accelerates the motor at every step, also where the prescaler    *)
(* changes: a higher frequency never makes fewer edges in a period.          *)
THEOREM HigherIsFaster == PulseSpec => FasterIsFaster
<1>1. PulseInit => InPulsed
  BY DEF PulseInit, InPulsed
<1>2. InPulsed /\ [PulseNext]_freq => [Edges(freq') >= Edges(freq)]_freq
  <2> SUFFICES ASSUME InPulsed, PulseNext PROVE Edges(freq') >= Edges(freq)
    OBVIOUS
  <2>1. freq \in Pulsed /\ freq' = freq + 1 /\ freq + 1 \in Pulsed
    BY PulseAssumption DEF InPulsed, PulseNext, Pulsed
  <2>2. Edges(freq) <= Edges(freq + 1)
    BY <2>1, HigherMakesMore
  <2>3. Edges(freq) \in Int /\ Edges(freq + 1) \in Int
    <3>1. \A f \in Pulsed : Edges(f) \in Int
      <4> SUFFICES ASSUME NEW f \in Pulsed PROVE Edges(f) \in Int
        OBVIOUS
      <4>1. PICK q \in Nat, d \in Nat \ {0}, n \in Nat \ {0}, r \in Nat, h \in Nat, k \in Nat :
              Pulses(f, q, d, n, r, h, k)
        BY PulsesExist
      <4>2. QED
        BY <4>1 DEF Pulses
    <3>2. QED
      BY <2>1, <3>1
  <2>4. \A a, b \in Int : a <= b => b >= a
    OBVIOUS
  <2>5. QED
    BY <2>1, <2>2, <2>3, <2>4
<1>3. QED
  BY <1>1, <1>2, PulseNextPreserves, PTL DEF PulseSpec, FasterIsFaster

--------------------------------------------------------------------------------
\* The loop closed around the motor: arrival.

(* A step of f Hz turns the motor by no more than three and a half times     *)
(* what f stands for (much less above the lowest frequencies), its way.      *)
LEMMA TurnedRange ==
  ASSUME NEW f \in Pulsed
  PROVE  /\ Turned(f) \in Nat /\ 2 * Turned(f) <= 7 * f
         /\ Turned(-f) = -Turned(f) /\ f \in Nat \ {0}
<1>1. PICK q \in Nat, d \in Nat \ {0}, n \in Nat \ {0}, r \in Nat, h \in Nat, k \in Nat :
        Pulses(f, q, d, n, r, h, k)
  BY PulsesExist
<1>2. f \in Nat \ {0} /\ EdgeFreq \in Nat \ {0} /\ EdgeFreq <= f
  BY PulseTypes
<1>3. 2 * n * (EdgeFreq * (k + 1) - f) <= n * EdgeFreq + 2 * (f + EdgeFreq)
  BY <1>1, EdgesClose, Zenon
<1>4. PICK made \in Nat : made = EdgeFreq * (k + 1)
  BY <1>2
<1>5. 2 * 1 * (made - f) <= 1 * EdgeFreq + 2 * (f + EdgeFreq)
  <2>1. /\ made - f \in Int /\ EdgeFreq \in Nat /\ 2 * (f + EdgeFreq) \in Nat
        /\ n \in Nat /\ 1 \in Nat /\ 1 <= n
    BY <1>2
  <2>2. 2 * n * (made - f) <= n * EdgeFreq + 2 * (f + EdgeFreq)
    BY <1>3, <1>4
  <2>3. QED
    BY <2>1, <2>2, FewerCounts, Zenon
<1>6. Edges(f) = k + 1 /\ -(-f) = f
  BY <1>1, <1>2 DEF Pulses
<1>7. Turned(f) = made
  BY <1>2, <1>4, <1>6 DEF Turned
<1>8. Turned(-f) = -made
  <2>1. Turned(-f) = EdgeFreq * (-(k + 1))
    BY <1>2, <1>6 DEF Turned
  <2>2. QED
    BY <1>2, <1>4, <2>1
<1>9. QED
  BY <1>2, <1>5, <1>7, <1>8

(* The frequency written for an output is 0 or one the timer can make, in    *)
(* the direction of the output, and no more than it or the minimum.          *)
LEMMA CommandRange ==
  ASSUME NEW out \in Int, Abs(out) <= Unit * FastFreq
  PROVE  \/ Command(out) = 0
         \/ \E f \in Pulsed : /\ Command(out) = Sgn(out) * f
                              /\ Unit * f <= Larger(Unit * SlowFreq, Abs(out))
<1>1. Unit \in Nat \ {0} /\ SlowFreq \in Nat \ {0} /\ FastFreq \in Nat /\ SlowFreq <= FastFreq
  BY LawAssumption, PulseAssumption, ServoAssumption
<1>2. Abs(out) \in Nat
  BY DEF Abs
<1>3. PICK f \in Nat : f = Abs(out) \div Unit /\ Unit * f <= Abs(out)
  BY <1>1, <1>2, Division
<1>4. f <= FastFreq
  <2>1. PICK x \in Nat : x = Abs(out)
    BY <1>2
  <2>2. Unit * f <= Unit * FastFreq
    BY <1>1, <1>3, <2>1
  <2>3. QED
    BY <1>1, <2>2
<1>5. Larger(f, SlowFreq) \in Pulsed
  BY <1>1, <1>4 DEF Larger, Pulsed
<1>6. Unit * Larger(f, SlowFreq) <= Larger(Unit * SlowFreq, Abs(out))
  <2>1. PICK x \in Nat, y \in Nat, z \in Nat : x = Abs(out) /\ y = Unit * SlowFreq /\ z = Unit * f
    BY <1>1, <1>2
  <2>2. Unit * Larger(f, SlowFreq) = y \/ Unit * Larger(f, SlowFreq) = z
    BY <2>1 DEF Larger
  <2>3. QED
    BY <1>3, <2>1, <2>2 DEF Larger
<1>7. CASE f = 0
  BY <1>3, <1>7 DEF Command, Sgn
<1>8. CASE f # 0
  <2>1. Command(out) = Sgn(out) * Larger(f, SlowFreq)
    BY <1>3, <1>8 DEF Command
  <2>2. QED
    BY <1>5, <1>6, <2>1
<1>9. QED
  BY <1>7, <1>8

LEMMA CommandTurns ==
  ASSUME NEW out \in Int, Abs(out) <= Unit * FastFreq
  PROVE  Command(out) \in Int /\ Turned(Command(out)) \in Int
<1>1. Turned(0) = 0
  BY DEF Turned
<1>2. ASSUME NEW f \in Pulsed, Command(out) = Sgn(out) * f
      PROVE  Command(out) \in Int /\ Turned(Command(out)) \in Int
  <2>1. f \in Nat \ {0} /\ Turned(f) \in Nat /\ Turned(-f) = -Turned(f)
    BY TurnedRange
  <2>2. Command(out) = f \/ Command(out) = -f \/ Command(out) = 0
    BY <1>2, <2>1 DEF Sgn
  <2>3. QED
    BY <1>1, <2>1, <2>2
<1>3. QED
  BY <1>1, <1>2, CommandRange

(* One period of the approach does not carry a shaft that is within the      *)
(* threshold out of it, on either side.                                      *)
NearSpeed(e) == Smaller(NearMax, Larger(NearMin, PerCount * e))

LEMMA NearSpeedType ==
  ASSUME NEW e \in Nat
  PROVE  NearSpeed(e) \in Nat /\ NearSpeed(e) <= NearMax
<1>1. PICK x \in Nat : x = PerCount * e
  BY LawAssumption
<1>2. NearSpeed(e) = Smaller(NearMax, Larger(NearMin, x))
  BY <1>1 DEF NearSpeed
<1>3. QED
  BY <1>2, LawAssumption DEF Smaller, Larger

LEMMA NearFreqIs ==
  ASSUME NEW k \in Loops
  PROVE  /\ NearFreq(k) = Sgn(k.target - k.pos) * NearSpeed(Abs(k.target - k.pos))
         /\ NearFreq(k) \in Int /\ Abs(NearFreq(k)) <= NearMax
<1>1. NearFreq(k) = Sgn(k.target - k.pos) * NearSpeed(Abs(k.target - k.pos))
  BY DEF NearFreq, NearSpeed
<1>2. Abs(k.target - k.pos) \in Nat
  BY DEF Loops, Abs
<1>3. PICK n \in Nat : n = NearSpeed(Abs(k.target - k.pos)) /\ n <= NearMax
  BY <1>2, NearSpeedType
<1>4. NearFreq(k) \in {n, -n, 0}
  BY <1>1, <1>3 DEF Sgn, Loops
<1>5. QED
  BY <1>1, <1>3, <1>4, LawAssumption DEF Abs

LEMMA NearTurns ==
  ASSUME NEW e \in 1..Threshold - 1, NEW f \in Pulsed,
         Unit * f <= Larger(Unit * SlowFreq, NearSpeed(e))
  PROVE  Turned(f) <= Fine * (e + Threshold - 1)
<1>1. Turned(f) \in Nat /\ 2 * Turned(f) <= 7 * f /\ f \in Nat
  BY TurnedRange
<1>2. 7 * Larger(Unit * SlowFreq, NearSpeed(e)) <= 2 * Unit * Fine * (e + Threshold - 1)
  BY ServoAssumption DEF NearSpeed
<1>3. Unit \in Nat \ {0} /\ SlowFreq \in Nat /\ Fine \in Nat /\ e \in Nat /\ Threshold \in Nat
  BY LawAssumption, PulseAssumption, ServoAssumption
<1>4. NearSpeed(e) \in Nat
  BY <1>3, NearSpeedType
<1>5. PICK x \in Nat : x = Larger(Unit * SlowFreq, NearSpeed(e))
  BY <1>3, <1>4 DEF Larger
<1>6. PICK b \in Int : b = Fine * (e + Threshold - 1)
  BY <1>3
<1>7. 2 * Unit * Fine * (e + Threshold - 1) = 2 * Unit * b
  BY <1>3, <1>6
<1>8. 7 * (Unit * f) <= 2 * Unit * b
  <2>1. PICK u \in Nat : u = Unit * f
    BY <1>1, <1>3
  <2>2. u <= x
    BY <1>5, <2>1
  <2>3. 7 * x <= 2 * Unit * b
    BY <1>2, <1>5, <1>7
  <2>4. PICK y \in Int : y = 2 * Unit * b
    BY <1>3
  <2>5. QED
    BY <2>1, <2>2, <2>3, <2>4
<1>9. Unit * (2 * Turned(f)) <= Unit * (2 * b)
  <2>1. Unit * (2 * Turned(f)) <= Unit * (7 * f)
    BY <1>1, <1>3
  <2>2. QED
    BY <1>1, <1>3, <1>8, <2>1
<1>10. QED
  BY <1>1, <1>3, <1>6, <1>9

(* Where a shaft is after it has turned by m counts' worth or less.          *)
LEMMA ShaftMoves ==
  ASSUME NEW c \in Nat \ {0}, NEW s \in Int, NEW m \in Nat, NEW b \in Nat, m <= c * b
  PROVE  /\ (s + m) \div c \in Int /\ s \div c <= (s + m) \div c
         /\ (s + m) \div c <= s \div c + b
         /\ (s - m) \div c \in Int /\ s \div c - b <= (s - m) \div c
         /\ (s - m) \div c <= s \div c
OBVIOUS

LEMMA NearMove ==
  ASSUME NEW k \in Loops, Abs(k.target - k.pos) < Threshold,
         NEW s \in Int, s \div Fine = k.pos
  PROVE  Abs(k.target - (s + Turned(Command(NearFreq(k)))) \div Fine) < Threshold
<1> DEFINE e == Abs(k.target - k.pos)
           g == Command(NearFreq(k))
<1>1. k.target \in Int /\ k.pos \in Int
  BY DEF Loops
<1>2. e \in Nat /\ Threshold \in Nat /\ Fine \in Nat \ {0} /\ FastFreq \in Nat /\ Unit \in Nat
  BY <1>1, ServoAssumption, PulseAssumption, LawAssumption DEF Abs
<1>3. /\ NearFreq(k) \in Int /\ Abs(NearFreq(k)) <= NearMax
      /\ NearFreq(k) = Sgn(k.target - k.pos) * NearSpeed(e)
  BY NearFreqIs
<1>4. Abs(NearFreq(k)) <= Unit * FastFreq
  <2>1. PICK x \in Nat, y \in Nat : x = Abs(NearFreq(k)) /\ y = Unit * FastFreq
    BY <1>2, <1>3 DEF Abs
  <2>2. QED
    BY <1>3, <2>1, ServoAssumption, LawAssumption
<1>5. CASE g = 0
  <2>1. s + Turned(g) = s
    BY <1>5 DEF Turned
  <2>2. QED
    BY <2>1
<1>6. ASSUME NEW f \in Pulsed, g = Sgn(NearFreq(k)) * f, g # 0,
             Unit * f <= Larger(Unit * SlowFreq, Abs(NearFreq(k)))
      PROVE  Abs(k.target - (s + Turned(g)) \div Fine) < Threshold
  <2>1. PICK n \in Nat : n = NearSpeed(e) /\ n <= NearMax
    BY <1>2, NearSpeedType
  <2>2. Sgn(k.target - k.pos) \in {-1, 1}
    <3>1. Sgn(k.target - k.pos) = 0 => NearFreq(k) = 0
      BY <1>3, <2>1
    <3>2. Sgn(0) * f = 0
      BY TurnedRange DEF Sgn
    <3>3. QED
      BY <1>1, <1>6, <3>1, <3>2 DEF Sgn
  <2>3. e \in 1..Threshold - 1
    BY <1>1, <1>2, <2>2 DEF Sgn, Abs
  <2>4. Abs(NearFreq(k)) = n /\ (NearFreq(k) = n \/ NearFreq(k) = -n)
    BY <1>3, <2>1, <2>2 DEF Abs
  <2>5. Turned(f) \in Nat /\ Turned(f) <= Fine * (e + Threshold - 1)
    BY <1>6, <2>1, <2>3, <2>4, NearTurns, TurnedRange
  <2>6. f \in Nat \ {0} /\ Turned(-f) = -Turned(f)
    BY TurnedRange
  <2>7. n # 0
    BY <1>6, <2>4, <2>6 DEF Sgn
  <2>8. IF k.target > k.pos THEN g = f ELSE g = -f
    <3>1. NearFreq(k) = Sgn(k.target - k.pos) * n
      BY <1>3, <2>1
    <3>2. QED
      BY <1>1, <1>6, <2>2, <2>6, <2>7, <3>1 DEF Sgn
  <2>9. PICK m \in Nat, b \in Nat :
          m = Turned(f) /\ b = e + Threshold - 1 /\ m <= Fine * b
    BY <1>2, <2>3, <2>5
  <2>10. /\ (s + m) \div Fine \in Int /\ s \div Fine <= (s + m) \div Fine
         /\ (s + m) \div Fine <= s \div Fine + b
         /\ (s - m) \div Fine \in Int /\ s \div Fine - b <= (s - m) \div Fine
         /\ (s - m) \div Fine <= s \div Fine
    BY <1>2, <2>9, ShaftMoves, Zenon
  <2>11. CASE k.target > k.pos
    <3>1. s + Turned(g) = s + m /\ e = k.target - k.pos
      BY <1>1, <2>8, <2>9, <2>11 DEF Abs
    <3>2. PICK p \in Int : p = (s + m) \div Fine /\ k.pos <= p /\ p <= k.pos + b
      BY <2>10
    <3>3. Abs(k.target - p) < Threshold
      BY <1>1, <1>2, <2>9, <2>11, <3>1, <3>2 DEF Abs
    <3>4. QED
      BY <3>1, <3>2, <3>3
  <2>12. CASE ~(k.target > k.pos)
    <3>1. s + Turned(g) = s - m /\ e = k.pos - k.target
      BY <1>1, <2>6, <2>8, <2>9, <2>12 DEF Abs
    <3>2. PICK p \in Int : p = (s - m) \div Fine /\ k.pos - b <= p /\ p <= k.pos
      BY <2>10
    <3>3. Abs(k.target - p) < Threshold
      BY <1>1, <1>2, <2>9, <2>12, <3>1, <3>2 DEF Abs
    <3>4. QED
      BY <3>1, <3>2, <3>3
  <2>13. QED
    BY <2>11, <2>12
<1>7. QED
  BY <1>3, <1>4, <1>5, <1>6, CommandRange

--------------------------------------------------------------------------------
\* Arrival: the invariant.

(* The distance to brake in is a natural number of units.                    *)
LEMMA DigitType ==
  ASSUME NEW r \in Nat, NEW b \in Nat, NEW n \in Int
  PROVE  Digit(r, b, n) \in Nat
<1> DEFINE Below == {d \in 1..31 : (r + b * d) * (r + b * d) <= n}
<1>1. IsFiniteSet(1..31)
  <2>1. 1 \in Int /\ 31 \in Int
    OBVIOUS
  <2>2. QED
    BY <2>1, FS_Interval, Zenon
<1>2. IsFiniteSet(Below)
  BY <1>1, FS_Subset, Below \subseteq 1..31
<1>3. Cardinality(Below) \in Nat
  BY <1>2, FS_CardinalityType
<1>4. Digit(r, b, n) = r + b * Cardinality(Below)
  BY DEF Digit
<1> HIDE DEF Below
<1>5. QED
  BY <1>3, <1>4

LEMMA StopLimitType ==
  ASSUME NEW k \in Loops
  PROVE  StopLimit(k) \in Nat
<1>1. PICK n \in Int : n = Decel * Abs(k.target - k.ramp)
  BY ServoAssumption DEF Loops, Abs
<1>2. PICK a \in Nat : a = Digit(0, 1024, n)
  BY DigitType
<1>3. PICK b \in Nat : b = Digit(a, 32, n)
  BY DigitType
<1>4. Root(n) \in Nat
  <2>1. Digit(b, 1, n) \in Nat
    BY DigitType
  <2>2. QED
    BY <1>2, <1>3, <2>1, Zenon DEF Root
<1>5. QED
  BY <1>1, <1>4, LawAssumption DEF StopLimit

(* A period moves neither the target nor the position it has read.           *)
LEMMA RampedKeeps ==
  ASSUME NEW k \in Loops, NEW v \in Nat, Limited(k), Abs(k.i) <= IntegralLimit
  PROVE  /\ Ramped(k, v) \in Loops
         /\ Ramped(k, v).target = k.target /\ Ramped(k, v).pos = k.pos
         /\ Control(k, v).target = k.target /\ Control(k, v).pos = k.pos
<1> DEFINE s == RampStep(k, v)
           r == Ramped(k, v)
<1>1. s \in Loops /\ s.i = k.i
  BY RampStepMeets
<1>2. s.target = k.target /\ s.pos = k.pos
  BY DEF RampStep, Loops
<1>3. r \in Loops /\ r.target = s.target /\ r.pos = s.pos
  BY <1>1, CrossZeroMeets DEF Ramped
<1> HIDE DEF s, r
<1>4. Control(k, v) = [r EXCEPT !.speed = 0] \/ Control(k, v) = PidStep(r, PosErr(r))
  BY DEF Control, r
<1>5. Control(k, v).target = r.target /\ Control(k, v).pos = r.pos
  BY <1>3, <1>4 DEF PidStep, Loops
<1>6. QED
  BY <1>2, <1>3, <1>5 DEF r

LEMMA OutputRange ==
  ASSUME NEW k \in Loops, NEW v \in Nat, Limited(k), Abs(k.i) <= IntegralLimit
  PROVE  /\ Output(k, v) \in Int /\ Abs(Output(k, v)) <= Unit * FastFreq
         /\ IsNear(k) => Output(k, v) = NearFreq(k)
<1> DEFINE r == Ramped(k, v)
<1>1. r \in Loops /\ r.target = k.target /\ r.pos = k.pos
  BY RampedKeeps
<1>2. PICK y \in Nat : y = Unit * FastFreq
  BY LawAssumption, PulseAssumption
<1> HIDE DEF r
<1>3. CASE IsNear(k)
  <2>1. Output(k, v) = NearFreq(r) /\ NearFreq(r) = NearFreq(k)
    BY <1>1, <1>3 DEF Output, NearFreq, r
  <2>2. NearFreq(k) \in Int /\ Abs(NearFreq(k)) <= NearMax
    BY NearFreqIs
  <2>3. NearMax <= y /\ NearMax \in Nat
    BY <1>2, ServoAssumption, LawAssumption
  <2>4. QED
    BY <1>2, <2>1, <2>2, <2>3 DEF Abs
<1>4. CASE ~IsNear(k)
  <2>1. Output(k, v) = FarFreq(r)
    BY <1>4 DEF Output, r
  <2>2. r.i \in Int /\ r.err_last \in Int /\ r.ramp - r.pos \in Int /\ r.speed \in Int
    BY <1>1 DEF Loops
  <2>3. PidOut(r, PosErr(r)) \in Int
    BY <2>2, PidRange DEF PosErr
  <2>4. Bound(PidOut(r, PosErr(r)), CorrLimit) \in Int
    BY <2>3, BoundRange, LawAssumption
  <2>5. FarFreq(r) \in Int /\ Abs(FarFreq(r)) <= SpeedLimit
    BY <2>2, <2>4, BoundRange, LawAssumption DEF FarFreq
  <2>6. SpeedLimit <= y /\ SpeedLimit \in Nat
    BY <1>2, ServoAssumption, LawAssumption
  <2>7. QED
    BY <1>2, <1>4, <2>1, <2>5, <2>6 DEF Abs
<1>5. QED
  BY <1>3, <1>4

(* A loop with a new target, in a form the provers handle.                   *)
WithTarget(k, t, r, s, a) == [k EXCEPT !.ramp = r, !.speed = s, !.accel = a, !.target = t]

LEMMA WithTargetType ==
  ASSUME NEW k \in Loops, NEW t \in Int, NEW r \in Int, NEW s \in Int, NEW a \in Int
  PROVE  /\ WithTarget(k, t, r, s, a) \in Loops /\ WithTarget(k, t, r, s, a).i = k.i
         /\ WithTarget(k, t, r, s, a).speed = s /\ WithTarget(k, t, r, s, a).accel = a
BY DEF Loops, WithTarget

WithReset(k, e, i) == [k EXCEPT !.err_last = e, !.i = i]

LEMMA WithResetType ==
  ASSUME NEW k \in Loops, NEW e \in Int, NEW i \in Int
  PROVE  WithReset(k, e, i) \in Loops /\ WithReset(k, e, i).i = i
BY DEF Loops, WithReset

(* After a period that has found the shaft within the threshold, it still is *)
(* there: what the next period will find.                                    *)
StaysInReach ==
  age > 0 /\ IsArrived(loop) => Abs(loop.target - shaft \div Fine) < Threshold

ServoInv ==
  /\ loop \in Loops /\ Limited(loop) /\ Abs(loop.i) <= IntegralLimit
  /\ shaft \in Int /\ hz \in Int /\ moves \in Nat /\ age \in Nat
  /\ StaysInReach

LEMMA ServoInitInv == ServoInit => ServoInv
<1> SUFFICES ASSUME ServoInit PROVE ServoInv
  OBVIOUS
<1>1. shaft \in Int /\ shaft \div Fine \in Int
  BY ServoAssumption DEF ServoInit
<1>2. loop \in Loops /\ loop.speed = 0 /\ loop.accel = 0 /\ loop.i = 0
  BY <1>1 DEF ServoInit, Loops
<1>3. QED
  BY <1>1, <1>2, LawAssumption, PidAssumption
     DEF ServoInit, ServoInv, StaysInReach, Limited, Abs

(* One period: the invariant again, and what becomes of an arrived loop and  *)
(* of a motor at rest.                                                       *)
LEMMA ServoPeriodMeets ==
  ASSUME ServoInv, ServoPeriod(0)
  PROVE  /\ ServoInv'
         /\ loop'.target = loop.target /\ loop'.pos = shaft \div Fine
         /\ Settled => Settled'
<1> DEFINE k == [loop EXCEPT !.pos = shaft \div Fine + 0]
           v == StopLimit(k)
           f == Command(Output(k, v))
<1>1. Fine \in Nat \ {0} /\ shaft \in Int /\ shaft \div Fine \in Int
  BY ServoAssumption DEF ServoInv
<1>2. /\ k \in Loops /\ k.pos = shaft \div Fine /\ k.target = loop.target
      /\ k.i = loop.i /\ k.speed = loop.speed /\ k.accel = loop.accel
  BY <1>1 DEF ServoInv, Loops
<1>3. v \in Nat
  BY <1>2, StopLimitType
<1>4. /\ loop' = Control(k, v) /\ hz' = f /\ shaft' = shaft + Turned(f)
      /\ age' = IF Settled' THEN 0 ELSE age + 1
      /\ moves' = moves
  BY DEF ServoPeriod
<1> HIDE DEF k, v
<1>5. Limited(k) /\ Abs(k.i) <= IntegralLimit
  BY <1>2 DEF ServoInv, Limited
<1>6. loop' \in Loops /\ Limited(loop') /\ Abs(loop'.i) <= IntegralLimit
  BY <1>2, <1>3, <1>4, <1>5, ControlMeets
<1>7. loop'.target = k.target /\ loop'.pos = k.pos
  BY <1>2, <1>3, <1>4, <1>5, RampedKeeps
<1>8. /\ Output(k, v) \in Int /\ Abs(Output(k, v)) <= Unit * FastFreq
      /\ IsNear(k) => Output(k, v) = NearFreq(k)
  BY <1>2, <1>3, <1>5, OutputRange
<1>9. f \in Int /\ Turned(f) \in Int
  BY <1>8, CommandTurns
<1>10. StaysInReach'
  <2> SUFFICES ASSUME Abs(k.target - k.pos) < Threshold
               PROVE  Abs(k.target - shaft' \div Fine) < Threshold
    BY <1>7 DEF StaysInReach, IsArrived
  <2>1. IsNear(k)
    <3>1. Abs(k.target - k.pos) \in Int
      BY <1>2 DEF Loops, Abs
    <3>2. QED
      BY <3>1, ServoAssumption, LawAssumption DEF IsNear
  <2>2. shaft' = shaft + Turned(Command(NearFreq(k)))
    BY <1>4, <1>8, <2>1
  <2>3. QED
    BY <1>1, <1>2, <2>2, NearMove
<1>11. ASSUME Settled PROVE Settled'
  <2>1. k.target = k.pos /\ k.target \in Int
    BY <1>2, <1>11 DEF Settled, Loops
  <2>2. k.target - k.pos = 0
    BY <2>1
  <2>3. IsNear(k)
    BY <2>2, LawAssumption DEF IsNear, Abs
  <2>4. NearSpeed(Abs(k.target - k.pos)) \in Nat
    BY <2>2, NearSpeedType DEF Abs
  <2>5. NearFreq(k) = 0
    BY <1>2, <2>2, <2>4, NearFreqIs DEF Sgn
  <2>6. f = 0
    <3>1. Abs(0) \div Unit = 0
      BY LawAssumption DEF Abs
    <3>2. QED
      BY <1>8, <2>3, <2>5, <3>1 DEF Command, Sgn
  <2>7. shaft' = shaft
    BY <1>1, <1>4, <2>6 DEF Turned
  <2>8. QED
    BY <1>2, <1>4, <1>7, <1>11, <2>6, <2>7 DEF Settled
<1>12. ServoInv'
  <2>1. age' \in Nat
    BY <1>4 DEF ServoInv
  <2>2. shaft' \in Int /\ hz' \in Int /\ moves' \in Nat
    BY <1>1, <1>4, <1>9 DEF ServoInv
  <2>3. QED
    BY <1>6, <1>10, <2>1, <2>2 DEF ServoInv
<1>13. QED
  BY <1>2, <1>7, <1>11, <1>12

LEMMA RetargetMeets ==
  ASSUME ServoInv, NEW t \in Goals, Retarget(t)
  PROVE  ServoInv' /\ moves' # moves
<1>1. loop' = WithTarget(PidReset(loop), t, loop.pos, 0, 0)
  BY DEF Retarget, WithTarget
<1>2. loop \in Loops /\ loop.pos \in Int /\ t \in Int
  BY ServoAssumption DEF ServoInv, Loops
<1>3. PidReset(loop) \in Loops /\ PidReset(loop).i = 0
  <2>1. PidReset(loop) = WithReset(loop, 0, 0)
    BY DEF PidReset, WithReset
  <2>2. QED
    BY <1>2, <2>1, WithResetType
<1>4. loop' \in Loops /\ loop'.i = 0 /\ loop'.speed = 0 /\ loop'.accel = 0
  BY <1>1, <1>2, <1>3, WithTargetType
<1>5. Limited(loop') /\ Abs(loop'.i) <= IntegralLimit
  BY <1>4, LawAssumption, PidAssumption DEF Limited, Abs
<1>6. /\ shaft' = shaft /\ hz' = hz /\ age' = 0
      /\ moves' = moves + 1 /\ moves \in Nat /\ shaft \in Int /\ hz \in Int
  BY DEF Retarget, ServoInv
<1>7. QED
  BY <1>4, <1>5, <1>6 DEF ServoInv, StaysInReach

LEMMA ServoStepInv ==
  ASSUME Noise = {0}
  PROVE  ServoInv /\ [ServoNext]_servoVars => ServoInv'
<1>1. ASSUME ServoInv, NEW t \in Goals, Retarget(t) PROVE ServoInv'
  BY <1>1, RetargetMeets
<1>2. ASSUME ServoInv, ServoPeriod(0) PROVE ServoInv'
  BY <1>2, ServoPeriodMeets
<1>3. ASSUME ServoInv, UNCHANGED servoVars PROVE ServoInv'
  BY <1>3, Zenon DEF servoVars, ServoInv, StaysInReach, IsArrived, Limited
<1>4. QED
  BY <1>1, <1>2, <1>3 DEF ServoNext

(* While the encoder counts what the shaft turns, a loop that has reported   *)
(* arrival reports it until it is given a new target, and a motor at rest on *)
(* its target stays there: for every gain, clock and geometry whose slowest  *)
(* approach cannot leave the threshold on the other side within a period.    *)
THEOREM ArrivalStays ==
  ASSUME Noise = {0}
  PROVE  ServoSpec => ArrivalIsFinal
<1>1. ServoInv /\ [ServoNext]_servoVars
        => [/\ Reported /\ (age > 0 \/ Settled) => IsArrived(loop')
            /\ Settled /\ moves' = moves => Settled']_servoVars
  <2> SUFFICES ASSUME ServoInv, ServoNext, moves' = moves
               PROVE  /\ IsArrived(loop) /\ (age > 0 \/ Settled) => IsArrived(loop')
                      /\ Settled => Settled'
    BY DEF Reported
  <2>1. ~(\E t \in Goals : Retarget(t))
    BY RetargetMeets
  <2>2. ServoPeriod(0)
    BY <2>1 DEF ServoNext
  <2>3. loop'.target = loop.target /\ loop'.pos = shaft \div Fine /\ (Settled => Settled')
    BY <2>2, ServoPeriodMeets
  <2>4. ASSUME IsArrived(loop), age > 0 PROVE IsArrived(loop')
    BY <2>3, <2>4 DEF ServoInv, StaysInReach, IsArrived
  <2>5. ASSUME IsArrived(loop), Settled PROVE IsArrived(loop')
    <3>1. loop'.target - loop'.pos = 0
      BY <2>3, <2>5 DEF Settled, ServoInv, Loops
    <3>2. Abs(loop.target - loop.pos) \in Nat
      BY DEF ServoInv, Loops, Abs
    <3>3. 0 < Threshold
      BY <2>5, <3>2, ServoAssumption DEF IsArrived
    <3>4. QED
      BY <3>1, <3>3 DEF IsArrived, Abs
  <2>6. QED
    BY <2>3, <2>4, <2>5
<1>2. QED
  BY <1>1, ServoInitInv, ServoStepInv, PTL DEF ServoSpec, ArrivalIsFinal
================================================================================
