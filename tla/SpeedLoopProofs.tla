---------------------------- MODULE SpeedLoopProofs ---------------------------
(***************************************************************************)
(* Theorems about SpeedLoop, for every gain, limit, measurement and target. *)
(* The invariant says which assignments of start, stop and set_target have  *)
(* taken effect when the shell is at each of its labels, although periods   *)
(* fall between them.                                                       *)
(***************************************************************************)
EXTENDS SpeedLoop, MotorOpsProofs

(* Bound returns an integer within the bound, and moves towards x.           *)
LEMMA BoundRange ==
  ASSUME NEW x \in Int, NEW b \in Nat
  PROVE  Bound(x, b) \in Int /\ Abs(Bound(x, b)) <= b
BY DEF Bound, Abs

(* The limited error, and the output, are integers within their limits.      *)
LEMMA PidRange ==
  ASSUME NEW l, l.i \in Int, l.err_last \in Int, NEW x \in Int
  PROVE  /\ PidErr(x) \in Int /\ Abs(PidErr(x)) <= ErrorLimit
         /\ PidOut(l, PidErr(x)) \in Int /\ Abs(PidOut(l, PidErr(x))) <= OutputLimit
<1>1. PidErr(x) \in Int /\ Abs(PidErr(x)) <= ErrorLimit
  BY BoundRange, PidAssumption DEF PidErr
<1>2. PICK pd \in Int : pd = PidPD(l, PidErr(x))
  BY <1>1, PidAssumption DEF PidPD
<1>3. PidOut(l, PidErr(x)) = Bound(pd + l.i, OutputLimit)
  BY <1>2 DEF PidOut
<1>4. QED
  BY <1>1, <1>3, BoundRange, PidAssumption

Loops ==
  [speed : Int, target : -SpeedLimit..SpeedLimit,
   ramp : -OutputLimit..OutputLimit, err_last : -ErrorLimit..ErrorLimit, i : Int]

Stages ==
  /\ pc \in StartLabels \cup StopLabels => ~running
  /\ pc \in SetLabels => running

\* What start and stop have reset.
Resets ==
  /\ ~running /\ pc \notin StopLabels => s.speed = 0
  /\ pc \in StartLabels \ {"start"} => s.err_last = 0
  /\ pc \in StartLabels \ {"start", "start_i"} => s.i = 0
  /\ pc \in {"start_target", "start_motor", "start_run"} => s.ramp = 0
  /\ pc \in {"start_motor", "start_run"} => s.target = 0

Drive ==
  /\ Agree(m)
  /\ ~running /\ pc \notin {"stop_motor", "start_run"} => Still(m)

\* The integral holds at most the errors of the periods within the call.
Small == n < MaxPeriods => Abs(s.i) <= n * (Ki * ErrorLimit)

Renewal ==
  /\ pc = "set_ramp" => Small
  /\ pc = "set_target" /\ Renews(s.target, Limited(arg)) => Small

IInv == TypeOK /\ Stages /\ Resets /\ Drive /\ Renewal

LEMMA Facts ==
  ASSUME TypeOK
  PROVE  /\ s \in Loops /\ m \in Motors /\ pc \in Labels /\ running \in BOOLEAN
         /\ n \in Nat /\ arg \in Int /\ Limited(arg) \in -SpeedLimit..SpeedLimit
<1>1. arg \in Int
  BY SpeedLoopAssumption DEF TypeOK, NoTarget
<1>2. n \in Nat
  BY SpeedLoopAssumption DEF TypeOK
<1>3. Limited(arg) \in -SpeedLimit..SpeedLimit
  BY <1>1, SpeedAssumption DEF Limited, Bound
<1>4. QED
  BY <1>1, <1>2, <1>3 DEF TypeOK, Loops

(* A loop with one field assigned.                                           *)
LEMMA ResetType ==
  ASSUME NEW k \in Loops
  PROVE  /\ LET z == [k EXCEPT !["speed"] = 0]
            IN  /\ z \in Loops /\ z.speed = 0 /\ z.target = k.target /\ z.ramp = k.ramp
                /\ z.err_last = k.err_last /\ z.i = k.i
         /\ LET z == [k EXCEPT !["target"] = 0]
            IN  /\ z \in Loops /\ z.speed = k.speed /\ z.target = 0 /\ z.ramp = k.ramp
                /\ z.err_last = k.err_last /\ z.i = k.i
         /\ LET z == [k EXCEPT !["ramp"] = 0]
            IN  /\ z \in Loops /\ z.speed = k.speed /\ z.target = k.target /\ z.ramp = 0
                /\ z.err_last = k.err_last /\ z.i = k.i
         /\ LET z == [k EXCEPT !["err_last"] = 0]
            IN  /\ z \in Loops /\ z.speed = k.speed /\ z.target = k.target
                /\ z.ramp = k.ramp /\ z.err_last = 0 /\ z.i = k.i
         /\ LET z == [k EXCEPT !["i"] = 0]
            IN  /\ z \in Loops /\ z.speed = k.speed /\ z.target = k.target
                /\ z.ramp = k.ramp /\ z.err_last = k.err_last /\ z.i = 0
<1>1. 0 \in -SpeedLimit..SpeedLimit /\ 0 \in -OutputLimit..OutputLimit
      /\ 0 \in -ErrorLimit..ErrorLimit
  BY SpeedAssumption, PidAssumption
<1>2. LET z == [k EXCEPT !["speed"] = 0]
      IN  /\ z \in Loops /\ z.speed = 0 /\ z.target = k.target /\ z.ramp = k.ramp
          /\ z.err_last = k.err_last /\ z.i = k.i
  BY <1>1 DEF Loops
<1>3. LET z == [k EXCEPT !["target"] = 0]
      IN  /\ z \in Loops /\ z.speed = k.speed /\ z.target = 0 /\ z.ramp = k.ramp
          /\ z.err_last = k.err_last /\ z.i = k.i
  BY <1>1 DEF Loops
<1>4. LET z == [k EXCEPT !["ramp"] = 0]
      IN  /\ z \in Loops /\ z.speed = k.speed /\ z.target = k.target /\ z.ramp = 0
          /\ z.err_last = k.err_last /\ z.i = k.i
  BY <1>1 DEF Loops
<1>5. LET z == [k EXCEPT !["err_last"] = 0]
      IN  /\ z \in Loops /\ z.speed = k.speed /\ z.target = k.target
          /\ z.ramp = k.ramp /\ z.err_last = 0 /\ z.i = k.i
  BY <1>1 DEF Loops
<1>6. LET z == [k EXCEPT !["i"] = 0]
      IN  /\ z \in Loops /\ z.speed = k.speed /\ z.target = k.target
          /\ z.ramp = k.ramp /\ z.err_last = k.err_last /\ z.i = 0
  BY <1>1 DEF Loops
<1>7. QED
  BY <1>2, <1>3, <1>4, <1>5, <1>6

(* The loop after a period.                                                  *)
WithPeriod(k, v, r, e, j) ==
  [k EXCEPT !.i = j, !.err_last = e, !.speed = v, !.ramp = r]

LEMMA WithPeriodType ==
  ASSUME NEW k \in Loops, NEW v \in Int, NEW r \in -OutputLimit..OutputLimit,
         NEW e \in -ErrorLimit..ErrorLimit, NEW j \in Int
  PROVE  LET z == WithPeriod(k, v, r, e, j)
         IN  z \in Loops /\ z.target = k.target /\ z.i = j /\ z.ramp = r
BY DEF Loops, WithPeriod

LEMMA MeasuredType ==
  ASSUME NEW k \in Loops, NEW raw \in Int
  PROVE  Measured(k, raw) \in Int
<1>1. PICK x \in Int : x = k.speed + raw
  BY DEF Loops
<1>2. Quotient(x, 2) \in Int
  BY DEF Quotient
<1>3. QED
  BY <1>1, <1>2 DEF Measured

(* One period adds at most one limited error to the integral: saturation     *)
(* only takes from it.                                                       *)
LEMMA IntegralGrowth ==
  ASSUME NEW l, l.i \in Int, l.err_last \in Int, NEW e \in Int, Abs(e) <= ErrorLimit
  PROVE  /\ PidIntegral(l, e) \in Int
         /\ Abs(PidIntegral(l, e)) <= Abs(l.i) + Ki * ErrorLimit
<1>1. PICK pd \in Int : pd = PidPD(l, e)
  BY PidAssumption DEF PidPD
<1>2. PICK ie \in Int : ie = Ki * e
  BY PidAssumption
<1>3. PICK ke \in Nat : ke = Ki * ErrorLimit
  BY PidAssumption
<1>4. Abs(ie) <= ke
  <2>1. CASE e >= 0
    <3>1. ErrorLimit - e \in Nat
      BY <2>1, PidAssumption DEF Abs
    <3>2. Ki * (ErrorLimit - e) \in Nat /\ Ki * e \in Nat
      BY <2>1, <3>1, PidAssumption
    <3>3. Ki * (ErrorLimit - e) = ke - ie
      BY <1>2, <1>3, PidAssumption
    <3>4. QED
      BY <1>2, <1>3, <3>2, <3>3 DEF Abs
  <2>2. CASE e < 0
    <3>1. ErrorLimit + e \in Nat /\ -e \in Nat
      BY <2>2, PidAssumption DEF Abs
    <3>2. Ki * (ErrorLimit + e) \in Nat /\ Ki * (-e) \in Nat
      BY <3>1, PidAssumption
    <3>3. Ki * (ErrorLimit + e) = ke + ie /\ Ki * (-e) = -ie
      BY <1>2, <1>3, PidAssumption
    <3>4. QED
      BY <1>2, <1>3, <3>2, <3>3 DEF Abs
  <2>3. QED
    BY <2>1, <2>2
<1>5. PidIntegral(l, e) =
        IF Ki = 0 THEN l.i
        ELSE IF pd + l.i > OutputLimit THEN Larger(0, OutputLimit - pd)
        ELSE IF pd + l.i < -OutputLimit THEN Smaller(0, -OutputLimit - pd)
        ELSE Bound(l.i + ie, IntegralLimit)
  BY <1>1, <1>2 DEF PidIntegral
<1>6. QED
  BY <1>1, <1>3, <1>4, <1>5, PidAssumption DEF Larger, Smaller, Bound, Abs

LEMMA InitInv == Init => IInv
<1> SUFFICES ASSUME Init PROVE IInv
  OBVIOUS
<1>1. m \in Motors /\ Still(m)
  BY InitialMotor DEF Init
<1>2. TypeOK
  <2>1. s \in Loops
    BY SpeedAssumption, PidAssumption DEF Init, Loops
  <2>2. QED
    <3>1. running \in BOOLEAN /\ renewed \in BOOLEAN
      BY DEF Init
    <3>2. n = 0 /\ 0 \in 0..MaxPeriods
      BY SpeedLoopAssumption DEF Init
    <3>3. pc \in Labels /\ arg \in Targets \cup {NoTarget}
      BY DEF Init, Labels, StartLabels, StopLabels, SetLabels
    <3>4. QED
      BY <1>1, <2>1, <3>1, <3>2, <3>3 DEF TypeOK, Loops
<1>3. Stages /\ Resets /\ Renewal
  BY DEF Init, Stages, Resets, Renewal, StartLabels, StopLabels, SetLabels
<1>4. Drive
  BY <1>1 DEF Drive, Still, Agree, Motors
<1>5. QED
  BY <1>2, <1>3, <1>4 DEF IInv

(* The motor at the end of a running period.                                 *)
LEMMA DrivenStep ==
  ASSUME NEW f \in Int, m \in Motors, Agree(m)
  PROVE  Driven(f) \in Motors /\ Agree(Driven(f))
<1>1. ASSUME NEW k \in Motors, Agree(k), NEW a \in Nat
      PROVE  SetFrequency(k, a) \in Motors /\ Agree(SetFrequency(k, a))
  <2>1. Clamp(a) \in Nat
    BY <1>1, ClampType, MotorAssumption DEF Frequencies
  <2>2. /\ SetFrequency(k, a) \in Motors
        /\ a = 0 => Still(SetFrequency(k, a))
        /\ a > 0 => DrivenAt(SetFrequency(k, a), Clamp(a))
    BY <1>1, SetFrequencyStep
  <2>3. ASSUME NEW z \in Motors, Still(z) \/ DrivenAt(z, Clamp(a)) PROVE Agree(z)
    BY <2>1, <2>3 DEF Still, DrivenAt, Agree, Motors
  <2>4. QED
    BY <1>1, <2>2, <2>3
<1>2. CASE f = 0
  BY <1>1, <1>2 DEF Driven
<1>3. CASE f # 0
  <2> DEFINE d == IF f > 0 THEN "CW" ELSE "CCW"
             k == SetDirection(m, d)
  <2>1. k \in Motors /\ SameDrive(k, m)
    BY SetDirectionStep
  <2>2. Agree(k)
    BY <2>1 DEF Agree, SameDrive
  <2>3. Driven(f) = SetFrequency(k, Abs(f)) /\ Abs(f) \in Nat
    BY <1>3 DEF Driven, Abs
  <2> HIDE DEF k
  <2>4. QED
    BY <1>1, <2>1, <2>2, <2>3
<1>4. QED
  BY <1>2, <1>3

LEMMA CommandedType ==
  ASSUME NEW r \in Int
  PROVE  Commanded(r, MinFreq) \in Int
<1>1. Unit * SpeedLimit \in Nat
  BY SpeedAssumption
<1>2. PICK f \in Int : f = Bound(r, Unit * SpeedLimit)
  BY <1>1, BoundRange
<1>3. Abs(f) \in Nat
  BY DEF Abs
<1>4. PICK q \in Int : q = Abs(f) \div Unit
  BY <1>3, SpeedAssumption
<1>5. Larger(MinFreq, q) \in Int
  BY MotorAssumption DEF Larger
<1>6. Sgn(f) \in {-1, 0, 1}
  BY DEF Sgn
<1>7. QED
  BY <1>2, <1>4, <1>5, <1>6 DEF Commanded

(* A period keeps types, limits and target, and adds at most one error.      *)
LEMMA RunPeriodStep ==
  ASSUME IInv, RunPeriod
  PROVE  /\ s' \in Loops /\ s'.target = s.target
         /\ Abs(s'.i) <= Abs(s.i) + Ki * ErrorLimit
         /\ Abs(s'.ramp - s.ramp) <= MaxAccel
         /\ m' \in Motors /\ Agree(m')
<1>1. s \in Loops /\ m \in Motors /\ Agree(m)
  BY Facts DEF IInv, Drive
<1>2. PICK raw \in Speeds : s' = Control(s, raw)
  BY DEF RunPeriod
<1>3. raw \in Int
  BY SpeedLoopAssumption
<1>4. PICK v \in Int : v = Measured(s, raw)
  BY <1>1, <1>3, MeasuredType
<1>5. PICK x \in Int : x = Scale * s.target - v
  <2>1. s.target \in Int
    BY <1>1 DEF Loops
  <2>2. QED
    BY <2>1, SpeedAssumption
<1>6. s.i \in Int /\ s.err_last \in Int /\ s.ramp \in -OutputLimit..OutputLimit
  BY <1>1, PidAssumption DEF Loops
<1>7. PICK e \in Int : e = PidErr(x) /\ Abs(e) <= ErrorLimit
  BY <1>6, PidRange
<1>8. SpeedErr(s, raw) = e
  BY <1>4, <1>5, <1>7 DEF SpeedErr
<1>9. PICK out \in Int : out = PidOut(s, e) /\ Abs(out) <= OutputLimit
  BY <1>6, <1>7, PidRange
<1>10. PICK r \in Int : r = Ramp(s, out) /\ Abs(r - s.ramp) <= MaxAccel
  BY <1>6, PidAssumption, SpeedAssumption DEF Ramp, Bound, Abs
<1>11. r \in -OutputLimit..OutputLimit
  BY <1>6, <1>9, <1>10, PidAssumption, SpeedAssumption DEF Ramp, Bound, Abs
<1>12. PICK j \in Int : j = PidIntegral(s, e) /\ Abs(j) <= Abs(s.i) + Ki * ErrorLimit
  BY <1>6, <1>7, IntegralGrowth
<1>13. e \in -ErrorLimit..ErrorLimit
  BY <1>7, PidAssumption DEF Abs
<1>14. s' = WithPeriod(s, v, r, e, j)
  BY <1>2, <1>4, <1>8, <1>9, <1>10, <1>12 DEF Control, PidStep, WithPeriod
<1>15. s' \in Loops /\ s'.target = s.target /\ s'.i = j /\ s'.ramp = r
  <2>1. /\ WithPeriod(s, v, r, e, j) \in Loops /\ WithPeriod(s, v, r, e, j).ramp = r
        /\ WithPeriod(s, v, r, e, j).target = s.target /\ WithPeriod(s, v, r, e, j).i = j
    BY <1>1, <1>11, <1>13, WithPeriodType
  <2>2. QED
    BY <1>14, <2>1
<1>16. m' \in Motors /\ Agree(m')
  <2>1. s'.ramp \in Int
    BY <1>15, PidAssumption DEF Loops
  <2>2. PICK c \in Int : c = Commanded(s'.ramp, MinFreq)
    BY <2>1, CommandedType
  <2>3. m' = Driven(c)
    BY <2>2 DEF RunPeriod
  <2>4. QED
    BY <1>1, <2>3, DrivenStep
<1>17. QED
  BY <1>10, <1>12, <1>15, <1>16

LEMMA PeriodInv ==
  ASSUME IInv, Period
  PROVE  IInv'
<1>1. /\ running' = running /\ pc' = pc /\ arg' = arg /\ renewed' = FALSE
      /\ n' = Smaller(MaxPeriods, n + 1)
  BY DEF Period
<1>2. n' \in 0..MaxPeriods
  BY <1>1, SpeedLoopAssumption DEF IInv, TypeOK, Smaller
<1>3. CASE RestPeriod
  <2>1. /\ s' \in Loops /\ s'.speed = s.speed /\ s'.target = s.target /\ s'.ramp = 0
        /\ s'.err_last = s.err_last /\ s'.i = s.i
    <3>1. s' = [s EXCEPT !["ramp"] = 0] /\ s \in Loops
      BY <1>3, Facts DEF RestPeriod, IInv
    <3>2. QED
      BY <3>1, ResetType
  <2>2. ~running /\ m' = m
    BY <1>3 DEF RestPeriod
  <2>3. TypeOK'
    BY <1>1, <1>2, <2>1, <2>2 DEF IInv, TypeOK, Loops
  <2>4. Stages' /\ Drive'
    BY <1>1, <2>2 DEF IInv, Stages, Drive
  <2>5. Resets'
    BY <1>1, <2>1 DEF IInv, Resets
  <2>6. Renewal'
    BY <1>1, <2>2 DEF IInv, Stages, Renewal, SetLabels
  <2>7. QED
    BY <2>3, <2>4, <2>5, <2>6 DEF IInv
<1>4. CASE RunPeriod
  <2>1. running
    BY <1>4 DEF RunPeriod
  <2>2. pc \notin StartLabels \cup StopLabels
    BY <2>1 DEF IInv, Stages
  <2>3. TypeOK'
    BY <1>1, <1>2, <1>4, RunPeriodStep DEF IInv, TypeOK, Loops
  <2>4. Stages' /\ Drive' /\ Resets'
    BY <1>1, <1>4, <2>1, <2>2, RunPeriodStep DEF IInv, Stages, Drive, Resets, StartLabels
  <2>5. Small => Small'
    <3>1. PICK ke \in Nat : ke = Ki * ErrorLimit
      BY PidAssumption
    <3>2. n \in Nat /\ s.i \in Int /\ s'.i \in Int /\ Abs(s'.i) <= Abs(s.i) + ke
      BY <1>4, <3>1, RunPeriodStep, Facts DEF IInv, Loops
    <3>3. (n + 1) * ke = n * ke + ke
      BY <3>2
    <3>4. SUFFICES ASSUME Small, n' < MaxPeriods PROVE Abs(s'.i) <= n' * ke
      BY <3>1 DEF Small
    <3>5. n' = n + 1 /\ n < MaxPeriods
      BY <1>1, <3>2, <3>4, SpeedLoopAssumption DEF Smaller
    <3>6. Abs(s.i) <= n * ke
      BY <3>1, <3>4, <3>5 DEF Small
    <3>7. PICK p \in Nat : p = n * ke
      BY <3>2
    <3>8. QED
      BY <3>2, <3>3, <3>5, <3>6, <3>7 DEF Abs
  <2>6. Renewal'
    <3>1. s'.target = s.target
      BY <1>4, RunPeriodStep
    <3>2. Renews(s'.target, Limited(arg')) = Renews(s.target, Limited(arg))
      BY <1>1, <3>1
    <3>3. (Renews(s.target, Limited(arg)))' = Renews(s.target, Limited(arg))
      BY <3>2 DEF Renews, Limited
    <3>4. QED
      BY <1>1, <2>5, <3>3 DEF IInv, Renewal
  <2>7. QED
    BY <2>3, <2>4, <2>6 DEF IInv
<1>5. QED
  BY <1>3, <1>4 DEF Period

LEMMA StartingInv ==
  ASSUME IInv, Starting
  PROVE  IInv'
<1> USE Facts, ResetType
<1>1. CASE \/ Assign("start", "err_last", "start_i")
           \/ Assign("start_i", "i", "start_ramp")
           \/ Assign("start_ramp", "ramp", "start_target")
           \/ Assign("start_target", "target", "start_motor")
  <2>1. /\ running' = running /\ m' = m /\ arg' = arg /\ n' = n /\ renewed' = renewed
        /\ pc \in StartLabels \ {"start_motor", "start_run"}
        /\ pc' \in StartLabels \ {"start", "start_run"}
    BY <1>1 DEF Assign, Goto, StartLabels
  <2>2. ~running
    BY <2>1 DEF IInv, Stages
  <2>3. s' \in Loops /\ s'.speed = s.speed
    BY <1>1 DEF IInv, Assign
  <2>4. TypeOK'
    BY <2>1, <2>3 DEF IInv, TypeOK, Loops, Labels, StartLabels, StopLabels, SetLabels
  <2>5. Stages' /\ Drive' /\ Renewal'
    BY <2>1, <2>2 DEF IInv, Stages, Drive, Renewal, StartLabels, StopLabels, SetLabels
  <2>6. Resets'
    <3>1. s.speed = 0 /\ pc' \notin {"start"}
      BY <2>1, <2>2 DEF IInv, Resets, StartLabels, StopLabels
    <3>2. CASE Assign("start", "err_last", "start_i")
      BY <2>3, <3>1, <3>2 DEF IInv, Resets, Assign, Goto, StartLabels
    <3>3. CASE Assign("start_i", "i", "start_ramp")
      BY <2>3, <3>1, <3>3 DEF IInv, Resets, Assign, Goto, StartLabels
    <3>4. CASE Assign("start_ramp", "ramp", "start_target")
      BY <2>3, <3>1, <3>4 DEF IInv, Resets, Assign, Goto, StartLabels
    <3>5. CASE Assign("start_target", "target", "start_motor")
      BY <2>3, <3>1, <3>5 DEF IInv, Resets, Assign, Goto, StartLabels
    <3>6. QED
      BY <1>1, <3>2, <3>3, <3>4, <3>5
  <2>7. QED
    BY <2>4, <2>5, <2>6 DEF IInv
<1>2. CASE Move("start_motor", Start(m), "start_run")
  <2>1. /\ running' = running /\ s' = s /\ arg' = arg /\ n' = n /\ renewed' = renewed
        /\ pc = "start_motor" /\ pc' = "start_run" /\ m' = Start(m)
    BY <1>2 DEF Move, Goto
  <2>2. ~running /\ Still(m)
    BY <2>1 DEF IInv, Stages, Drive, StartLabels
  <2>3. m' \in Motors /\ m'.oc /\ m'.running /\ m'.current_freq = 0
    BY <2>1, <2>2, StartStep DEF IInv, Still
  <2>4. TypeOK'
    BY <2>1, <2>3 DEF IInv, TypeOK, Labels, StartLabels, StopLabels, SetLabels
  <2>5. Stages' /\ Resets' /\ Renewal'
    BY <2>1, <2>2 DEF IInv, Stages, Resets, Renewal, StartLabels, StopLabels, SetLabels
  <2>6. Agree(m')
    BY <2>3 DEF Agree, Motors
  <2>7. Drive'
    BY <2>1, <2>6 DEF Drive
  <2>8. QED
    BY <2>4, <2>5, <2>7 DEF IInv
<1>3. CASE Run("start_run", TRUE, IF arg = NoTarget THEN "idle" ELSE "set")
  <2>1. /\ running' /\ s' = s /\ m' = m /\ arg' = arg /\ n' = n /\ renewed' = renewed
        /\ running' = TRUE /\ pc' \in {"idle", "set"}
    BY <1>3 DEF Run, Goto
  <2>2. TypeOK'
    BY <2>1 DEF IInv, TypeOK, Labels, StartLabels, StopLabels, SetLabels
  <2>3. Stages' /\ Resets' /\ Renewal' /\ Drive'
    BY <2>1 DEF IInv, Stages, Resets, Renewal, Drive, StartLabels, StopLabels, SetLabels
  <2>4. QED
    BY <2>2, <2>3 DEF IInv
<1>4. QED
  BY <1>1, <1>2, <1>3 DEF Starting

LEMMA StoppingInv ==
  ASSUME IInv, Stopping
  PROVE  IInv'
<1> USE Facts, ResetType
<1>1. CASE Run("stop", FALSE, "stop_motor")
  <2>1. /\ ~running' /\ s' = s /\ m' = m /\ arg' = arg /\ n' = n /\ renewed' = renewed
        /\ running' = FALSE /\ pc' = "stop_motor"
    BY <1>1 DEF Run, Goto
  <2>2. TypeOK'
    BY <2>1 DEF IInv, TypeOK, Labels, StartLabels, StopLabels, SetLabels
  <2>3. Stages' /\ Resets' /\ Renewal' /\ Drive'
    BY <2>1 DEF IInv, Stages, Resets, Renewal, Drive, StartLabels, StopLabels, SetLabels
  <2>4. QED
    BY <2>2, <2>3 DEF IInv
<1>2. CASE Move("stop_motor", Stop(m), "stop_err")
  <2>1. /\ running' = running /\ s' = s /\ arg' = arg /\ n' = n /\ renewed' = renewed
        /\ pc = "stop_motor" /\ pc' = "stop_err" /\ m' = Stop(m)
    BY <1>2 DEF Move, Goto
  <2>2. ~running
    BY <2>1 DEF IInv, Stages, StopLabels
  <2>3. m' \in Motors /\ Still(m')
    BY <2>1, StopStep DEF IInv
  <2>4. TypeOK'
    BY <2>1, <2>3 DEF IInv, TypeOK, Labels, StartLabels, StopLabels, SetLabels
  <2>5. Stages' /\ Resets' /\ Renewal'
    BY <2>1, <2>2 DEF IInv, Stages, Resets, Renewal, StartLabels, StopLabels, SetLabels
  <2>6. Agree(m')
    BY <2>3 DEF Agree, Still, Motors
  <2>7. Drive'
    BY <2>3, <2>6 DEF Drive
  <2>8. QED
    BY <2>4, <2>5, <2>7 DEF IInv
<1>3. CASE \/ Assign("stop_err", "err_last", "stop_i")
           \/ Assign("stop_i", "i", "stop_ramp")
           \/ Assign("stop_ramp", "ramp", "stop_speed")
           \/ Assign("stop_speed", "speed", "idle")
  <2>1. /\ running' = running /\ m' = m /\ arg' = arg /\ n' = n /\ renewed' = renewed
        /\ pc \in StopLabels \ {"stop_motor"}
        /\ pc' \in StopLabels \cup {"idle"}
        /\ pc' = "idle" => s' = [s EXCEPT !["speed"] = 0]
    BY <1>3 DEF Assign, Goto, StopLabels
  <2>2. ~running
    BY <2>1 DEF IInv, Stages
  <2>3. s' \in Loops /\ (pc' = "idle" => s'.speed = 0)
    <3>1. s \in Loops
      BY DEF IInv
    <3>2. \/ s' = [s EXCEPT !["err_last"] = 0] \/ s' = [s EXCEPT !["i"] = 0]
          \/ s' = [s EXCEPT !["ramp"] = 0] \/ s' = [s EXCEPT !["speed"] = 0]
      BY <1>3 DEF Assign
    <3>3. s' \in Loops
      BY <3>1, <3>2
    <3>4. QED
      BY <2>1, <3>1, <3>3
  <2>4. TypeOK'
    BY <2>1, <2>3 DEF IInv, TypeOK, Loops, Labels, StartLabels, StopLabels, SetLabels
  <2>5. Stages' /\ Drive' /\ Renewal' /\ Resets'
    BY <2>1, <2>2, <2>3
    DEF IInv, Stages, Drive, Renewal, Resets, StartLabels, StopLabels, SetLabels
  <2>6. QED
    BY <2>4, <2>5 DEF IInv
<1>4. QED
  BY <1>1, <1>2, <1>3 DEF Stopping

(* A retargeted loop.                                                        *)
LEMMA TargetType ==
  ASSUME NEW k \in Loops, NEW t \in -SpeedLimit..SpeedLimit
  PROVE  LET z == [k EXCEPT !.target = t]
         IN  z \in Loops /\ z.target = t /\ z.i = k.i
BY DEF Loops

LEMMA SettingInv ==
  ASSUME IInv, Setting
  PROVE  IInv'
<1> USE Facts, ResetType
<1> DEFINE new == Renews(s.target, Limited(arg))
<1>1. /\ pc \in SetLabels /\ pc' \in SetLabels \cup {"idle"}
      /\ running' = running /\ m' = m /\ n' = n
      /\ renewed' \in {TRUE, renewed} /\ arg' \in {arg, NoTarget}
  BY DEF Setting, Assign, Goto, SetLabels
<1>2. running
  BY <1>1 DEF IInv, Stages
<1>3. s' \in Loops
  BY TargetType DEF IInv, Setting, Assign
<1>4. TypeOK'
  BY <1>1, <1>3 DEF IInv, TypeOK, Loops, Labels, StartLabels, StopLabels, SetLabels
<1>5. Stages' /\ Drive' /\ Resets'
  BY <1>1, <1>2 DEF IInv, Stages, Drive, Resets, StartLabels, StopLabels, SetLabels
<1>6. Renewal'
  <2>1. CASE pc = "set"
    <3>1. /\ pc' = IF new THEN "set_err" ELSE "set_target"
          /\ s' = s /\ arg' = arg
      BY <2>1 DEF Setting, Assign, Goto
    <3>2. CASE new
      BY <3>1, <3>2 DEF Renewal
    <3>3. CASE ~new
      <4>1. new' = new
        BY <3>1 DEF Renews, Limited
      <4>2. QED
        BY <3>1, <3>3, <4>1 DEF Renewal
    <3>4. QED
      BY <3>2, <3>3
  <2>2. CASE pc \in {"set_err", "set_target"}
    BY <2>2 DEF Setting, Assign, Goto, Renewal
  <2>3. CASE pc = "set_i"
    <3>1. s' = [s EXCEPT !["i"] = 0] /\ pc' = "set_ramp" /\ n' = n
      BY <2>3 DEF Setting, Assign, Goto
    <3>2. s'.i = 0 /\ n \in Nat
      BY <3>1 DEF IInv
    <3>3. n * (Ki * ErrorLimit) \in Nat
      BY <3>2, PidAssumption
    <3>4. QED
      BY <3>1, <3>2, <3>3 DEF Renewal, Small, Abs
  <2>4. CASE pc = "set_ramp"
    <3>1. s' = [s EXCEPT !["ramp"] = 0] /\ pc' = "set_target" /\ n' = n
      BY <2>4 DEF Setting, Assign, Goto
    <3>2. s'.i = s.i
      BY <3>1 DEF IInv
    <3>3. QED
      BY <2>4, <3>1, <3>2 DEF IInv, Renewal, Small
  <2>5. QED
    BY <1>1, <2>1, <2>2, <2>3, <2>4 DEF SetLabels
<1>7. QED
  BY <1>4, <1>5, <1>6 DEF IInv

LEMMA CallInv ==
  ASSUME IInv, StartCall \/ StopCall \/ \E t \in Targets : TargetCall(t)
  PROVE  IInv'
<1>1. /\ pc = "idle" /\ s' = s /\ m' = m /\ renewed' = renewed /\ running' = running
      /\ arg' \in Targets \cup {NoTarget} /\ n' = 0
      /\ \/ pc' = "start" /\ ~running
         \/ pc' = "stop"
         \/ pc' = "set" /\ running
  <2>1. CASE StartCall
    BY <2>1 DEF StartCall, Call, Goto
  <2>2. CASE StopCall
    BY <2>2 DEF StopCall, Call, Goto
  <2>3. ASSUME NEW t \in Targets, TargetCall(t)
        PROVE  /\ pc = "idle" /\ s' = s /\ m' = m /\ renewed' = renewed
               /\ running' = running /\ arg' = t /\ n' = 0
               /\ \/ pc' = "start" /\ ~running
                  \/ pc' = "set" /\ running
    <3>1. /\ pc = "idle" /\ s' = s /\ m' = m /\ renewed' = renewed
          /\ running' = running /\ arg' = t /\ n' = 0
          /\ pc' = IF running THEN "set" ELSE "start"
      BY <2>3 DEF TargetCall, Call, Goto
    <3>2. QED
      BY <3>1
  <2>4. QED
    BY <2>1, <2>2, <2>3
<1>2. 0 \in 0..MaxPeriods
  BY SpeedLoopAssumption
<1>3. TypeOK'
  BY <1>1, <1>2 DEF IInv, TypeOK, Labels, StartLabels, StopLabels, SetLabels
<1>4. Stages' /\ Resets' /\ Drive' /\ Renewal'
  BY <1>1 DEF IInv, Stages, Resets, Drive, Renewal, StartLabels, StopLabels, SetLabels
<1>5. QED
  BY <1>3, <1>4 DEF IInv

LEMMA StepInv == IInv /\ [Next]_vars => IInv'
<1> SUFFICES ASSUME IInv, [Next]_vars PROVE IInv'
  OBVIOUS
<1>1. CASE Period
  BY <1>1, PeriodInv
<1>2. CASE Starting \/ Stopping \/ Setting
  BY <1>2, StartingInv, StoppingInv, SettingInv
<1>3. CASE StartCall \/ StopCall \/ \E t \in Targets : TargetCall(t)
  BY <1>3, CallInv
<1>4. CASE UNCHANGED vars
  BY <1>4 DEF vars, IInv, TypeOK, Stages, Resets, Drive, Renewal, Small, Renews, Limited
<1>5. QED
  BY <1>1, <1>2, <1>3, <1>4 DEF Next

(* Types and limits, and what each label of the shell says of the loop and   *)
(* its motor, hold in every state.                                           *)
THEOREM Invariance == Spec => []IInv
BY InitInv, StepInv, PTL DEF Spec

(* Types; target, ramp and error stay within their limits.                   *)
THEOREM TypeCorrect == Spec => []TypeOK
<1>1. IInv => TypeOK
  BY DEF IInv
<1>2. QED
  BY Invariance, <1>1, PTL

(* A stopped loop leaves its motor still, whatever period fell between the   *)
(* assignments of stop.                                                      *)
THEOREM StopIsStill == Spec => []StoppedLoopIsStill
<1>1. IInv => StoppedLoopIsStill
  BY DEF IInv, Drive, Still, StoppedLoopIsStill
<1>2. QED
  BY Invariance, <1>1, PTL

FreshStep == running' /\ ~running => s = Fresh(s)

(* A loop begins to run with nothing of its last run.                        *)
THEOREM StartFresh == Spec => StartIsFresh
<1>1. IInv /\ [Next]_vars => [FreshStep]_vars
  <2> SUFFICES ASSUME IInv, Next, running', ~running PROVE s = Fresh(s)
    BY DEF FreshStep
  <2>1. pc = "start_run"
    BY DEF Next, Period, Starting, Stopping, Setting, StartCall, StopCall, TargetCall,
           Assign, Move, Run, Call, Goto
  <2>2. /\ s.speed = 0 /\ s.target = 0 /\ s.ramp = 0 /\ s.err_last = 0 /\ s.i = 0
        /\ s \in Loops
    BY <2>1, Facts DEF IInv, Resets, StartLabels, StopLabels
  <2>3. QED
    BY <2>2 DEF Fresh, Loops
<1>2. [FreshStep]_vars => [running' /\ ~running => s = Fresh(s)]_vars
  BY DEF FreshStep
<1>3. QED
  BY Invariance, <1>1, <1>2, PTL DEF Spec, StartIsFresh

(* A change of sign is a change of more than 20%.                            *)
LEMMA SignChange ==
  ASSUME NEW a \in Int, NEW b \in Int
  PROVE  a * b < 0 => Renews(a, b)
<1>1. CASE a >= 0 /\ b >= 0
  <2>1. a * b \in Nat
    BY <1>1
  <2>2. QED
    BY <2>1
<1>2. CASE a <= 0 /\ b <= 0
  <2>1. (-a) * (-b) \in Nat /\ (-a) * (-b) = a * b
    BY <1>2
  <2>2. QED
    BY <2>1
<1>3. CASE (a > 0 /\ b < 0) \/ (a < 0 /\ b > 0)
  BY <1>3 DEF Renews, Abs
<1>4. \/ a >= 0 /\ b >= 0
      \/ a <= 0 /\ b <= 0
      \/ a > 0 /\ b < 0
      \/ a < 0 /\ b > 0
  OBVIOUS
<1>5. QED
  BY <1>1, <1>2, <1>3, <1>4

DropStep ==
  pc = "set_target" /\ pc' = "idle" /\ n < MaxPeriods
    /\ (s.target * s'.target < 0 \/ 5 * Abs(s'.target - s.target) > Abs(s.target))
      => Abs(s'.i) <= n * Ki * ErrorLimit

(* After a reversal or a large change of the target the integral holds only  *)
(* the errors of the periods within that call.                               *)
THEOREM RenewalDrops == Spec => RenewalDropsIntegral
<1>1. IInv /\ [Next]_vars => [DropStep]_vars
  <2> SUFFICES ASSUME IInv, Next, pc = "set_target", pc' = "idle", n < MaxPeriods,
                      s.target * s'.target < 0
                        \/ 5 * Abs(s'.target - s.target) > Abs(s.target)
               PROVE  Abs(s'.i) <= n * Ki * ErrorLimit
    BY DEF DropStep
  <2>1. s' = [s EXCEPT !.target = Limited(arg)]
    BY DEF Next, Period, Starting, Stopping, Setting, StartCall, StopCall, TargetCall,
           Assign, Move, Run, Call, Goto
  <2>2. s'.i = s.i /\ s'.target = Limited(arg) /\ n \in Nat
        /\ s.target \in Int /\ s'.target \in Int
    BY <2>1, Facts, TargetType, SpeedAssumption DEF IInv, Loops
  <2>3. Renews(s.target, s'.target)
    <3>1. CASE 5 * Abs(s'.target - s.target) > Abs(s.target)
      BY <3>1 DEF Renews
    <3>2. CASE s.target * s'.target < 0
      BY <2>2, <3>2, SignChange
    <3>3. QED
      BY <3>1, <3>2
  <2>4. Abs(s.i) <= n * (Ki * ErrorLimit)
    BY <2>2, <2>3 DEF IInv, Renewal, Small
  <2>5. n * (Ki * ErrorLimit) = n * Ki * ErrorLimit
    BY <2>2, PidAssumption
  <2>6. QED
    BY <2>2, <2>4, <2>5
<1>2. [DropStep]_vars =>
        [pc = "set_target" /\ pc' = "idle" /\ n < MaxPeriods
           /\ (s.target * s'.target < 0 \/ 5 * Abs(s'.target - s.target) > Abs(s.target))
             => Abs(s'.i) <= n * Ki * ErrorLimit]_vars
  BY DEF DropStep
<1>3. QED
  BY Invariance, <1>1, <1>2, PTL DEF Spec, RenewalDropsIntegral

--------------------------------------------------------------------------------
\* The motor follows the ramp.

\* The frequency the driver makes of a command, signed by direction.
Law(c) == IF c < 0 THEN -Clamp(-c) ELSE Clamp(c)

\* a within the driver's limits, in units of the ramp.
Within(a) == Smaller(Unit * MaxFreq, Larger(Unit * MinFreq, a))

LEMMA ProductOrder ==
  ASSUME NEW u \in Nat, NEW a \in Nat, NEW b \in Nat, a <= b
  PROVE  u * a \in Nat /\ u * b \in Nat /\ u * a <= u * b
<1>1. u * (b - a) \in Nat /\ u * (b - a) = u * b - u * a
  OBVIOUS
<1>2. QED
  BY <1>1

LEMMA DivisionLoss ==
  ASSUME NEW a \in Nat, NEW u \in Nat \ {0}
  PROVE  /\ a \div u \in Nat /\ u * (a \div u) \in Nat
         /\ a - u < u * (a \div u) /\ u * (a \div u) <= a
OBVIOUS

\* The driver's clamp of g whole hertz, no less than the least frequency.
LEMMA ClampWithin ==
  ASSUME NEW g \in Nat
  PROVE  /\ Clamp(Larger(MinFreq, g)) \in Nat \ {0}
         /\ Unit * Clamp(Larger(MinFreq, g)) = Within(Unit * g)
<1>1. MinFreq \in Nat \ {0} /\ MaxFreq \in Nat /\ MinFreq <= MaxFreq /\ Unit \in Nat
  BY MotorAssumption, SpeedAssumption
<1>2. PICK lo \in Nat : lo = Unit * MinFreq
  BY <1>1
<1>3. PICK hi \in Nat : hi = Unit * MaxFreq /\ lo <= hi
  BY <1>1, <1>2, ProductOrder
<1>4. PICK a \in Nat : a = Unit * g
  BY <1>1
<1>5. Within(Unit * g) = Smaller(hi, Larger(lo, a))
  BY <1>2, <1>3, <1>4 DEF Within
<1>6. CASE g < MinFreq
  <2>1. a <= lo
    BY <1>1, <1>2, <1>4, <1>6, ProductOrder
  <2>2. Clamp(Larger(MinFreq, g)) = MinFreq
    BY <1>1, <1>6 DEF Clamp, Larger
  <2>3. QED
    BY <1>1, <1>2, <1>3, <1>5, <2>1, <2>2 DEF Smaller, Larger
<1>7. CASE g >= MinFreq /\ g <= MaxFreq
  <2>1. lo <= a /\ a <= hi
    BY <1>1, <1>2, <1>3, <1>4, <1>7, ProductOrder
  <2>2. Clamp(Larger(MinFreq, g)) = g
    BY <1>1, <1>7 DEF Clamp, Larger
  <2>3. QED
    BY <1>1, <1>4, <1>5, <1>7, <2>1, <2>2 DEF Smaller, Larger
<1>8. CASE g > MaxFreq
  <2>1. hi <= a
    BY <1>1, <1>3, <1>4, <1>8, ProductOrder
  <2>2. Clamp(Larger(MinFreq, g)) = MaxFreq
    BY <1>1, <1>8 DEF Clamp, Larger
  <2>3. QED
    BY <1>1, <1>3, <1>5, <2>1, <2>2 DEF Smaller, Larger
<1>9. QED
  BY <1>1, <1>6, <1>7, <1>8

\* The frequency of a ramp, in the ramp's units: 0 in the dead zone, else the
\* ramp within the driver's limits, but for less than a hertz.
LEMMA LawOfRamp ==
  ASSUME NEW r \in -OutputLimit..OutputLimit
  PROVE  /\ Law(Commanded(r, MinFreq)) \in Int
         /\ Abs(r) < Threshold \/ r = 0 => Law(Commanded(r, MinFreq)) = 0
         /\ ~(Abs(r) < Threshold \/ r = 0) =>
              \E a \in Nat :
                /\ Abs(r) - Unit < a /\ a <= Abs(r)
                /\ Unit * Law(Commanded(r, MinFreq))
                     = IF r < 0 THEN -Within(a) ELSE Within(a)
<1>1. OutputLimit = Unit * SpeedLimit /\ OutputLimit \in Nat /\ Unit \in Nat \ {0}
      /\ Threshold \in Nat
  BY SpeedLoopAssumption, PidAssumption, SpeedAssumption
<1>2. Bound(r, Unit * SpeedLimit) = r /\ r \in Int /\ Abs(r) \in Nat
  BY <1>1 DEF Bound, Abs
<1> DEFINE g == Abs(r) \div Unit
           d == Larger(MinFreq, g)
<1>3. Commanded(r, MinFreq) = IF Abs(r) < Threshold THEN 0 ELSE Sgn(r) * d
  BY <1>2 DEF Commanded
<1>4. g \in Nat /\ Unit * g \in Nat /\ Abs(r) - Unit < Unit * g /\ Unit * g <= Abs(r)
  BY <1>1, <1>2, DivisionLoss
<1> HIDE DEF g
<1>5. d \in Nat \ {0}
  BY <1>4, MotorAssumption DEF Larger
<1>6. Clamp(d) \in Nat \ {0} /\ Unit * Clamp(d) = Within(Unit * g)
  BY <1>4, ClampWithin
<1>7. Clamp(0) = 0
  BY DEF Clamp
<1> HIDE DEF d
<1>8. CASE Abs(r) < Threshold \/ r = 0
  <2>1. Commanded(r, MinFreq) = 0
    BY <1>3, <1>5, <1>8 DEF Sgn
  <2>2. QED
    BY <1>7, <1>8, <2>1 DEF Law
<1>9. CASE ~(Abs(r) < Threshold \/ r = 0)
  <2>1. Commanded(r, MinFreq) = IF r < 0 THEN -d ELSE d
    BY <1>2, <1>3, <1>5, <1>9 DEF Sgn
  <2>2. Law(Commanded(r, MinFreq)) = IF r < 0 THEN -Clamp(d) ELSE Clamp(d)
    BY <1>5, <2>1 DEF Law
  <2>3. Unit * (-Clamp(d)) = -(Unit * Clamp(d))
    BY <1>1, <1>6
  <2>4. Unit * Law(Commanded(r, MinFreq))
          = IF r < 0 THEN -Within(Unit * g) ELSE Within(Unit * g)
    BY <1>6, <2>2, <2>3
  <2>5. QED
    BY <1>4, <1>6, <1>9, <2>2, <2>4
<1>10. QED
  BY <1>8, <1>9

\* The greatest change of the motor's frequency in a period.
Change == MaxAccel + Larger(Threshold, Unit * MinFreq) + Unit

\* One step of the ramp changes the frequency by no more.
LEMMA LawClose ==
  ASSUME NEW r \in -OutputLimit..OutputLimit, NEW q \in -OutputLimit..OutputLimit,
         Abs(q - r) <= MaxAccel
  PROVE  Unit * Abs(Law(Commanded(q, MinFreq)) - Law(Commanded(r, MinFreq))) <= Change
<1>1. /\ r \in Int /\ q \in Int /\ MaxAccel \in Nat /\ Threshold \in Nat
      /\ Unit \in Nat \ {0}
  BY PidAssumption, SpeedAssumption
<1>2. PICK lo \in Nat : lo = Unit * MinFreq /\ lo <= MaxAccel
  BY <1>1, MotorAssumption, AccelAssumption
<1>3. PICK hi \in Nat : hi = Unit * MaxFreq /\ lo <= hi
  BY <1>1, <1>2, MotorAssumption, ProductOrder
<1>4. Change = MaxAccel + Larger(Threshold, lo) + Unit
  BY <1>2 DEF Change
<1>5. \A a \in Nat : Within(a) = Smaller(hi, Larger(lo, a))
  BY <1>2, <1>3 DEF Within
<1>6. PICK x \in Int : x = Law(Commanded(r, MinFreq))
  BY LawOfRamp
<1>7. PICK y \in Int : y = Law(Commanded(q, MinFreq))
  BY LawOfRamp
<1>8. PICK ux \in Int : ux = Unit * x
  BY <1>1, <1>6
<1>9. PICK uy \in Int : uy = Unit * y
  BY <1>1, <1>7
<1>10. \/ ux = 0 /\ (Abs(r) < Threshold \/ r = 0)
       \/ \E a \in Nat :
            /\ Abs(r) - Unit < a /\ a <= Abs(r)
            /\ ux = IF r < 0 THEN -Smaller(hi, Larger(lo, a)) ELSE Smaller(hi, Larger(lo, a))
            /\ r # 0 /\ Abs(r) >= Threshold
  <2>1. CASE Abs(r) < Threshold \/ r = 0
    BY <1>1, <1>6, <1>8, <2>1, LawOfRamp
  <2>2. CASE ~(Abs(r) < Threshold \/ r = 0)
    BY <1>1, <1>5, <1>6, <1>8, <2>2, LawOfRamp DEF Abs
  <2>3. QED
    BY <2>1, <2>2
<1>11. \/ uy = 0 /\ (Abs(q) < Threshold \/ q = 0)
       \/ \E a \in Nat :
            /\ Abs(q) - Unit < a /\ a <= Abs(q)
            /\ uy = IF q < 0 THEN -Smaller(hi, Larger(lo, a)) ELSE Smaller(hi, Larger(lo, a))
            /\ q # 0 /\ Abs(q) >= Threshold
  <2>1. CASE Abs(q) < Threshold \/ q = 0
    BY <1>1, <1>7, <1>9, <2>1, LawOfRamp
  <2>2. CASE ~(Abs(q) < Threshold \/ q = 0)
    BY <1>1, <1>5, <1>7, <1>9, <2>2, LawOfRamp DEF Abs
  <2>3. QED
    BY <2>1, <2>2
<1>12. Abs(uy - ux) <= MaxAccel + Larger(Threshold, lo) + Unit
  BY <1>1, <1>2, <1>3, <1>10, <1>11 DEF Smaller, Larger, Abs
<1>13. Unit * Abs(y - x) = Abs(uy - ux)
  <2>1. Unit * (y - x) = uy - ux /\ Unit * (x - y) = ux - uy
    BY <1>1, <1>6, <1>7, <1>8, <1>9
  <2>2. CASE y >= x
    <3>1. Unit * (y - x) \in Nat
      BY <1>1, <1>6, <1>7, <2>2
    <3>2. QED
      BY <1>6, <1>7, <1>8, <1>9, <2>1, <2>2, <3>1 DEF Abs
  <2>3. CASE y < x
    <3>1. Unit * (x - y) \in Nat
      BY <1>1, <1>6, <1>7, <2>3
    <3>2. Abs(y - x) = x - y
      BY <1>6, <1>7, <2>3 DEF Abs
    <3>3. QED
      BY <1>6, <1>7, <1>8, <1>9, <2>1, <3>1, <3>2 DEF Abs
  <2>4. QED
    BY <1>6, <1>7, <2>2, <2>3
<1>14. QED
  BY <1>4, <1>6, <1>7, <1>12, <1>13

\* A running motor turns as the ramp says, unless set_target has just cleared
\* the ramp; the frequency of a loop that is not running is 0.
Follow ==
  /\ running /\ ~renewed => Turning(m) = Law(Commanded(s.ramp, MinFreq))
  /\ ~running /\ pc # "stop_motor" => m.current_freq = 0

LEMMA NoTurn ==
  ASSUME NEW k, k.current_freq = 0
  PROVE  Turning(k) = 0
<1>1. \A x \in Int : x <= 0 /\ x >= 0 => -x = 0
  OBVIOUS
<1>2. PICK x \in Int : x = k.current_freq /\ x <= 0 /\ x >= 0
  OBVIOUS
<1>3. -x = 0
  BY <1>1, <1>2, Zenon
<1>4. QED
  BY <1>2, <1>3, Zenon DEF Turning

LEMMA DrivenTurns ==
  ASSUME NEW f \in Int, m \in Motors, Agree(m)
  PROVE  Turning(Driven(f)) = Law(f)
<1>1. CASE f = 0
  <2>1. Driven(f) \in Motors /\ Driven(f).current_freq = 0
    BY <1>1, SetFrequencyStep DEF Driven, Still
  <2>2. Law(f) = 0
    BY <1>1 DEF Law, Clamp
  <2>3. QED
    BY <2>1, <2>2, NoTurn
<1>2. CASE f # 0
  <2> DEFINE d == IF f > 0 THEN "CW" ELSE "CCW"
             k == SetDirection(m, d)
             z == SetFrequency(k, Abs(f))
  <2>1. k \in Motors /\ SameDrive(k, m) /\ k.current_dir = d
    BY SetDirectionStep
  <2>2. Agree(k)
    BY <2>1 DEF Agree, SameDrive
  <2>3. Driven(f) = z /\ Abs(f) \in Nat \ {0}
    BY <1>2 DEF Driven, Abs
  <2> HIDE DEF k
  <2>4. z.current_freq = Clamp(Abs(f)) /\ z.current_dir = d
    BY <2>1, <2>2, <2>3, SetFrequencyStep DEF DrivenAt, SameDir
  <2> HIDE DEF z
  <2>5. CASE f > 0
    BY <2>3, <2>4, <2>5 DEF Turning, Law, Abs
  <2>6. CASE f < 0
    BY <2>3, <2>4, <2>6 DEF Turning, Law, Abs
  <2>7. QED
    BY <1>2, <2>5, <2>6
<1>3. QED
  BY <1>1, <1>2

LEMMA FollowInit == Init => Follow
<1> SUFFICES ASSUME Init PROVE Follow
  OBVIOUS
<1>1. ~running /\ m.current_freq = 0
  BY InitialMotor DEF Init, Still
<1>2. QED
  BY <1>1 DEF Follow

\* Follow is kept: a period makes it true, the shell clears the ramp of a
\* running loop only together with renewed.
LEMMA FollowPeriod ==
  ASSUME IInv, Follow, Period
  PROVE  Follow'
<1>1. running' = running /\ pc' = pc
  BY DEF Period
<1>2. CASE ~running
  <2>1. m' = m
    BY <1>2 DEF Period, RestPeriod, RunPeriod
  <2>2. QED
    BY <1>1, <1>2, <2>1 DEF Follow
<1>3. CASE running
  <2>1. RunPeriod
    BY <1>3 DEF Period, RestPeriod
  <2>2. m \in Motors /\ Agree(m) /\ s'.ramp \in Int
    <3>1. s' \in Loops
      BY <2>1, RunPeriodStep
    <3>2. QED
      BY <3>1, Facts, PidAssumption DEF IInv, Drive, Loops
  <2>3. PICK c \in Int : c = Commanded(s'.ramp, MinFreq)
    BY <2>2, CommandedType
  <2>4. m' = Driven(c)
    BY <2>1, <2>3 DEF RunPeriod
  <2>5. Turning(m') = Law(Commanded(s'.ramp, MinFreq))
    BY <2>2, <2>3, <2>4, DrivenTurns
  <2>6. QED
    BY <1>1, <1>3, <2>5 DEF Follow
<1>4. QED
  BY <1>2, <1>3

\* A loop at rest commands nothing.
LEMMA RestLaw == Law(Commanded(0, MinFreq)) = 0
<1>1. 0 \in -OutputLimit..OutputLimit
  BY PidAssumption
<1>2. QED
  BY <1>1, LawOfRamp

LEMMA FollowShell ==
  ASSUME IInv, Follow, Starting \/ Stopping \/ Setting
  PROVE  Follow'
<1>1. s \in Loops /\ m \in Motors /\ running \in BOOLEAN
  BY Facts DEF IInv
<1>2. \A f \in {"speed", "target", "err_last", "i"} : [s EXCEPT ![f] = 0].ramp = s.ramp
  BY <1>1 DEF Loops
<1>3. CASE Starting
  <2>1. ~running /\ pc # "stop_motor" /\ pc' # "stop_motor" /\ m.current_freq = 0
    BY <1>3 DEF Starting, Assign, Move, Run, Goto, IInv, Stages, StartLabels, Follow
  <2>2. m'.current_freq = 0
    BY <1>1, <1>3, <2>1, StartStep DEF Starting, Assign, Move, Run
  <2>3. CASE ~running'
    BY <2>2, <2>3 DEF Follow
  <2>4. CASE running'
    <3>1. pc = "start_run" /\ s' = s /\ m' = m
      BY <1>3, <2>1, <2>4 DEF Starting, Assign, Move, Run, Goto
    <3>2. s'.ramp = 0
      BY <3>1 DEF IInv, Resets
    <3>3. Turning(m') = 0
      BY <2>2, NoTurn
    <3>4. QED
      BY <2>4, <3>2, <3>3, RestLaw DEF Follow
  <2>5. QED
    BY <2>3, <2>4
<1>4. CASE Stopping
  <2>1. ~running'
    BY <1>4 DEF Stopping, Assign, Move, Run, Goto, IInv, Stages, StopLabels
  <2>2. CASE pc = "stop"
    BY <1>4, <2>1, <2>2 DEF Stopping, Assign, Move, Run, Goto, Follow
  <2>3. CASE pc = "stop_motor"
    <3>1. m' = Stop(m)
      BY <1>4, <2>3 DEF Stopping, Assign, Move, Run, Goto
    <3>2. QED
      BY <1>1, <2>1, <3>1, StopStep DEF Still, Follow
  <2>4. CASE pc \notin {"stop", "stop_motor"}
    <3>1. m' = m /\ running' = running
      BY <1>4, <2>4 DEF Stopping, Assign, Move, Run, Goto
    <3>2. QED
      BY <2>1, <2>4, <3>1 DEF Follow
  <2>5. QED
    BY <2>2, <2>3, <2>4
<1>5. CASE Setting
  <2>1. running' = running /\ running /\ m' = m
    BY <1>5 DEF Setting, Assign, Goto, IInv, Stages, SetLabels
  <2>2. renewed' \/ (s'.ramp = s.ramp /\ renewed' = renewed)
    <3>1. CASE pc = "set_ramp"
      BY <1>5, <3>1 DEF Setting, Assign, Goto
    <3>2. CASE pc # "set_ramp"
      BY <1>1, <1>2, <1>5, <3>2 DEF Setting, Assign, Goto, Loops
    <3>3. QED
      BY <3>1, <3>2
  <2>3. QED
    BY <2>1, <2>2 DEF Follow
<1>6. QED
  BY <1>3, <1>4, <1>5

LEMMA FollowCall ==
  ASSUME Follow, StartCall \/ StopCall \/ \E t \in Targets : TargetCall(t)
  PROVE  Follow'
BY DEF StartCall, StopCall, TargetCall, Call, Goto, Follow

LEMMA FollowStep == IInv /\ Follow /\ [Next]_vars => Follow'
<1> SUFFICES ASSUME IInv, Follow, [Next]_vars PROVE Follow'
  OBVIOUS
<1>1. CASE Period
  BY <1>1, FollowPeriod
<1>2. CASE Starting \/ Stopping \/ Setting
  BY <1>2, FollowShell
<1>3. CASE StartCall \/ StopCall \/ \E t \in Targets : TargetCall(t)
  BY <1>3, FollowCall
<1>4. CASE UNCHANGED vars
  BY <1>4 DEF vars, Follow, Turning
<1>5. QED
  BY <1>1, <1>2, <1>3, <1>4 DEF Next

RampStep ==
  renewed \/ Unit * Abs(Turning(m') - Turning(m))
               <= MaxAccel + Larger(Threshold, Unit * MinFreq) + Unit
  \/ ~running'

(* Unless set_target has just cleared the ramp, the frequency the loop       *)
(* commands, signed by its direction, changes by at most max_accel, the dead *)
(* zone and the rounding to a hertz in a period: no reversal at speed.       *)
THEOREM FollowsRamp == Spec => MotorFollowsRamp
<1>1. Spec => [](IInv /\ Follow)
  BY InitInv, StepInv, FollowInit, FollowStep, PTL DEF Spec
<1>2. IInv /\ Follow /\ (IInv /\ Follow)' /\ [Next]_vars => [RampStep]_vars
  <2> SUFFICES ASSUME IInv, Follow, IInv', Follow', Next, ~renewed, running'
               PROVE  RampStep
    BY DEF RampStep
  <2>1. CASE Period
    <3>1. running /\ renewed' = FALSE /\ RunPeriod
      BY <2>1 DEF Period, RestPeriod
    <3>2. /\ s.ramp \in -OutputLimit..OutputLimit /\ s'.ramp \in -OutputLimit..OutputLimit
          /\ Abs(s'.ramp - s.ramp) <= MaxAccel
      BY <3>1, RunPeriodStep, Facts DEF IInv, Loops
    <3>3. /\ Turning(m) = Law(Commanded(s.ramp, MinFreq))
          /\ Turning(m') = Law(Commanded(s'.ramp, MinFreq))
      BY <3>1 DEF Follow
    <3>4. QED
      BY <3>2, <3>3, LawClose DEF RampStep, Change
  <2>2. CASE ~Period
    <3>1. m' = m
      BY <2>2 DEF Next, Starting, Stopping, Setting, StartCall, StopCall, TargetCall,
             Assign, Move, Run, Call, Goto, IInv, Stages, StartLabels, StopLabels
    <3>2. PICK x \in Int : x = Turning(m)
      <4>1. m.current_freq \in Nat
        BY Facts, MotorAssumption DEF IInv, Motors, Frequencies
      <4>2. QED
        BY <4>1 DEF Turning
    <3>3. Turning(m') = x
      BY <3>1, <3>2 DEF Turning
    <3>4. Abs(x - x) = 0 /\ Unit * 0 = 0
      BY <3>2, SpeedAssumption DEF Abs
    <3>5. 0 <= MaxAccel + Larger(Threshold, Unit * MinFreq) + Unit
      <4>1. Unit * MinFreq \in Nat
        BY MotorAssumption, SpeedAssumption
      <4>2. QED
        BY <4>1, SpeedAssumption DEF Larger
    <3>6. QED
      BY <3>2, <3>3, <3>4, <3>5 DEF RampStep
  <2>3. QED
    BY <2>1, <2>2
<1>3. [RampStep]_vars =>
        [renewed \/ Unit * Abs(Turning(m') - Turning(m))
                      <= MaxAccel + Larger(Threshold, Unit * MinFreq) + Unit
         \/ ~running']_vars
  BY DEF RampStep
<1>4. QED
  BY <1>1, <1>2, <1>3, PTL DEF Spec, MotorFollowsRamp

--------------------------------------------------------------------------------
\* The contract.  Every step of the program is a step of LoopContract or one
\* that leaves its variables alone; this loop never looks at the fault pin.

ContractStep == [Contract!Next]_(Contract!vars)

\* A step the contract does not see.
Unseen == running' = running /\ m'.oc = m.oc /\ Calling' = Calling

LEMMA UnseenStep ==
  ASSUME Unseen
  PROVE  ContractStep
BY DEF Unseen, ContractStep, Contract!vars

LEMMA PeriodKeeps ==
  ASSUME IInv, IInv', Period
  PROVE  ContractStep
<1>1. running' = running /\ Calling' = Calling
  BY DEF Period, RestPeriod, RunPeriod, Calling
<1>2. CASE RestPeriod
  BY <1>1, <1>2, UnseenStep DEF RestPeriod, Unseen
<1>3. CASE ~RestPeriod
  <2>1. running /\ m'.oc \in BOOLEAN
    BY <1>3 DEF Period, RunPeriod, IInv, TypeOK, Motors
  <2>2. Contract!Control
    BY <1>1, <2>1 DEF Contract!Control
  <2>3. QED
    BY <2>2 DEF ContractStep, Contract!Next
<1>4. QED
  BY <1>2, <1>3

LEMMA StartingKeeps ==
  ASSUME IInv, Starting
  PROVE  ContractStep
<1>1. Calling = "start" /\ ~running /\ m \in Motors
  BY DEF Starting, Assign, Move, Run, Goto, Calling, StartLabels, IInv, Stages, TypeOK
<1>2. CASE pc \notin {"start_motor", "start_run"}
  <2>1. m' = m /\ running' = running /\ pc' \in StartLabels
    BY <1>2 DEF Starting, Assign, Move, Run, Goto, StartLabels
  <2>2. Calling' = "start"
    BY <2>1 DEF Calling, StartLabels
  <2>3. QED
    BY <1>1, <2>1, <2>2, UnseenStep DEF Unseen
<1>3. CASE pc = "start_motor"
  <2>1. m' = Start(m) /\ running' = running /\ pc' = "start_run"
    BY <1>3 DEF Starting, Assign, Move, Run, Goto
  <2>2. m'.oc /\ Calling' = "start"
    BY <1>1, <2>1, StartStep DEF Calling, StartLabels
  <2>3. Contract!Energise
    BY <1>1, <2>1, <2>2 DEF Contract!Energise
  <2>4. QED
    BY <2>3 DEF ContractStep, Contract!Next
<1>4. CASE pc = "start_run"
  <2>1. m' = m /\ running' /\ pc' \in {"idle", "set"}
    BY <1>4 DEF Starting, Assign, Move, Run, Goto
  <2>2. Calling' \in {"none", "command"}
    BY <2>1 DEF Calling, StartLabels, StopLabels
  <2>3. Contract!Run
    BY <1>1, <2>1, <2>2 DEF Contract!Run
  <2>4. QED
    BY <2>3 DEF ContractStep, Contract!Next
<1>5. QED
  BY <1>2, <1>3, <1>4

LEMMA StoppingKeeps ==
  ASSUME IInv, Stopping
  PROVE  ContractStep
<1>1. Calling = "stop" /\ m \in Motors
  BY DEF Stopping, Assign, Move, Run, Goto, Calling, StartLabels, StopLabels, IInv, TypeOK
<1>2. CASE pc = "stop"
  <2>1. m' = m /\ running' = FALSE /\ pc' = "stop_motor"
    BY <1>2 DEF Stopping, Assign, Move, Run, Goto
  <2>2. Calling' = "stop"
    BY <2>1 DEF Calling, StartLabels, StopLabels
  <2>3. Contract!Halt
    BY <1>1, <2>1, <2>2 DEF Contract!Halt
  <2>4. QED
    BY <2>3 DEF ContractStep, Contract!Next
<1>3. CASE pc = "stop_motor"
  <2>1. m' = Stop(m) /\ running' = running /\ ~running /\ pc' \in StopLabels
    BY <1>3 DEF Stopping, Assign, Move, Run, Goto, IInv, Stages, StopLabels
  <2>2. ~m'.oc /\ Calling' = "stop"
    BY <1>1, <2>1, StopStep DEF Still, Calling, StartLabels, StopLabels
  <2>3. Contract!StopMotor
    BY <1>1, <2>1, <2>2 DEF Contract!StopMotor
  <2>4. QED
    BY <2>3 DEF ContractStep, Contract!Next
<1>4. CASE pc \in StopLabels \ {"stop_motor"}
  <2>1. m' = m /\ running' = running /\ pc' \in StopLabels \cup {"idle"}
    BY <1>4 DEF Stopping, Assign, Move, Run, Goto, StopLabels
  <2>2. ~m.oc
    BY <1>4 DEF IInv, Stages, Drive, Still, StopLabels
  <2>3. CASE pc' = "idle"
    <3>1. Calling' = "none"
      BY <2>3 DEF Calling
    <3>2. Contract!Return
      BY <1>1, <2>1, <2>2, <3>1 DEF Contract!Return
    <3>3. QED
      BY <3>2 DEF ContractStep, Contract!Next
  <2>4. CASE pc' \in StopLabels
    <3>1. Calling' = "stop"
      BY <2>4 DEF Calling, StartLabels, StopLabels
    <3>2. QED
      BY <1>1, <2>1, <3>1, UnseenStep DEF Unseen
  <2>5. QED
    BY <2>1, <2>3, <2>4
<1>5. QED
  BY <1>2, <1>3, <1>4 DEF Stopping, Assign, Move, Run, Goto, StopLabels

\* The assignments of set_target, of which the last ends the call.
LEMMA CommandKeeps ==
  ASSUME IInv, Setting
  PROVE  ContractStep
<1>1. /\ pc \in SetLabels /\ pc' \in SetLabels \cup {"idle"}
      /\ m' = m /\ running' = running
  BY DEF Setting, Assign, Goto, SetLabels
<1>2. Calling = "command" /\ running
  BY <1>1 DEF IInv, Stages, Calling, StartLabels, StopLabels, SetLabels
<1>3. CASE pc' = "idle"
  <2>1. Calling' = "none"
    BY <1>3 DEF Calling
  <2>2. Contract!Return
    BY <1>1, <1>2, <2>1 DEF Contract!Return
  <2>3. QED
    BY <2>2 DEF ContractStep, Contract!Next
<1>4. CASE pc' \in SetLabels
  <2>1. Calling' = "command"
    BY <1>4 DEF Calling, StartLabels, StopLabels, SetLabels
  <2>2. QED
    BY <1>1, <1>2, <2>1, UnseenStep DEF Unseen
<1>5. QED
  BY <1>1, <1>3, <1>4

LEMMA CallKeeps ==
  ASSUME pc = "idle", m' = m, running' = running,
         \/ pc' \in {"idle", "stop"}
         \/ pc' = "start" /\ ~running
         \/ pc' = "set" /\ running
  PROVE  ContractStep
<1>1. Calling = "none"
  BY DEF Calling
<1>2. CASE pc' = "idle"
  BY <1>1, <1>2, UnseenStep DEF Unseen, Calling
<1>3. CASE pc' = "stop"
  <2>1. Calling' = "stop"
    BY <1>3 DEF Calling, StartLabels
  <2>2. QED
    BY <1>1, <2>1 DEF ContractStep, Contract!Next, Contract!BeginStop
<1>4. CASE pc' = "start" /\ ~running
  <2>1. Calling' = "start"
    BY <1>4 DEF Calling, StartLabels
  <2>2. QED
    BY <1>1, <1>4, <2>1 DEF ContractStep, Contract!Next, Contract!BeginStart
<1>5. CASE pc' = "set" /\ running
  <2>1. Calling' = "command"
    BY <1>5 DEF Calling, StartLabels, StopLabels
  <2>2. QED
    BY <1>1, <1>5, <2>1 DEF ContractStep, Contract!Next, Contract!BeginCommand
<1>6. QED
  BY <1>2, <1>3, <1>4, <1>5

(* The speed loop implements LoopContract: no call returns with the motor    *)
(* turning while no loop runs, whatever period fell between its assignments. *)
THEOREM KeepsItsContract == Spec => KeepsContract
<1>1. Init => Contract!Init
  <2> SUFFICES ASSUME Init PROVE Contract!Init
    OBVIOUS
  <2>1. ~m.oc
    BY InitialMotor DEF Init, Still
  <2>2. Calling = "none" /\ ~running
    BY DEF Init, Calling
  <2>3. QED
    BY <2>1, <2>2 DEF Contract!Init
<1>2. IInv /\ IInv' /\ [Next]_vars => ContractStep
  <2> SUFFICES ASSUME IInv, IInv', [Next]_vars PROVE ContractStep
    OBVIOUS
  <2>1. CASE Period
    BY <2>1, PeriodKeeps
  <2>2. CASE Starting
    BY <2>2, StartingKeeps
  <2>3. CASE Stopping
    BY <2>3, StoppingKeeps
  <2>4. CASE Setting
    BY <2>4, CommandKeeps
  <2>5. CASE StartCall \/ StopCall \/ \E t \in Targets : TargetCall(t)
    <3>1. /\ pc = "idle" /\ m' = m /\ running' = running
          /\ \/ pc' = "stop"
             \/ pc' = "start" /\ ~running
             \/ pc' = "set" /\ running
      BY <2>5 DEF StartCall, StopCall, TargetCall, Call, Goto
    <3>2. QED
      BY <3>1, CallKeeps
  <2>6. CASE UNCHANGED vars
    BY <2>6, UnseenStep DEF vars, Unseen, Calling
  <2>7. QED
    BY <2>1, <2>2, <2>3, <2>4, <2>5, <2>6 DEF Next
<1>3. QED
  BY Invariance, <1>1, <1>2, PTL DEF Spec, KeepsContract, Contract!Spec, ContractStep
================================================================================
