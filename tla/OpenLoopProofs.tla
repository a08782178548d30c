---------------------------- MODULE OpenLoopProofs ----------------------------
(***************************************************************************)
(* Theorems about OpenLoop, for every acceleration, period, set of speeds   *)
(* and lengths.  The invariant ties the motor to the ramp: except between   *)
(* start and the first period the motor turns at the clamped frequency of   *)
(* the ramp, and it turns only while the loop runs.                         *)
(***************************************************************************)
EXTENDS OpenLoop, MotorOpsProofs

Within(f) == f <= Fastest \/ f <= Accel
Positive(f) == IF f > 0 THEN f ELSE 0

Types ==
  /\ o \in Loops /\ m \in Motors /\ pc \in Labels
  /\ arg \in [steps : Int, speed : Int]
  /\ Within(o.cur) /\ Within(o.target) /\ Within(arg.speed)

Stages ==
  /\ pc \in StartLabels \cup StopLabels => ~o.running
  /\ pc \in MoveLabels => o.running
  /\ pc \in StartLabels \ {"start"} => o.cur \in {0, Accel}

Drive ==
  /\ Agree(m) /\ ~m.fault
  /\ ~m.running => m.current_freq = 0
  /\ ~o.running /\ pc \notin {"stop_motor", "start_run"} => Still(m)
  /\ pc = "start_run" => JustStarted
  /\ o.running \/ pc = "start_run" =>
       IF JustStarted THEN o.cur \in {0, Accel}
       ELSE m.current_freq = Clamp(Positive(o.cur))

IInv == Types /\ Stages /\ Drive

LEMMA FastestIs == Fastest \in Int /\ \A f \in Speeds : f <= Fastest
BY OpenLoopAssumption DEF Fastest

(* A loop with the fields of a period assigned.                              *)
WithRamp(k, t, c, a) == [k EXCEPT !.target = t, !.cur = c, !.acc = a]

LEMMA WithRampType ==
  ASSUME NEW k \in Loops, NEW t \in Int, NEW c \in Int, NEW a \in Int
  PROVE  LET n == WithRamp(k, t, c, a)
         IN  /\ n \in Loops /\ n.running = k.running /\ n.dir = k.dir
             /\ n.target = t /\ n.cur = c /\ n.acc = a
             /\ n.pos_mode = k.pos_mode /\ n.total = k.total
BY DEF Loops, WithRamp

(* A loop with its ramp at c, out of position mode.                          *)
WithRest(k, c) == [k EXCEPT !.cur = c, !.pos_mode = FALSE]

LEMMA WithRestType ==
  ASSUME NEW k \in Loops, NEW c \in Int
  PROVE  LET n == WithRest(k, c)
         IN  /\ n \in Loops /\ n.running = k.running /\ n.target = k.target
             /\ n.cur = c
BY DEF Loops, WithRest

(* A loop that has done its move.                                            *)
WithDone(k, c, t) == [k EXCEPT !.cur = c, !.target = t, !.pos_mode = FALSE]

LEMMA WithDoneType ==
  ASSUME NEW k \in Loops, NEW c \in Int, NEW t \in Int
  PROVE  LET n == WithDone(k, c, t)
         IN  /\ n \in Loops /\ n.running = k.running /\ n.target = t /\ n.cur = c
             /\ n.acc = k.acc /\ n.total = k.total /\ ~n.pos_mode
BY DEF Loops, WithDone

(* The ramp moves at most Accel, and not past its aim.                       *)
LEMMA RampRange ==
  ASSUME NEW c \in Int, NEW t \in Int
  PROVE  /\ Ramp(c, t) \in Int /\ Abs(Ramp(c, t) - c) <= Accel
         /\ Ramp(c, t) <= c \/ Ramp(c, t) <= t
BY OpenLoopAssumption DEF Ramp, Abs

(* Clamping to the driver's limits does not widen a step of the ramp.        *)
LEMMA ClampSmooth ==
  ASSUME NEW c \in Int, NEW d \in Int, Abs(d - c) <= Accel, d > 0
  PROVE  Abs(Clamp(Positive(d)) - Clamp(Positive(c))) <= Accel
BY OpenLoopAssumption, MotorAssumption DEF Clamp, Positive, Abs

LEMMA InitInv == Init => IInv
<1> SUFFICES ASSUME Init PROVE IInv
  OBVIOUS
<1>1. m \in Motors /\ Still(m) /\ ~m.fault
  BY InitialMotor DEF Init
<1>2. Types
  <2>1. o \in Loops /\ o.cur = 0 /\ o.target = 0
    BY DEF Init, Loops
  <2>2. arg \in [steps : Int, speed : Int] /\ arg.speed = 0
    BY DEF Init, NoMove
  <2>3. Within(0)
    BY OpenLoopAssumption DEF Within
  <2>4. QED
    BY <1>1, <2>1, <2>2, <2>3 DEF Init, Types, Labels, StartLabels, StopLabels,
                                  MoveLabels
<1>3. Stages
  BY DEF Init, Stages, StartLabels, StopLabels, MoveLabels
<1>4. Drive
  <2>1. m.oc = m.running /\ m.current_freq = 0 /\ ~m.running /\ Still(m)
    BY <1>1 DEF Still, Motors
  <2>2. QED
    BY <1>1, <2>1 DEF Init, Drive, Agree
<1>5. QED
  BY <1>2, <1>3, <1>4 DEF IInv

LEMMA RestPeriodInv ==
  ASSUME IInv, RestPeriod, UNCHANGED <<pc, arg>>
  PROVE  IInv'
<1>1. o'.cur = 0 /\ o' \in Loops /\ o'.running = o.running /\ o'.target = o.target
  <2>1. o' = WithRest(o, 0)
    BY DEF RestPeriod, WithRest
  <2>2. QED
    <3>1. o \in Loops
      BY DEF IInv, Types
    <3>2. QED
      BY <2>1, <3>1, WithRestType
<1>2. Within(0)
  BY OpenLoopAssumption DEF Within
<1>3. Types'
  BY <1>1, <1>2 DEF IInv, Types, RestPeriod, Within
<1>4. Stages'
  BY <1>1 DEF IInv, Stages
<1>5. Drive'
  BY <1>1 DEF IInv, Drive, RestPeriod, JustStarted
<1>6. QED
  BY <1>3, <1>4, <1>5 DEF IInv

LEMMA DonePeriodInv ==
  ASSUME IInv, DonePeriod, UNCHANGED <<pc, arg>>
  PROVE  IInv'
<1>1. o'.cur = 0 /\ o'.target = 0 /\ o' \in Loops /\ o'.running
  <2>1. o' = WithDone(o, 0, 0)
    BY DEF DonePeriod, WithDone
  <2>2. QED
    <3>1. o \in Loops /\ o.running
      BY DEF IInv, Types, DonePeriod
    <3>2. QED
      BY <2>1, <3>1, WithDoneType
<1>2. m' \in Motors /\ Still(m') /\ ~m'.fault
  BY SetFrequencyStep DEF IInv, Types, Drive, DonePeriod, SameFlags
<1>3. Within(0)
  BY OpenLoopAssumption DEF Within
<1>4. Types'
  BY <1>1, <1>2, <1>3 DEF IInv, Types, Within
<1>5. o.running /\ pc' = pc /\ pc \notin StartLabels
  BY DEF IInv, Stages, DonePeriod
<1>6. Stages'
  BY <1>1, <1>5 DEF IInv, Stages, DonePeriod
<1>7. Drive'
  <2>1. Agree(m') /\ ~JustStarted' /\ m'.current_freq = 0 /\ Clamp(Positive(0)) = 0
    BY <1>2 DEF Still, Agree, Motors, JustStarted, Clamp, Positive
  <2>2. QED
    BY <1>1, <1>2, <1>5, <2>1 DEF Drive, StartLabels
<1>8. QED
  BY <1>4, <1>6, <1>7 DEF IInv

(* What a period of a running loop does to ramp and motor.                   *)
LEMMA RunPeriodStep ==
  ASSUME IInv, RunPeriod
  PROVE  /\ o' \in Loops /\ o'.running /\ Within(o'.target) /\ Within(o'.cur)
         /\ Abs(o'.cur - o.cur) <= Accel
         /\ m' \in Motors /\ Agree(m') /\ ~m'.fault /\ ~JustStarted'
         /\ ~m'.running => m'.current_freq = 0
         /\ m'.current_freq = Clamp(Positive(o'.cur))
<1> DEFINE t == IF Brakes THEN 0 ELSE o.target
           c == Ramp(o.cur, t)
           a == Count(o.acc + c)
           n == SetDirection(m, o.dir)
<1>1. o \in Loops /\ m \in Motors /\ Within(o.cur) /\ Within(o.target)
  BY DEF IInv, Types
<1>2. t \in Int /\ Within(t)
  BY <1>1, OpenLoopAssumption DEF Loops, Within
<1>3. /\ o' = WithRamp(o, t, c, a)
      /\ m' = SetFrequency(n, Positive(c))
  BY DEF RunPeriod, WithRamp, Positive
<1> HIDE DEF t
<1>4. c \in Int /\ Abs(c - o.cur) <= Accel /\ (c <= o.cur \/ c <= t)
  BY <1>1, <1>2, RampRange DEF Loops
<1> HIDE DEF c
<1>5. a \in Int
  BY <1>1, <1>4, OpenLoopAssumption DEF Count, Loops
<1> HIDE DEF a
<1>6. o' \in Loops /\ o'.running /\ o'.target = t /\ o'.cur = c
  <2>1. o.running
    BY DEF RunPeriod
  <2>2. QED
    BY <1>1, <1>2, <1>3, <1>4, <1>5, <2>1, WithRampType
<1>7. Within(c)
  BY <1>1, <1>2, <1>4, FastestIs, OpenLoopAssumption DEF Within, Loops
<1>8. n \in Motors /\ Agree(n) /\ ~n.fault
  <2>1. n \in Motors /\ SameDrive(n, m) /\ SameFlags(n, m)
    BY <1>1, SetDirectionStep DEF Loops
  <2>2. QED
    BY <2>1 DEF IInv, Drive, Agree, SameDrive, SameFlags
<1> HIDE DEF n
<1>9. Positive(c) \in Nat
  BY <1>4 DEF Positive
<1>10. /\ m' \in Motors /\ SameFlags(m', n)
       /\ Positive(c) = 0 => Still(m')
       /\ Positive(c) > 0 => DrivenAt(m', Clamp(Positive(c)))
  BY <1>3, <1>8, <1>9, SetFrequencyStep
<1>11. Clamp(Positive(c)) \in Nat /\ (Clamp(Positive(c)) = 0 <=> Positive(c) = 0)
  BY <1>9, ClampType, MotorAssumption DEF Frequencies
<1>12. CASE Positive(c) = 0
  BY <1>2, <1>4, <1>6, <1>7, <1>8, <1>10, <1>11, <1>12
  DEF Still, Agree, JustStarted, SameFlags, Motors
<1>13. CASE Positive(c) > 0
  BY <1>2, <1>4, <1>6, <1>7, <1>8, <1>10, <1>11, <1>13
  DEF DrivenAt, Agree, JustStarted, SameFlags, Motors
<1>14. QED
  BY <1>9, <1>12, <1>13

LEMMA RunPeriodInv ==
  ASSUME IInv, RunPeriod, UNCHANGED <<pc, arg>>
  PROVE  IInv'
<1>1. o.running /\ pc' = pc /\ pc \notin StartLabels
  BY DEF IInv, Stages, RunPeriod
<1>2. Types'
  BY RunPeriodStep DEF IInv, Types, Within
<1>3. Stages'
  BY <1>1, RunPeriodStep DEF IInv, Stages, RunPeriod
<1>4. Drive'
  BY <1>1, RunPeriodStep DEF Drive, StartLabels
<1>5. QED
  BY <1>2, <1>3, <1>4 DEF IInv

(* The shell's assignments keep the type of the loop.                        *)
LEMMA AssignType ==
  ASSUME o \in Loops
  PROVE  /\ \A v \in Int : [o EXCEPT !["cur"] = v] \in Loops
         /\ \A v \in Int : [o EXCEPT !["target"] = v] \in Loops
         /\ \A v \in Int : [o EXCEPT !["acc"] = v] \in Loops
         /\ \A v \in Nat : [o EXCEPT !["total"] = v] \in Loops
         /\ \A v \in BOOLEAN : [o EXCEPT !["pos_mode"] = v] \in Loops
         /\ \A v \in BOOLEAN : [o EXCEPT !["running"] = v] \in Loops
         /\ \A v \in {"CW", "CCW"} : [o EXCEPT !["dir"] = v] \in Loops
<1>1. \A v \in Int : /\ [o EXCEPT !["cur"] = v] \in Loops
                     /\ [o EXCEPT !["target"] = v] \in Loops
                     /\ [o EXCEPT !["acc"] = v] \in Loops
  BY DEF Loops
<1>2. \A v \in Nat : [o EXCEPT !["total"] = v] \in Loops
  BY DEF Loops
<1>3. \A v \in BOOLEAN : /\ [o EXCEPT !["pos_mode"] = v] \in Loops
                         /\ [o EXCEPT !["running"] = v] \in Loops
  BY DEF Loops
<1>4. \A v \in {"CW", "CCW"} : [o EXCEPT !["dir"] = v] \in Loops
  BY DEF Loops
<1>5. QED
  BY <1>1, <1>2, <1>3, <1>4

(* An assignment to a field that the invariant does not speak of, while the  *)
(* shell goes from one stage to the next.                                    *)
Neutral(k) == k \in Loops /\ k.running = o.running /\ k.cur = o.cur /\ k.target = o.target

LEMMA NeutralAssign ==
  ASSUME o \in Loops
  PROVE  /\ \A v \in Int : Neutral([o EXCEPT !["acc"] = v])
         /\ \A v \in Nat : Neutral([o EXCEPT !["total"] = v])
         /\ \A v \in BOOLEAN : Neutral([o EXCEPT !["pos_mode"] = v])
         /\ \A v \in {"CW", "CCW"} : Neutral([o EXCEPT !["dir"] = v])
BY AssignType DEF Neutral, Loops

(* The stages between which the shell may go without touching the motor.     *)
Quietly ==
  /\ pc' \in Labels
  /\ pc' \in StartLabels \cup StopLabels => ~o.running
  /\ pc' \in MoveLabels => o.running
  /\ pc' \in StartLabels \ {"start"} => pc \in StartLabels \ {"start"}
  /\ pc # "stop_motor" /\ pc # "start_run" /\ pc' # "start_run" /\ pc' # "stop_motor"

LEMMA NeutralInv ==
  ASSUME IInv, Neutral(o'), Quietly, m' = m, Within(arg'.speed),
         arg' \in [steps : Int, speed : Int]
  PROVE  IInv'
<1>1. Types'
  BY DEF IInv, Types, Neutral, Quietly, Within
<1>2. Stages'
  BY DEF IInv, Stages, Neutral, Quietly
<1>3. Drive'
  BY DEF IInv, Drive, Neutral, Quietly, JustStarted
<1>4. QED
  BY <1>1, <1>2, <1>3 DEF IInv

\* What the lemmas about the shell use of the invariant.
LEMMA Facts ==
  ASSUME IInv
  PROVE  /\ o \in Loops /\ m \in Motors /\ pc \in Labels
         /\ arg \in [steps : Int, speed : Int]
         /\ Within(o.cur) /\ Within(o.target) /\ Within(arg.speed)
         /\ Within(0) /\ Within(Accel)
BY OpenLoopAssumption DEF IInv, Types, Within

LEMMA StartingInv ==
  ASSUME IInv, Starting
  PROVE  IInv'
<1> USE Facts
<1>1. CASE Assign("start", "cur", Accel, "start_target")
  <2>1. o' \in Loops /\ o'.cur = Accel /\ o'.running = o.running /\ o'.target = o.target
    BY <1>1, AssignType, OpenLoopAssumption DEF Assign, Loops
  <2>2. pc = "start" /\ pc' = "start_target" /\ m' = m /\ arg' = arg
    BY <1>1 DEF Assign, Goto
  <2>3. ~o.running
    BY <2>2 DEF IInv, Stages, StartLabels
  <2>4. Types'
    BY <2>1, <2>2 DEF Types, Labels, StartLabels, StopLabels, MoveLabels, Within
  <2>5. Stages'
    BY <2>1, <2>2, <2>3 DEF Stages, StartLabels, MoveLabels
  <2>6. Drive'
    BY <2>1, <2>2, <2>3 DEF IInv, Drive
  <2>7. QED
    BY <2>4, <2>5, <2>6 DEF IInv
<1>2. CASE Assign("start_target", "target", Accel, "start_mode")
  <2>1. o' \in Loops /\ o'.cur = o.cur /\ o'.running = o.running /\ o'.target = Accel
    BY <1>2, AssignType, OpenLoopAssumption DEF Assign, Loops
  <2>2. pc = "start_target" /\ pc' = "start_mode" /\ m' = m /\ arg' = arg
    BY <1>2 DEF Assign, Goto
  <2>3. ~o.running /\ o.cur \in {0, Accel}
    BY <2>2 DEF IInv, Stages, StartLabels
  <2>4. Types'
    BY <2>1, <2>2 DEF Types, Labels, StartLabels, StopLabels, MoveLabels, Within
  <2>5. Stages'
    BY <2>1, <2>2, <2>3 DEF Stages, StartLabels, MoveLabels
  <2>6. Drive'
    BY <2>1, <2>2, <2>3 DEF IInv, Drive
  <2>7. QED
    BY <2>4, <2>5, <2>6 DEF IInv
<1>3. CASE Assign("start_mode", "pos_mode", FALSE, "start_acc")
  <2>1. Neutral(o') /\ m' = m /\ arg' = arg
    BY <1>3, NeutralAssign DEF Assign
  <2>2. Quietly
    BY <1>3 DEF IInv, Assign, Goto, Quietly, Stages, Labels, StartLabels, StopLabels,
                MoveLabels
  <2>3. QED
    BY <2>1, <2>2, NeutralInv
<1>4. CASE Assign("start_acc", "acc", 0, "start_motor")
  <2>1. Neutral([o EXCEPT !["acc"] = 0])
    BY DEF Neutral, Loops
  <2>2. Neutral(o') /\ m' = m /\ arg' = arg
    BY <1>4, <2>1 DEF Assign
  <2>3. Quietly
    BY <1>4 DEF IInv, Assign, Goto, Quietly, Stages, Labels, StartLabels, StopLabels,
                MoveLabels
  <2>4. QED
    BY <2>2, <2>3, NeutralInv
<1>5. CASE Goto("start_motor", "start_run") /\ m' = Start(m) /\ UNCHANGED <<o, arg>>
  <2>1. pc = "start_motor" /\ pc' = "start_run" /\ o' = o /\ arg' = arg
    BY <1>5 DEF Goto
  <2>2. ~o.running /\ o.cur \in {0, Accel} /\ Still(m) /\ ~m.fault
    BY <2>1 DEF IInv, Stages, StartLabels, Drive
  <2>3. /\ m' \in Motors /\ m'.oc /\ m'.running /\ m'.current_freq = 0 /\ ~m'.fault
    BY <1>5, <2>2, StartStep DEF Still
  <2>4. Types'
    BY <2>1, <2>3 DEF Types, Labels, StartLabels, StopLabels, MoveLabels, Within
  <2>5. Stages'
    BY <2>1, <2>2 DEF Stages, StartLabels, MoveLabels
  <2>6. Drive'
    BY <2>1, <2>2, <2>3 DEF Drive, Agree, JustStarted, Motors
  <2>7. QED
    BY <2>4, <2>5, <2>6 DEF IInv
<1>6. CASE Assign("start_run", "running", TRUE, IF arg = NoMove THEN "idle" ELSE "move")
  <2>1. o' \in Loops /\ o'.cur = o.cur /\ o'.running /\ o'.target = o.target
    BY <1>6, AssignType DEF Assign, Loops
  <2>2. pc = "start_run" /\ pc' \in {"idle", "move"} /\ m' = m /\ arg' = arg
    BY <1>6 DEF Assign, Goto
  <2>3. Types'
    BY <2>1, <2>2 DEF Types, Labels, StartLabels, StopLabels, MoveLabels, Within
  <2>4. Stages'
    BY <2>1, <2>2 DEF Stages, StartLabels, StopLabels
  <2>5. Drive'
    BY <2>1, <2>2 DEF IInv, Drive, JustStarted
  <2>6. QED
    BY <2>3, <2>4, <2>5 DEF IInv
<1>7. QED
  BY <1>1, <1>2, <1>3, <1>4, <1>5, <1>6 DEF Starting

LEMMA StoppingInv ==
  ASSUME IInv, Stopping
  PROVE  IInv'
<1> USE Facts
<1>1. CASE Assign("stop", "running", FALSE, "stop_motor")
  <2>1. o' \in Loops /\ o'.cur = o.cur /\ ~o'.running /\ o'.target = o.target
    BY <1>1, AssignType DEF Assign, Loops
  <2>2. pc = "stop" /\ pc' = "stop_motor" /\ m' = m /\ arg' = arg
    BY <1>1 DEF Assign, Goto
  <2>3. Types'
    BY <2>1, <2>2 DEF Types, Labels, StartLabels, StopLabels, MoveLabels, Within
  <2>4. Stages'
    BY <2>1, <2>2 DEF Stages, StartLabels, MoveLabels
  <2>5. Drive'
    BY <2>1, <2>2 DEF IInv, Drive
  <2>6. QED
    BY <2>3, <2>4, <2>5 DEF IInv
<1>2. CASE Goto("stop_motor", "stop_target") /\ m' = Stop(m) /\ UNCHANGED <<o, arg>>
  <2>1. pc = "stop_motor" /\ pc' = "stop_target" /\ o' = o /\ arg' = arg
    BY <1>2 DEF Goto
  <2>2. ~o.running /\ ~m.fault
    BY <2>1 DEF IInv, Stages, StopLabels, Drive
  <2>3. /\ m' \in Motors /\ Still(m') /\ ~m'.fault
    BY <1>2, <2>2, StopStep DEF SameFlags
  <2>4. Types'
    BY <2>1, <2>3 DEF Types, Labels, StartLabels, StopLabels, MoveLabels, Within
  <2>5. Stages'
    BY <2>1, <2>2 DEF Stages, StartLabels, MoveLabels
  <2>6. Drive'
    BY <2>1, <2>2, <2>3 DEF Drive, Agree, Still, Motors
  <2>7. QED
    BY <2>4, <2>5, <2>6 DEF IInv
<1>3. CASE \/ Assign("stop_target", "target", 0, "stop_cur")
           \/ Assign("stop_cur", "cur", 0, "stop_mode")
  <2>1. /\ o' \in Loops /\ o'.running = o.running
        /\ o'.cur \in {0, o.cur} /\ o'.target \in {0, o.target}
    BY <1>3, AssignType DEF Assign, Loops
  <2>2. /\ pc \in {"stop_target", "stop_cur"} /\ pc' \in {"stop_cur", "stop_mode"}
        /\ m' = m /\ arg' = arg
    BY <1>3 DEF Assign, Goto
  <2>3. ~o.running
    BY <2>2 DEF IInv, Stages, StopLabels
  <2>4. Types'
    BY <2>1, <2>2 DEF Types, Labels, StartLabels, StopLabels, MoveLabels, Within
  <2>5. Stages'
    BY <2>1, <2>2, <2>3 DEF Stages, StartLabels, MoveLabels
  <2>6. Drive'
    BY <2>1, <2>2, <2>3 DEF IInv, Drive
  <2>7. QED
    BY <2>4, <2>5, <2>6 DEF IInv
<1>4. CASE \/ Assign("stop_mode", "pos_mode", FALSE, "stop_acc")
           \/ Assign("stop_acc", "acc", 0, "idle")
  <2>1. Neutral([o EXCEPT !["acc"] = 0]) /\ Neutral([o EXCEPT !["pos_mode"] = FALSE])
    <3>1. Neutral([o EXCEPT !["acc"] = 0])
      BY DEF Neutral, Loops
    <3>2. Neutral([o EXCEPT !["pos_mode"] = FALSE])
      BY DEF Neutral, Loops
    <3>3. QED
      BY <3>1, <3>2
  <2>2. Neutral(o') /\ m' = m /\ arg' = arg
    BY <1>4, <2>1 DEF Assign
  <2>3. Quietly
    BY <1>4 DEF IInv, Assign, Goto, Quietly, Stages, Labels, StartLabels, StopLabels,
                MoveLabels
  <2>4. QED
    BY <2>2, <2>3, NeutralInv
<1>5. QED
  BY <1>1, <1>2, <1>3, <1>4 DEF Stopping

LEMMA MovingInv ==
  ASSUME IInv, Moving
  PROVE  IInv'
<1> USE Facts
<1>1. FreqHz * Abs(arg.steps) \in Nat
  <2>1. PICK k \in Nat : k = Abs(arg.steps)
    BY DEF Abs
  <2>2. QED
    BY <2>1, OpenLoopAssumption
<1>2. Neutral(o') /\ m' = m /\ arg' = arg
  <2>1. /\ Neutral([o EXCEPT !["acc"] = 0]) /\ Neutral([o EXCEPT !["pos_mode"] = TRUE])
        /\ Neutral([o EXCEPT !["total"] = FreqHz * Abs(arg.steps)])
        /\ Neutral([o EXCEPT !["dir"] = IF arg.steps >= 0 THEN "CW" ELSE "CCW"])
    <3>1. Neutral([o EXCEPT !["acc"] = 0])
      BY DEF Neutral, Loops
    <3>2. Neutral([o EXCEPT !["pos_mode"] = TRUE])
      BY DEF Neutral, Loops
    <3>3. Neutral([o EXCEPT !["total"] = FreqHz * Abs(arg.steps)])
      BY <1>1 DEF Neutral, Loops
    <3>4. Neutral([o EXCEPT !["dir"] = IF arg.steps >= 0 THEN "CW" ELSE "CCW"])
      BY DEF Neutral, Loops
    <3>5. QED
      BY <3>1, <3>2, <3>3, <3>4
  <2>2. QED
    BY <2>1 DEF Moving, Assign
<1>3. Quietly
  BY DEF IInv, Moving, Assign, Goto, Quietly, Stages, Labels, StartLabels, StopLabels,
         MoveLabels
<1>4. QED
  BY <1>2, <1>3, NeutralInv

LEMMA MoveEndInv ==
  ASSUME IInv, MoveEnd
  PROVE  IInv'
<1> USE Facts
<1>1. /\ o' \in Loops /\ o'.cur = o.cur /\ o'.running = o.running
      /\ o'.target = arg.speed
  BY DEF MoveEnd, Loops
<1>2. pc = "move_target" /\ pc' = "idle" /\ m' = m /\ arg' = NoMove
  BY DEF MoveEnd, Goto
<1>3. Types'
  BY <1>1, <1>2 DEF Types, Labels, StartLabels, StopLabels, MoveLabels, Within, NoMove
<1>4. o.running
  BY <1>2 DEF IInv, Stages, MoveLabels
<1>5. Stages'
  BY <1>1, <1>2, <1>4 DEF Stages, StartLabels, StopLabels
<1>6. Drive'
  BY <1>1, <1>2, <1>4 DEF IInv, Drive, JustStarted
<1>7. QED
  BY <1>3, <1>5, <1>6 DEF IInv

LEMMA CallInv ==
  ASSUME IInv, \/ StartCall \/ StopCall
               \/ \E f \in Speeds : SetFreq(f)
               \/ \E d \in {"CW", "CCW"} : SetDir(d)
               \/ \E steps \in Lengths, speed \in {f \in Speeds : f > 0} :
                     MoveCall(steps, speed)
  PROVE  IInv'
<1> USE Facts
<1>1. CASE StartCall \/ StopCall
  <2>1. Neutral(o') /\ m' = m /\ arg' = arg
    BY <1>1 DEF StartCall, StopCall, Call, Neutral
  <2>2. Quietly
    BY <1>1 DEF IInv, StartCall, StopCall, Call, Goto, Quietly, Stages, Labels,
                StartLabels, StopLabels, MoveLabels
  <2>3. QED
    BY <2>1, <2>2, NeutralInv
<1>2. ASSUME NEW f \in Speeds, SetFreq(f) PROVE IInv'
  <2>1. f \in Int /\ Within(f)
    BY FastestIs, OpenLoopAssumption DEF Within
  <2>2. o' \in Loops /\ o'.cur = o.cur /\ o'.running = o.running /\ o'.target = f
    BY <1>2, <2>1, AssignType DEF SetFreq, Assign, Loops
  <2>3. pc = "idle" /\ pc' = "idle" /\ m' = m /\ arg' = arg
    BY <1>2 DEF SetFreq, Assign, Goto
  <2>4. Types'
    BY <2>1, <2>2, <2>3 DEF Types, Labels, StartLabels, StopLabels, MoveLabels, Within
  <2>5. Stages' /\ Drive'
    BY <2>2, <2>3 DEF IInv, Stages, Drive, JustStarted
  <2>6. QED
    BY <2>4, <2>5 DEF IInv
<1>3. ASSUME NEW d \in {"CW", "CCW"}, SetDir(d) PROVE IInv'
  <2>1. Neutral(o') /\ m' = m /\ arg' = arg
    BY <1>3, NeutralAssign DEF SetDir, Assign
  <2>2. Quietly
    BY <1>3 DEF IInv, SetDir, Assign, Goto, Quietly, Stages, Labels, StartLabels,
                StopLabels, MoveLabels
  <2>3. QED
    BY <2>1, <2>2, NeutralInv
<1>4. ASSUME NEW steps \in Lengths, NEW speed \in {f \in Speeds : f > 0},
             MoveCall(steps, speed)
      PROVE  IInv'
  <2>1. speed \in Int /\ steps \in Int /\ Within(speed)
    BY FastestIs, OpenLoopAssumption DEF Within
  <2>2. Neutral(o') /\ m' = m
    BY <1>4 DEF MoveCall, Neutral
  <2>3. arg' \in [steps : Int, speed : Int] /\ Within(arg'.speed)
    BY <1>4, <2>1 DEF MoveCall
  <2>4. Quietly
    BY <1>4 DEF IInv, MoveCall, Goto, Quietly, Stages, Labels, StartLabels,
                StopLabels, MoveLabels
  <2>5. QED
    BY <2>2, <2>3, <2>4, NeutralInv
<1>5. QED
  BY <1>1, <1>2, <1>3, <1>4

(* The limits, the stages of the shell and the tie between ramp and motor    *)
(* hold in every state.                                                      *)
THEOREM Invariance == Spec => []IInv
<1>1. IInv /\ [Next]_vars => IInv'
  <2> SUFFICES ASSUME IInv, [Next]_vars PROVE IInv'
    OBVIOUS
  <2>1. CASE Period
    BY <2>1, RestPeriodInv, DonePeriodInv, RunPeriodInv DEF Period
  <2>2. CASE Continue
    BY <2>2, StartingInv, StoppingInv, MovingInv, MoveEndInv DEF Continue
  <2>3. CASE \/ StartCall \/ StopCall
             \/ \E f \in Speeds : SetFreq(f)
             \/ \E d \in {"CW", "CCW"} : SetDir(d)
             \/ \E steps \in Lengths, speed \in {f \in Speeds : f > 0} :
                   MoveCall(steps, speed)
    BY <2>3, CallInv
  <2>4. CASE UNCHANGED vars
    BY <2>4 DEF vars, IInv, Types, Stages, Drive, JustStarted
  <2>5. QED
    BY <2>1, <2>2, <2>3, <2>4 DEF Next
<1>2. QED
  BY InitInv, <1>1, PTL DEF Spec

(* The types of loop and motor, and the limits of their frequencies.         *)
THEOREM TypeCorrect == Spec => []TypeOK
<1>1. IInv => TypeOK
  BY DEF IInv, Types, TypeOK, Within
<1>2. QED
  BY Invariance, <1>1, PTL

(* A stopped loop leaves its motor still, for every interleaving of stop.    *)
THEOREM StopIsStill == Spec => []StoppedLoopIsStill
<1>1. IInv => StoppedLoopIsStill
  BY DEF IInv, Drive, Still, StoppedLoopIsStill
<1>2. QED
  BY Invariance, <1>1, PTL

\* What a motor is pulsed at, and that it is the frequency in force but between
\* a start and the first period.
LEMMA PulseRateIs ==
  ASSUME NEW n \in Motors
  PROVE  PulseRate(n) = (IF n.oc THEN n.hz ELSE 0) /\ PulseRate(n) \in Int
BY MotorAssumption DEF PulseRate, Rate, Abs, Motors, Frequencies

LEMMA PulsedAtFrequency ==
  ASSUME NEW n \in Motors, Agree(n), ~n.running => n.current_freq = 0,
         ~(n.running /\ n.current_freq = 0)
  PROVE  PulseRate(n) = n.current_freq
<1>1. n.current_freq \in Nat
  BY MotorAssumption DEF Motors, Frequencies
<1>2. QED
  BY <1>1, PulseRateIs DEF Agree

LEMMA StillRate ==
  ASSUME NEW n \in Motors, Still(n)
  PROVE  PulseRate(n) = 0
BY PulseRateIs DEF Still

\* The bound of RampIsSmooth on one step.
SmoothStep ==
  \/ PulseRate(m') = 0
  \/ Abs(PulseRate(m') - PulseRate(m)) <= Accel
  \/ JustStarted /\ PulseRate(m') <= 2 * Accel
  \/ pc = "start_motor" /\ pc' = "start_run" /\ PulseRate(m') = m.hz

LEMMA RunPeriodSmooth ==
  ASSUME IInv, RunPeriod
  PROVE  SmoothStep
<1>1. /\ o.cur \in Int /\ o'.cur \in Int /\ Abs(o'.cur - o.cur) <= Accel
      /\ m' \in Motors /\ Agree(m') /\ ~JustStarted'
      /\ ~m'.running => m'.current_freq = 0
      /\ m'.current_freq = Clamp(Positive(o'.cur))
  BY Facts, RunPeriodStep DEF Loops
<1>2. PulseRate(m') = Clamp(Positive(o'.cur))
  BY <1>1, PulsedAtFrequency DEF JustStarted
<1>3. CASE o'.cur <= 0
  <2>1. Clamp(Positive(o'.cur)) = 0
    BY <1>1, <1>3 DEF Clamp, Positive
  <2>2. QED
    BY <1>2, <2>1 DEF SmoothStep
<1>4. CASE o'.cur > 0 /\ JustStarted
  <2>1. o.cur \in {0, Accel}
    BY <1>4 DEF IInv, Drive, RunPeriod
  <2>2. o'.cur <= 2 * Accel
    BY <1>1, <2>1, OpenLoopAssumption DEF Abs
  <2>3. Clamp(Positive(o'.cur)) <= 2 * Accel
    BY <1>1, <1>4, <2>2, OpenLoopAssumption, MotorAssumption DEF Clamp, Positive
  <2>4. QED
    BY <1>2, <1>4, <2>3 DEF SmoothStep
<1>5. CASE o'.cur > 0 /\ ~JustStarted
  <2>1. /\ m \in Motors /\ Agree(m) /\ (~m.running => m.current_freq = 0)
        /\ m.current_freq = Clamp(Positive(o.cur))
    BY <1>5 DEF IInv, Types, Drive, RunPeriod
  <2>2. PulseRate(m) = Clamp(Positive(o.cur))
    BY <1>5, <2>1, PulsedAtFrequency DEF JustStarted
  <2>3. Abs(Clamp(Positive(o'.cur)) - Clamp(Positive(o.cur))) <= Accel
    BY <1>1, <1>5, ClampSmooth
  <2>4. QED
    BY <1>2, <2>2, <2>3 DEF SmoothStep
<1>6. QED
  BY <1>1, <1>3, <1>4, <1>5

(* What the motor is pulsed at changes by at most the ramp's step a period,  *)
(* but for a stop; a start pulses it at the registers' frequency, and the    *)
(* first period after that brings it to two steps from 0 Hz or less.         *)
THEOREM SmoothRamp == Spec => RampIsSmooth
<1>1. IInv /\ [Next]_vars => [SmoothStep]_vars
  <2> SUFFICES ASSUME IInv, Next PROVE SmoothStep
    OBVIOUS
  <2>1. CASE m' = m
    <3>1. PulseRate(m') = PulseRate(m) /\ PulseRate(m) \in Int
      BY <2>1, Facts, PulseRateIs
    <3>2. QED
      BY <3>1, OpenLoopAssumption DEF SmoothStep, Abs
  <2>2. CASE RunPeriod
    BY <2>2, RunPeriodSmooth
  <2>3. CASE DonePeriod
    <3>1. m' \in Motors /\ Still(m')
      BY <2>3, Facts, SetFrequencyStep DEF IInv, Drive, DonePeriod
    <3>2. QED
      BY <3>1, StillRate DEF SmoothStep
  <2>4. CASE Continue
    <3>1. CASE m' = m
      BY <2>1, <3>1
    <3>2. CASE m' = Stop(m)
      BY <3>2, Facts, StopStep, StillRate DEF SmoothStep
    <3>3. CASE Goto("start_motor", "start_run") /\ m' = Start(m)
      BY <3>3, Facts, StartStep, PulseRateIs DEF Goto, SmoothStep
    <3>4. QED
      BY <2>4, <3>1, <3>2, <3>3
      DEF Continue, Starting, Stopping, Moving, MoveEnd, Assign
  <2>5. CASE \/ RestPeriod \/ StartCall \/ StopCall
             \/ \E f \in Speeds : SetFreq(f)
             \/ \E d \in {"CW", "CCW"} : SetDir(d)
             \/ \E steps \in Lengths, speed \in {f \in Speeds : f > 0} :
                   MoveCall(steps, speed)
    <3>1. m' = m
      BY <2>5 DEF RestPeriod, StartCall, StopCall, Call, SetFreq, SetDir, Assign, MoveCall
    <3>2. QED
      BY <2>1, <3>1
  <2>6. QED
    BY <2>2, <2>3, <2>4, <2>5 DEF Next, Period
<1>2. [SmoothStep]_vars =>
        [\/ PulseRate(m') = 0
         \/ Abs(PulseRate(m') - PulseRate(m)) <= Accel
         \/ JustStarted /\ PulseRate(m') <= 2 * Accel
         \/ pc = "start_motor" /\ pc' = "start_run" /\ PulseRate(m') = m.hz]_vars
  BY DEF SmoothStep
<1>3. QED
  BY Invariance, <1>1, <1>2, PTL DEF Spec, RampIsSmooth

--------------------------------------------------------------------------------
\* How far a move ends from its length.

\* An undisturbed move before its last assignment.
Prepared ==
  /\ pc \notin StopLabels \cup {"stop"}
  /\ arg.steps \in Lengths /\ arg.speed > 0
  /\ pc \in MoveLabels \ {"move"} => o.pos_mode
  /\ pc \in {"move_acc", "move_dir", "move_target"} => o.total = FreqHz * Abs(arg.steps)
  /\ pc \in {"move_dir", "move_target"} => o.acc = 0

\* The steps counted stay clear of the bound, also while the loop turns back.
Counted ==
  /\ o.total \in Nat /\ o.total + TopFreq <= MaxAcc
  /\ o.acc \in -MaxAcc..MaxAcc /\ 0 <= o.acc + o.total
  /\ o.cur < 0 => o.cur * o.cur < 2 * Accel * (o.acc + o.total)

\* No period yet: there is room to brake.
Fresh == o.pos_mode /\ o.target > 0 /\ o.cur * o.cur < 2 * Accel * Remaining

\* There was room to brake from the frequency v before the last step.
RoomFrom(v) == Abs(o.cur - v) <= Accel /\ v * v < 2 * Accel * (Remaining + o.cur)
Cruising == o.pos_mode /\ o.target > 0 /\ \E v \in Int : RoomFrom(v)

\* With r to go at frequency v: braking ends neither far short of the length,
\* nor far past it.
Course(r, v) ==
  /\ 0 <= v /\ 0 < r + v
  /\ 2 * Accel * r <= v * v + Accel * (TopFreq - v)
  /\ v * v - Accel * v - 3 * Accel * TopFreq < 2 * Accel * r
Braking == o.pos_mode /\ o.target = 0 /\ Course(Remaining, o.cur)

Near(r) ==
  /\ 2 * r <= TopFreq \/ 2 * r <= FreqHz
  /\ r < 0 => r * r <= 3 * Accel * TopFreq
Ended == o.target = 0 /\ o.cur = 0 /\ Near(Remaining)

Undisturbed ==
  clean => IF pc = "idle"
           THEN o.running /\ Counted /\ (Fresh \/ Cruising \/ Braking \/ Ended)
           ELSE Prepared

MInv == IInv /\ Undisturbed

LEMMA TopIs ==
  /\ TopFreq \in Nat /\ Accel <= TopFreq
  /\ \A v \in Int : Within(v) => v <= TopFreq
BY FastestIs, OpenLoopAssumption DEF TopFreq, Within

(* Past the length after a step from a frequency with room to brake.         *)
LEMMA PastCruising ==
  ASSUME NEW a \in Nat, a > 0, NEW t \in Int, NEW v \in Int, v <= t, NEW u \in Int,
         u - v <= a, v - u <= a, NEW r \in Int, r < 0, u * u < 2 * a * (r + v)
  PROVE  r * r <= 3 * a * t
<1>1. r + v > 0
  OBVIOUS
<1>2. CASE v <= 3 * a
  <2>1. r * r <= v * v /\ v * v <= 3 * a * v
    BY <1>1, <1>2
  <2>2. 3 * a * v <= 3 * a * t
    OBVIOUS
  <2>3. QED
    BY <2>1, <2>2
<1>3. CASE v > 3 * a
  <2>1. (v - a) * (v - a) <= u * u
    BY <1>3
  <2>2. v < 4 * a /\ -2 * r < v
    BY <1>3, <2>1
  <2>3. r * r <= v * v /\ 4 * (r * r) <= v * v /\ v * v <= 4 * a * v
    BY <1>1, <2>2
  <2>4. a * v <= a * t /\ 0 <= a * t
    BY <1>3
  <2>5. QED
    BY <2>3, <2>4
<1>4. QED
  BY <1>2, <1>3

(* Past the length while braking.                                            *)
LEMMA PastBraking ==
  ASSUME NEW a \in Nat, a > 0, NEW t \in Int, NEW v \in Int, v <= t,
         NEW r \in Int, r < 0, r + v > 0, v * v - a * v - 3 * a * t < 2 * a * r
  PROVE  r * r <= 3 * a * t
OBVIOUS

(* A loop that still turns backwards has room to brake.                      *)
LEMMA BackwardsHasRoom ==
  ASSUME NEW a \in Nat, a > 0, NEW v \in Int, v < 0, NEW u \in Int,
         u - v <= a, v - u <= a, NEW r \in Int, u * u < 2 * a * (r + v)
  PROVE  v * v < 2 * a * r
OBVIOUS

(* It makes at most the steps a ramp down to 0 would.                        *)
LEMMA BackwardsCounts ==
  ASSUME NEW a \in Nat, a > 0, NEW v \in Int, v + a < 0,
         NEW s \in Int, v * v < 2 * a * s
  PROVE  (v + a) * (v + a) < 2 * a * (s + (v + a)) /\ 0 <= s + (v + a)
<1>1. (v + a) * (v + a) < 2 * a * (s + (v + a))
  OBVIOUS
<1>2. PICK w \in Nat : w = (v + a) * (v + a)
  OBVIOUS
<1>3. 0 < 2 * a * (s + (v + a))
  BY <1>1, <1>2
<1>4. QED
  BY <1>1, <1>3

(* The first step of the brake, from a frequency that was near one with room. *)
LEMMA CourseBegins ==
  ASSUME NEW v \in Int, Accel <= v, v <= TopFreq, NEW u \in Int,
         u - v <= Accel, v - u <= Accel, NEW r \in Int, 0 < r,
         u * u < 2 * Accel * (r + v), 2 * Accel * r <= v * v
  PROVE  Course(r - (v - Accel), v - Accel)
<1>1. Accel \in Nat \ {0} /\ TopFreq \in Nat
  BY OpenLoopAssumption, TopIs
<1>2. 2 * Accel * (r - (v - Accel))
        <= (v - Accel) * (v - Accel) + Accel * (TopFreq - (v - Accel))
  BY <1>1
<1>3. (v - Accel) * (v - Accel) - Accel * (v - Accel) - 3 * Accel * TopFreq
        < 2 * Accel * (r - (v - Accel))
  BY <1>1
<1>4. QED
  BY <1>1, <1>2, <1>3 DEF Course

(* A full step of the brake.                                                 *)
LEMMA CourseContinues ==
  ASSUME NEW v \in Int, Accel <= v, v <= TopFreq, NEW r \in Int, 0 < r, Course(r, v)
  PROVE  Course(r - (v - Accel), v - Accel)
<1>1. Accel \in Nat \ {0} /\ TopFreq \in Nat
  BY OpenLoopAssumption, TopIs
<1>2. 2 * Accel * (r - (v - Accel))
        <= (v - Accel) * (v - Accel) + Accel * (TopFreq - (v - Accel))
  BY <1>1 DEF Course
<1>3. (v - Accel) * (v - Accel) - Accel * (v - Accel) - 3 * Accel * TopFreq
        < 2 * Accel * (r - (v - Accel))
  BY <1>1 DEF Course
<1>4. QED
  BY <1>1, <1>2, <1>3 DEF Course

(* The last, shorter step, which may come short of the length.               *)
LEMMA CourseEnds ==
  ASSUME NEW v \in Int, 0 <= v, v <= Accel, NEW r \in Int, 0 < r,
         2 * Accel * r <= v * v + Accel * (TopFreq - v)
  PROVE  Course(r, 0)
<1>1. Accel \in Nat \ {0} /\ TopFreq \in Nat
  BY OpenLoopAssumption, TopIs
<1>2. v * v <= Accel * v
  BY <1>1
<1>3. 2 * Accel * r <= Accel * TopFreq
  BY <1>1, <1>2
<1>4. 0 < 2 * Accel * r /\ 0 <= 3 * Accel * TopFreq
  BY <1>1
<1>5. QED
  BY <1>1, <1>3, <1>4 DEF Course

(* A brake that has come to 0 is near the length.                            *)
LEMMA CourseAtRest ==
  ASSUME NEW r \in Int, Course(r, 0)
  PROVE  Near(r)
<1>1. Accel \in Nat \ {0} /\ TopFreq \in Nat
  BY OpenLoopAssumption, TopIs
<1>2. 0 < r /\ 2 * Accel * r <= Accel * TopFreq
  BY <1>1 DEF Course
<1>3. 2 * r <= TopFreq
  BY <1>1, <1>2
<1>4. QED
  BY <1>2, <1>3 DEF Near

\* What a period computes, field by field.
LEMMA RunPeriodFields ==
  ASSUME IInv, RunPeriod
  PROVE  LET t == IF Brakes THEN 0 ELSE o.target
             c == Ramp(o.cur, t)
         IN  /\ o'.target = t /\ o'.cur = c /\ o'.acc = Count(o.acc + c)
             /\ o'.total = o.total /\ o'.pos_mode = o.pos_mode /\ o'.running
<1> DEFINE t == IF Brakes THEN 0 ELSE o.target
           c == Ramp(o.cur, t)
           a == Count(o.acc + c)
<1>1. o \in Loops /\ o.running
  BY DEF IInv, Types, RunPeriod
<1>2. o' = WithRamp(o, t, c, a)
  BY DEF RunPeriod, WithRamp
<1>3. t \in Int
  BY <1>1 DEF Loops
<1> HIDE DEF t
<1>4. c \in Int
  BY <1>1, <1>3, RampRange DEF Loops
<1> HIDE DEF c
<1>5. a \in Int
  BY <1>1, <1>4, OpenLoopAssumption DEF Count, Loops
<1> HIDE DEF a
<1>6. /\ o'.target = t /\ o'.cur = c /\ o'.acc = a
      /\ o'.total = o.total /\ o'.pos_mode = o.pos_mode /\ o'.running
  BY <1>1, <1>2, <1>3, <1>4, <1>5, WithRampType
<1>7. QED
  BY <1>6 DEF t, c, a

\* What the lemmas about an undisturbed move use of it.
LEMMA MoveFacts ==
  ASSUME MInv, clean, pc = "idle"
  PROVE  /\ IInv /\ o.running /\ Counted /\ (Fresh \/ Cruising \/ Braking \/ Ended)
         /\ o \in Loops /\ o.cur \in Int /\ o.target \in Int /\ o.acc \in Int
         /\ o.total \in Nat /\ Remaining \in Int /\ o.cur <= TopFreq
         /\ Accel \in Nat \ {0} /\ TopFreq \in Nat /\ FreqHz \in Nat \ {0}
         /\ MaxAcc \in Nat /\ Accel <= TopFreq
BY Facts, TopIs, OpenLoopAssumption DEF MInv, Undisturbed, Loops, Remaining

(* A move that is not done has steps to go, but for one that has ended.      *)
LEMMA StepsToGo ==
  ASSUME MInv, clean, pc = "idle", ~Done, o.pos_mode
  PROVE  0 < Remaining
BY MoveFacts DEF Done

(* The ramp of a move, in each of its parts.                                 *)
LEMMA MoveRamp ==
  ASSUME MInv, clean, pc = "idle", RunPeriod
  PROVE  \/ /\ (Fresh \/ Cruising) /\ ~Brakes /\ o'.target = o.target
            /\ Abs(o'.cur - o.cur) <= Accel
            /\ o'.cur < 0 => o.cur < 0 /\ o'.cur = o.cur + Accel
         \/ /\ Cruising /\ Brakes /\ 0 <= o.cur /\ o'.target = 0
            /\ o'.cur = IF Accel <= o.cur THEN o.cur - Accel ELSE 0
         \/ /\ Braking /\ o'.target = 0
            /\ o'.cur = IF Accel <= o.cur THEN o.cur - Accel ELSE 0
         \/ Ended /\ o'.target = 0 /\ o'.cur = 0
<1> USE MoveFacts
<1>1. /\ o'.target = IF Brakes THEN 0 ELSE o.target
      /\ o'.cur = Ramp(o.cur, o'.target)
  BY RunPeriodFields
<1>2. ASSUME o.target > 0, ~Brakes
      PROVE  /\ o'.target = o.target /\ Abs(o'.cur - o.cur) <= Accel
             /\ o'.cur < 0 => o.cur < 0 /\ o'.cur = o.cur + Accel
  BY <1>1, <1>2 DEF Ramp, Abs
<1>3. ASSUME 0 <= o.cur, o'.target = 0
      PROVE  o'.cur = IF Accel <= o.cur THEN o.cur - Accel ELSE 0
  BY <1>1, <1>3 DEF Ramp
<1>4. CASE Fresh
  <2>1. ~Brakes
    <3>1. PICK q \in Int : q = o.cur * o.cur
      OBVIOUS
    <3>2. PICK p \in Int : p = 2 * Accel * Remaining
      OBVIOUS
    <3>3. QED
      BY <1>4, <3>1, <3>2 DEF Fresh, Brakes
  <2>2. QED
    BY <1>2, <1>4, <2>1 DEF Fresh
<1>5. CASE Cruising
  <2>1. CASE ~Brakes
    BY <1>2, <1>5, <2>1 DEF Cruising
  <2>2. CASE Brakes
    <3>1. PICK v \in Int : RoomFrom(v)
      BY <1>5 DEF Cruising
    <3>2. v - o.cur <= Accel /\ o.cur - v <= Accel
      BY <3>1 DEF RoomFrom, Abs
    <3>3. v * v < 2 * Accel * (Remaining + o.cur)
      BY <3>1 DEF RoomFrom
    <3>4. 2 * Accel * Remaining <= o.cur * o.cur
      BY <2>2 DEF Brakes
    <3>5. 0 <= o.cur
      <4>1. SUFFICES ASSUME o.cur < 0 PROVE FALSE
        OBVIOUS
      <4>2. o.cur * o.cur < 2 * Accel * Remaining
        BY <3>2, <3>3, <4>1, BackwardsHasRoom
      <4>3. PICK q \in Int : q = o.cur * o.cur
        OBVIOUS
      <4>4. PICK p \in Int : p = 2 * Accel * Remaining
        OBVIOUS
      <4>5. QED
        BY <3>4, <4>2, <4>3, <4>4
    <3>6. QED
      BY <1>1, <1>3, <1>5, <2>2, <3>5
  <2>3. QED
    BY <2>1, <2>2
<1>6. CASE Braking
  BY <1>1, <1>3, <1>6 DEF Braking, Course
<1>7. CASE Ended
  <2>1. o'.target = 0 /\ o.cur = 0
    BY <1>1, <1>7 DEF Ended
  <2>2. QED
    BY <1>3, <1>7, <2>1
<1>8. QED
  BY <1>4, <1>5, <1>6, <1>7

(* The steps of a move are counted without meeting the bound.                *)
LEMMA MoveCounts ==
  ASSUME MInv, clean, pc = "idle", RunPeriod
  PROVE  o'.acc = o.acc + o'.cur /\ Counted'
<1> USE MoveFacts
<1>1. /\ o'.acc = Count(o.acc + o'.cur) /\ o'.total = o.total
      /\ o'.cur \in Int /\ o'.cur <= TopFreq
  BY RunPeriodFields, RunPeriodStep, TopIs DEF Loops
<1>2. ASSUME o'.cur < 0
      PROVE  /\ o'.cur * o'.cur < 2 * Accel * ((o.acc + o'.cur) + o.total)
             /\ 0 <= (o.acc + o'.cur) + o.total
  <2>1. o.cur < 0 /\ o'.cur = o.cur + Accel
    BY <1>2, MoveRamp
  <2>2. PICK s \in Int : s = o.acc + o.total
    OBVIOUS
  <2>3. o.cur * o.cur < 2 * Accel * s
    BY <2>1, <2>2 DEF Counted
  <2>4. o'.cur * o'.cur < 2 * Accel * (s + o'.cur) /\ 0 <= s + o'.cur
    BY <1>2, <2>1, <2>2, <2>3, BackwardsCounts
  <2>5. s + o'.cur = (o.acc + o'.cur) + o.total
    BY <1>1, <2>2
  <2>6. QED
    BY <2>4, <2>5
<1>3. 0 <= (o.acc + o'.cur) + o.total
  BY <1>1, <1>2 DEF Counted
<1>4. -MaxAcc <= o.acc + o'.cur
  BY <1>1, <1>3 DEF Counted
<1>5. o.acc + o'.cur <= MaxAcc
  <2>1. CASE Ended
    BY <1>1, <2>1, MoveRamp DEF Counted, Ended, Fresh, Cruising, Braking, Course
  <2>2. CASE ~Ended
    <3>1. ~Done /\ o.pos_mode
      BY <2>2 DEF RunPeriod, Fresh, Cruising, Braking
    <3>2. o.acc < o.total
      BY <3>1, StepsToGo DEF Remaining
    <3>3. QED
      BY <1>1, <3>2 DEF Counted
  <2>3. QED
    BY <2>1, <2>2
<1>6. o'.acc = o.acc + o'.cur
  BY <1>1, <1>4, <1>5 DEF Count
<1>7. QED
  BY <1>1, <1>2, <1>3, <1>4, <1>5, <1>6 DEF Counted

\* A step of the brake, from a frequency with r to go.
BrakeTo(v) == IF Accel <= v THEN v - Accel ELSE 0

LEMMA CourseStep ==
  ASSUME NEW v \in Int, v <= TopFreq, NEW r \in Int, 0 < r, Course(r, v)
  PROVE  Course(r - BrakeTo(v), BrakeTo(v))
<1>1. CASE Accel <= v
  BY <1>1, CourseContinues DEF BrakeTo
<1>2. CASE ~(Accel <= v)
  <2>1. Course(r, 0)
    BY <1>2, CourseEnds, OpenLoopAssumption DEF Course
  <2>2. BrakeTo(v) = 0 /\ r - 0 = r
    BY <1>2 DEF BrakeTo
  <2>3. QED
    BY <2>1, <2>2
<1>3. QED
  BY <1>1, <1>2

LEMMA CourseFirstStep ==
  ASSUME NEW v \in Int, 0 <= v, v <= TopFreq, NEW u \in Int, u - v <= Accel, v - u <= Accel,
         NEW r \in Int, 0 < r, u * u < 2 * Accel * (r + v), 2 * Accel * r <= v * v
  PROVE  Course(r - BrakeTo(v), BrakeTo(v))
<1>1. CASE Accel <= v
  BY <1>1, CourseBegins DEF BrakeTo
<1>2. CASE ~(Accel <= v)
  <2>1. Accel \in Nat \ {0} /\ TopFreq \in Nat
    BY OpenLoopAssumption, TopIs
  <2>2. 0 <= Accel * (TopFreq - v)
    BY <2>1
  <2>3. 2 * Accel * r <= v * v + Accel * (TopFreq - v)
    BY <2>1, <2>2
  <2>4. Course(r, 0)
    BY <1>2, <2>1, <2>3, CourseEnds
  <2>5. BrakeTo(v) = 0 /\ r - 0 = r
    BY <1>2 DEF BrakeTo
  <2>6. QED
    BY <2>4, <2>5
<1>3. QED
  BY <1>1, <1>2

LEMMA RunPeriodMove ==
  ASSUME MInv, clean, pc = "idle", RunPeriod
  PROVE  o'.running /\ Counted' /\ (Fresh \/ Cruising \/ Braking \/ Ended)'
<1> USE MoveFacts
<1>1. /\ o'.running /\ o'.pos_mode = o.pos_mode /\ o'.cur \in Int
      /\ Remaining' = Remaining - o'.cur
  BY RunPeriodFields, RunPeriodStep, MoveCounts DEF Remaining, Loops
<1>2. o.pos_mode => 0 < Remaining
  BY StepsToGo DEF RunPeriod
<1>3. CASE /\ Fresh \/ Cruising
           /\ ~Brakes /\ o'.target = o.target /\ Abs(o'.cur - o.cur) <= Accel
  <2>1. o'.pos_mode /\ o'.target > 0
    BY <1>1, <1>3 DEF Fresh, Cruising
  <2>2. Abs(o'.cur - o.cur) <= Accel /\ Remaining' + o'.cur = Remaining
    BY <1>1, <1>3
  <2>3. o.cur * o.cur < 2 * Accel * (Remaining' + o'.cur)
    <3>1. PICK q \in Int : q = o.cur * o.cur
      OBVIOUS
    <3>2. PICK p \in Int : p = 2 * Accel * Remaining
      OBVIOUS
    <3>3. q < p
      BY <1>1, <1>3, <2>1, <3>1, <3>2 DEF Brakes
    <3>4. QED
      BY <2>2, <3>1, <3>2, <3>3
  <2>4. \E v \in Int : RoomFrom(v)'
    <3>1. PICK v \in Int : v = o.cur
      OBVIOUS
    <3>2. RoomFrom(v)'
      BY <2>2, <2>3, <3>1 DEF RoomFrom
    <3>3. QED
      BY <3>2
  <2>5. QED
    BY <1>1, <2>1, <2>4, MoveCounts DEF Cruising
<1>4. CASE /\ Cruising /\ Brakes /\ 0 <= o.cur /\ o'.target = 0
           /\ o'.cur = BrakeTo(o.cur)
  <2>1. PICK v \in Int : RoomFrom(v)
    BY <1>4 DEF Cruising
  <2>2. v - o.cur <= Accel /\ o.cur - v <= Accel
    BY <2>1 DEF RoomFrom, Abs
  <2>3. v * v < 2 * Accel * (Remaining + o.cur)
    BY <2>1 DEF RoomFrom
  <2>4. o.pos_mode /\ 2 * Accel * Remaining <= o.cur * o.cur
    BY <1>4 DEF Brakes
  <2>5. Course(Remaining - BrakeTo(o.cur), BrakeTo(o.cur))
    BY <1>2, <1>4, <2>2, <2>3, <2>4, CourseFirstStep
  <2>6. Braking'
    BY <1>1, <1>4, <2>4, <2>5 DEF Braking
  <2>7. QED
    BY <1>1, <2>6, MoveCounts
<1>5. CASE Braking /\ o'.target = 0 /\ o'.cur = BrakeTo(o.cur)
  <2>1. o.pos_mode /\ Course(Remaining, o.cur)
    BY <1>5 DEF Braking
  <2>2. Course(Remaining - BrakeTo(o.cur), BrakeTo(o.cur))
    BY <1>2, <2>1, CourseStep
  <2>3. Braking'
    BY <1>1, <1>5, <2>1, <2>2 DEF Braking
  <2>4. QED
    BY <1>1, <2>3, MoveCounts
<1>6. CASE Ended /\ o'.target = 0 /\ o'.cur = 0
  <2>1. Remaining' = Remaining
    BY <1>1, <1>6
  <2>2. Near(Remaining)'
    BY <1>6, <2>1 DEF Ended, Near
  <2>3. Ended'
    BY <1>6, <2>2 DEF Ended
  <2>4. QED
    BY <1>1, <2>3, MoveCounts
<1>7. QED
  BY <1>3, <1>4, <1>5, <1>6, MoveRamp DEF BrakeTo

(* A move that is done is near its length, wherever the ramp was.            *)
LEMMA DoneIsNear ==
  ASSUME MInv, clean, pc = "idle", Done
  PROVE  Near(Remaining)
<1> USE MoveFacts
<1>1. 2 * Remaining <= FreqHz
  BY DEF Done
<1>2. ASSUME Remaining < 0 PROVE Remaining * Remaining <= 3 * Accel * TopFreq
  <2>1. ~Fresh
    <3>1. PICK q \in Nat : q = o.cur * o.cur
      OBVIOUS
    <3>2. 2 * Accel * Remaining < 0
      BY <1>2
    <3>3. PICK p \in Int : p = 2 * Accel * Remaining
      OBVIOUS
    <3>4. QED
      BY <3>1, <3>2, <3>3 DEF Fresh
  <2>2. CASE Cruising
    <3>1. PICK v \in Int : RoomFrom(v)
      BY <2>2 DEF Cruising
    <3>2. v - o.cur <= Accel /\ o.cur - v <= Accel
      BY <3>1 DEF RoomFrom, Abs
    <3>3. v * v < 2 * Accel * (Remaining + o.cur)
      BY <3>1 DEF RoomFrom
    <3>4. /\ Accel \in Nat /\ Accel > 0 /\ TopFreq \in Int /\ o.cur \in Int
          /\ o.cur <= TopFreq /\ Remaining \in Int
      OBVIOUS
    <3>5. QED
      BY <1>2, <3>2, <3>3, <3>4, PastCruising, Zenon
  <2>3. CASE Braking
    <3>1. /\ Remaining + o.cur > 0
          /\ o.cur * o.cur - Accel * o.cur - 3 * Accel * TopFreq < 2 * Accel * Remaining
      BY <2>3 DEF Braking, Course
    <3>2. QED
      BY <1>2, <3>1, PastBraking
  <2>4. CASE Ended
    BY <1>2, <2>4 DEF Ended, Near
  <2>5. QED
    BY <2>1, <2>2, <2>3, <2>4
<1>3. QED
  BY <1>1, <1>2 DEF Near

LEMMA DonePeriodMove ==
  ASSUME MInv, clean, pc = "idle", DonePeriod
  PROVE  o'.running /\ Counted' /\ Ended'
<1> USE MoveFacts
<1>1. /\ o'.cur = 0 /\ o'.target = 0 /\ o'.running
      /\ o'.acc = o.acc /\ o'.total = o.total
  <2>1. o' = WithDone(o, 0, 0)
    BY DEF DonePeriod, WithDone
  <2>2. QED
    BY <2>1, WithDoneType
<1>2. Remaining' = Remaining
  BY <1>1 DEF Remaining
<1>3. Near(Remaining)
  BY DoneIsNear DEF DonePeriod
<1>4. Near(Remaining)'
  BY <1>2, <1>3 DEF Near
<1>5. QED
  BY <1>1, <1>4 DEF Ended, Counted

LEMMA PeriodUndisturbed ==
  ASSUME MInv, Period
  PROVE  Undisturbed'
<1> SUFFICES ASSUME clean' PROVE Undisturbed'
  BY DEF Undisturbed
<1>1. clean /\ pc = "idle" /\ pc' = "idle"
  BY DEF Period
<1>2. o.running
  BY <1>1, MoveFacts
<1>3. o'.running /\ Counted' /\ (Fresh \/ Cruising \/ Braking \/ Ended)'
  <2>1. CASE RunPeriod
    BY <1>1, <2>1, RunPeriodMove
  <2>2. CASE DonePeriod
    BY <1>1, <2>2, DonePeriodMove
  <2>3. QED
    BY <1>2, <2>1, <2>2 DEF Period, RestPeriod
<1>4. QED
  BY <1>1, <1>3 DEF Undisturbed

LEMMA StartingUndisturbed ==
  ASSUME MInv, Starting, UNCHANGED clean
  PROVE  Undisturbed'
<1> SUFFICES ASSUME clean PROVE Undisturbed'
  BY DEF Undisturbed
<1>1. pc # "idle" /\ pc' \in StartLabels \cup {"idle", "move"} /\ arg' = arg
  BY DEF Starting, Assign, Goto, StartLabels
<1>2. Prepared
  BY <1>1 DEF MInv, Undisturbed
<1>3. pc' # "idle"
  BY <1>2, Facts DEF MInv, Starting, Assign, Goto, Prepared, NoMove
<1>4. Prepared'
  BY <1>1, <1>2, <1>3 DEF Prepared, StartLabels, StopLabels, MoveLabels
<1>5. QED
  BY <1>3, <1>4 DEF Undisturbed

LEMMA StoppingUndisturbed ==
  ASSUME MInv, Stopping, UNCHANGED clean
  PROVE  Undisturbed'
<1>1. pc \in StopLabels \cup {"stop"} /\ pc # "idle"
  BY DEF Stopping, Assign, Goto, StopLabels
<1>2. QED
  BY <1>1 DEF MInv, Undisturbed, Prepared

LEMMA MovingUndisturbed ==
  ASSUME MInv, Moving, UNCHANGED clean
  PROVE  Undisturbed'
<1> SUFFICES ASSUME clean PROVE Undisturbed'
  BY DEF Undisturbed
<1>1. pc # "idle" /\ pc' # "idle" /\ arg' = arg
  BY DEF Moving, Assign, Goto
<1>2. Prepared /\ o \in Loops
  BY <1>1, Facts DEF MInv, Undisturbed
<1>3. CASE Assign("move", "pos_mode", TRUE, "move_total")
  <2>1. o'.pos_mode
    BY <1>2, <1>3 DEF Assign, Loops
  <2>2. QED
    BY <1>1, <1>2, <1>3, <2>1 DEF Undisturbed, Prepared, Assign, Goto, StopLabels, MoveLabels
<1>4. CASE Assign("move_total", "total", FreqHz * Abs(arg.steps), "move_acc")
  <2> DEFINE n == FreqHz * Abs(arg.steps)
  <2>1. o' = [o EXCEPT !["total"] = n]
    BY <1>4 DEF Assign
  <2> HIDE DEF n
  <2>2. o'.pos_mode = o.pos_mode /\ o'.total = n
    BY <1>2, <2>1 DEF Loops
  <2>3. o.pos_mode /\ pc' = "move_acc"
    BY <1>2, <1>4 DEF Assign, Goto, Prepared, MoveLabels
  <2>4. o'.total = FreqHz * Abs(arg'.steps)
    BY <1>1, <2>2 DEF n
  <2>5. QED
    BY <1>1, <1>2, <2>2, <2>3, <2>4 DEF Undisturbed, Prepared, StopLabels
<1>5. CASE Assign("move_acc", "acc", 0, "move_dir")
  <2>1. o'.pos_mode = o.pos_mode /\ o'.total = o.total /\ o'.acc = 0
    BY <1>2, <1>5 DEF Assign, Loops
  <2>2. pc = "move_acc" /\ pc' = "move_dir"
    BY <1>5 DEF Assign, Goto
  <2>3. QED
    BY <1>1, <1>2, <2>1, <2>2 DEF Undisturbed, Prepared, StopLabels, MoveLabels
<1>6. CASE Assign("move_dir", "dir", IF arg.steps >= 0 THEN "CW" ELSE "CCW", "move_target")
  <2>1. o'.pos_mode = o.pos_mode /\ o'.total = o.total /\ o'.acc = o.acc
    BY <1>2, <1>6 DEF Assign, Loops
  <2>2. pc = "move_dir" /\ pc' = "move_target"
    BY <1>6 DEF Assign, Goto
  <2>3. QED
    BY <1>1, <1>2, <2>1, <2>2 DEF Undisturbed, Prepared, StopLabels, MoveLabels
<1>7. QED
  BY <1>3, <1>4, <1>5, <1>6 DEF Moving

(* The last assignment of a move that has room to brake.                     *)
LEMMA MoveEndUndisturbed ==
  ASSUME MInv, MoveEnd
  PROVE  Undisturbed'
<1> SUFFICES ASSUME clean' PROVE Undisturbed'
  BY DEF Undisturbed
<1>1. /\ clean /\ pc = "move_target" /\ pc' = "idle"
      /\ o.cur * o.cur < 2 * Accel * Remaining
  <2>1. o.cur \in Int /\ Remaining \in Int /\ Accel \in Nat
    BY Facts, OpenLoopAssumption DEF MInv, Loops, Remaining
  <2>2. clean /\ pc = "move_target" /\ pc' = "idle" /\ 2 * Accel * Remaining > o.cur * o.cur
    BY DEF MoveEnd, Goto
  <2>3. PICK q \in Int : q = o.cur * o.cur
    BY <2>1
  <2>4. PICK p \in Int : p = 2 * Accel * Remaining
    BY <2>1
  <2>5. QED
    BY <2>2, <2>3, <2>4
<1>2. Prepared /\ o \in Loops
  BY <1>1, Facts DEF MInv, Undisturbed
<1>3. /\ o.pos_mode /\ o.acc = 0 /\ o.total = FreqHz * Abs(arg.steps)
      /\ arg.steps \in Lengths /\ arg.speed > 0
  BY <1>1, <1>2 DEF Prepared, MoveLabels
<1>4. /\ o'.running = o.running /\ o'.cur = o.cur /\ o'.pos_mode = o.pos_mode
      /\ o'.acc = o.acc /\ o'.total = o.total /\ o'.target = arg.speed
  BY <1>2 DEF MoveEnd, Loops
<1>5. Remaining' = Remaining /\ o'.cur * o'.cur < 2 * Accel * Remaining'
  <2>1. Remaining' = Remaining
    BY <1>4 DEF Remaining
  <2>2. QED
    BY <1>1, <1>4, <2>1
<1>6. Fresh'
  BY <1>3, <1>4, <1>5 DEF Fresh
<1>7. o.running
  BY <1>1 DEF MInv, IInv, Stages, MoveLabels
<1>8. Counted'
  <2>1. o.total + TopFreq <= MaxAcc
    BY <1>3, BoundAssumption
  <2>2. o.total \in Nat /\ TopFreq \in Nat /\ MaxAcc \in Nat
    BY <1>2, TopIs, OpenLoopAssumption DEF Loops
  <2>3. Remaining = o.acc + o.total
    BY <1>3, <2>2 DEF Remaining
  <2>4. o'.cur * o'.cur < 2 * Accel * (o'.acc + o'.total)
    BY <1>1, <1>4, <2>3
  <2>5. o'.acc \in -MaxAcc..MaxAcc /\ 0 <= o'.acc + o'.total
    BY <1>3, <1>4, <2>2
  <2>6. QED
    BY <1>4, <2>1, <2>2, <2>4, <2>5 DEF Counted
<1>9. QED
  BY <1>1, <1>4, <1>6, <1>7, <1>8 DEF Undisturbed

LEMMA CallUndisturbed ==
  ASSUME MInv, \/ StartCall \/ StopCall
               \/ \E f \in Speeds : SetFreq(f)
               \/ \E d \in {"CW", "CCW"} : SetDir(d)
               \/ \E steps \in Lengths, speed \in {f \in Speeds : f > 0} :
                     MoveCall(steps, speed)
  PROVE  Undisturbed'
<1>1. CASE \/ StartCall \/ StopCall
           \/ \E f \in Speeds : SetFreq(f)
           \/ \E d \in {"CW", "CCW"} : SetDir(d)
  BY <1>1 DEF Undisturbed, StartCall, StopCall, Call, SetFreq, SetDir
<1>2. ASSUME NEW steps \in Lengths, NEW speed \in {f \in Speeds : f > 0},
             MoveCall(steps, speed)
      PROVE  Undisturbed'
  <2>1. pc' \in {"move", "start"} /\ arg' = [steps |-> steps, speed |-> speed]
    BY <1>2 DEF MoveCall, Goto
  <2>2. Prepared'
    BY <2>1 DEF Prepared, StopLabels, MoveLabels
  <2>3. QED
    BY <2>1, <2>2 DEF Undisturbed
<1>3. QED
  BY <1>1, <1>2

(* A move that nothing interferes with keeps to the course that brakes it.   *)
THEOREM MoveInvariance == Spec => []Undisturbed
<1>1. Init => Undisturbed
  BY DEF Init, Undisturbed
<1>2. IInv /\ Undisturbed /\ [Next]_vars => Undisturbed'
  <2> SUFFICES ASSUME IInv, Undisturbed, [Next]_vars PROVE Undisturbed'
    OBVIOUS
  <2>1. MInv
    BY DEF MInv
  <2>2. CASE Period
    BY <2>1, <2>2, PeriodUndisturbed
  <2>3. CASE Continue
    BY <2>1, <2>3, StartingUndisturbed, StoppingUndisturbed, MovingUndisturbed,
       MoveEndUndisturbed DEF Continue
  <2>4. CASE \/ StartCall \/ StopCall
             \/ \E f \in Speeds : SetFreq(f)
             \/ \E d \in {"CW", "CCW"} : SetDir(d)
             \/ \E steps \in Lengths, speed \in {f \in Speeds : f > 0} :
                   MoveCall(steps, speed)
    BY <2>1, <2>4, CallUndisturbed
  <2>5. CASE UNCHANGED vars
    BY <2>5 DEF vars, Undisturbed, Prepared, Counted, Fresh, Cruising, RoomFrom,
                Braking, Course, Ended, Near, Remaining
  <2>6. QED
    BY <2>2, <2>3, <2>4, <2>5 DEF Next
<1>3. QED
  BY Invariance, <1>1, <1>2, PTL DEF Spec

(* How far a move ends from its length, for every ramp, period, length and   *)
(* frequency it starts from.                                                 *)
THEOREM EndsNear == Spec => []MoveEndsNear
<1>1. IInv /\ Undisturbed => MoveEndsNear
  <2> SUFFICES ASSUME IInv, Undisturbed, clean, pc = "idle", AtRest
               PROVE  Near(Remaining)
    BY DEF MoveEndsNear, Near
  <2>1. MInv
    BY DEF MInv
  <2>2. Braking \/ Ended
    BY <2>1, MoveFacts DEF AtRest, Fresh, Cruising
  <2>3. CASE Braking
    <3>1. ~JustStarted /\ m.current_freq = 0
      BY DEF IInv, Drive, AtRest, JustStarted
    <3>2. Clamp(Positive(o.cur)) = 0
      BY <2>1, <3>1, MoveFacts DEF IInv, Drive
    <3>3. o.cur = 0
      BY <2>1, <2>3, <3>2, MoveFacts, MotorAssumption DEF Clamp, Positive, Braking, Course
    <3>4. Course(Remaining, 0)
      BY <2>3, <3>3 DEF Braking
    <3>5. QED
      BY <2>1, <3>4, MoveFacts, CourseAtRest
  <2>4. QED
    BY <2>2, <2>3 DEF Ended
<1>2. QED
  BY Invariance, MoveInvariance, <1>1, PTL

--------------------------------------------------------------------------------
\* The contract.  Every step of the program is a step of LoopContract or one
\* that leaves its variables alone; this loop never looks at the fault pin.

ContractStep == [Contract!Next]_(Contract!vars)

\* A step the contract does not see.
Unseen == o.running' = o.running /\ m'.oc = m.oc /\ Calling' = Calling

LEMMA UnseenStep ==
  ASSUME Unseen
  PROVE  ContractStep
BY DEF Unseen, ContractStep, Contract!vars

LEMMA PeriodKeeps ==
  ASSUME IInv, IInv', Period
  PROVE  ContractStep
<1>1. o.running' = o.running /\ Calling' = Calling
  BY DEF Period, RestPeriod, DonePeriod, RunPeriod, Calling, IInv, Types, Loops
<1>2. CASE RestPeriod
  BY <1>1, <1>2, UnseenStep DEF RestPeriod, Unseen
<1>3. CASE ~RestPeriod
  <2>1. o.running /\ m'.oc \in BOOLEAN
    BY <1>3 DEF Period, DonePeriod, RunPeriod, IInv, Types, Motors
  <2>2. Contract!Control
    BY <1>1, <2>1 DEF Contract!Control
  <2>3. QED
    BY <2>2 DEF ContractStep, Contract!Next
<1>4. QED
  BY <1>2, <1>3

LEMMA StartingKeeps ==
  ASSUME IInv, Starting
  PROVE  ContractStep
<1>1. Calling = "start" /\ ~o.running /\ m \in Motors
  BY DEF Starting, Assign, Goto, Calling, StartLabels, IInv, Stages, Types
<1>2. CASE pc \notin {"start_motor", "start_run"}
  <2>1. m' = m /\ o.running' = o.running /\ pc' \in StartLabels
    BY <1>2 DEF Starting, Assign, Goto, StartLabels, IInv, Types, Loops
  <2>2. Calling' = "start"
    BY <2>1 DEF Calling, StartLabels
  <2>3. QED
    BY <1>1, <2>1, <2>2, UnseenStep DEF Unseen
<1>3. CASE pc = "start_motor"
  <2>1. m' = Start(m) /\ o.running' = o.running /\ pc' = "start_run"
    BY <1>3 DEF Starting, Assign, Goto
  <2>2. m'.oc /\ Calling' = "start"
    BY <1>1, <2>1, StartStep DEF Calling, StartLabels
  <2>3. Contract!Energise
    BY <1>1, <2>1, <2>2 DEF Contract!Energise
  <2>4. QED
    BY <2>3 DEF ContractStep, Contract!Next
<1>4. CASE pc = "start_run"
  <2>1. m' = m /\ o.running' /\ pc' \in {"idle", "move"}
    BY <1>4 DEF Starting, Assign, Goto, IInv, Types, Loops
  <2>2. Calling' \in {"none", "command"}
    BY <2>1 DEF Calling, StartLabels, StopLabels
  <2>3. Contract!Run
    BY <1>1, <2>1, <2>2 DEF Contract!Run
  <2>4. QED
    BY <2>3 DEF ContractStep, Contract!Next
<1>5. QED
  BY <1>2, <1>3, <1>4

LEMMA StoppingKeeps ==
  ASSUME IInv, Stopping
  PROVE  ContractStep
<1>1. Calling = "stop" /\ m \in Motors
  BY DEF Stopping, Assign, Goto, Calling, StartLabels, StopLabels, IInv, Types
<1>2. CASE pc = "stop"
  <2>1. m' = m /\ o.running' = FALSE /\ pc' = "stop_motor"
    BY <1>2 DEF Stopping, Assign, Goto, IInv, Types, Loops
  <2>2. Calling' = "stop"
    BY <2>1 DEF Calling, StartLabels, StopLabels
  <2>3. Contract!Halt
    BY <1>1, <2>1, <2>2 DEF Contract!Halt
  <2>4. QED
    BY <2>3 DEF ContractStep, Contract!Next
<1>3. CASE pc = "stop_motor"
  <2>1. m' = Stop(m) /\ o.running' = o.running /\ ~o.running /\ pc' \in StopLabels
    BY <1>3 DEF Stopping, Assign, Goto, IInv, Stages, StopLabels
  <2>2. ~m'.oc /\ Calling' = "stop"
    BY <1>1, <2>1, StopStep DEF Still, Calling, StartLabels, StopLabels
  <2>3. Contract!StopMotor
    BY <1>1, <2>1, <2>2 DEF Contract!StopMotor
  <2>4. QED
    BY <2>3 DEF ContractStep, Contract!Next
<1>4. CASE pc \in StopLabels \ {"stop_motor"}
  <2>1. m' = m /\ o.running' = o.running /\ pc' \in StopLabels \cup {"idle"}
    BY <1>4 DEF Stopping, Assign, Goto, StopLabels, IInv, Types, Loops
  <2>2. ~m.oc
    BY <1>4 DEF IInv, Stages, Drive, Still, StopLabels
  <2>3. CASE pc' = "idle"
    <3>1. Calling' = "none"
      BY <2>3 DEF Calling
    <3>2. Contract!Return
      BY <1>1, <2>1, <2>2, <3>1 DEF Contract!Return
    <3>3. QED
      BY <3>2 DEF ContractStep, Contract!Next
  <2>4. CASE pc' \in StopLabels
    <3>1. Calling' = "stop"
      BY <2>4 DEF Calling, StartLabels, StopLabels
    <3>2. QED
      BY <1>1, <2>1, <3>1, UnseenStep DEF Unseen
  <2>5. QED
    BY <2>1, <2>3, <2>4
<1>5. QED
  BY <1>2, <1>3, <1>4 DEF Stopping, Assign, Goto, StopLabels

\* The assignments of move, of which the last ends the call.
LEMMA CommandKeeps ==
  ASSUME IInv, Moving \/ MoveEnd
  PROVE  ContractStep
<1>1. /\ pc \in MoveLabels /\ pc' \in MoveLabels \cup {"idle"}
      /\ m' = m /\ o.running' = o.running
  BY DEF Moving, MoveEnd, Assign, Goto, MoveLabels, IInv, Types, Loops
<1>2. Calling = "command" /\ o.running
  BY <1>1 DEF IInv, Stages, Calling, StartLabels, StopLabels, MoveLabels
<1>3. CASE pc' = "idle"
  <2>1. Calling' = "none"
    BY <1>3 DEF Calling
  <2>2. Contract!Return
    BY <1>1, <1>2, <2>1 DEF Contract!Return
  <2>3. QED
    BY <2>2 DEF ContractStep, Contract!Next
<1>4. CASE pc' \in MoveLabels
  <2>1. Calling' = "command"
    BY <1>4 DEF Calling, StartLabels, StopLabels, MoveLabels
  <2>2. QED
    BY <1>1, <1>2, <2>1, UnseenStep DEF Unseen
<1>5. QED
  BY <1>1, <1>3, <1>4

LEMMA CallKeeps ==
  ASSUME pc = "idle", m' = m, o.running' = o.running,
         \/ pc' \in {"idle", "stop"}
         \/ pc' = "start" /\ ~o.running
         \/ pc' = "move" /\ o.running
  PROVE  ContractStep
<1>1. Calling = "none"
  BY DEF Calling
<1>2. CASE pc' = "idle"
  BY <1>1, <1>2, UnseenStep DEF Unseen, Calling
<1>3. CASE pc' = "stop"
  <2>1. Calling' = "stop"
    BY <1>3 DEF Calling, StartLabels
  <2>2. QED
    BY <1>1, <2>1 DEF ContractStep, Contract!Next, Contract!BeginStop
<1>4. CASE pc' = "start" /\ ~o.running
  <2>1. Calling' = "start"
    BY <1>4 DEF Calling, StartLabels
  <2>2. QED
    BY <1>1, <1>4, <2>1 DEF ContractStep, Contract!Next, Contract!BeginStart
<1>5. CASE pc' = "move" /\ o.running
  <2>1. Calling' = "command"
    BY <1>5 DEF Calling, StartLabels, StopLabels
  <2>2. QED
    BY <1>1, <1>5, <2>1 DEF ContractStep, Contract!Next, Contract!BeginCommand
<1>6. QED
  BY <1>2, <1>3, <1>4, <1>5

(* The open loop implements LoopContract: no call returns with the motor     *)
(* turning while no loop runs, whatever period fell between its assignments. *)
THEOREM KeepsItsContract == Spec => KeepsContract
<1>1. Init => Contract!Init
  <2> SUFFICES ASSUME Init PROVE Contract!Init
    OBVIOUS
  <2>1. ~m.oc
    BY InitialMotor DEF Init, Still
  <2>2. Calling = "none" /\ ~o.running
    BY DEF Init, Calling
  <2>3. QED
    BY <2>1, <2>2 DEF Contract!Init
<1>2. IInv /\ IInv' /\ [Next]_vars => ContractStep
  <2> SUFFICES ASSUME IInv, IInv', [Next]_vars PROVE ContractStep
    OBVIOUS
  <2>1. CASE Period
    BY <2>1, PeriodKeeps
  <2>2. CASE Starting
    BY <2>2, StartingKeeps
  <2>3. CASE Stopping
    BY <2>3, StoppingKeeps
  <2>4. CASE Moving \/ MoveEnd
    BY <2>4, CommandKeeps
  <2>5. CASE StartCall \/ StopCall
    <3>1. /\ pc = "idle" /\ m' = m /\ o' = o
          /\ \/ pc' = "stop"
             \/ pc' = "start" /\ ~o.running
      BY <2>5 DEF StartCall, StopCall, Call, Goto
    <3>2. QED
      BY <3>1, CallKeeps
  <2>6. CASE (\E f \in Speeds : SetFreq(f)) \/ (\E d \in {"CW", "CCW"} : SetDir(d))
    <3>1. pc = "idle" /\ pc' = "idle" /\ m' = m /\ o'.running = o.running
      BY <2>6 DEF SetFreq, SetDir, Assign, Goto, IInv, Types, Loops
    <3>2. QED
      BY <3>1, CallKeeps
  <2>7. CASE \E steps \in Lengths, speed \in {f \in Speeds : f > 0} : MoveCall(steps, speed)
    <3>1. /\ pc = "idle" /\ m' = m /\ o' = o
          /\ \/ pc' = "start" /\ ~o.running
             \/ pc' = "move" /\ o.running
      BY <2>7 DEF MoveCall, Goto
    <3>2. QED
      BY <3>1, CallKeeps
  <2>8. CASE UNCHANGED vars
    BY <2>8, UnseenStep DEF vars, Unseen, Calling
  <2>9. QED
    BY <2>1, <2>2, <2>3, <2>4, <2>5, <2>6, <2>7, <2>8 DEF Next, Continue
<1>3. QED
  BY Invariance, <1>1, <1>2, PTL DEF Spec, KeepsContract, Contract!Spec, ContractStep
================================================================================
