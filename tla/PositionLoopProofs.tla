-------------------------- MODULE PositionLoopProofs ---------------------------
(***************************************************************************)
(* Theorems about PositionLoop, for every shaft, output of the law, pin,   *)
(* target and sequence of calls.  A fault may stop the loop between any two *)
(* accesses of the shell; the invariant says where the shell may be with   *)
(* the motor turning although the loop does not run, and that a latched    *)
(* fault stays until the next start.                                       *)
(***************************************************************************)
EXTENDS PositionLoop, MotorOpsProofs

WaitLabels == {"move_poll", "move_fault", "move_wait"}

\* While start is under way the loop does not run; while move_to is, it runs
\* or a fault is latched.
Stages ==
  /\ pc \in {"start_fault"} \cup StartLabels => ~running
  /\ pc \in MoveLabels => running \/ m.fault

\* Where the motor may turn without the loop running.
Drive == ~running /\ pc \notin {"stop_motor", "start_run", "home_poll", "home_stop"} => ~m.oc

\* A latched fault has stopped loop and motor, until start clears it.
Latch ==
  m.fault => /\ ~running /\ pc \notin StartLabels
             /\ pc \notin {"home_poll", "home_stop"} => ~m.oc

\* A move that waits with no fault latched waits for its own target.
Goal == pc \in WaitLabels /\ ~m.fault => target = arg.goal

Sound(n) == n \in Motors /\ Agree(n)

\* The arguments of the shell's call.
Args == [goal : Targets \cup {0}, dir : {"CW", "CCW"}, timed : BOOLEAN, ok : BOOLEAN]

\* The inductive invariant; its inner part needs the arguments only in home.
Inner == Sound(m) /\ Stages /\ Drive /\ Latch /\ Goal
IInv == Inner /\ arg \in Args

--------------------------------------------------------------------------------
\* The motor.

LEMMA InitialSound ==
  ASSUME NEW n \in InitialMotors
  PROVE  LET k == [n EXCEPT !.idle = 0] IN Sound(k) /\ ~k.oc /\ ~k.fault
<1>1. n \in Motors /\ Still(n) /\ ~n.fault
  BY InitialMotor
<1>2. 0 \in 0..IdleTimeout
  BY MotorAssumption
<1>3. QED
  BY <1>1, <1>2 DEF Sound, Still, Agree, Motors

LEMMA ElapseStep ==
  ASSUME NEW n, Sound(n)
  PROVE  Sound(Elapse(n)) /\ Elapse(n).oc = n.oc /\ Elapse(n).fault = n.fault
<1> DEFINE i == Age(n).idle
<1>1. i \in 0..IdleTimeout
  <2>1. i = IF n.idle < IdleTimeout THEN n.idle + 1 ELSE n.idle
    BY DEF Age, Sound, Motors
  <2>2. n.idle \in 0..IdleTimeout
    BY DEF Sound, Motors
  <2>3. QED
    BY <2>1, <2>2, MotorAssumption
<1>2. Elapse(n) = [n EXCEPT !.idle = i]
  BY DEF Elapse
<1> HIDE DEF i
<1>3. QED
  BY <1>1, <1>2 DEF Sound, Agree, Motors

\* Single fields of the motor that its pulses do not depend on.
LEMMA FaultField ==
  ASSUME NEW n, Sound(n), NEW b \in BOOLEAN
  PROVE  /\ Sound([n EXCEPT !.fault = b]) /\ [n EXCEPT !.fault = b].oc = n.oc
         /\ [n EXCEPT !.fault = b].fault = b /\ [n EXCEPT !.fault = b].state = n.state
BY DEF Sound, Agree, Motors

LEMMA StateField ==
  ASSUME NEW n, Sound(n), NEW st \in States
  PROVE  /\ Sound([n EXCEPT !.state = st]) /\ [n EXCEPT !.state = st].oc = n.oc
         /\ [n EXCEPT !.state = st].fault = n.fault
BY DEF Sound, Agree, Motors

LEMMA EnField ==
  ASSUME NEW n, Sound(n), NEW b \in BOOLEAN
  PROVE  /\ Sound([n EXCEPT !.en = b]) /\ [n EXCEPT !.en = b].oc = n.oc
         /\ [n EXCEPT !.en = b].fault = n.fault
BY DEF Sound, Agree, Motors

LEMMA EnabledField ==
  ASSUME NEW n, Sound(n), NEW b \in BOOLEAN
  PROVE  /\ Sound([n EXCEPT !.enabled = b]) /\ [n EXCEPT !.enabled = b].oc = n.oc
         /\ [n EXCEPT !.enabled = b].fault = n.fault
BY DEF Sound, Agree, Motors

LEMMA LatchStep ==
  ASSUME NEW n, Sound(n), NEW low \in BOOLEAN
  PROVE  LET k == LatchFault(n, low) IN Sound(k) /\ k.fault = low /\ k.oc = n.oc
<1>1. CASE FaultLatches(n, low)
  <2> DEFINE j == [n EXCEPT !.fault = TRUE]
  <2>1. Sound(j) /\ j.oc = n.oc /\ j.fault = TRUE
    BY FaultField
  <2>2. LatchFault(n, low) = [j EXCEPT !.state = "FAULT"] /\ low = TRUE
    BY <1>1 DEF LatchFault, FaultLatches
  <2> HIDE DEF j
  <2>3. "FAULT" \in States
    BY DEF States
  <2>4. QED
    BY <2>1, <2>2, <2>3, StateField
<1>2. CASE ~FaultLatches(n, low)
  <2>1. LatchFault(n, low) = [n EXCEPT !.fault = low]
    BY <1>2 DEF LatchFault
  <2>2. QED
    BY <2>1, FaultField
<1>3. QED
  BY <1>1, <1>2

LEMMA StopSound ==
  ASSUME NEW n, Sound(n)
  PROVE  Sound(Stop(n)) /\ ~Stop(n).oc /\ Stop(n).fault = n.fault
BY StopStep DEF Sound, Still, Agree, Motors, SameFlags

LEMMA CheckStep ==
  ASSUME NEW n, Sound(n), NEW low \in BOOLEAN
  PROVE  Sound(CheckFault(n, low)) /\ CheckFault(n, low).fault = low
BY LatchStep, StopSound DEF CheckFault

LEMMA FrequencySound ==
  ASSUME NEW n, Sound(n), NEW f \in Nat
  PROVE  /\ Sound(SetFrequency(n, f)) /\ SetFrequency(n, f).fault = n.fault
         /\ f = 0 => ~SetFrequency(n, f).oc
<1> DEFINE k == SetFrequency(n, f)
<1>1. /\ k \in Motors /\ k.fault = n.fault
      /\ f = 0 => Still(k)
      /\ f > 0 => DrivenAt(k, Clamp(f))
  BY SetFrequencyStep DEF Sound, SameFlags
<1> HIDE DEF k
<1>2. Agree(k)
  BY <1>1 DEF Still, DrivenAt, Agree, Motors
<1>3. QED
  BY <1>1, <1>2 DEF Sound, Still, k

LEMMA DirectionSound ==
  ASSUME NEW n, Sound(n), NEW d \in {"CW", "CCW"}
  PROVE  LET k == SetDirection(n, d) IN Sound(k) /\ k.fault = n.fault /\ k.oc = n.oc
BY SetDirectionStep DEF Sound, SameFlags, SameDrive, Agree

LEMMA StartSound ==
  ASSUME NEW n, Sound(n)
  PROVE  Sound(Start(n)) /\ Start(n).fault = n.fault
BY StartStep DEF Sound, Agree, Motors

LEMMA EnableSound ==
  ASSUME NEW n, Sound(n)
  PROVE  LET k == Enable(n) IN Sound(k) /\ k.fault = n.fault /\ k.oc = n.oc
<1> DEFINE j == [n EXCEPT !.en = TRUE]
<1>1. Sound(j) /\ j.oc = n.oc /\ j.fault = n.fault
  BY EnField
<1>2. Enable(n) = [j EXCEPT !.enabled = TRUE]
  BY DEF Enable
<1> HIDE DEF j
<1>3. QED
  BY <1>1, <1>2, EnabledField

LEMMA ClearSound ==
  ASSUME NEW n, Sound(n)
  PROVE  LET k == ClearFault(n) IN Sound(k) /\ ~k.fault /\ k.oc = n.oc
<1> DEFINE j == [n EXCEPT !.fault = FALSE]
           st == IF n.state = "FAULT" THEN "IDLE" ELSE n.state
<1>1. Sound(j) /\ j.oc = n.oc /\ j.fault = FALSE /\ j.state = n.state
  BY FaultField
<1>2. ClearFault(n) = [j EXCEPT !.state = st]
  BY DEF ClearFault
<1>3. st \in States
  BY DEF Sound, Motors, States
<1> HIDE DEF j, st
<1>4. QED
  BY <1>1, <1>2, <1>3, StateField

\* A running period without a fault.
LEMMA DrivenSound ==
  ASSUME Sound(m), NEW f \in Int
  PROVE  Sound(Driven(f)) /\ ~Driven(f).fault
<1> DEFINE c == CheckFault(Elapse(m), FALSE)
           n == IdleTick(c)
           d == IF f > 0 THEN "CW" ELSE "CCW"
           k == SetDirection(n, d)
<1>1. Sound(c) /\ ~c.fault
  BY ElapseStep, CheckStep
<1> HIDE DEF c
<1>2. Sound(n) /\ ~n.fault
  BY <1>1, EnField DEF IdleTick, ReleaseEn
<1> HIDE DEF n
<1>3. Sound(k) /\ ~k.fault
  BY <1>2, DirectionSound
<1>4. Driven(f) = SetFrequency(k, Abs(f)) /\ Abs(f) \in Nat
  BY DEF Driven, Abs, c, n
<1> HIDE DEF k
<1>5. QED
  BY <1>3, <1>4, FrequencySound

--------------------------------------------------------------------------------
\* The actions, one lemma each.

LEMMA InitInv == Init => IInv
<1> SUFFICES ASSUME Init PROVE IInv
  OBVIOUS
<1>1. Sound(m) /\ ~m.oc /\ ~m.fault
  BY InitialSound DEF Init
<1>2. QED
  BY <1>1 DEF Init, IInv, Args, NoArg, Inner, Stages, Drive, Latch, Goal,
              StartLabels, MoveLabels, WaitLabels

LEMMA ArgsStep ==
  ASSUME arg \in Args, [Next]_vars
  PROVE  arg' \in Args
<1>1. NoArg \in Args
  BY DEF NoArg, Args
<1>2. CASE MoveCall
  <2>1. PICK t \in Targets, w \in BOOLEAN : arg' = [NoArg EXCEPT !.goal = t, !.timed = w]
    BY <1>2 DEF MoveCall
  <2>2. QED
    BY <2>1 DEF NoArg, Args
<1>3. CASE HomeCall
  <2>1. PICK d \in {"CW", "CCW"}, w \in BOOLEAN :
          arg' = [NoArg EXCEPT !.dir = d, !.timed = w]
    BY <1>3 DEF HomeCall
  <2>2. QED
    BY <2>1 DEF NoArg, Args
<1>4. CASE HomePoll
  BY <1>4 DEF HomePoll, Args
<1>5. CASE ~(MoveCall \/ HomeCall \/ HomePoll)
  <2>1. arg' \in {arg, NoArg}
    BY <1>5 DEF Next, Period, ControlPeriod, FaultPeriod, RestPeriod, Continue, Begin,
           Starting, Stopping, Move, MoveTarget, MovePoll, MoveFault, MoveWait,
           HomeMotor, HomeZero, StartCall, StopCall, ShaftMoves, FaultPinChanges,
           MotorStep, LoopStep, Look, Goto, vars
  <2>2. QED
    BY <1>1, <2>1
<1>6. QED
  BY <1>2, <1>3, <1>4, <1>5

LEMMA OutputType ==
  ASSUME NEW p, NEW f \in Outputs(p)
  PROVE  f \in Int
<1>1. MinFreq \in Int /\ MaxFreq \in Int
  BY MotorAssumption
<1>2. Sgn(target - p) \in {-1, 0, 1}
  BY DEF Sgn
<1>3. CASE Abs(target - p) <= Near
  <2>1. f = Sgn(target - p) * MinFreq
    BY <1>3 DEF Outputs
  <2>2. QED
    BY <1>1, <1>2, <2>1
<1>4. CASE ~(Abs(target - p) <= Near)
  BY <1>1, <1>4 DEF Outputs
<1>5. QED
  BY <1>3, <1>4

\* A step that keeps a sound motor's fault and pulses, and the loop.
Quiet == Sound(m') /\ m'.oc = m.oc /\ m'.fault = m.fault
KeepLoop == running' = running /\ target' = target

LEMMA PeriodInv ==
  ASSUME Inner, Period
  PROVE  Inner'
<1>1. Sound(m) /\ pc' = pc /\ arg' = arg
  BY DEF Inner, Period, ControlPeriod, FaultPeriod, RestPeriod
<1>2. CASE ControlPeriod
  <2>1. PICK f \in Outputs(Encoder) : m' = Driven(f)
    BY <1>2 DEF ControlPeriod
  <2>2. Sound(m') /\ ~m'.fault
    BY <1>1, <2>1, OutputType, DrivenSound
  <2>3. running /\ running' /\ target' = target /\ ~m.fault
    BY <1>2 DEF ControlPeriod, Inner, Latch
  <2>4. QED
    BY <1>1, <2>2, <2>3 DEF Inner, Stages, Drive, Latch, Goal
<1>3. CASE FaultPeriod
  <2> DEFINE c == CheckFault(Elapse(m), TRUE)
  <2>1. Sound(c) /\ c.fault
    BY <1>1, ElapseStep, CheckStep
  <2>2. m' = Stop(c)
    BY <1>3 DEF FaultPeriod
  <2> HIDE DEF c
  <2>3. Sound(m') /\ ~m'.oc /\ m'.fault
    BY <2>1, <2>2, StopSound
  <2>4. running /\ ~running'
    BY <1>3 DEF FaultPeriod
  <2>5. QED
    BY <1>1, <2>3, <2>4 DEF Inner, Stages, Drive, Latch, Goal
<1>4. CASE RestPeriod
  <2>1. Quiet
    BY <1>1, <1>4, ElapseStep DEF RestPeriod, Quiet
  <2>2. KeepLoop
    BY <1>4 DEF RestPeriod, KeepLoop, loop
  <2>3. QED
    BY <1>1, <2>1, <2>2 DEF Quiet, KeepLoop, Inner, Stages, Drive, Latch, Goal
<1>5. QED
  BY <1>2, <1>3, <1>4 DEF Period

LEMMA StartingInv ==
  ASSUME Inner, Starting
  PROVE  Inner'
<1>1. Sound(m) /\ ~running
  BY DEF Inner, Stages, Starting, MotorStep, LoopStep, StartLabels
<1>2. CASE pc = "start_fault"
  <2>1. m' = ClearFault(m) /\ pc' = "start_pos" /\ running' = running
    BY <1>2 DEF Starting, MotorStep, LoopStep, Goto, loop
  <2>2. Sound(m') /\ ~m'.fault /\ m'.oc = m.oc
    BY <1>1, <2>1, ClearSound
  <2>3. QED
    BY <1>1, <1>2, <2>1, <2>2
    DEF Inner, Stages, Drive, Latch, Goal, MoveLabels, WaitLabels
<1>3. CASE pc \in {"start_pos", "start_target"}
  <2>1. m' = m /\ running' = running /\ pc' \in {"start_target", "start_motor"}
    BY <1>3 DEF Starting, MotorStep, LoopStep, Goto
  <2>2. QED
    BY <1>1, <1>3, <2>1
    DEF Inner, Stages, Drive, Latch, Goal, MoveLabels, WaitLabels, StartLabels
<1>4. CASE pc = "start_motor"
  <2>1. m' = Start(m) /\ pc' = "start_run" /\ running' = running
    BY <1>4 DEF Starting, MotorStep, LoopStep, Goto, loop
  <2>2. Sound(m') /\ m'.fault = m.fault
    BY <1>1, <2>1, StartSound
  <2>3. ~m.fault
    BY <1>4 DEF Inner, Latch, StartLabels
  <2>4. QED
    BY <1>1, <2>1, <2>2, <2>3
    DEF Inner, Stages, Drive, Latch, Goal, MoveLabels, WaitLabels
<1>5. CASE pc = "start_run"
  <2>1. m' = m /\ pc' = "idle" /\ running'
    BY <1>5 DEF Starting, MotorStep, LoopStep, Goto
  <2>2. ~m.fault
    BY <1>5 DEF Inner, Latch, StartLabels
  <2>3. QED
    BY <1>1, <2>1, <2>2
    DEF Inner, Stages, Drive, Latch, Goal, MoveLabels, WaitLabels, StartLabels
<1>6. QED
  BY <1>2, <1>3, <1>4, <1>5 DEF Starting, MotorStep, LoopStep

LEMMA StoppingInv ==
  ASSUME Inner, Stopping
  PROVE  Inner'
<1>1. CASE pc = "stop_motor"
  <2>1. m' = Stop(m) /\ pc' = "stop_target" /\ running' = running
    BY <1>1 DEF Stopping, MotorStep, LoopStep, Goto, loop
  <2>2. Sound(m') /\ ~m'.oc /\ m'.fault = m.fault
    BY <2>1, StopSound DEF Inner
  <2>3. QED
    BY <2>1, <2>2
    DEF Inner, Stages, Drive, Latch, Goal, MoveLabels, WaitLabels, StartLabels
<1>2. CASE pc = "stop_target"
  <2>1. m' = m /\ pc' = "idle" /\ running' = running
    BY <1>2 DEF Stopping, MotorStep, LoopStep, Goto
  <2>2. QED
    BY <1>2, <2>1
    DEF Inner, Stages, Drive, Latch, Goal, MoveLabels, WaitLabels, StartLabels
<1>3. QED
  BY <1>1, <1>2 DEF Stopping, MotorStep, LoopStep

LEMMA MoveInv ==
  ASSUME Inner, Move
  PROVE  Inner'
<1>1. m' = m /\ running' = running /\ pc \in MoveLabels
  BY DEF Move, MoveTarget, MovePoll, MoveFault, MoveWait, Look, LoopStep, MoveLabels, loop
<1>2. CASE MoveTarget
  <2>1. pc = "move_target" /\ pc' = "move_poll" /\ target' = arg.goal /\ arg' = arg
    BY <1>2 DEF MoveTarget, LoopStep, Goto
  <2>2. QED
    BY <1>1, <2>1
    DEF Inner, Stages, Drive, Latch, Goal, MoveLabels, WaitLabels, StartLabels
<1>3. CASE MovePoll \/ MoveFault \/ MoveWait
  <2>1. /\ pc \in WaitLabels /\ target' = target
        /\ pc' \in WaitLabels \cup {"idle"} /\ (pc' # "idle" => arg' = arg)
    BY <1>3 DEF MovePoll, MoveFault, MoveWait, Look, LoopStep, Goto, WaitLabels, loop
  <2>2. QED
    BY <1>1, <2>1
    DEF Inner, Stages, Drive, Latch, Goal, MoveLabels, WaitLabels, StartLabels
<1>4. QED
  BY <1>2, <1>3 DEF Move

\* A step of home keeps the loop and its labels.
Homing == pc' \in HomeLabels \cup {"idle"} /\ running' = running

LEMMA HomingInv ==
  ASSUME Inner, Homing, Sound(m'), m'.fault = m.fault,
         \/ ~m'.oc
         \/ m'.oc = m.oc /\ pc \notin {"home_poll", "home_stop", "stop_motor", "start_run"}
         \/ pc' \in {"home_poll", "home_stop"}
  PROVE  Inner'
<1>1. pc' \notin StartLabels \cup MoveLabels \cup WaitLabels \cup {"start_fault", "stop_motor"}
  BY DEF Homing, HomeLabels, StartLabels, MoveLabels, WaitLabels
<1>2. Stages' /\ Goal'
  BY <1>1 DEF Stages, Goal, StartLabels
<1>3. Drive'
  BY DEF Homing, Inner, Drive
<1>4. Latch'
  BY <1>1 DEF Homing, Inner, Latch
<1>5. QED
  BY <1>2, <1>3, <1>4 DEF Inner

LEMMA HomeStep ==
  ASSUME Inner, arg \in Args, HomeMotor \/ HomeZero
  PROVE  /\ pc \in HomeLabels /\ Homing
         /\ Sound(m') /\ m'.fault = m.fault
         /\ \/ ~m'.oc
            \/ m'.oc = m.oc /\ pc \notin {"home_poll", "home_stop"}
            \/ pc' \in {"home_poll", "home_stop"}
<1>1. Sound(m)
  BY DEF Inner
<1>2. pc \in HomeLabels /\ Homing
  BY DEF HomeMotor, HomeZero, HomePoll, MotorStep, Look, LoopStep, Goto, Homing,
         HomeLabels, loop
<1>3. CASE pc = "home_dir"
  <2>1. /\ m' = SetDirection(m, arg.dir)
        /\ arg.dir \in {"CW", "CCW"}
    BY <1>3 DEF HomeMotor, HomeZero, HomePoll, MotorStep, Look, LoopStep, Args
  <2>2. Sound(m') /\ m'.fault = m.fault /\ m'.oc = m.oc
    BY <1>1, <2>1, DirectionSound
  <2>3. QED
    BY <1>2, <1>3, <2>2
<1>4. CASE pc = "home_enable"
  <2>1. m' = Enable(m)
    BY <1>4 DEF HomeMotor, HomeZero, HomePoll, MotorStep, Look, LoopStep
  <2>2. Sound(m') /\ m'.fault = m.fault /\ m'.oc = m.oc
    BY <1>1, <2>1, EnableSound
  <2>3. QED
    BY <1>2, <1>4, <2>2
<1>5. CASE pc = "home_run"
  <2>1. m' = SetFrequency(m, MaxFreq) /\ pc' = "home_poll"
    BY <1>5 DEF HomeMotor, HomeZero, HomePoll, MotorStep, Look, LoopStep, Goto
  <2>2. Sound(m') /\ m'.fault = m.fault
    BY <1>1, <2>1, FrequencySound, MotorAssumption
  <2>3. QED
    BY <1>2, <2>1, <2>2
<1>6. CASE pc = "home_stop"
  <2>1. m' = SetFrequency(m, 0)
    BY <1>6 DEF HomeMotor, HomeZero, HomePoll, MotorStep, Look, LoopStep
  <2>2. Sound(m') /\ m'.fault = m.fault /\ ~m'.oc
    BY <1>1, <2>1, FrequencySound
  <2>3. QED
    BY <1>2, <2>2
<1>7. CASE pc = "home_end"
  <2>1. m' = [m EXCEPT !.state = "IDLE"]
    BY <1>7 DEF HomeMotor, HomeZero, HomePoll, MotorStep, Look, LoopStep
  <2>2. "IDLE" \in States
    BY DEF States
  <2>3. Sound(m') /\ m'.fault = m.fault /\ m'.oc = m.oc
    BY <1>1, <2>1, <2>2, StateField
  <2>4. QED
    BY <1>2, <1>7, <2>3
<1>8. CASE pc \in {"home_check", "home_poll", "home_clear", "home_current", "home_target"}
  <2>1. m' = m /\ (pc = "home_poll" => pc' = "home_stop")
    BY <1>8 DEF HomeMotor, HomeZero, HomePoll, MotorStep, Look, LoopStep
  <2>2. QED
    BY <1>1, <1>2, <1>8, <2>1
<1>9. QED
  BY <1>2, <1>3, <1>4, <1>5, <1>6, <1>7, <1>8 DEF HomeLabels

LEMMA HomeInv ==
  ASSUME Inner, arg \in Args, HomeMotor \/ HomeZero
  PROVE  Inner'
<1>1. pc \notin {"stop_motor", "start_run"}
  BY HomeStep DEF HomeLabels
<1>2. QED
  BY <1>1, HomeStep, HomingInv

LEMMA BeginInv ==
  ASSUME Inner, Begin
  PROVE  Inner'
<1>1. Sound(m) /\ pc = "idle"
  BY DEF Inner, Begin, StartCall, StopCall, MoveCall, HomeCall, Call
<1>2. CASE StartCall
  <2>1. m' = m /\ running' = running /\ ~running /\ pc' = "start_fault"
    BY <1>2 DEF StartCall, Look, LoopStep, Goto, loop
  <2>2. QED
    BY <1>1, <2>1
    DEF Inner, Stages, Drive, Latch, Goal, MoveLabels, WaitLabels, StartLabels
<1>3. CASE StopCall
  <2>1. m' = m /\ ~running' /\ pc' = "stop_motor"
    BY <1>3 DEF StopCall, LoopStep, Goto
  <2>2. QED
    BY <1>1, <2>1
    DEF Inner, Stages, Drive, Latch, Goal, MoveLabels, WaitLabels, StartLabels
<1>4. CASE MoveCall
  <2>1. m' = m /\ running' /\ running /\ ~m.fault /\ pc' = "move_target"
    BY <1>4 DEF MoveCall, loop
  <2>2. QED
    BY <1>1, <2>1
    DEF Inner, Stages, Drive, Latch, Goal, MoveLabels, WaitLabels, StartLabels
<1>5. CASE HomeCall
  <2>1. m' = [m EXCEPT !.state = "HOMING"] /\ pc' = "home_dir" /\ running' = running
    BY <1>5 DEF HomeCall, loop
  <2>2. "HOMING" \in States
    BY DEF States
  <2>3. Sound(m') /\ m'.fault = m.fault /\ m'.oc = m.oc
    BY <1>1, <2>1, <2>2, StateField
  <2>4. Homing
    BY <2>1 DEF Homing, HomeLabels
  <2>5. QED
    BY <1>1, <2>3, <2>4, HomingInv
<1>6. QED
  BY <1>2, <1>3, <1>4, <1>5 DEF Begin

LEMMA StepInv == IInv /\ [Next]_vars => IInv'
<1> SUFFICES ASSUME IInv, [Next]_vars PROVE Inner'
  BY ArgsStep DEF IInv
<1> USE DEF IInv
<1>1. CASE Period
  BY <1>1, PeriodInv
<1>2. CASE Continue
  BY <1>2, StartingInv, StoppingInv, MoveInv, HomeInv DEF Continue
<1>3. CASE Begin
  BY <1>3, BeginInv
<1>4. CASE ShaftMoves \/ FaultPinChanges \/ UNCHANGED vars
  BY <1>4 DEF ShaftMoves, FaultPinChanges, vars, loop, Inner, Stages, Drive, Latch, Goal
<1>5. QED
  BY <1>1, <1>2, <1>3, <1>4 DEF Next

--------------------------------------------------------------------------------

(* Motor and flags agree; where the shell may be with the motor turning and  *)
(* no loop running, and that a latched fault has stopped both, hold in every *)
(* state.                                                                    *)
THEOREM Invariance == Spec => []IInv
BY InitInv, StepInv, PTL DEF Spec

(* A loop that was stopped, by the shell or by a fault in the middle of      *)
(* another call, has also left the motor stopped.                            *)
THEOREM StopIsStill == Spec => []StoppedLoopIsStill
<1>1. IInv => StoppedLoopIsStill
  BY DEF IInv, Inner, Drive, StoppedLoopIsStill
<1>2. QED
  BY Invariance, <1>1, PTL

(* With a fault latched the motor is stopped, save for a home under way.     *)
THEOREM FaultIsStill == Spec => []LatchedFaultIsStill
<1>1. IInv => LatchedFaultIsStill
  BY DEF IInv, Inner, Latch, LatchedFaultIsStill, HomeLabels
<1>2. QED
  BY Invariance, <1>1, PTL

ArrivedStep ==
  pc = "move_poll" /\ pc' = "idle" /\ ~m.fault => Abs(arg.goal - current) < Threshold

(* move_to, returning OK with no fault latched, has seen the loop at the     *)
(* goal it was called with.                                                  *)
THEOREM MoveArrives == Spec => MoveOkMeansArrived
<1>1. IInv /\ [Next]_vars => [ArrivedStep]_vars
  <2> SUFFICES ASSUME IInv, Next, pc = "move_poll", pc' = "idle", ~m.fault
               PROVE  Abs(arg.goal - current) < Threshold
    BY DEF ArrivedStep
  <2>1. IsArrived
    BY DEF Next, Period, ControlPeriod, FaultPeriod, RestPeriod, Continue, Begin,
           Starting, Stopping, Move, MoveTarget, MovePoll, MoveFault, MoveWait,
           HomeMotor, HomePoll, HomeZero, StartCall, StopCall, MoveCall, HomeCall, Call,
           ShaftMoves, FaultPinChanges, MotorStep, LoopStep, Look, Goto
  <2>2. target = arg.goal
    BY DEF IInv, Inner, Goal, WaitLabels
  <2>3. QED
    BY <2>1, <2>2 DEF IsArrived
<1>2. [ArrivedStep]_vars =>
        [pc = "move_poll" /\ pc' = "idle" /\ ~m.fault
           => Abs(arg.goal - current) < Threshold]_vars
  BY DEF ArrivedStep
<1>3. QED
  BY Invariance, <1>1, <1>2, PTL DEF Spec, MoveOkMeansArrived

--------------------------------------------------------------------------------
\* The contract.  Every step of the program is a step of LoopContract or one
\* that leaves its variables alone.

ContractStep == [Contract!Next]_(Contract!vars)

\* A step the contract does not see.
Unseen ==
  running' = running /\ m'.fault = m.fault /\ m'.oc = m.oc /\ Calling' = Calling

LEMMA UnseenStep ==
  ASSUME Unseen
  PROVE  ContractStep
BY DEF Unseen, ContractStep, Contract!vars

LEMMA PeriodKeeps ==
  ASSUME Inner, Inner', Period
  PROVE  ContractStep
<1>1. Calling' = Calling
  BY DEF Period, ControlPeriod, FaultPeriod, RestPeriod, Calling
<1>2. CASE ControlPeriod
  <2>1. PICK f \in Outputs(Encoder) : m' = Driven(f)
    BY <1>2 DEF ControlPeriod
  <2>2. ~m'.fault /\ ~m.fault /\ running /\ running' /\ m'.oc \in BOOLEAN
    BY <1>2, <2>1, OutputType, DrivenSound DEF ControlPeriod, Inner, Latch, Sound, Motors
  <2>3. m'.fault = m.fault
    BY <2>2 DEF Inner, Sound, Motors
  <2>4. Contract!Control
    BY <1>1, <1>2, <2>2, <2>3 DEF Contract!Control, ControlPeriod
  <2>5. QED
    BY <2>4 DEF ContractStep, Contract!Next
<1>3. CASE FaultPeriod
  <2> DEFINE c == CheckFault(Elapse(m), TRUE)
  <2>1. Sound(c) /\ c.fault
    BY ElapseStep, CheckStep DEF Inner
  <2>2. m' = Stop(c) /\ running /\ ~running'
    BY <1>3 DEF FaultPeriod
  <2> HIDE DEF c
  <2>3. ~m'.oc /\ m'.fault
    BY <2>1, <2>2, StopSound
  <2>4. Contract!Trip
    BY <1>1, <2>2, <2>3 DEF Contract!Trip
  <2>5. QED
    BY <2>4 DEF ContractStep, Contract!Next
<1>4. CASE RestPeriod
  <2>1. m'.oc = m.oc /\ m'.fault = m.fault /\ running' = running
    BY <1>4, ElapseStep DEF RestPeriod, Inner, loop
  <2>2. QED
    BY <1>1, <2>1, UnseenStep DEF Unseen
<1>5. QED
  BY <1>2, <1>3, <1>4 DEF Period

LEMMA StartingKeeps ==
  ASSUME Inner, Inner', Starting
  PROVE  ContractStep
<1>1. Sound(m) /\ ~running /\ Calling = "start"
  BY DEF Inner, Stages, Starting, MotorStep, LoopStep, StartLabels, Calling
<1>2. CASE pc = "start_fault"
  <2>1. m' = ClearFault(m) /\ pc' = "start_pos" /\ running' = running
    BY <1>2 DEF Starting, MotorStep, LoopStep, Goto, loop
  <2>2. ~m'.fault /\ m'.oc = m.oc /\ Calling' = Calling
    BY <1>1, <2>1, ClearSound DEF Calling, StartLabels
  <2>3. Contract!ClearFault
    BY <1>1, <2>1, <2>2 DEF Contract!ClearFault
  <2>4. QED
    BY <2>3 DEF ContractStep, Contract!Next
<1>3. CASE pc \in {"start_pos", "start_target"}
  <2>1. m' = m /\ running' = running /\ pc' \in {"start_target", "start_motor"}
    BY <1>3 DEF Starting, MotorStep, LoopStep, Goto
  <2>2. Calling' = Calling
    BY <1>1, <2>1 DEF Calling, StartLabels
  <2>3. QED
    BY <2>1, <2>2, UnseenStep DEF Unseen
<1>4. CASE pc = "start_motor"
  <2>1. m' = Start(m) /\ pc' = "start_run" /\ running' = running
    BY <1>4 DEF Starting, MotorStep, LoopStep, Goto, loop
  <2>2. m'.fault = m.fault /\ m'.oc /\ ~m.fault /\ Calling' = Calling
    BY <1>1, <1>4, <2>1, StartSound, StartStep DEF Sound, Inner, Latch, StartLabels, Calling
  <2>3. Contract!Energise
    BY <1>1, <2>1, <2>2 DEF Contract!Energise
  <2>4. QED
    BY <2>3 DEF ContractStep, Contract!Next
<1>5. CASE pc = "start_run"
  <2>1. m' = m /\ pc' = "idle" /\ running'
    BY <1>5 DEF Starting, MotorStep, LoopStep, Goto
  <2>2. ~m.fault /\ Calling' = "none"
    BY <1>5, <2>1 DEF Inner, Latch, StartLabels, Calling
  <2>3. Contract!Run
    BY <1>1, <2>1, <2>2 DEF Contract!Run
  <2>4. QED
    BY <2>3 DEF ContractStep, Contract!Next
<1>6. QED
  BY <1>2, <1>3, <1>4, <1>5 DEF Starting, MotorStep, LoopStep

LEMMA StoppingKeeps ==
  ASSUME Inner, Stopping
  PROVE  ContractStep
<1>1. CASE pc = "stop_motor"
  <2>1. m' = Stop(m) /\ pc' = "stop_target" /\ running' = running
    BY <1>1 DEF Stopping, MotorStep, LoopStep, Goto, loop
  <2>2. /\ m'.oc = FALSE /\ m'.fault = m.fault
        /\ Calling = "stop" /\ Calling' = "stop"
    BY <1>1, <2>1, StopSound DEF Inner, Sound, Motors, Calling, StartLabels
  <2>3. CASE ~running
    BY <2>1, <2>2, <2>3 DEF ContractStep, Contract!Next, Contract!StopMotor
  <2>4. CASE running
    BY <2>1, <2>2, <2>4 DEF ContractStep, Contract!Next, Contract!Control
  <2>5. QED
    BY <2>3, <2>4
<1>2. CASE pc = "stop_target"
  <2>1. m' = m /\ pc' = "idle" /\ running' = running
    BY <1>2 DEF Stopping, MotorStep, LoopStep, Goto
  <2>2. Calling = "stop" /\ Calling' = "none" /\ (running \/ ~m.oc)
    BY <1>2, <2>1 DEF Inner, Drive, Calling, StartLabels
  <2>3. Contract!Return
    BY <2>1, <2>2 DEF Contract!Return
  <2>4. QED
    BY <2>3 DEF ContractStep, Contract!Next
<1>3. QED
  BY <1>1, <1>2 DEF Stopping, MotorStep, LoopStep

\* A step of move_to or home is a step of a command, or its return.
LEMMA CommandKeeps ==
  ASSUME Inner, pc \in MoveLabels \cup HomeLabels, pc' \in MoveLabels \cup HomeLabels \cup {"idle"},
         running' = running, m'.fault = m.fault, m'.oc \in BOOLEAN,
         pc' = "idle" => m'.oc = m.oc /\ pc \notin {"home_poll", "home_stop"}
  PROVE  ContractStep
<1>1. Calling = "command"
  BY DEF Calling, MoveLabels, HomeLabels, StartLabels
<1>2. CASE pc' = "idle"
  <2>1. Calling' = "none"
    BY <1>2 DEF Calling
  <2>2. running \/ ~m.oc
    BY <1>2 DEF Inner, Drive, MoveLabels, HomeLabels
  <2>3. Contract!Return
    BY <1>1, <1>2, <2>1, <2>2 DEF Contract!Return
  <2>4. QED
    BY <2>3 DEF ContractStep, Contract!Next
<1>3. CASE pc' # "idle"
  <2>1. Calling' = "command"
    BY <1>3 DEF Calling, MoveLabels, HomeLabels, StartLabels
  <2>2. Contract!Command
    BY <1>1, <2>1 DEF Contract!Command
  <2>3. QED
    BY <2>2 DEF ContractStep, Contract!Next
<1>4. QED
  BY <1>2, <1>3

LEMMA CommandsKeep ==
  ASSUME Inner, arg \in Args, Move \/ HomeMotor \/ HomeZero
  PROVE  ContractStep
<1>1. CASE Move
  <2>1. /\ m' = m /\ running' = running /\ pc \in MoveLabels
        /\ pc' \in MoveLabels \cup {"idle"}
    BY <1>1 DEF Move, MoveTarget, MovePoll, MoveFault, MoveWait, Look, LoopStep, Goto,
                MoveLabels, loop
  <2>2. m.oc \in BOOLEAN /\ pc \notin {"home_poll", "home_stop"}
    BY <2>1 DEF Inner, Sound, Motors, MoveLabels
  <2>3. QED
    BY <2>1, <2>2, CommandKeeps
<1>2. CASE HomeMotor \/ HomeZero
  <2>1. /\ pc \in HomeLabels /\ running' = running /\ pc' \in HomeLabels \cup {"idle"}
        /\ m'.fault = m.fault /\ m'.oc \in BOOLEAN
    BY <1>2, HomeStep DEF Homing, Sound, Motors
  <2>2. ASSUME pc' = "idle"
        PROVE  m'.oc = m.oc /\ pc \notin {"home_poll", "home_stop"}
    <3>1. pc \in {"home_end", "home_target"}
      BY <1>2, <2>2 DEF HomeMotor, HomePoll, HomeZero, MotorStep, Look, LoopStep, Goto
    <3>2. m' = m \/ m' = [m EXCEPT !.state = "IDLE"]
      BY <1>2, <3>1 DEF HomeMotor, HomePoll, HomeZero, MotorStep, Look, LoopStep
    <3>3. m'.oc = m.oc
      BY <3>2, StateField DEF Inner, States
    <3>4. QED
      BY <3>1, <3>3
  <2>3. QED
    BY <2>1, <2>2, CommandKeeps
<1>3. QED
  BY <1>1, <1>2

LEMMA BeginKeeps ==
  ASSUME Inner, Begin
  PROVE  ContractStep
<1>1. Sound(m) /\ pc = "idle" /\ Calling = "none"
  BY DEF Inner, Begin, StartCall, StopCall, MoveCall, HomeCall, Call, Calling
<1>2. CASE StartCall
  <2>1. m' = m /\ running' = running /\ ~running /\ pc' = "start_fault"
    BY <1>2 DEF StartCall, Look, LoopStep, Goto, loop
  <2>2. Calling' = "start"
    BY <2>1 DEF Calling
  <2>3. QED
    BY <1>1, <2>1, <2>2 DEF ContractStep, Contract!Next, Contract!BeginStart
<1>3. CASE StopCall
  <2>1. m' = m /\ running' = FALSE /\ pc' = "stop_motor"
    BY <1>3 DEF StopCall, LoopStep, Goto
  <2>2. Calling' = "stop"
    BY <2>1 DEF Calling, StartLabels
  <2>3. QED
    BY <1>1, <2>1, <2>2 DEF ContractStep, Contract!Next, Contract!BeginStop
<1>4. CASE MoveCall \/ HomeCall
  <2>1. /\ m' = m \/ m' = [m EXCEPT !.state = "HOMING"]
        /\ running' = running /\ running /\ pc' \in {"move_target", "home_dir"}
    BY <1>4 DEF MoveCall, HomeCall, loop
  <2>2. Calling' = "command"
    BY <2>1 DEF Calling, StartLabels, MoveLabels, HomeLabels
  <2>3. m'.fault = m.fault /\ m'.oc = m.oc
    BY <1>1, <2>1, StateField DEF States
  <2>4. Contract!BeginCommand
    BY <1>1, <2>1, <2>2, <2>3 DEF Contract!BeginCommand
  <2>5. QED
    BY <2>4 DEF ContractStep, Contract!Next
<1>5. QED
  BY <1>2, <1>3, <1>4 DEF Begin

(* The position loop implements LoopContract: wherever a fault stops it, and *)
(* whatever call it interrupts, no call returns with the motor turning while *)
(* no loop runs, and only a start whose fault is cleared sets it running.    *)
THEOREM KeepsItsContract == Spec => KeepsContract
<1>1. Init => Contract!Init
  <2> SUFFICES ASSUME Init PROVE Contract!Init
    OBVIOUS
  <2>1. ~m.oc /\ ~m.fault
    BY InitialSound DEF Init
  <2>2. Calling = "none" /\ ~running
    BY DEF Init, Calling
  <2>3. QED
    BY <2>1, <2>2 DEF Contract!Init
<1>2. IInv /\ IInv' /\ [Next]_vars => ContractStep
  <2> SUFFICES ASSUME IInv, IInv', [Next]_vars PROVE ContractStep
    OBVIOUS
  <2> USE DEF IInv
  <2>1. CASE Period
    BY <2>1, PeriodKeeps
  <2>2. CASE Continue
    BY <2>2, StartingKeeps, StoppingKeeps, CommandsKeep DEF Continue
  <2>3. CASE Begin
    BY <2>3, BeginKeeps
  <2>4. CASE ShaftMoves \/ FaultPinChanges \/ UNCHANGED vars
    <3>1. m' = m /\ running' = running /\ pc' = pc
      BY <2>4 DEF ShaftMoves, FaultPinChanges, vars, loop
    <3>2. QED
      BY <3>1, UnseenStep DEF Unseen, Calling
  <2>5. QED
    BY <2>1, <2>2, <2>3, <2>4 DEF Next
<1>3. QED
  BY Invariance, <1>1, <1>2, PTL DEF Spec, KeepsContract, Contract!Spec, ContractStep
================================================================================
