--------------------------- MODULE MotorDriverProofs ---------------------------
(***************************************************************************)
(* Theorems about MotorDriver, for any number of threads, whatever calls   *)
(* each makes, and all values of the constants.  A frequency that waits in *)
(* a thread's locals may be applied long after it was chosen; the invariant *)
(* says that a direction is in force by then.                              *)
(***************************************************************************)
EXTENDS MotorAccounting, MotorOpsProofs

Labels ==
  {"idle", "sf", "cf_stop", "clf", "it", "brake", "brake_sf", "brake_wait", "delay",
   "h_dir", "h_enable", "h_check", "h_run", "h_poll", "h_stop", "h_end",
   "b_dir", "b_check", "b_run", "b_start", "b_poll", "b_stop"}

Locals ==
  [f : Nat, last : Nat, rate : Nat, dir : {"CW", "CCW"}, backoff : Nat, ok : BOOLEAN,
   left : Nat \cup {NoDeadline}, goal : Int, next : {"idle", "brake", "h_poll", "b_poll"}]

Directed(n) == n.current_dir # "unset"

\* The motor's flags describe its hardware, and it is driven in a direction.
Sound(n) ==
  /\ n \in Motors
  /\ Agree(n)
  /\ Directed(n) => n.dir = n.current_dir
  /\ n.current_freq > 0 => Directed(n)

\* A frequency in the locals k of a thread at p has a direction to go in.
Ready(k, p, n) == k.f > 0 => p = "h_dir" \/ Directed(n)

IInv ==
  /\ Sound(m)
  /\ faultPin \in BOOLEAN /\ homePin \in BOOLEAN
  /\ pc \in [Threads -> Labels]
  /\ loc \in [Threads -> Locals]
  /\ \A t \in Threads : Ready(loc[t], pc[t], m)

\* A step of the motor: it stays sound, and keeps a direction once it has one.
Steps(k, n) == Sound(n) /\ (Directed(k) => Directed(n))

--------------------------------------------------------------------------------
\* Each locked section is such a step.

LEMMA AccumulateSteps ==
  ASSUME NEW k, Sound(k)
  PROVE  Steps(k, Accumulate(k))
BY AccumulateStep DEF Sound, Steps, Directed, Agree, SameDrive, SameDir

\* A stop, and a drive at a frequency, in the direction in force.
LEMMA StillSteps ==
  ASSUME NEW k, Sound(k), NEW n \in Motors, Still(n), SameDir(n, k)
  PROVE  Steps(k, n)
BY DEF Sound, Steps, Directed, Agree, Still, SameDir, Motors

LEMMA DrivenSteps ==
  ASSUME NEW k, Sound(k), NEW n \in Motors, NEW f, DrivenAt(n, f), SameDir(n, k), Directed(k)
  PROVE  Steps(k, n)
BY DEF Sound, Steps, Directed, Agree, DrivenAt, SameDir

LEMMA StopSteps ==
  ASSUME NEW k, Sound(k)
  PROVE  Steps(k, Stop(k))
<1>1. Stop(k) \in Motors /\ Still(Stop(k)) /\ SameDir(Stop(k), k)
  BY StopStep DEF Sound
<1>2. QED
  BY <1>1, StillSteps

LEMMA SetDirectionSteps ==
  ASSUME NEW k, Sound(k), NEW d \in {"CW", "CCW"}
  PROVE  Steps(k, SetDirection(k, d)) /\ Directed(SetDirection(k, d))
BY SetDirectionStep DEF Sound, Steps, Directed, Agree, SameDrive

LEMMA SetFrequencySteps ==
  ASSUME NEW k, Sound(k), NEW f \in Nat, f > 0 => Directed(k)
  PROVE  Steps(k, SetFrequency(k, f))
<1> DEFINE n == SetFrequency(k, f)
<1>1. /\ n \in Motors /\ SameDir(n, k)
      /\ f = 0 => Still(n)
      /\ f > 0 => DrivenAt(n, Clamp(f))
  BY SetFrequencyStep DEF Sound
<1> HIDE DEF n
<1>2. f = 0 => Steps(k, n)
  BY <1>1, StillSteps
<1>3. f > 0 => Steps(k, n)
  BY <1>1, DrivenSteps
<1>4. Steps(k, n)
  BY <1>2, <1>3
<1>5. QED
  BY <1>4 DEF n

LEMMA StartSteps ==
  ASSUME NEW k, Sound(k), ~k.running
  PROVE  Steps(k, Start(k))
<1>1. ~(k.current_freq > 0)
  BY DEF Sound, Agree
<1> DEFINE n == Start(k)
<1>2. /\ n \in Motors /\ n.oc /\ n.running
      /\ n.current_freq = k.current_freq /\ SameDir(n, k)
  BY StartStep DEF Sound
<1> HIDE DEF n
<1>3. Steps(k, n)
  BY <1>1, <1>2 DEF Sound, Steps, Directed, Agree, SameDir
<1>4. QED
  BY <1>3 DEF n

\* Assignments to fields that say nothing about drive or direction.
LEMMA FlagSteps ==
  ASSUME NEW k, Sound(k), NEW n \in Motors, SameDrive(n, k), SameDir(n, k)
  PROVE  Steps(k, n)
BY DEF Sound, Steps, Directed, Agree, SameDrive, SameDir

LEMMA EnableSteps ==
  ASSUME NEW k, Sound(k)
  PROVE  Steps(k, Enable(k))
<1>1. Enable(k) \in Motors /\ SameDrive(Enable(k), k) /\ SameDir(Enable(k), k)
  BY DEF Sound, Enable, Motors, SameDrive, SameDir
<1>2. QED
  BY <1>1, FlagSteps

LEMMA DisableSteps ==
  ASSUME NEW k, Sound(k)
  PROVE  Steps(k, Disable(k))
<1> DEFINE s == Stop(k)
<1>1. Steps(k, s)
  BY StopSteps
<1>2. Disable(k) = [s EXCEPT !.en = FALSE, !.enabled = FALSE]
  BY DEF Disable
<1> HIDE DEF s
<1>3. Disable(k) \in Motors /\ SameDrive(Disable(k), s) /\ SameDir(Disable(k), s)
  BY <1>1, <1>2 DEF Steps, Sound, Motors, SameDrive, SameDir
<1>4. Steps(s, Disable(k))
  BY <1>1, <1>3, FlagSteps DEF Steps
<1>5. QED
  BY <1>1, <1>4 DEF Steps

LEMMA StateSteps ==
  ASSUME NEW k, Sound(k), NEW s \in States
  PROVE  Steps(k, [k EXCEPT !.state = s])
<1> DEFINE n == [k EXCEPT !.state = s]
<1>1. n \in Motors /\ SameDrive(n, k) /\ SameDir(n, k)
  BY DEF Sound, Motors, SameDrive, SameDir
<1>2. QED
  BY <1>1, FlagSteps

LEMMA FaultSteps ==
  ASSUME NEW k, Sound(k), NEW b \in BOOLEAN
  PROVE  Steps(k, [k EXCEPT !.fault = b])
<1> DEFINE n == [k EXCEPT !.fault = b]
<1>1. n \in Motors /\ SameDrive(n, k) /\ SameDir(n, k)
  BY DEF Sound, Motors, SameDrive, SameDir
<1>2. QED
  BY <1>1, FlagSteps

LEMMA LatchFaultSteps ==
  ASSUME NEW k, Sound(k), NEW b \in BOOLEAN
  PROVE  Steps(k, LatchFault(k, b))
<1>1. CASE FaultLatches(k, b)
  <2> DEFINE n == [k EXCEPT !.fault = TRUE, !.state = "FAULT"]
  <2>1. n \in Motors /\ SameDrive(n, k) /\ SameDir(n, k)
    BY DEF Sound, Motors, States, SameDrive, SameDir
  <2>2. QED
    BY <1>1, <2>1, FlagSteps DEF LatchFault
<1>2. CASE ~FaultLatches(k, b)
  BY <1>2, FaultSteps DEF LatchFault
<1>3. QED
  BY <1>1, <1>2

LEMMA BrakeAsyncSteps ==
  ASSUME NEW k, Sound(k), NEW r \in Nat
  PROVE  Steps(k, BrakeAsync(k, r))
<1>1. /\ BrakeAsync(k, r) \in Motors
      /\ SameDrive(BrakeAsync(k, r), k) /\ SameDir(BrakeAsync(k, r), k)
  BY DEF BrakeAsync, Sound, Motors, States, SameDrive, SameDir
<1>2. QED
  BY <1>1, FlagSteps

LEMMA ReleaseEnSteps ==
  ASSUME NEW k, Sound(k)
  PROVE  Steps(k, ReleaseEn(k))
<1>1. ReleaseEn(k) \in Motors /\ SameDrive(ReleaseEn(k), k) /\ SameDir(ReleaseEn(k), k)
  BY DEF ReleaseEn, Sound, Motors, SameDrive, SameDir
<1>2. QED
  BY <1>1, FlagSteps

LEMMA ClearStepsSteps ==
  ASSUME NEW k, Sound(k)
  PROVE  Steps(k, ClearSteps(k))
<1> DEFINE a == Accumulate(k)
<1>1. Steps(k, a)
  BY AccumulateSteps
<1>2. ClearSteps(k) = [a EXCEPT !.total_steps = 0]
  BY DEF ClearSteps
<1> HIDE DEF a
<1>3. ClearSteps(k) \in Motors /\ SameDrive(ClearSteps(k), a) /\ SameDir(ClearSteps(k), a)
  BY <1>1, <1>2 DEF Steps, Sound, Motors, SameDrive, SameDir
<1>4. Steps(a, ClearSteps(k))
  BY <1>1, <1>3, FlagSteps DEF Steps
<1>5. QED
  BY <1>1, <1>4 DEF Steps

\* A motor with its two ages assigned.
WithAge(n, s, i) == [n EXCEPT !.since = s, !.idle = i]

LEMMA WithAgeSteps ==
  ASSUME NEW k, Sound(k), NEW s \in Nat \cup {Unset}, NEW i \in 0..IdleTimeout
  PROVE  Steps(k, WithAge(k, s, i)) /\ WithAge(k, s, i).since = s
<1>1. /\ WithAge(k, s, i) \in Motors
      /\ SameDrive(WithAge(k, s, i), k) /\ SameDir(WithAge(k, s, i), k)
  BY DEF WithAge, Sound, Motors, SameDrive, SameDir
<1>2. WithAge(k, s, i).since = s
  BY DEF WithAge, Sound, Motors
<1>3. QED
  BY <1>1, <1>2, FlagSteps

LEMMA AgeSteps ==
  ASSUME NEW k, Sound(k)
  PROVE  Steps(k, [Age(k) EXCEPT !.since = IF @ > MaxAge THEN MaxAge ELSE @])
<1> DEFINE s == IF k.since = Unset THEN k.since ELSE k.since + 1
           i == IF k.idle < IdleTimeout THEN k.idle + 1 ELSE k.idle
           c == IF s > MaxAge THEN MaxAge ELSE s
<1>1. s \in Nat \cup {Unset} /\ i \in 0..IdleTimeout
  BY MotorAssumption DEF Sound, Motors, Unset
<1>2. c \in Nat \cup {Unset}
  BY <1>1, DriverAssumption
<1>3. Age(k) = WithAge(k, s, i)
  BY DEF Age, WithAge
<1> HIDE DEF s, i
<1>4. Steps(k, Age(k)) /\ Age(k).since = s
  BY <1>1, <1>3, WithAgeSteps
<1>5. [Age(k) EXCEPT !.since = IF @ > MaxAge THEN MaxAge ELSE @]
        = [Age(k) EXCEPT !.since = c]
  BY <1>4
<1> DEFINE n == [Age(k) EXCEPT !.since = c]
<1> HIDE DEF c
<1>6. n \in Motors /\ SameDrive(n, Age(k)) /\ SameDir(n, Age(k))
  BY <1>2, <1>4 DEF Steps, Sound, Motors, SameDrive, SameDir
<1>7. Steps(Age(k), n)
  BY <1>4, <1>6, FlagSteps DEF Steps
<1>8. QED
  BY <1>4, <1>5, <1>7 DEF Steps

--------------------------------------------------------------------------------
\* A step of the system: the motor, and at most one thread.

LEMMA InitialMotorSound ==
  ASSUME NEW n \in InitialMotors
  PROVE  Sound(n)
<1>1. n \in Motors /\ Still(n)
  BY InitialMotor
<1>2. ~(n.current_dir # "unset")
  BY DEF InitialMotors
<1>3. QED
  BY <1>1, <1>2 DEF Sound, Agree, Still, Directed, Motors

LEMMA InitStep == Init => IInv
<1> SUFFICES ASSUME Init PROVE IInv
  OBVIOUS
<1>1. Sound(m)
  BY InitialMotorSound DEF Init
<1>2. NoLocals \in Locals /\ NoLocals.f = 0
  BY DEF NoLocals, Locals, NoDeadline
<1>3. "idle" \in Labels
  BY DEF Labels
<1>4. pc \in [Threads -> Labels] /\ loc \in [Threads -> Locals]
  BY <1>2, <1>3 DEF Init
<1>5. \A t \in Threads : Ready(loc[t], pc[t], m)
  BY <1>2 DEF Init, Ready
<1>6. QED
  BY <1>1, <1>4, <1>5 DEF Init, IInv

LEMMA ThreadStep ==
  ASSUME IInv, NEW t \in Threads, NEW p \in Labels, NEW k \in Locals,
         pc' = [pc EXCEPT ![t] = p], loc' = [loc EXCEPT ![t] = k],
         Steps(m, m'), Ready(k, p, m'), UNCHANGED Pins
  PROVE  IInv'
<1>1. pc' \in [Threads -> Labels] /\ loc' \in [Threads -> Locals]
  BY DEF IInv
<1>2. ASSUME NEW u \in Threads PROVE Ready(loc'[u], pc'[u], m')
  <2>1. CASE u = t
    BY <2>1 DEF IInv
  <2>2. CASE u # t
    BY <2>2 DEF IInv, Ready, Steps
  <2>3. QED
    BY <2>1, <2>2
<1>3. QED
  BY <1>1, <1>2 DEF IInv, Steps, Pins

\* A step that leaves the thread's locals alone.
LEMMA GotoStep ==
  ASSUME IInv, NEW t \in Threads, NEW p \in Labels, Goto(t, p), loc' = loc,
         Steps(m, m'), Ready(loc[t], p, m'), UNCHANGED Pins
  PROVE  IInv'
<1>1. loc' = [loc EXCEPT ![t] = loc[t]] /\ loc[t] \in Locals
  BY DEF IInv
<1>2. QED
  BY <1>1, ThreadStep DEF Goto

LEMMA PassStep ==
  ASSUME IInv, NEW t \in Threads, NEW p \in Labels, Goto(t, p), loc' = loc,
         Steps(m, m'), pc[t] # "h_dir", UNCHANGED Pins
  PROVE  IInv'
<1>1. Ready(loc[t], p, m')
  BY DEF IInv, Ready, Steps
<1>2. QED
  BY <1>1, GotoStep

LEMMA ReturnStep ==
  ASSUME IInv, NEW t \in Threads, Return(t), Steps(m, m'), UNCHANGED Pins
  PROVE  IInv'
<1>1. NoLocals \in Locals /\ Ready(NoLocals, "idle", m') /\ "idle" \in Labels
  BY DEF NoLocals, Locals, NoDeadline, Ready, Labels
<1>2. QED
  BY <1>1, ThreadStep DEF Return, Goto

LEMMA WaitStep ==
  ASSUME IInv, NEW t \in Threads, NEW l \in {"brake", "h_poll", "b_poll"}, Wait(t, l),
         Steps(m, m'), pc[t] # "h_dir", UNCHANGED Pins
  PROVE  IInv'
<1> DEFINE k == [loc[t] EXCEPT !.next = l]
<1>1. loc[t] \in Locals /\ Ready(loc[t], pc[t], m)
  BY DEF IInv
<1>2. k \in Locals /\ k.f = loc[t].f
  BY <1>1 DEF Locals
<1>3. loc' = [loc EXCEPT ![t] = k] /\ pc' = [pc EXCEPT ![t] = "delay"]
  BY DEF Wait, Goto
<1> HIDE DEF k
<1>4. Ready(k, "delay", m') /\ "delay" \in Labels
  BY <1>1, <1>2 DEF Ready, Steps, Labels
<1>5. QED
  BY <1>2, <1>3, <1>4, ThreadStep

\* A section of a call that is nothing else.
LEMMA LockedStep ==
  ASSUME IInv, Steps(m, m'), UNCHANGED <<Pins, pc, loc>>
  PROVE  IInv'
BY DEF IInv, Ready, Steps, Pins

\* The motor stays what it was.
LEMMA NoStep == IInv => Steps(m, m) /\ (m' = m => Steps(m, m'))
BY DEF IInv, Steps

--------------------------------------------------------------------------------
\* The calls of one section.

LEMMA LockedCalls ==
  ASSUME IInv, NEW t \in Threads,
         \/ DoEnable(t) \/ DoDisable(t) \/ DoStart(t) \/ DoStop(t) \/ DoBrakeAsync(t)
         \/ DoSetDirection(t) \/ DoGetSteps(t) \/ DoClearSteps(t)
  PROVE  IInv'
<1> USE DEF Locked
<1>1. Sound(m)
  BY DEF IInv
<1>2. CASE DoEnable(t)
  BY <1>1, <1>2, EnableSteps, LockedStep DEF DoEnable
<1>3. CASE DoDisable(t)
  BY <1>1, <1>3, DisableSteps, LockedStep DEF DoDisable
<1>4. CASE DoStart(t)
  BY <1>1, <1>4, StartSteps, LockedStep DEF DoStart
<1>5. CASE DoStop(t)
  BY <1>1, <1>5, StopSteps, LockedStep DEF DoStop
<1>6. CASE DoBrakeAsync(t)
  <2>1. PICK r \in Rates : m' = BrakeAsync(m, r) /\ UNCHANGED <<Pins, pc, loc>>
    BY <1>6 DEF DoBrakeAsync
  <2>2. QED
    BY <1>1, <2>1, BrakeAsyncSteps, LockedStep, DriverAssumption
<1>7. CASE DoSetDirection(t)
  BY <1>1, <1>7, SetDirectionSteps, LockedStep DEF DoSetDirection
<1>8. CASE DoGetSteps(t)
  BY <1>1, <1>8, AccumulateSteps, LockedStep DEF DoGetSteps
<1>9. CASE DoClearSteps(t)
  BY <1>1, <1>9, ClearStepsSteps, LockedStep DEF DoClearSteps
<1>10. QED
  BY <1>2, <1>3, <1>4, <1>5, <1>6, <1>7, <1>8, <1>9

--------------------------------------------------------------------------------
\* Calls with unlocked accesses.

LEMMA SetFreqPreserves ==
  ASSUME IInv, NEW t \in Threads, SetFreqCall(t) \/ SetFreqLocked(t)
  PROVE  IInv'
<1>1. Sound(m) /\ loc[t] \in Locals /\ Ready(loc[t], pc[t], m)
  BY DEF IInv
<1>2. CASE SetFreqCall(t)
  <2>1. PICK f \in Freqs :
          /\ f > 0 => m.current_dir # "unset"
          /\ loc' = [loc EXCEPT ![t].f = f]
    BY <1>2 DEF SetFreqCall
  <2> DEFINE k == [loc[t] EXCEPT !.f = f]
  <2>2. k \in Locals /\ k.f = f
    BY <1>1, DriverAssumption DEF Locals
  <2>3. loc' = [loc EXCEPT ![t] = k] /\ pc' = [pc EXCEPT ![t] = "sf"]
    BY <1>2, <2>1 DEF SetFreqCall, Goto
  <2> HIDE DEF k
  <2>4. m' = m /\ UNCHANGED Pins /\ "sf" \in Labels
    BY <1>2 DEF SetFreqCall, Labels
  <2>5. Ready(k, "sf", m') /\ Steps(m, m')
    BY <2>1, <2>2, <2>4, NoStep DEF Ready, Directed
  <2>6. QED
    BY <2>2, <2>3, <2>4, <2>5, ThreadStep
<1>3. CASE SetFreqLocked(t)
  <2>1. pc[t] = "sf" /\ m' = SetFrequency(m, loc[t].f) /\ Return(t) /\ UNCHANGED Pins
    BY <1>3 DEF SetFreqLocked
  <2>2. loc[t].f \in Nat /\ (loc[t].f > 0 => Directed(m))
    BY <1>1, <2>1 DEF Locals, Ready
  <2>3. Steps(m, m')
    BY <1>1, <2>1, <2>2, SetFrequencySteps
  <2>4. QED
    BY <2>1, <2>3, ReturnStep
<1>4. QED
  BY <1>2, <1>3

LEMMA FaultPreserves ==
  ASSUME IInv, NEW t \in Threads,
         \/ CheckFaultCall(t) \/ CheckFaultStop(t)
         \/ ClearFaultCall(t) \/ ClearFaultState(t)
  PROVE  IInv'
<1>1. Sound(m) /\ faultPin \in BOOLEAN
  BY DEF IInv
<1>2. {"idle", "cf_stop", "clf"} \subseteq Labels
  BY DEF Labels
<1>3. CASE CheckFaultCall(t)
  <2>1. PICK p \in {"cf_stop", "idle"} : Goto(t, p)
    BY <1>3 DEF CheckFaultCall
  <2>2. Steps(m, m')
    BY <1>1, <1>3, LatchFaultSteps DEF CheckFaultCall
  <2>3. pc[t] = "idle" /\ loc' = loc /\ UNCHANGED Pins
    BY <1>3 DEF CheckFaultCall, Call
  <2>4. QED
    BY <1>2, <2>1, <2>2, <2>3, PassStep
<1>4. CASE CheckFaultStop(t)
  BY <1>1, <1>4, StopSteps, ReturnStep DEF CheckFaultStop
<1>5. CASE ClearFaultCall(t)
  <2>1. PICK p \in {"clf", "idle"} : Goto(t, p)
    BY <1>5 DEF ClearFaultCall
  <2>2. Steps(m, m')
    BY <1>1, <1>5, FaultSteps DEF ClearFaultCall
  <2>3. pc[t] = "idle" /\ loc' = loc /\ UNCHANGED Pins
    BY <1>5 DEF ClearFaultCall, Call
  <2>4. QED
    BY <1>2, <2>1, <2>2, <2>3, PassStep
<1>6. CASE ClearFaultState(t)
  <2>1. m' = [m EXCEPT !.state = "IDLE"] /\ Return(t) /\ UNCHANGED Pins
    BY <1>6 DEF ClearFaultState
  <2>2. QED
    BY <1>1, <2>1, StateSteps, ReturnStep DEF States
<1>7. QED
  BY <1>3, <1>4, <1>5, <1>6

LEMMA IdlePreserves ==
  ASSUME IInv, NEW t \in Threads, IdleTickCall(t) \/ IdleTickRelease(t)
  PROVE  IInv'
<1>1. Sound(m)
  BY DEF IInv
<1>2. CASE IdleTickCall(t)
  <2>1. pc[t] = "idle" /\ Goto(t, "it") /\ loc' = loc /\ m' = m /\ UNCHANGED Pins
    BY <1>2 DEF IdleTickCall, Call
  <2>2. Steps(m, m') /\ "it" \in Labels
    BY <2>1, NoStep DEF Labels
  <2>3. QED
    BY <2>1, <2>2, PassStep
<1>3. CASE IdleTickRelease(t)
  BY <1>1, <1>3, ReleaseEnSteps, ReturnStep DEF IdleTickRelease
<1>4. QED
  BY <1>2, <1>3

--------------------------------------------------------------------------------
\* brake and home.

\* The locals of a call of brake, and of one that has set a frequency.
WithBrake(k, f, l, r) == [k EXCEPT !.f = f, !.last = l, !.rate = r]
WithLast(k, l, next) == [k EXCEPT !.last = l, !.next = next]

LEMMA WithLastType ==
  ASSUME NEW k \in Locals, NEW l \in Nat, NEW next \in {"idle", "brake", "h_poll", "b_poll"}
  PROVE  /\ WithLast(k, l, next) \in Locals
         /\ WithLast(k, l, next).f = k.f /\ WithLast(k, l, next).last = l
BY DEF WithLast, Locals

LEMMA BrakeCallPreserves ==
  ASSUME IInv, NEW t \in Threads, BrakeCall(t)
  PROVE  IInv'
<1>1. Sound(m) /\ loc[t] \in Locals
  BY DEF IInv
<1>2. PICK r \in Rates :
        IF r = 0 THEN m' = Stop(m) /\ UNCHANGED <<pc, loc>>
        ELSE /\ m' = [m EXCEPT !.state = "BRAKING"]
             /\ loc' = [loc EXCEPT ![t] = WithBrake(@, m.current_freq, m.current_freq, r)]
             /\ Goto(t, "brake")
  BY DEF BrakeCall, WithBrake
<1>3. UNCHANGED Pins
  BY DEF BrakeCall
<1>4. CASE r = 0
  BY <1>1, <1>2, <1>3, <1>4, StopSteps, LockedStep
<1>5. CASE r # 0
  <2> DEFINE k == WithBrake(loc[t], m.current_freq, m.current_freq, r)
  <2>1. m.current_freq \in Nat /\ r \in Nat
    BY <1>1, MotorAssumption, DriverAssumption DEF Sound, Motors, Frequencies
  <2>2. k \in Locals /\ k.f = m.current_freq
    <3>1. PICK l \in Locals, f \in Nat : l = loc[t] /\ f = m.current_freq
      BY <1>1, <2>1
    <3>2. WithBrake(l, f, f, r) \in Locals /\ WithBrake(l, f, f, r).f = f
      BY <2>1 DEF WithBrake, Locals
    <3>3. QED
      BY <3>1, <3>2
  <2>3. loc' = [loc EXCEPT ![t] = k] /\ pc' = [pc EXCEPT ![t] = "brake"]
    BY <1>2, <1>5 DEF Goto
  <2>4. Steps(m, m')
    BY <1>1, <1>2, <1>5, StateSteps DEF States
  <2> HIDE DEF k
  <2>5. Ready(k, "brake", m') /\ "brake" \in Labels
    BY <1>1, <2>2, <2>4 DEF Ready, Steps, Sound, Labels
  <2>6. QED
    BY <1>3, <2>2, <2>3, <2>4, <2>5, ThreadStep
<1>6. QED
  BY <1>4, <1>5

LEMMA BrakePreserves ==
  ASSUME IInv, NEW t \in Threads, Brake(t)
  PROVE  IInv'
<1>1. Sound(m) /\ loc[t] \in Locals /\ Ready(loc[t], pc[t], m)
  BY DEF IInv
<1>2. CASE BrakeLoop(t)
  <2> DEFINE f == IF loc[t].f > loc[t].rate THEN loc[t].f - loc[t].rate ELSE 0
             k == [loc[t] EXCEPT !.f = f]
  <2>1. f \in Nat /\ (f > 0 => loc[t].f > 0)
    BY <1>1 DEF Locals
  <2>2. PICK p \in {"brake_wait", "brake_sf"} : pc' = [pc EXCEPT ![t] = p]
    BY <1>2 DEF BrakeLoop, Goto
  <2>3. loc' = [loc EXCEPT ![t] = k]
    BY <1>2 DEF BrakeLoop
  <2>4. pc[t] = "brake" /\ m' = m /\ UNCHANGED Pins
    BY <1>2 DEF BrakeLoop
  <2> HIDE DEF f
  <2>5. k \in Locals /\ k.f = f
    BY <1>1, <2>1 DEF Locals
  <2> HIDE DEF k
  <2>6. Steps(m, m') /\ Ready(k, p, m') /\ p \in Labels
    BY <1>1, <2>1, <2>2, <2>4, <2>5, NoStep DEF Ready, Labels
  <2>7. QED
    BY <2>2, <2>3, <2>4, <2>5, <2>6, ThreadStep
<1>3. CASE BrakeSetFreq(t)
  <2> DEFINE k == WithLast(loc[t], Clamp(loc[t].f), "brake")
  <2>1. /\ pc[t] = "brake_sf" /\ m' = SetFrequency(m, loc[t].f) /\ UNCHANGED Pins
        /\ loc' = [loc EXCEPT ![t] = k] /\ pc' = [pc EXCEPT ![t] = "delay"]
    BY <1>3 DEF BrakeSetFreq, Goto, WithLast
  <2>2. loc[t].f \in Nat /\ (loc[t].f > 0 => Directed(m))
    BY <1>1, <2>1 DEF Locals, Ready
  <2>3. Steps(m, m')
    BY <1>1, <2>1, <2>2, SetFrequencySteps
  <2>4. k \in Locals /\ k.f = loc[t].f
    <3>1. Clamp(loc[t].f) \in Nat
      BY <2>2, ClampType, MotorAssumption DEF Frequencies
    <3>2. QED
      BY <1>1, <3>1, WithLastType
  <2> HIDE DEF k
  <2>5. Ready(k, "delay", m') /\ "delay" \in Labels
    BY <2>2, <2>3, <2>4 DEF Ready, Steps, Labels
  <2>6. QED
    BY <2>1, <2>3, <2>4, <2>5, ThreadStep
<1>4. CASE BrakeRefused(t)
  <2>1. pc[t] = "brake_wait" /\ Wait(t, "brake") /\ m' = m /\ UNCHANGED Pins
    BY <1>4 DEF BrakeRefused
  <2>2. QED
    BY <2>1, NoStep, WaitStep
<1>5. CASE BrakeEnd(t)
  BY <1>1, <1>5, StopSteps, ReturnStep DEF BrakeEnd
<1>6. QED
  BY <1>2, <1>3, <1>4, <1>5 DEF Brake

\* The locals of a call of home.
WithCall(k, f, d, b, w) ==
  [k EXCEPT !.f = f, !.dir = d, !.backoff = b, !.left = w]

LEMMA HomeCallPreserves ==
  ASSUME IInv, NEW t \in Threads, HomeCall(t)
  PROVE  IInv'
<1>1. Sound(m) /\ loc[t] \in Locals
  BY DEF IInv
<1>2. PICK f \in Freqs \ {0}, d \in {"CW", "CCW"}, b \in Backoffs, w \in Timeouts :
        loc' = [loc EXCEPT ![t] =
                  WithCall(@, IF f < MinFreq THEN MinFreq ELSE f, d, b,
                           IF w = 0 THEN NoDeadline ELSE w)]
  BY DEF HomeCall, WithCall
<1> DEFINE g == IF f < MinFreq THEN MinFreq ELSE f
           l == IF w = 0 THEN NoDeadline ELSE w
           k == WithCall(loc[t], g, d, b, l)
<1>3. g \in Nat /\ l \in Nat \cup {NoDeadline} /\ b \in Nat
  BY MotorAssumption, DriverAssumption
<1>4. loc' = [loc EXCEPT ![t] = k]
  BY <1>2
<1> HIDE DEF g, l
<1>5. k \in Locals
  BY <1>1, <1>3 DEF Locals, WithCall
<1> HIDE DEF k
<1>6. m' = [m EXCEPT !.state = "HOMING"] /\ pc' = [pc EXCEPT ![t] = "h_dir"] /\ UNCHANGED Pins
  BY DEF HomeCall, Goto
<1>7. Steps(m, m')
  BY <1>1, <1>6, StateSteps DEF States
<1>8. Ready(k, "h_dir", m') /\ "h_dir" \in Labels
  BY DEF Ready, Labels
<1>9. QED
  BY <1>4, <1>5, <1>6, <1>7, <1>8, ThreadStep

LEMMA HomingPreserves ==
  ASSUME IInv, NEW t \in Threads,
         \/ HomeDirection(t) \/ HomeEnable(t) \/ HomeCheck(t) \/ HomeRun(t)
         \/ HomePoll(t) \/ HomeStop(t) \/ HomeEnd(t)
  PROVE  IInv'
<1>1. Sound(m) /\ loc[t] \in Locals /\ Ready(loc[t], pc[t], m)
  BY DEF IInv
<1>2. {"h_enable", "h_check", "h_run", "h_poll", "h_stop", "h_end", "b_dir"} \subseteq Labels
  BY DEF Labels
<1>3. CASE HomeDirection(t)
  <2>1. /\ m' = SetDirection(m, loc[t].dir) /\ Goto(t, "h_enable")
        /\ loc' = loc /\ UNCHANGED Pins
    BY <1>3 DEF HomeDirection
  <2>2. Steps(m, m') /\ Directed(m')
    BY <1>1, <2>1, SetDirectionSteps DEF Locals
  <2>3. Ready(loc[t], "h_enable", m')
    BY <2>2 DEF Ready
  <2>4. QED
    BY <1>2, <2>1, <2>2, <2>3, GotoStep
<1>4. CASE HomeEnable(t)
  <2>1. pc[t] = "h_enable" /\ m' = Enable(m) /\ Goto(t, "h_check") /\ loc' = loc /\ UNCHANGED Pins
    BY <1>4 DEF HomeEnable
  <2>2. QED
    BY <1>1, <1>2, <2>1, EnableSteps, PassStep
<1>5. CASE HomeCheck(t)
  <2>1. PICK p \in {"h_poll", "h_run"} : Goto(t, p)
    BY <1>5 DEF HomeCheck
  <2>2. pc[t] = "h_check" /\ m' = m /\ loc' = loc /\ UNCHANGED Pins
    BY <1>5 DEF HomeCheck
  <2>3. QED
    BY <1>2, <2>1, <2>2, NoStep, PassStep
<1>6. CASE HomeRun(t)
  <2>1. /\ pc[t] = "h_run" /\ m' = SetFrequency(m, loc[t].f)
        /\ Goto(t, "h_poll") /\ loc' = loc /\ UNCHANGED Pins
    BY <1>6 DEF HomeRun
  <2>2. loc[t].f \in Nat /\ (loc[t].f > 0 => Directed(m))
    BY <1>1, <2>1 DEF Locals, Ready
  <2>3. Steps(m, m')
    BY <1>1, <2>1, <2>2, SetFrequencySteps
  <2>4. QED
    BY <1>2, <2>1, <2>3, PassStep
<1>7. CASE HomePoll(t)
  <2>1. pc[t] = "h_poll" /\ m' = m /\ UNCHANGED Pins
    BY <1>7 DEF HomePoll
  <2>2. CASE Goto(t, "h_stop") /\ loc' = loc
    BY <1>2, <2>1, <2>2, NoStep, PassStep
  <2>3. CASE Goto(t, "h_stop") /\ loc' = [loc EXCEPT ![t].ok = FALSE]
    <3> DEFINE k == [loc[t] EXCEPT !.ok = FALSE]
    <3>1. k \in Locals /\ k.f = loc[t].f
      BY <1>1 DEF Locals
    <3>2. loc' = [loc EXCEPT ![t] = k] /\ pc' = [pc EXCEPT ![t] = "h_stop"]
      BY <2>3 DEF Goto
    <3> HIDE DEF k
    <3>3. Steps(m, m') /\ Ready(k, "h_stop", m')
      BY <1>1, <2>1, <3>1, NoStep DEF Ready
    <3>4. QED
      BY <1>2, <2>1, <3>1, <3>2, <3>3, ThreadStep
  <2>4. CASE Wait(t, "h_poll")
    BY <2>1, <2>4, NoStep, WaitStep
  <2>5. QED
    BY <1>7, <2>2, <2>3, <2>4 DEF HomePoll
<1>8. CASE HomeStop(t)
  <2>1. PICK p \in {"b_dir", "h_end"} : Goto(t, p)
    BY <1>8 DEF HomeStop
  <2>2. pc[t] = "h_stop" /\ m' = SetFrequency(m, 0) /\ loc' = loc /\ UNCHANGED Pins
    BY <1>8 DEF HomeStop
  <2>3. Steps(m, m')
    BY <1>1, <2>2, SetFrequencySteps
  <2>4. QED
    BY <1>2, <2>1, <2>2, <2>3, PassStep
<1>9. CASE HomeEnd(t)
  <2>1. m' = [m EXCEPT !.state = "IDLE"] /\ Return(t) /\ UNCHANGED Pins
    BY <1>9 DEF HomeEnd
  <2>2. QED
    BY <1>1, <2>1, StateSteps, ReturnStep DEF States
<1>10. QED
  BY <1>3, <1>4, <1>5, <1>6, <1>7, <1>8, <1>9

LEMMA BackoffPreserves ==
  ASSUME IInv, NEW t \in Threads,
         \/ BackoffDirection(t) \/ BackoffCheck(t) \/ BackoffRun(t)
         \/ BackoffStart(t) \/ BackoffPoll(t) \/ BackoffStop(t)
  PROVE  IInv'
<1>1. Sound(m) /\ loc[t] \in Locals /\ Ready(loc[t], pc[t], m)
  BY DEF IInv
<1>2. {"b_check", "b_run", "b_start", "b_poll", "b_stop", "h_end"} \subseteq Labels
  BY DEF Labels
<1>3. CASE BackoffDirection(t)
  <2> DEFINE h == loc[t].f \div 2
             k == [loc[t] EXCEPT !.f = h]
  <2>1. h \in Nat
    BY <1>1 DEF Locals
  <2>2. m' = SetDirection(m, Opposite(loc[t].dir)) /\ UNCHANGED Pins
    BY <1>3 DEF BackoffDirection
  <2>3. loc' = [loc EXCEPT ![t] = k] /\ pc' = [pc EXCEPT ![t] = "b_check"]
    BY <1>3 DEF BackoffDirection, Goto
  <2>4. Opposite(loc[t].dir) \in {"CW", "CCW"}
    BY DEF Opposite
  <2>5. Steps(m, m') /\ Directed(m')
    BY <1>1, <2>2, <2>4, SetDirectionSteps
  <2> HIDE DEF h
  <2>6. k \in Locals
    BY <1>1, <2>1 DEF Locals
  <2> HIDE DEF k
  <2>7. Ready(k, "b_check", m')
    BY <2>5 DEF Ready
  <2>8. QED
    BY <1>2, <2>2, <2>3, <2>5, <2>6, <2>7, ThreadStep
<1>4. CASE BackoffCheck(t)
  <2>1. PICK p \in {"b_start", "b_run"} : Goto(t, p)
    BY <1>4 DEF BackoffCheck
  <2>2. pc[t] = "b_check" /\ m' = m /\ loc' = loc /\ UNCHANGED Pins
    BY <1>4 DEF BackoffCheck
  <2>3. QED
    BY <1>2, <2>1, <2>2, NoStep, PassStep
<1>5. CASE BackoffRun(t)
  <2>1. /\ pc[t] = "b_run" /\ m' = SetFrequency(m, loc[t].f)
        /\ Goto(t, "b_start") /\ loc' = loc /\ UNCHANGED Pins
    BY <1>5 DEF BackoffRun
  <2>2. loc[t].f \in Nat /\ (loc[t].f > 0 => Directed(m))
    BY <1>1, <2>1 DEF Locals, Ready
  <2>3. Steps(m, m')
    BY <1>1, <2>1, <2>2, SetFrequencySteps
  <2>4. QED
    BY <1>2, <2>1, <2>3, PassStep
<1>6. CASE BackoffStart(t)
  <2> DEFINE g == m'.total_steps +
                    IF loc[t].dir = "CW" THEN -loc[t].backoff ELSE loc[t].backoff
             k == [loc[t] EXCEPT !.goal = g]
  <2>1. pc[t] = "b_start" /\ m' = Accumulate(m) /\ UNCHANGED Pins
    BY <1>6 DEF BackoffStart
  <2>2. Steps(m, m')
    BY <1>1, <2>1, AccumulateSteps
  <2>3. g \in Int
    BY <1>1, <2>2 DEF Steps, Sound, Motors, Locals
  <2>4. loc' = [loc EXCEPT ![t] = k] /\ pc' = [pc EXCEPT ![t] = "b_poll"]
    BY <1>6 DEF BackoffStart, Goto
  <2> HIDE DEF g
  <2>5. k \in Locals /\ k.f = loc[t].f
    BY <1>1, <2>3 DEF Locals
  <2> HIDE DEF k
  <2>6. Ready(k, "b_poll", m')
    BY <1>1, <2>1, <2>2, <2>5 DEF Ready, Steps
  <2>7. QED
    BY <1>2, <2>1, <2>2, <2>4, <2>5, <2>6, ThreadStep
<1>7. CASE BackoffPoll(t)
  <2>1. pc[t] = "b_poll" /\ m' = Accumulate(m) /\ UNCHANGED Pins
    BY <1>7 DEF BackoffPoll
  <2>2. Steps(m, m')
    BY <1>1, <2>1, AccumulateSteps
  <2>3. CASE Goto(t, "b_stop") /\ loc' = loc
    BY <1>2, <2>1, <2>2, <2>3, PassStep
  <2>4. CASE Wait(t, "b_poll")
    BY <2>1, <2>2, <2>4, WaitStep
  <2>5. QED
    BY <1>7, <2>3, <2>4 DEF BackoffPoll
<1>8. CASE BackoffStop(t)
  <2>1. /\ pc[t] = "b_stop" /\ m' = SetFrequency(m, 0)
        /\ Goto(t, "h_end") /\ loc' = loc /\ UNCHANGED Pins
    BY <1>8 DEF BackoffStop
  <2>2. Steps(m, m')
    BY <1>1, <2>1, SetFrequencySteps
  <2>3. QED
    BY <1>2, <2>1, <2>2, PassStep
<1>9. QED
  BY <1>3, <1>4, <1>5, <1>6, <1>7, <1>8

--------------------------------------------------------------------------------
\* Time, the pins, and the theorems.

LEMMA TickPreserves ==
  ASSUME IInv, Tick
  PROVE  IInv'
<1>1. Steps(m, m')
  BY AgeSteps DEF IInv, Tick
<1>2. UNCHANGED Pins
  BY DEF Tick
<1>3. ASSUME NEW t \in Threads
      PROVE  pc'[t] \in Labels /\ loc'[t] \in Locals /\ Ready(loc'[t], pc'[t], m')
  <2> DEFINE l == IF loc[t].left > 0 /\ Polling(t) THEN loc[t].left - 1 ELSE loc[t].left
  <2>1. /\ loc[t] \in Locals /\ pc[t] \in Labels /\ Ready(loc[t], pc[t], m)
    BY DEF IInv
  <2>2. loc'[t] = [loc[t] EXCEPT !.left = l]
    BY DEF Tick
  <2>3. l \in Nat \cup {NoDeadline}
    BY <2>1 DEF Locals, NoDeadline
  <2> HIDE DEF l
  <2>4. loc'[t] \in Locals /\ loc'[t].f = loc[t].f
    BY <2>1, <2>2, <2>3 DEF Locals
  <2>5. pc'[t] = IF pc[t] = "delay" THEN loc[t].next ELSE pc[t]
    BY DEF Tick
  <2>6. pc'[t] \in Labels
    BY <2>1, <2>5 DEF Locals, Labels
  <2>7. Ready(loc'[t], pc'[t], m')
    BY <1>1, <2>1, <2>4, <2>5 DEF Ready, Steps
  <2>8. QED
    BY <2>4, <2>6, <2>7
<1>4. pc' = [t \in Threads |-> pc'[t]] /\ loc' = [t \in Threads |-> loc'[t]]
  BY DEF Tick
<1>5. pc' \in [Threads -> Labels] /\ loc' \in [Threads -> Locals]
  BY <1>3, <1>4
<1>6. QED
  BY <1>1, <1>2, <1>3, <1>5 DEF IInv, Steps, Pins

LEMMA NextPreserves == IInv /\ [Next]_vars => IInv'
<1> SUFFICES ASSUME IInv, [Next]_vars PROVE IInv'
  OBVIOUS
<1>1. ASSUME NEW t \in Threads, Continue(t) PROVE IInv'
  BY <1>1, SetFreqPreserves, FaultPreserves, IdlePreserves, BrakePreserves,
     HomingPreserves, BackoffPreserves DEF Continue, Home
<1>2. ASSUME NEW t \in Threads, Begin(t) PROVE IInv'
  BY <1>2, LockedCalls, SetFreqPreserves, FaultPreserves, IdlePreserves,
     BrakeCallPreserves, HomeCallPreserves DEF Begin
<1>3. CASE Tick
  BY <1>3, TickPreserves
<1>4. CASE FaultPinChanges
  BY <1>4 DEF FaultPinChanges, IInv
<1>5. CASE HomePinChanges
  BY <1>5 DEF HomePinChanges, IInv
<1>6. CASE UNCHANGED vars
  BY <1>6 DEF vars, IInv
<1>7. QED
  BY <1>1, <1>2, <1>3, <1>4, <1>5, <1>6 DEF Next, Act

(* The motor is sound, and every frequency that waits in a thread has a      *)
(* direction, in every interleaving of the driver's calls.                   *)
THEOREM Invariance == Spec => []IInv
<1>1. QED
  BY InitStep, NextPreserves, PTL DEF Spec

(* The struct and the hardware keep their types, and no caller drives the    *)
(* timer outside the frequency limits.                                       *)
THEOREM TypeCorrect == Spec => []TypeOK
<1>1. IInv => TypeOK
  BY DEF IInv, TypeOK, Sound, Locals
<1>2. QED
  BY <1>1, Invariance, PTL

(* The cached flags agree with the timer: the OC channel is on iff running,  *)
(* and a non-zero current_freq is what the hardware does.                    *)
THEOREM FlagsMatch == Spec => []FlagsMatchHardware
<1>1. IInv => FlagsMatchHardware
  BY DEF IInv, Sound, Agree, Directed, FlagsMatchHardware
<1>2. QED
  BY <1>1, Invariance, PTL

--------------------------------------------------------------------------------
\* The step count against the pulses: each locked section leaves the count, its
\* age, the frequency and the direction alone, or is one accumulation; a tick
\* adds what the hardware emits.

\* n has the step count of k, of the same age.
SameCount(n, k) == n.total_steps = k.total_steps /\ n.since = k.since

\* From k to n, either nothing that concerns the count changed, or the steps
\* made so far were counted.
Counts(k, n) ==
  \/ /\ SameCount(n, k)
     /\ n.current_freq = k.current_freq /\ n.current_dir = k.current_dir
  \/ SameCount(n, Accumulate(k))

LEMMA DivisionBound ==
  ASSUME NEW p \in Nat, NEW q \in Nat \ {0}
  PROVE  p \div q \in Int /\ 0 <= p - q * (p \div q) /\ p - q * (p \div q) <= q - 1
OBVIOUS

LEMMA AccumulateCounts ==
  ASSUME NEW k \in Motors
  PROVE  /\ Accumulate(k).since = 0
         /\ Accumulate(k).total_steps
              = IF k.since = Unset THEN k.total_steps ELSE k.total_steps + Increment(k)
BY DEF Accumulate, Motors

LEMMA StopCounts ==
  ASSUME NEW k \in Motors
  PROVE  SameCount(Stop(k), Accumulate(k)) /\ Counts(k, Stop(k))
<1> DEFINE a == Accumulate(k)
<1>1. a \in Motors
  BY AccumulateStep
<1>2. Stop(k) = [a EXCEPT !.oc = FALSE, !.running = FALSE, !.state = "IDLE",
                          !.current_freq = 0, !.idle = 0]
  BY DEF Stop
<1> HIDE DEF a
<1>3. SameCount(Stop(k), a)
  BY <1>1, <1>2 DEF SameCount, Motors
<1>4. QED
  BY <1>3 DEF Counts, a

LEMMA SetDirectionCounts ==
  ASSUME NEW k \in Motors, NEW d \in {"CW", "CCW"}
  PROVE  Counts(k, SetDirection(k, d))
<1> DEFINE a == Accumulate(k)
<1>1. a \in Motors
  BY AccumulateStep
<1>2. SetDirection(k, d) = [a EXCEPT !.dir = d, !.current_dir = d]
  BY DEF SetDirection
<1> HIDE DEF a
<1>3. SameCount(SetDirection(k, d), a)
  BY <1>1, <1>2 DEF SameCount, Motors
<1>4. QED
  BY <1>3 DEF Counts, a

LEMMA WriteFreqCounts ==
  ASSUME NEW k \in Motors, NEW f
  PROVE  /\ SameCount(WriteFreq(k, f), k)
         /\ \A g, s : SameCount([WriteFreq(k, f) EXCEPT !.current_freq = g, !.state = s], k)
         /\ \A g, s, i : SameCount([WriteFreq(k, f) EXCEPT !.current_freq = g, !.state = s, !.idle = i], k)
BY DEF WriteFreq, SameCount, Motors

LEMMA SetFrequencyCounts ==
  ASSUME NEW k \in Motors, NEW f \in Nat
  PROVE  Counts(k, SetFrequency(k, f))
<1> DEFINE a == Accumulate(k)
<1>1. a \in Motors
  BY AccumulateStep
<1>2. SetFrequency(k, f) =
        LET w == WriteFreq(a, Clamp(f))
        IN  IF Clamp(f) = 0
            THEN [w EXCEPT !.current_freq = 0, !.state = "IDLE", !.idle = 0]
            ELSE [w EXCEPT !.current_freq = Clamp(f),
                           !.state = IF w.state = "BRAKING" THEN w.state ELSE "RUNNING"]
  BY DEF SetFrequency
<1> HIDE DEF a
<1>3. SameCount(SetFrequency(k, f), a)
  <2> DEFINE w == WriteFreq(a, Clamp(f))
             s == IF w.state = "BRAKING" THEN w.state ELSE "RUNNING"
  <2>1. /\ SameCount([w EXCEPT !.current_freq = 0, !.state = "IDLE", !.idle = 0], a)
        /\ SameCount([w EXCEPT !.current_freq = Clamp(f), !.state = s], a)
    BY <1>1, WriteFreqCounts
  <2>2. SetFrequency(k, f) =
          IF Clamp(f) = 0
          THEN [w EXCEPT !.current_freq = 0, !.state = "IDLE", !.idle = 0]
          ELSE [w EXCEPT !.current_freq = Clamp(f), !.state = s]
    BY <1>2
  <2> HIDE DEF w, s
  <2>3. QED
    BY <2>1, <2>2
<1>4. QED
  BY <1>3 DEF Counts, a

LEMMA StartCounts ==
  ASSUME NEW k \in Motors, k.current_freq = 0
  PROVE  Counts(k, Start(k))
<1>1. Start(k).total_steps = k.total_steps /\ Start(k).since = 0
  BY DEF Start, Motors
<1>2. k.since # Unset => Increment(k) = 0
  <2>1. SUFFICES ASSUME k.since # Unset PROVE Increment(k) = 0
    OBVIOUS
  <2>2. k.since \in Nat
    BY <2>1 DEF Motors
  <2>3. k.current_freq * k.since = 0
    BY <2>2
  <2>4. 0 \div TicksPerSec = 0
    BY MotorAssumption
  <2>5. QED
    BY <2>3, <2>4 DEF Increment
<1>3. QED
  BY <1>1, <1>2, AccumulateCounts DEF Counts, SameCount, Motors

\* Fields that the count does not depend on.
LEMMA FlagCounts ==
  ASSUME NEW k \in Motors
  PROVE  /\ Counts(k, Enable(k)) /\ Counts(k, ReleaseEn(k))
         /\ \A r : Counts(k, BrakeAsync(k, r))
         /\ \A b : Counts(k, [k EXCEPT !.fault = b])
         /\ \A s : Counts(k, [k EXCEPT !.state = s])
         /\ \A b : Counts(k, LatchFault(k, b))
BY DEF Counts, SameCount, Enable, ReleaseEn, BrakeAsync, LatchFault, Motors

LEMMA DisableCounts ==
  ASSUME NEW k \in Motors
  PROVE  Counts(k, Disable(k))
<1> DEFINE s == Stop(k)
<1>1. s \in Motors /\ s.current_freq = 0
  BY StopStep DEF Still
<1>2. Disable(k) = [s EXCEPT !.en = FALSE, !.enabled = FALSE]
  BY DEF Disable
<1>3. SameCount(s, Accumulate(k))
  BY StopCounts
<1> HIDE DEF s
<1>4. SameCount(Disable(k), s)
  BY <1>1, <1>2 DEF SameCount, Motors
<1>5. QED
  BY <1>3, <1>4 DEF Counts, SameCount

\* One section of any call but clear_steps.
LEMMA ThreadCounts ==
  ASSUME IInv, NEW t \in Threads, Continue(t) \/ Begin(t)
  PROVE  Counts(m, m') \/ DoClearSteps(t)
<1>1. m \in Motors /\ loc[t] \in Locals /\ Sound(m)
  BY DEF IInv, Sound
<1>2. Counts(m, m) /\ Counts(m, Accumulate(m))
  BY DEF Counts, SameCount
<1>3. loc[t].f \in Nat /\ loc[t].dir \in {"CW", "CCW"} /\ Opposite(loc[t].dir) \in {"CW", "CCW"}
  BY <1>1 DEF Locals, Opposite
<1>4. CASE SetFreqCall(t) \/ SetFreqLocked(t)
  BY <1>1, <1>2, <1>3, <1>4, SetFrequencyCounts DEF SetFreqCall, SetFreqLocked
<1>5. CASE CheckFaultCall(t) \/ CheckFaultStop(t) \/ ClearFaultCall(t) \/ ClearFaultState(t)
  BY <1>1, <1>5, FlagCounts, StopCounts
  DEF CheckFaultCall, CheckFaultStop, ClearFaultCall, ClearFaultState
<1>6. CASE IdleTickCall(t) \/ IdleTickRelease(t)
  BY <1>1, <1>2, <1>6, FlagCounts DEF IdleTickCall, IdleTickRelease
<1>7. CASE Brake(t)
  BY <1>1, <1>2, <1>3, <1>7, SetFrequencyCounts, StopCounts
  DEF Brake, BrakeLoop, BrakeSetFreq, BrakeRefused, BrakeEnd
<1>8. CASE BrakeCall(t)
  BY <1>1, <1>8, FlagCounts, StopCounts DEF BrakeCall
<1>9. CASE HomeCall(t)
  BY <1>1, <1>9, FlagCounts DEF HomeCall
<1>10. CASE \/ HomeDirection(t) \/ HomeEnable(t) \/ HomeCheck(t) \/ HomeRun(t)
            \/ HomePoll(t) \/ HomeStop(t) \/ HomeEnd(t)
  BY <1>1, <1>2, <1>3, <1>10, SetFrequencyCounts, SetDirectionCounts, FlagCounts
  DEF HomeDirection, HomeEnable, HomeCheck, HomeRun, HomePoll, HomeStop, HomeEnd
<1>11. CASE \/ BackoffDirection(t) \/ BackoffCheck(t) \/ BackoffRun(t)
            \/ BackoffStart(t) \/ BackoffPoll(t) \/ BackoffStop(t)
  BY <1>1, <1>2, <1>3, <1>11, SetFrequencyCounts, SetDirectionCounts
  DEF BackoffDirection, BackoffCheck, BackoffRun, BackoffStart, BackoffPoll, BackoffStop
<1>12. CASE \/ DoEnable(t) \/ DoDisable(t) \/ DoStop(t) \/ DoBrakeAsync(t)
            \/ DoSetDirection(t) \/ DoGetSteps(t)
  BY <1>1, <1>2, <1>12, FlagCounts, DisableCounts, StopCounts, SetDirectionCounts
  DEF DoEnable, DoDisable, DoStop, DoBrakeAsync, DoSetDirection, DoGetSteps, Locked
<1>13. CASE DoStart(t)
  <2>1. ~(m.current_freq > 0)
    BY <1>1, <1>13 DEF DoStart, Sound, Agree
  <2>2. m.current_freq = 0
    BY <1>1, <2>1, MotorAssumption DEF Motors, Frequencies
  <2>3. QED
    BY <1>1, <1>13, <2>2, StartCounts DEF DoStart, Locked
<1>14. QED
  BY <1>4, <1>5, <1>6, <1>7, <1>8, <1>9, <1>10, <1>11, <1>12, <1>13
  DEF Continue, Begin, Home

\* A step that takes no time counts or keeps, or is a clear_steps.
LEMMA ActCounts ==
  ASSUME IInv, Act
  PROVE  Counts(m, m') \/ Cleared
BY ThreadCounts DEF Act, Cleared, FaultPinChanges, HomePinChanges, Counts, SameCount

\* The steps of k not yet accumulated, in steps * TicksPerSec.
PendingOf(k) ==
  LET p == IF k.since = Unset THEN 0 ELSE k.current_freq * k.since
  IN  IF k.current_dir = "CCW" THEN -p ELSE p

LEMMA MotorNumbers ==
  ASSUME NEW k \in Motors
  PROVE  /\ k.current_freq \in Nat /\ k.total_steps \in Int
         /\ k.since \in Nat \cup {Unset} /\ PendingOf(k) \in Int
         /\ k.since \in {0, Unset} \/ k.current_freq = 0 => PendingOf(k) = 0
<1>1. k.current_freq \in Nat /\ k.total_steps \in Int /\ k.since \in Nat \cup {Unset}
  BY MotorAssumption DEF Motors, Frequencies
<1> DEFINE p == IF k.since = Unset THEN 0 ELSE k.current_freq * k.since
<1>2. p \in Int /\ (k.since \in {0, Unset} \/ k.current_freq = 0 => p = 0)
  BY <1>1
<1>3. PendingOf(k) = IF k.current_dir = "CCW" THEN -p ELSE p
  BY DEF PendingOf
<1> HIDE DEF p
<1>4. QED
  BY <1>1, <1>2, <1>3

\* Counting the steps of a period loses less than one of them.
LEMMA TruncationBound ==
  ASSUME NEW k \in Motors, k.since # Unset
  PROVE  /\ Increment(k) \in Int
         /\ Abs(PendingOf(k) - TicksPerSec * Increment(k)) <= TicksPerSec - 1
         /\ k.since = 0 \/ k.current_freq = 0 => Increment(k) = 0
<1>1. k.current_freq \in Nat /\ k.since \in Nat /\ TicksPerSec \in Nat \ {0}
  BY MotorNumbers, MotorAssumption
<1> DEFINE p == k.current_freq * k.since
           q == p \div TicksPerSec
<1>2. p \in Nat /\ (k.since = 0 \/ k.current_freq = 0 => p = 0)
  BY <1>1
<1>3. PendingOf(k) = IF k.current_dir = "CCW" THEN -p ELSE p
  BY DEF PendingOf
<1>4. Increment(k) = IF k.current_dir = "CCW" THEN -q ELSE q
  BY DEF Increment
<1> HIDE DEF p
<1>5. q \in Int /\ 0 <= p - TicksPerSec * q /\ p - TicksPerSec * q <= TicksPerSec - 1
  BY <1>1, <1>2, DivisionBound
<1>6. p = 0 => q = 0
  BY <1>1
<1> HIDE DEF q
<1>7. PICK z \in Int : z = TicksPerSec * q
  BY <1>1, <1>5
<1>8. TicksPerSec * (-q) = -z
  BY <1>1, <1>5, <1>7
<1>9. QED
  BY <1>1, <1>2, <1>3, <1>4, <1>5, <1>6, <1>7, <1>8 DEF Abs

\* The inductive invariant of the accounting.
AInv ==
  /\ IInv
  /\ m.since <= MaxAge
  /\ m.current_freq > 0 => m.since # Unset
  /\ pulses \in Int /\ stray \in Int /\ samples \in Nat
  /\ OnlyStrayPulsesAreLost

\* The history has its types, and only stray pulses are lost.
Accounted ==
  pulses \in Int /\ stray \in Int /\ samples \in Nat /\ OnlyStrayPulsesAreLost

\* clear_steps starts the count and the history afresh.
LEMMA ClearCounts ==
  ASSUME AInv, IInv', ActHistory, Cleared
  PROVE  Accounted'
<1>1. m \in Motors /\ m' \in Motors
  BY DEF AInv, IInv, Sound
<1>2. m' = ClearSteps(m)
  BY DEF Cleared, DoClearSteps, Locked
<1> DEFINE a == Accumulate(m)
<1>3. a \in Motors /\ a.since = 0
  BY <1>1, AccumulateStep, AccumulateCounts
<1>4. m' = [a EXCEPT !.total_steps = 0]
  BY <1>2 DEF ClearSteps
<1> HIDE DEF a
<1>5. m'.total_steps = 0 /\ m'.since = 0
  BY <1>3, <1>4 DEF Motors
<1>6. Pending' = 0
  BY <1>1, <1>5, MotorNumbers DEF Pending, PendingOf
<1>7. pulses' = 0 /\ stray' = 0 /\ samples' = 0
  BY DEF ActHistory
<1>8. QED
  BY <1>5, <1>6, <1>7, MotorAssumption DEF Accounted, OnlyStrayPulsesAreLost, Missing, Abs

\* Any other section of a call: no pulse is made, at most one step is truncated.
LEMMA CallCounts ==
  ASSUME AInv, IInv', Counts(m, m'), ActHistory, ~Cleared
  PROVE  Accounted'
<1>1. m \in Motors /\ m' \in Motors
  BY DEF AInv, IInv, Sound
<1>2. /\ Pending = PendingOf(m) /\ Pending' = PendingOf(m')
      /\ PendingOf(m) \in Int /\ PendingOf(m') \in Int
      /\ m.total_steps \in Int /\ m'.total_steps \in Int /\ m.current_freq \in Nat
      /\ m.since \in Nat \cup {Unset} /\ m'.since \in Nat \cup {Unset}
  BY <1>1, MotorNumbers DEF Pending, PendingOf
<1>3. /\ pulses \in Int /\ stray \in Int /\ samples \in Nat /\ OnlyStrayPulsesAreLost
      /\ TicksPerSec \in Nat \ {0}
  BY MotorAssumption DEF AInv
<1>4. pulses' = pulses /\ stray' = stray
  BY DEF ActHistory
<1>5. CASE /\ SameCount(m', m)
           /\ m'.current_freq = m.current_freq /\ m'.current_dir = m.current_dir
  <2>1. PendingOf(m') = PendingOf(m)
    BY <1>5 DEF PendingOf, SameCount
  <2>2. ~Sampled
    BY <1>2, <1>5 DEF Sampled, SameCount, Unset
  <2>3. samples' = samples
    BY <2>2 DEF ActHistory
  <2>4. QED
    BY <1>2, <1>3, <1>4, <1>5, <2>1, <2>3
    DEF Accounted, OnlyStrayPulsesAreLost, Missing, SameCount
<1>6. CASE SameCount(m', Accumulate(m))
  <2>1. /\ m'.since = 0
        /\ m'.total_steps
             = IF m.since = Unset THEN m.total_steps ELSE m.total_steps + Increment(m)
    BY <1>1, <1>6, AccumulateCounts DEF SameCount
  <2>2. PendingOf(m') = 0
    BY <1>1, <2>1, MotorNumbers
  <2>3. CASE m.since \in {0, Unset} \/ m.current_freq = 0
    <3>1. m'.total_steps = m.total_steps /\ PendingOf(m) = 0
      BY <1>1, <1>2, <2>1, <2>3, TruncationBound, MotorNumbers DEF Unset
    <3>2. samples' = samples
      BY <2>3 DEF ActHistory, Sampled, Unset
    <3>3. QED
      BY <1>2, <1>3, <1>4, <2>2, <3>1, <3>2 DEF Accounted, OnlyStrayPulsesAreLost, Missing
  <2>4. CASE m.since \notin {0, Unset} /\ m.current_freq > 0
    <3>1. m'.total_steps = m.total_steps + Increment(m)
      BY <2>1, <2>4
    <3>2. /\ Increment(m) \in Int
          /\ Abs(PendingOf(m) - TicksPerSec * Increment(m)) <= TicksPerSec - 1
      BY <1>1, <2>4, TruncationBound
    <3>3. samples' = samples + 1
      BY <1>2, <2>1, <2>4 DEF ActHistory, Sampled
    <3>4. PICK x \in Int : x = TicksPerSec * m.total_steps
      BY <1>2, <1>3
    <3>5. PICK y \in Int : y = TicksPerSec * Increment(m)
      BY <1>3, <3>2
    <3>6. TicksPerSec * m'.total_steps = x + y
      BY <1>2, <1>3, <3>1, <3>2, <3>4, <3>5
    <3>7. PICK z \in Int : z = samples * (TicksPerSec - 1)
      BY <1>3
    <3>8. samples' * (TicksPerSec - 1) = z + (TicksPerSec - 1)
      BY <1>3, <3>3, <3>7
    <3>9. Abs(pulses - x - PendingOf(m) - stray) <= z
      BY <1>2, <1>3, <3>4, <3>7 DEF OnlyStrayPulsesAreLost, Missing
    <3>10. Abs(pulses - (x + y) - stray) <= z + (TicksPerSec - 1)
      BY <1>2, <1>3, <3>2, <3>5, <3>9 DEF Abs
    <3>11. Missing' - stray' = pulses - (x + y) - stray
      BY <1>2, <1>3, <1>4, <2>2, <3>6 DEF Missing
    <3>12. Abs(Missing' - stray') <= samples' * (TicksPerSec - 1)
      BY <3>8, <3>10, <3>11
    <3>13. QED
      BY <1>3, <1>4, <3>3, <3>12 DEF Accounted, OnlyStrayPulsesAreLost
  <2>5. QED
    BY <1>2, <2>3, <2>4
<1>7. QED
  BY <1>5, <1>6 DEF Counts

\* What a tick within the bound does to the motor.
LEMMA TickEffect ==
  ASSUME m \in Motors, m.since < MaxAge, Tick
  PROVE  /\ m'.since = IF m.since = Unset THEN Unset ELSE m.since + 1
         /\ m'.total_steps = m.total_steps
         /\ m'.current_freq = m.current_freq /\ m'.current_dir = m.current_dir
<1> DEFINE s == IF m.since = Unset THEN m.since ELSE m.since + 1
           i == IF m.idle < IdleTimeout THEN m.idle + 1 ELSE m.idle
<1>1. s \in Nat \cup {Unset} /\ i \in 0..IdleTimeout /\ s <= MaxAge
  BY MotorAssumption, DriverAssumption DEF Motors, Unset
<1>2. Age(m) = WithAge(m, s, i)
  BY DEF Age, WithAge
<1>3. s = IF m.since = Unset THEN Unset ELSE m.since + 1
  OBVIOUS
<1> DEFINE a == Age(m)
<1> HIDE DEF s, i
<1>4. /\ a \in Motors /\ a.since = s /\ a.total_steps = m.total_steps
      /\ a.current_freq = m.current_freq /\ a.current_dir = m.current_dir
  <2>1. /\ WithAge(m, s, i) \in Motors /\ WithAge(m, s, i).since = s
        /\ WithAge(m, s, i).total_steps = m.total_steps
        /\ SameDrive(WithAge(m, s, i), m) /\ SameDir(WithAge(m, s, i), m)
    BY <1>1 DEF WithAge, Motors, SameDrive, SameDir
  <2>2. QED
    BY <1>2, <2>1 DEF SameDrive, SameDir
<1>5. m' = [a EXCEPT !.since = IF @ > MaxAge THEN MaxAge ELSE @]
  BY DEF Tick
<1> HIDE DEF a
<1>6. m' = [a EXCEPT !.since = s]
  BY <1>1, <1>4, <1>5, DriverAssumption DEF Unset
<1>7. QED
  BY <1>3, <1>4, <1>6 DEF Motors

\* A tick ages the period, and the hardware pulses: at the frequency in force,
\* which becomes pending, or astray.
LEMMA TickCounts ==
  ASSUME AInv, IInv', m.since < MaxAge, Tick, TickHistory
  PROVE  Accounted'
<1>1. m \in Motors /\ m' \in Motors /\ Sound(m)
  BY DEF AInv, IInv, Sound
<1>2. /\ Pending = PendingOf(m) /\ Pending' = PendingOf(m')
      /\ PendingOf(m) \in Int /\ PendingOf(m') \in Int
      /\ m.current_freq \in Nat /\ m.total_steps \in Int
      /\ m.since \in Nat \cup {Unset}
  BY <1>1, MotorNumbers DEF Pending, PendingOf
<1>3. /\ pulses \in Int /\ stray \in Int /\ samples \in Nat /\ OnlyStrayPulsesAreLost
      /\ m.current_freq > 0 => m.since # Unset
  BY DEF AInv
<1>4. /\ m'.since = IF m.since = Unset THEN Unset ELSE m.since + 1
      /\ m'.total_steps = m.total_steps
      /\ m'.current_freq = m.current_freq /\ m'.current_dir = m.current_dir
  BY <1>1, TickEffect
<1>5. Rate(m) \in Int
  BY <1>1, MotorAssumption DEF Rate, Motors, Frequencies
<1>6. /\ pulses' = pulses + Rate(m) /\ samples' = samples
      /\ stray' = IF m.current_freq = 0 THEN stray + Rate(m) ELSE stray
  BY DEF TickHistory
<1>7. PICK x \in Int : x = TicksPerSec * m.total_steps
  BY <1>2, MotorAssumption
<1>8. PICK z : z = samples * (TicksPerSec - 1)
  OBVIOUS
<1>9. Abs(pulses - x - PendingOf(m) - stray) <= z
  BY <1>2, <1>3, <1>7, <1>8 DEF OnlyStrayPulsesAreLost, Missing
<1>10. Abs(pulses' - x - PendingOf(m') - stray') <= z
  <2>1. CASE m.current_freq = 0
    <3>1. PendingOf(m) = 0 /\ PendingOf(m') = 0
      BY <1>1, <1>4, <2>1, MotorNumbers
    <3>2. (pulses + Rate(m)) - x - 0 - (stray + Rate(m)) = pulses - x - 0 - stray
      BY <1>3, <1>5, <1>7
    <3>3. QED
      BY <1>6, <1>9, <2>1, <3>1, <3>2
  <2>2. CASE m.current_freq > 0
    <3>1. m.since \in Nat
      BY <1>2, <1>3, <2>2
    <3>2. Rate(m) = IF m.current_dir = "CCW" THEN -m.current_freq ELSE m.current_freq
      BY <1>1, <2>2 DEF Rate, Sound, Agree, Directed, Motors
    <3>3. PICK p \in Int : p = m.current_freq * m.since
      BY <1>2, <3>1
    <3>4. m'.current_freq * m'.since = p + m.current_freq /\ m'.since # Unset
      BY <1>2, <1>4, <3>1, <3>3 DEF Unset
    <3>5. PendingOf(m') = PendingOf(m) + Rate(m)
      BY <1>2, <1>3, <1>4, <2>2, <3>2, <3>3, <3>4 DEF PendingOf
    <3>6. (pulses + Rate(m)) - x - (PendingOf(m) + Rate(m)) - stray
            = pulses - x - PendingOf(m) - stray
      BY <1>2, <1>3, <1>5, <1>7
    <3>7. QED
      BY <1>6, <1>9, <2>2, <3>5, <3>6
  <2>3. QED
    BY <1>2, <2>1, <2>2
<1>11. Abs(Missing' - stray') <= samples' * (TicksPerSec - 1)
  BY <1>2, <1>4, <1>6, <1>7, <1>8, <1>10 DEF Missing
<1>12. pulses' \in Int /\ stray' \in Int /\ samples' \in Nat
  BY <1>3, <1>5, <1>6
<1>13. QED
  BY <1>11, <1>12 DEF Accounted, OnlyStrayPulsesAreLost

\* No period is older than the bound, and none is missing for a frequency.
LEMMA ActAge ==
  ASSUME AInv, IInv', Counts(m, m') \/ Cleared
  PROVE  m'.since <= MaxAge /\ (m'.current_freq > 0 => m'.since # Unset)
<1>1. /\ m \in Motors /\ m' \in Motors /\ m.since <= MaxAge
      /\ m.current_freq > 0 => m.since # Unset
  BY DEF AInv, IInv, Sound
<1>2. CASE Counts(m, m')
  BY <1>1, <1>2, AccumulateCounts, DriverAssumption DEF Counts, SameCount, Unset
<1>3. CASE Cleared
  <2>1. m' = ClearSteps(m)
    BY <1>3 DEF Cleared, DoClearSteps, Locked
  <2> DEFINE a == Accumulate(m)
  <2>2. a \in Motors /\ a.since = 0
    BY <1>1, AccumulateStep, AccumulateCounts
  <2>3. m' = [a EXCEPT !.total_steps = 0]
    BY <2>1 DEF ClearSteps
  <2> HIDE DEF a
  <2>4. m'.since = 0
    BY <2>2, <2>3 DEF Motors
  <2>5. QED
    BY <2>4, DriverAssumption DEF Unset
<1>4. QED
  BY <1>2, <1>3

LEMMA TickAge ==
  ASSUME AInv, m.since < MaxAge, Tick
  PROVE  m'.since <= MaxAge /\ (m'.current_freq > 0 => m'.since # Unset)
<1>1. m \in Motors /\ (m.current_freq > 0 => m.since # Unset)
  BY DEF AInv, IInv, Sound
<1>2. m.since \in Nat \cup {Unset}
  BY <1>1, MotorNumbers
<1>3. QED
  BY <1>1, <1>2, TickEffect, DriverAssumption DEF Unset

LEMMA AInitStep == AInit => AInv
<1> SUFFICES ASSUME AInit PROVE AInv
  OBVIOUS
<1>1. IInv /\ m \in Motors
  BY InitStep DEF AInit, IInv, Sound
<1>2. /\ pulses = 0 /\ stray = 0 /\ samples = 0
      /\ m.total_steps = 0 /\ m.since = Unset /\ m.current_freq = 0
  BY DEF AInit, Init, InitialMotors
<1>3. Pending = 0
  <2>1. Pending = PendingOf(m)
    BY DEF Pending, PendingOf
  <2>2. QED
    BY <1>1, <1>2, <2>1, MotorNumbers
<1>4. QED
  BY <1>1, <1>2, <1>3, MotorAssumption, DriverAssumption
  DEF AInv, OnlyStrayPulsesAreLost, Missing, Abs, Unset

LEMMA ANextPreserves == AInv /\ [ANext]_avars => AInv'
<1> SUFFICES ASSUME AInv, [ANext]_avars PROVE AInv'
  OBVIOUS
<1>1. CASE Act /\ ActHistory
  <2>1. IInv'
    BY <1>1, NextPreserves DEF AInv, Next
  <2>2. Counts(m, m') \/ Cleared
    BY <1>1, ActCounts DEF AInv
  <2>3. Accounted'
    BY <1>1, <2>1, <2>2, ClearCounts, CallCounts
  <2>4. m'.since <= MaxAge /\ (m'.current_freq > 0 => m'.since # Unset)
    BY <2>1, <2>2, ActAge
  <2>5. QED
    BY <2>1, <2>3, <2>4 DEF AInv, Accounted
<1>2. CASE m.since < MaxAge /\ Tick /\ TickHistory
  <2>1. IInv'
    BY <1>2, NextPreserves DEF AInv, Next
  <2>2. Accounted'
    BY <1>2, <2>1, TickCounts
  <2>3. m'.since <= MaxAge /\ (m'.current_freq > 0 => m'.since # Unset)
    BY <1>2, TickAge
  <2>4. QED
    BY <2>1, <2>2, <2>3 DEF AInv, Accounted
<1>3. CASE UNCHANGED avars
  <2>1. UNCHANGED vars
    BY <1>3 DEF avars, vars
  <2>2. IInv'
    BY <2>1, NextPreserves DEF AInv
  <2>3. QED
    BY <1>3, <2>2 DEF AInv, avars, OnlyStrayPulsesAreLost, Missing, Pending
<1>4. QED
  BY <1>1, <1>2, <1>3 DEF ANext

(* get_steps: however many threads share the driver and whatever each calls, *)
(* the step count is the pulses the hardware made, but for those made while  *)
(* the driver says 0 Hz, every one of which is lost, and for less than one   *)
(* step per accumulation lost to truncation.                                 *)
THEOREM CountsPulses == ASpec => []OnlyStrayPulsesAreLost
<1>1. AInv => OnlyStrayPulsesAreLost
  BY DEF AInv
<1>2. QED
  BY <1>1, AInitStep, ANextPreserves, PTL DEF ASpec

--------------------------------------------------------------------------------
\* brake, with no other thread that sets frequencies.

DriverCalls == {"set_frequency", "brake", "home"}

\* Where a thread is inside a call that sets frequencies, and inside brake.
Drives(t) == pc[t] \notin {"idle", "cf_stop", "clf", "it"}
InBrake(t) ==
  \/ pc[t] \in {"brake", "brake_sf", "brake_wait"}
  \/ pc[t] = "delay" /\ loc[t].next = "brake"

\* The frequency brake has in hand is not above the last it set, nor above that
\* of a motor that runs under one.
Slow(t) ==
  /\ Clamp(loc[t].f) <= loc[t].last
  /\ m.current_freq = 0 \/ Clamp(loc[t].f) <= m.current_freq

BInv ==
  \A t \in Threads :
    /\ Drives(t) => Calls[t] \cap DriverCalls # {}
    /\ InBrake(t) => "brake" \in Calls[t] /\ Slow(t)

LEMMA ClampMonotone ==
  ASSUME NEW f \in Nat, NEW g \in Nat, f <= g
  PROVE  Clamp(f) <= Clamp(g)
BY MotorAssumption DEF Clamp

LEMMA ClampFixes ==
  ASSUME NEW f \in Frequencies
  PROVE  Clamp(f) = f
BY MotorAssumption DEF Clamp, Frequencies

\* A section that sets no frequency but 0.
FreqKept(k, n) == n.current_freq = 0 \/ n.current_freq = k.current_freq

LEMMA SectionsKeepFreq ==
  ASSUME NEW k, Sound(k)
  PROVE  /\ FreqKept(k, Accumulate(k)) /\ FreqKept(k, Stop(k)) /\ FreqKept(k, Enable(k))
         /\ FreqKept(k, Disable(k)) /\ FreqKept(k, Start(k)) /\ FreqKept(k, ClearSteps(k))
         /\ \A d \in {"CW", "CCW"} : FreqKept(k, SetDirection(k, d))
         /\ \A r : FreqKept(k, BrakeAsync(k, r))
<1>1. k \in Motors
  BY DEF Sound
<1>2. FreqKept(k, Accumulate(k))
  BY <1>1, AccumulateStep DEF FreqKept, SameDrive
<1>3. FreqKept(k, ClearSteps(k))
  <2>1. Accumulate(k) \in Motors
    BY <1>1, AccumulateStep
  <2>2. ClearSteps(k).current_freq = Accumulate(k).current_freq
    BY <2>1 DEF ClearSteps, Motors
  <2>3. QED
    BY <1>2, <2>2 DEF FreqKept
<1>4. Stop(k) \in Motors /\ Stop(k).current_freq = 0
  BY <1>1, StopStep DEF Still
<1>5. Disable(k).current_freq = 0
  BY <1>4 DEF Disable, Motors
<1>6. /\ Enable(k).current_freq = k.current_freq /\ Start(k).current_freq = k.current_freq
      /\ \A r : BrakeAsync(k, r).current_freq = k.current_freq
  BY <1>1 DEF Enable, Start, BrakeAsync, Motors
<1>7. \A d \in {"CW", "CCW"} : SetDirection(k, d).current_freq = k.current_freq
  BY <1>1, SetDirectionStep DEF SameDrive
<1>8. QED
  BY <1>2, <1>3, <1>4, <1>5, <1>6, <1>7 DEF FreqKept

LEMMA FieldsKeepFreq ==
  ASSUME NEW k, Sound(k)
  PROVE  /\ \A b : FreqKept(k, [k EXCEPT !.fault = b])
         /\ \A b : FreqKept(k, [k EXCEPT !.state = b])
         /\ \A b : FreqKept(k, LatchFault(k, b))
         /\ FreqKept(k, ReleaseEn(k))
BY DEF Sound, Motors, FreqKept, LatchFault, FaultLatches, ReleaseEn

LEMMA OthersKeepFreq ==
  ASSUME IInv, NEW u \in Threads,
         \/ DoEnable(u) \/ DoDisable(u) \/ DoStart(u) \/ DoStop(u) \/ DoBrakeAsync(u)
         \/ DoSetDirection(u) \/ DoGetSteps(u) \/ DoClearSteps(u)
         \/ CheckFaultCall(u) \/ CheckFaultStop(u) \/ ClearFaultCall(u)
         \/ ClearFaultState(u) \/ IdleTickCall(u) \/ IdleTickRelease(u)
  PROVE  FreqKept(m, m')
<1>1. Sound(m) /\ FreqKept(m, m)
  BY DEF IInv, FreqKept
<1>2. CASE \/ DoEnable(u) \/ DoDisable(u) \/ DoStart(u) \/ DoStop(u) \/ DoBrakeAsync(u)
           \/ DoSetDirection(u) \/ DoGetSteps(u) \/ DoClearSteps(u)
  BY <1>1, <1>2, SectionsKeepFreq
  DEF DoEnable, DoDisable, DoStart, DoStop, DoBrakeAsync, DoSetDirection, DoGetSteps,
      DoClearSteps, Locked
<1>3. CASE \/ CheckFaultCall(u) \/ CheckFaultStop(u) \/ ClearFaultCall(u)
           \/ ClearFaultState(u) \/ IdleTickCall(u) \/ IdleTickRelease(u)
  BY <1>1, <1>3, SectionsKeepFreq, FieldsKeepFreq
  DEF CheckFaultCall, CheckFaultStop, ClearFaultCall, ClearFaultState, IdleTickCall,
      IdleTickRelease
<1>4. QED
  BY <1>2, <1>3

(* A thread moves on its own: what is left of the others is the motor.       *)
LEMMA ThreadMovesAlone ==
  ASSUME IInv, NEW u \in Threads, Continue(u) \/ Begin(u), NEW t \in Threads, t # u
  PROVE  pc'[t] = pc[t] /\ loc'[t] = loc[t]
<1>1. pc \in [Threads -> Labels] /\ loc \in [Threads -> Locals]
  BY DEF IInv
<1>2. CASE SetFreqCall(u) \/ SetFreqLocked(u)
  BY <1>1, <1>2 DEF SetFreqCall, SetFreqLocked, Goto, Return
<1>3. CASE \/ CheckFaultCall(u) \/ CheckFaultStop(u) \/ ClearFaultCall(u)
           \/ ClearFaultState(u) \/ IdleTickCall(u) \/ IdleTickRelease(u)
  BY <1>1, <1>3
  DEF CheckFaultCall, CheckFaultStop, ClearFaultCall, ClearFaultState, IdleTickCall,
      IdleTickRelease, Goto, Return
<1>4. CASE Brake(u) \/ BrakeCall(u)
  BY <1>1, <1>4 DEF Brake, BrakeCall, BrakeLoop, BrakeSetFreq, BrakeRefused, BrakeEnd, Goto,
                    Return, Wait
<1>5. CASE HomeCall(u)
  <2>1. PICK k : loc' = [loc EXCEPT ![u] = k]
    BY <1>5 DEF HomeCall
  <2>2. QED
    BY <1>1, <1>5, <2>1 DEF HomeCall, Goto
<1>6. CASE \/ HomeDirection(u) \/ HomeEnable(u) \/ HomeCheck(u) \/ HomeRun(u)
           \/ HomePoll(u) \/ HomeStop(u) \/ HomeEnd(u)
  BY <1>1, <1>6
  DEF HomeDirection, HomeEnable, HomeCheck, HomeRun, HomePoll, HomeStop, HomeEnd, Goto,
      Return, Wait
<1>7. CASE \/ BackoffDirection(u) \/ BackoffCheck(u) \/ BackoffRun(u)
           \/ BackoffStart(u) \/ BackoffPoll(u) \/ BackoffStop(u)
  BY <1>1, <1>7
  DEF BackoffDirection, BackoffCheck, BackoffRun, BackoffStart, BackoffPoll, BackoffStop,
      Goto, Wait
<1>8. CASE \/ DoEnable(u) \/ DoDisable(u) \/ DoStart(u) \/ DoStop(u) \/ DoBrakeAsync(u)
           \/ DoSetDirection(u) \/ DoGetSteps(u) \/ DoClearSteps(u)
  BY <1>8
  DEF DoEnable, DoDisable, DoStart, DoStop, DoBrakeAsync, DoSetDirection, DoGetSteps,
      DoClearSteps, Locked
<1>9. QED
  BY <1>2, <1>3, <1>4, <1>5, <1>6, <1>7, <1>8 DEF Continue, Begin, Home

(* A thread gets into a call that sets frequencies by making one.            *)
LEMMA DrivesByCall ==
  ASSUME IInv, NEW u \in Threads, Continue(u) \/ Begin(u), ~Drives(u), Drives(u)'
  PROVE  SetFreqCall(u) \/ BrakeCall(u) \/ HomeCall(u)
<1>1. pc \in [Threads -> Labels]
  BY DEF IInv
<1>2. pc[u] \in {"idle", "cf_stop", "clf", "it"}
  BY DEF Drives
<1>3. ~SetFreqLocked(u) /\ ~Brake(u) /\ ~Home(u)
  BY <1>2
  DEF SetFreqLocked, Brake, BrakeLoop, BrakeSetFreq, BrakeRefused, BrakeEnd, Home,
      HomeDirection, HomeEnable, HomeCheck, HomeRun, HomePoll, HomeStop, HomeEnd,
      BackoffDirection, BackoffCheck, BackoffRun, BackoffStart, BackoffPoll, BackoffStop
<1>4. ASSUME \/ CheckFaultCall(u) \/ CheckFaultStop(u) \/ ClearFaultCall(u)
             \/ ClearFaultState(u) \/ IdleTickCall(u) \/ IdleTickRelease(u)
      PROVE  FALSE
  BY <1>1, <1>4
  DEF CheckFaultCall, CheckFaultStop, ClearFaultCall, ClearFaultState, IdleTickCall,
      IdleTickRelease, Goto, Return, Drives
<1>5. ASSUME \/ DoEnable(u) \/ DoDisable(u) \/ DoStart(u) \/ DoStop(u) \/ DoBrakeAsync(u)
             \/ DoSetDirection(u) \/ DoGetSteps(u) \/ DoClearSteps(u)
      PROVE  FALSE
  BY <1>5
  DEF DoEnable, DoDisable, DoStart, DoStop, DoBrakeAsync, DoSetDirection, DoGetSteps,
      DoClearSteps, Locked, Drives
<1>6. QED
  BY <1>3, <1>4, <1>5 DEF Continue, Begin

(* A step of a thread that does not drive leaves brake's frequency above.    *)
LEMMA OthersStaySlow ==
  ASSUME IInv, NEW t \in Threads, NEW u \in Threads, t # u, Continue(u) \/ Begin(u),
         ~Drives(u), Calls[u] \cap DriverCalls = {}, Slow(t)
  PROVE  Slow(t)'
<1>1. ~SetFreqCall(u) /\ ~BrakeCall(u) /\ ~HomeCall(u)
  BY DEF SetFreqCall, BrakeCall, HomeCall, Call, DriverCalls
<1>2. ~SetFreqLocked(u) /\ ~Brake(u) /\ ~Home(u)
  BY DEF Drives, SetFreqLocked, Brake, BrakeLoop, BrakeSetFreq, BrakeRefused, BrakeEnd, Home,
      HomeDirection, HomeEnable, HomeCheck, HomeRun, HomePoll, HomeStop, HomeEnd,
      BackoffDirection, BackoffCheck, BackoffRun, BackoffStart, BackoffPoll, BackoffStop
<1>3. FreqKept(m, m')
  BY <1>1, <1>2, OthersKeepFreq DEF Continue, Begin
<1>4. loc'[t] = loc[t]
  BY ThreadMovesAlone
<1>5. QED
  BY <1>3, <1>4 DEF FreqKept, Slow

(* brake's own steps: the call, and each turn of its loop.                   *)
LEMMA BrakeStaysSlow ==
  ASSUME IInv, NEW t \in Threads, Brake(t), InBrake(t), Slow(t)
  PROVE  InBrake(t)' => Slow(t)'
<1>1. /\ pc \in [Threads -> Labels] /\ loc \in [Threads -> Locals]
      /\ m \in Motors /\ Agree(m) /\ loc[t] \in Locals
      /\ loc[t].f \in Nat /\ loc[t].last \in Nat /\ loc[t].rate \in Nat
  BY DEF IInv, Locals, Sound
<1>2. m.current_freq \in Int
  BY <1>1, MotorAssumption DEF Motors, Frequencies
<1>3. CASE BrakeLoop(t)
  <2> DEFINE f == IF loc[t].f > loc[t].rate THEN loc[t].f - loc[t].rate ELSE 0
  <2>1. f \in Nat /\ f <= loc[t].f
    BY <1>1
  <2>2. loc' = [loc EXCEPT ![t].f = f] /\ m' = m
    BY <1>3 DEF BrakeLoop
  <2> HIDE DEF f
  <2>3. loc'[t].f = f /\ loc'[t].last = loc[t].last
    BY <1>1, <2>2 DEF Locals
  <2>4. Clamp(f) <= Clamp(loc[t].f)
    BY <1>1, <2>1, ClampMonotone
  <2>5. Clamp(f) \in Int /\ Clamp(loc[t].f) \in Int
    BY <1>1, <2>1, ClampType, MotorAssumption DEF Frequencies
  <2>6. QED
    BY <1>1, <1>2, <2>2, <2>3, <2>4, <2>5 DEF Slow
<1>4. CASE BrakeSetFreq(t)
  <2>1. m' = SetFrequency(m, loc[t].f) /\ loc'[t] = WithLast(loc[t], Clamp(loc[t].f), "brake")
    BY <1>1, <1>4 DEF BrakeSetFreq, WithLast
  <2>2. m'.current_freq = Clamp(loc[t].f)
    BY <1>1, <2>1, SetFrequencyStep, ClampType DEF Still, DrivenAt
  <2>3. /\ Clamp(loc[t].f) \in Nat
        /\ loc'[t].f = loc[t].f /\ loc'[t].last = Clamp(loc[t].f)
    <3>1. Clamp(loc[t].f) \in Nat
      BY <1>1, ClampType, MotorAssumption DEF Frequencies
    <3>2. PICK k \in Locals, l \in Nat : k = loc[t] /\ l = Clamp(loc[t].f)
      BY <1>1, <3>1
    <3>3. WithLast(k, l, "brake").f = k.f /\ WithLast(k, l, "brake").last = l
      BY WithLastType
    <3>4. QED
      BY <2>1, <3>1, <3>2, <3>3
  <2>4. QED
    BY <2>1, <2>2, <2>3 DEF Slow
<1>5. CASE BrakeRefused(t)
  BY <1>1, <1>5 DEF BrakeRefused, Wait, Locals, Slow
<1>6. CASE BrakeEnd(t)
  BY <1>1, <1>6 DEF BrakeEnd, Return, Goto, InBrake
<1>7. QED
  BY <1>3, <1>4, <1>5, <1>6 DEF Brake

LEMMA BrakeStartsSlow ==
  ASSUME IInv, NEW t \in Threads, BrakeCall(t)
  PROVE  InBrake(t)' => Slow(t)' /\ "brake" \in Calls[t]
<1>1. pc \in [Threads -> Labels] /\ loc \in [Threads -> Locals] /\ m \in Motors
  BY DEF IInv, Sound
<1>2. m.current_freq \in Frequencies
  BY <1>1 DEF Motors
<1>3. pc[t] = "idle" /\ "brake" \in Calls[t]
  BY DEF BrakeCall, Call
<1>4. PICK r \in Rates :
        IF r = 0 THEN m' = Stop(m) /\ UNCHANGED <<pc, loc>>
        ELSE /\ m' = [m EXCEPT !.state = "BRAKING"]
             /\ loc' = [loc EXCEPT ![t] = WithBrake(@, m.current_freq, m.current_freq, r)]
             /\ Goto(t, "brake")
  BY DEF BrakeCall, WithBrake
<1>5. CASE r = 0
  BY <1>3, <1>4, <1>5 DEF InBrake
<1>6. CASE r # 0
  <2>1. m'.current_freq = m.current_freq
    BY <1>1, <1>4, <1>6 DEF Motors
  <2>2. loc'[t].f = m.current_freq /\ loc'[t].last = m.current_freq
    <3>1. loc'[t] = WithBrake(loc[t], m.current_freq, m.current_freq, r)
      BY <1>1, <1>4, <1>6
    <3>2. m.current_freq \in Nat /\ r \in Nat /\ loc[t] \in Locals
      BY <1>1, <1>2, MotorAssumption, DriverAssumption DEF Frequencies
    <3>3. PICK l \in Locals, f \in Nat : l = loc[t] /\ f = m.current_freq
      BY <3>2
    <3>4. WithBrake(l, f, f, r).f = f /\ WithBrake(l, f, f, r).last = f
      BY <3>2 DEF WithBrake, Locals
    <3>5. QED
      BY <3>1, <3>3, <3>4
  <2>3. Clamp(m.current_freq) <= m.current_freq
    BY <1>2, ClampFixes, MotorAssumption DEF Frequencies
  <2>4. QED
    BY <1>3, <2>1, <2>2, <2>3 DEF Slow
<1>7. QED
  BY <1>5, <1>6

\* A thread is in brake by its call, or its steps.
LEMMA InBrakeByCall ==
  ASSUME IInv, NEW t \in Threads, Continue(t) \/ Begin(t), InBrake(t)'
  PROVE  BrakeCall(t) \/ (InBrake(t) /\ Brake(t))
<1>1. pc \in [Threads -> Labels] /\ loc \in [Threads -> Locals]
  BY DEF IInv
<1>2. CASE Brake(t)
  BY <1>2 DEF Brake, BrakeLoop, BrakeSetFreq, BrakeRefused, BrakeEnd, InBrake
<1>3. ASSUME SetFreqCall(t) \/ SetFreqLocked(t) PROVE FALSE
  BY <1>1, <1>3 DEF SetFreqCall, SetFreqLocked, Goto, Return, InBrake
<1>4. ASSUME \/ CheckFaultCall(t) \/ CheckFaultStop(t) \/ ClearFaultCall(t)
             \/ ClearFaultState(t) \/ IdleTickCall(t) \/ IdleTickRelease(t)
      PROVE  FALSE
  BY <1>1, <1>4
  DEF CheckFaultCall, CheckFaultStop, ClearFaultCall, ClearFaultState, IdleTickCall,
      IdleTickRelease, Goto, Return, InBrake
<1>5. ASSUME HomeCall(t) PROVE FALSE
  BY <1>1, <1>5 DEF HomeCall, Goto, InBrake
<1>6. ASSUME \/ HomeDirection(t) \/ HomeEnable(t) \/ HomeCheck(t) \/ HomeRun(t)
             \/ HomePoll(t) \/ HomeStop(t) \/ HomeEnd(t)
      PROVE  FALSE
  BY <1>1, <1>6
  DEF HomeDirection, HomeEnable, HomeCheck, HomeRun, HomePoll, HomeStop, HomeEnd, Goto,
      Return, Wait, InBrake, Locals
<1>7. ASSUME \/ BackoffDirection(t) \/ BackoffCheck(t) \/ BackoffRun(t)
             \/ BackoffStart(t) \/ BackoffPoll(t) \/ BackoffStop(t)
      PROVE  FALSE
  BY <1>1, <1>7
  DEF BackoffDirection, BackoffCheck, BackoffRun, BackoffStart, BackoffPoll, BackoffStop,
      Goto, Wait, InBrake, Locals
<1>8. ASSUME \/ DoEnable(t) \/ DoDisable(t) \/ DoStart(t) \/ DoStop(t) \/ DoBrakeAsync(t)
             \/ DoSetDirection(t) \/ DoGetSteps(t) \/ DoClearSteps(t)
      PROVE  FALSE
  BY <1>8
  DEF DoEnable, DoDisable, DoStart, DoStop, DoBrakeAsync, DoSetDirection, DoGetSteps,
      DoClearSteps, Locked, Call, InBrake
<1>9. QED
  BY <1>2, <1>3, <1>4, <1>5, <1>6, <1>7, <1>8 DEF Continue, Begin, Home

LEMMA ThreadBraking ==
  ASSUME IInv, BInv, OneDriver, NEW u \in Threads, Continue(u) \/ Begin(u)
  PROVE  BInv'
<1> SUFFICES ASSUME NEW t \in Threads
             PROVE  /\ Drives(t)' => Calls[t] \cap DriverCalls # {}
                    /\ InBrake(t)' => "brake" \in Calls[t] /\ Slow(t)'
  BY DEF BInv
<1>1. CASE t = u
  <2>1. Drives(t)' => Calls[t] \cap DriverCalls # {}
    BY <1>1, DrivesByCall DEF BInv, SetFreqCall, BrakeCall, HomeCall, Call, DriverCalls
  <2>2. InBrake(t)' => "brake" \in Calls[t] /\ Slow(t)'
    BY <1>1, InBrakeByCall, BrakeStartsSlow, BrakeStaysSlow DEF BInv
  <2>3. QED
    BY <2>1, <2>2
<1>2. CASE t # u
  <2>1. pc'[t] = pc[t] /\ loc'[t] = loc[t]
    BY <1>2, ThreadMovesAlone
  <2>2. Drives(t)' = Drives(t) /\ InBrake(t)' = InBrake(t)
    BY <2>1 DEF Drives, InBrake
  <2>3. ASSUME InBrake(t) PROVE "brake" \in Calls[t] /\ Slow(t)'
    <3>1. "brake" \in Calls[t] /\ Slow(t)
      BY <2>3 DEF BInv
    <3>2. Calls[u] \cap DriverCalls = {}
      BY <1>2, <3>1 DEF OneDriver, DriverCalls
    <3>3. ~Drives(u)
      BY <3>2 DEF BInv
    <3>4. QED
      BY <1>2, <3>1, <3>2, <3>3, OthersStaySlow
  <2>4. QED
    BY <2>2, <2>3 DEF BInv
<1>3. QED
  BY <1>1, <1>2

LEMMA TickBraking ==
  ASSUME IInv, BInv, Tick
  PROVE  BInv'
<1> SUFFICES ASSUME NEW t \in Threads
             PROVE  /\ Drives(t)' => Calls[t] \cap DriverCalls # {}
                    /\ InBrake(t)' => "brake" \in Calls[t] /\ Slow(t)'
  BY DEF BInv
<1>1. m \in Motors /\ loc[t] \in Locals
  BY DEF IInv, Sound
<1>2. m'.current_freq = m.current_freq
  BY <1>1 DEF Tick, Age, Motors
<1>3. pc'[t] = IF pc[t] = "delay" THEN loc[t].next ELSE pc[t]
  BY DEF Tick
<1>4. loc'[t].f = loc[t].f /\ loc'[t].last = loc[t].last /\ loc'[t].next = loc[t].next
  BY <1>1 DEF Tick, Locals
<1>5. Drives(t)' => Drives(t)
  BY <1>3 DEF Drives
<1>6. InBrake(t)' => InBrake(t)
  BY <1>1, <1>3, <1>4 DEF InBrake, Locals
<1>7. Slow(t)' = Slow(t)
  BY <1>2, <1>4 DEF Slow
<1>8. QED
  BY <1>5, <1>6, <1>7 DEF BInv

LEMMA BrakingPreserves ==
  ASSUME IInv, BInv, OneDriver, [Next]_vars
  PROVE  BInv'
<1>1. CASE \E t \in Threads : Continue(t) \/ Begin(t)
  BY <1>1, ThreadBraking
<1>2. CASE Tick
  BY <1>2, TickBraking
<1>3. CASE FaultPinChanges \/ HomePinChanges \/ UNCHANGED vars
  BY <1>3 DEF FaultPinChanges, HomePinChanges, vars, BInv, Drives, InBrake, Slow
<1>4. QED
  BY <1>1, <1>2, <1>3 DEF Next, Act

\* A step that leaves brake's section is the section.
LEMMA BrakeSetsFreq ==
  ASSUME IInv, Next, NEW t \in Threads, pc[t] = "brake_sf", pc'[t] # "brake_sf"
  PROVE  BrakeSetFreq(t)
<1>1. ~Tick /\ ~FaultPinChanges /\ ~HomePinChanges
  BY DEF Tick, FaultPinChanges, HomePinChanges
<1>2. PICK u \in Threads : Continue(u) \/ Begin(u)
  BY <1>1 DEF Next, Act
<1>3. u = t
  BY <1>2, ThreadMovesAlone
<1>4. ~Begin(t)
  BY DEF Begin, DoEnable, DoDisable, DoStart, DoStop, DoBrakeAsync, DoSetDirection,
         DoGetSteps, DoClearSteps, SetFreqCall, CheckFaultCall, ClearFaultCall,
         IdleTickCall, BrakeCall, HomeCall, Locked, Call
<1>5. QED
  BY <1>2, <1>3, <1>4
  DEF Continue, SetFreqLocked, CheckFaultStop, ClearFaultState, IdleTickRelease, Brake,
      BrakeLoop, BrakeRefused, BrakeEnd, Home, HomeDirection, HomeEnable, HomeCheck,
      HomeRun, HomePoll, HomeStop, HomeEnd, BackoffDirection, BackoffCheck, BackoffRun,
      BackoffStart, BackoffPoll, BackoffStop

\* One step of BrakeOnlySlows.
SlowsStep ==
  \A t \in Threads : pc[t] = "brake_sf" /\ pc'[t] # "brake_sf" =>
    /\ m'.current_freq <= loc[t].last
    /\ m.current_freq > 0 => m'.current_freq <= m.current_freq

(* brake sets no frequency above the last it set, nor above the one the      *)
(* motor runs under, for any number of threads that latch faults, stop,      *)
(* start or turn the motor meanwhile, as long as none of them sets a         *)
(* frequency.  A motor stopped meanwhile it starts again.                    *)
THEOREM BrakeSlows == OneDriver /\ Spec => BrakeOnlySlows
<1> SUFFICES ASSUME OneDriver PROVE Spec => BrakeOnlySlows
  OBVIOUS
<1>1. Init => BInv
  BY DEF Init, BInv, Drives, InBrake
<1>2. IInv /\ BInv /\ [Next]_vars => BInv'
  BY BrakingPreserves
<1>3. IInv /\ BInv /\ [Next]_vars => [SlowsStep]_vars
  <2> SUFFICES ASSUME IInv, BInv, Next, NEW t \in Threads, pc[t] = "brake_sf",
                      pc'[t] # "brake_sf"
               PROVE  /\ m'.current_freq <= loc[t].last
                      /\ m.current_freq > 0 => m'.current_freq <= m.current_freq
    BY DEF SlowsStep
  <2>1. m' = SetFrequency(m, loc[t].f)
    BY BrakeSetsFreq DEF BrakeSetFreq
  <2>2. m \in Motors /\ Agree(m) /\ loc[t].f \in Nat
    BY DEF IInv, Sound, Locals
  <2>3. m'.current_freq = Clamp(loc[t].f)
    BY <2>1, <2>2, SetFrequencyStep, ClampType DEF Still, DrivenAt
  <2>4. Slow(t)
    BY DEF BInv, InBrake
  <2>5. QED
    BY <2>3, <2>4 DEF Slow
<1>4. [SlowsStep]_vars =>
        [\A t \in Threads : pc[t] = "brake_sf" /\ pc'[t] # "brake_sf" =>
           /\ m'.current_freq <= loc[t].last
           /\ m.current_freq > 0 => m'.current_freq <= m.current_freq]_vars
  BY DEF SlowsStep
<1>5. QED
  BY Invariance, <1>1, <1>2, <1>3, <1>4, PTL DEF Spec, BrakeOnlySlows
================================================================================
