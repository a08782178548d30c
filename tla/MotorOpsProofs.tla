---------------------------- MODULE MotorOpsProofs ----------------------------
(***************************************************************************)
(* What each function of the motor driver does to a motor, for every value *)
(* of the constants: lemmas for the theorems about the driver's callers.   *)
(***************************************************************************)
EXTENDS MotorOps, TLAPS

(* Motors with a few fields assigned.  The values are parameters, for the    *)
(* provers handle a record with several literal fields badly.                *)
WithCount(n, t, s) == [n EXCEPT !.total_steps = t, !.since = s]
WithDrive(n, oc, r, hz) == [n EXCEPT !.oc = oc, !.running = r, !.hz = hz]
WithFreq(n, f, s, i) == [n EXCEPT !.current_freq = f, !.state = s, !.idle = i]
WithSpeed(n, f, s) == [n EXCEPT !.current_freq = f, !.state = s]
WithDir(n, d) == [n EXCEPT !.dir = d, !.current_dir = d]

(* Fields that both motors share.                                            *)
SameDrive(n, k) ==
  n.oc = k.oc /\ n.running = k.running /\ n.hz = k.hz /\ n.current_freq = k.current_freq
SameFlags(n, k) == n.enabled = k.enabled /\ n.en = k.en /\ n.fault = k.fault
SameDir(n, k) == n.dir = k.dir /\ n.current_dir = k.current_dir

LEMMA WithCountType ==
  ASSUME NEW n \in Motors, NEW t \in Int, NEW s \in Nat \cup {Unset}
  PROVE  /\ WithCount(n, t, s) \in Motors
         /\ SameDrive(WithCount(n, t, s), n) /\ SameFlags(WithCount(n, t, s), n)
         /\ SameDir(WithCount(n, t, s), n) /\ WithCount(n, t, s).state = n.state
BY DEF Motors, WithCount, SameDrive, SameFlags, SameDir

LEMMA WithDriveType ==
  ASSUME NEW n \in Motors, NEW oc \in BOOLEAN, NEW r \in BOOLEAN,
         NEW hz \in {ResetHz} \cup Frequencies
  PROVE  LET k == WithDrive(n, oc, r, hz)
         IN  /\ k \in Motors /\ k.oc = oc /\ k.running = r /\ k.hz = hz
             /\ k.current_freq = n.current_freq /\ k.state = n.state
             /\ SameFlags(k, n) /\ SameDir(k, n)
BY DEF Motors, WithDrive, SameFlags, SameDir

LEMMA WithFreqType ==
  ASSUME NEW n \in Motors, NEW f \in Frequencies, NEW s \in States,
         NEW i \in 0..IdleTimeout
  PROVE  LET k == WithFreq(n, f, s, i)
         IN  /\ k \in Motors /\ k.current_freq = f /\ k.state = s
             /\ k.oc = n.oc /\ k.running = n.running /\ k.hz = n.hz
             /\ SameFlags(k, n) /\ SameDir(k, n)
BY DEF Motors, WithFreq, SameFlags, SameDir

LEMMA WithSpeedType ==
  ASSUME NEW n \in Motors, NEW f \in Frequencies, NEW s \in States
  PROVE  LET k == WithSpeed(n, f, s)
         IN  /\ k \in Motors /\ k.current_freq = f /\ k.state = s
             /\ k.oc = n.oc /\ k.running = n.running /\ k.hz = n.hz
             /\ SameFlags(k, n) /\ SameDir(k, n)
BY DEF Motors, WithSpeed, SameFlags, SameDir

(* The steps of a period are a whole number.                                 *)
LEMMA IncrementType ==
  ASSUME NEW n \in Motors, n.since \in Nat
  PROVE  Increment(n) \in Int
<1>1. n.current_freq \in Nat
  BY MotorAssumption DEF Motors, Frequencies
<1>2. PICK p \in Nat : p = n.current_freq * n.since
  BY <1>1
<1>3. p \div TicksPerSec \in Int
  BY MotorAssumption
<1>4. QED
  BY <1>2, <1>3 DEF Increment

(* Counting steps changes nothing but the count.                             *)
LEMMA AccumulateStep ==
  ASSUME NEW n \in Motors
  PROVE  /\ Accumulate(n) \in Motors
         /\ SameDrive(Accumulate(n), n) /\ SameFlags(Accumulate(n), n)
         /\ SameDir(Accumulate(n), n) /\ Accumulate(n).state = n.state
<1>1. CASE n.since = Unset
  <2>1. Accumulate(n) = WithCount(n, n.total_steps, 0)
    BY <1>1 DEF Accumulate, WithCount, Motors
  <2>2. QED
    BY <2>1, WithCountType DEF Motors
<1>2. CASE n.since # Unset
  <2>1. n.since \in Nat
    BY <1>2 DEF Motors
  <2>2. n.total_steps + Increment(n) \in Int
    BY <2>1, IncrementType DEF Motors
  <2>3. Accumulate(n) = WithCount(n, n.total_steps + Increment(n), 0)
    BY <1>2 DEF Accumulate, WithCount
  <2>4. QED
    BY <2>2, <2>3, WithCountType
<1>3. QED
  BY <1>1, <1>2

(* A motor at rest: no pulses, and the flags say so.                         *)
Still(n) == ~n.oc /\ ~n.running /\ n.current_freq = 0

(* A motor driven at f Hz.                                                   *)
DrivenAt(n, f) == n.oc /\ n.running /\ n.current_freq = f /\ n.hz = f

(* The OC channel is on iff running says so, and at the frequency in force.  *)
Agree(n) ==
  /\ n.oc = n.running
  /\ n.current_freq > 0 => n.oc /\ n.hz = n.current_freq

LEMMA StopStep ==
  ASSUME NEW n \in Motors
  PROVE  /\ Stop(n) \in Motors /\ Still(Stop(n))
         /\ SameFlags(Stop(n), n) /\ SameDir(Stop(n), n)
<1> DEFINE a == Accumulate(n)
           w == WithDrive(a, FALSE, FALSE, a.hz)
<1>1. a \in Motors /\ SameFlags(a, n) /\ SameDir(a, n)
  BY AccumulateStep
<1>2. Stop(n) = WithFreq(w, 0, "IDLE", 0)
  BY <1>1 DEF Stop, WithDrive, WithFreq, Motors
<1> HIDE DEF a
<1>3. a.hz \in {ResetHz} \cup Frequencies
  BY <1>1 DEF Motors
<1>4. w \in Motors /\ ~w.oc /\ ~w.running /\ SameFlags(w, a) /\ SameDir(w, a)
  BY <1>1, <1>3, WithDriveType
<1> HIDE DEF w
<1>5. 0 \in Frequencies /\ "IDLE" \in States /\ 0 \in 0..IdleTimeout
  BY MotorAssumption DEF Frequencies, States
<1>6. QED
  BY <1>1, <1>2, <1>4, <1>5, WithFreqType DEF Still, SameFlags, SameDir

LEMMA ClampType ==
  ASSUME NEW f \in Nat
  PROVE  Clamp(f) \in Frequencies /\ (Clamp(f) = 0 <=> f = 0)
BY MotorAssumption DEF Clamp, Frequencies

(* set_frequency stops the motor or drives it at the clamped frequency.      *)
LEMMA SetFrequencyStep ==
  ASSUME NEW n \in Motors, NEW f \in Nat, Agree(n)
  PROVE  /\ SetFrequency(n, f) \in Motors
         /\ f = 0 => Still(SetFrequency(n, f))
         /\ f > 0 => DrivenAt(SetFrequency(n, f), Clamp(f))
         /\ SameFlags(SetFrequency(n, f), n) /\ SameDir(SetFrequency(n, f), n)
<1> DEFINE a == Accumulate(n)
           c == Clamp(f)
<1>1. a \in Motors /\ SameDrive(a, n) /\ SameFlags(a, n) /\ SameDir(a, n)
  BY AccumulateStep
<1>2. c \in Frequencies /\ (c = 0 <=> f = 0) /\ c >= 0
  BY ClampType, MotorAssumption DEF Frequencies
<1>3. SetFrequency(n, f) =
        LET w == WriteFreq(a, c)
        IN  IF c = 0 THEN [w EXCEPT !.current_freq = 0, !.state = "IDLE", !.idle = 0]
            ELSE [w EXCEPT !.current_freq = c,
                           !.state = IF @ = "BRAKING" THEN @ ELSE "RUNNING"]
  BY DEF SetFrequency
<1> HIDE DEF a, c
<1>4. a.hz \in {ResetHz} \cup Frequencies /\ a.idle \in 0..IdleTimeout /\ a.state \in States
  BY <1>1 DEF Motors
<1>5. CASE f = 0
  <2> DEFINE w == WithDrive(a, FALSE, FALSE, a.hz)
  <2>1. WriteFreq(a, c) = w
    BY <1>1, <1>2, <1>5 DEF WriteFreq, WithDrive, Motors
  <2>2. w \in Motors /\ ~w.oc /\ ~w.running /\ SameFlags(w, a) /\ SameDir(w, a)
    BY <1>1, <1>4, WithDriveType
  <2> HIDE DEF w
  <2>3. SetFrequency(n, f) = WithFreq(w, 0, "IDLE", 0)
    BY <1>2, <1>3, <1>5, <2>1 DEF WithFreq
  <2>4. 0 \in Frequencies /\ "IDLE" \in States /\ 0 \in 0..IdleTimeout
    BY MotorAssumption DEF Frequencies, States
  <2>5. QED
    BY <1>1, <1>5, <2>2, <2>3, <2>4, WithFreqType DEF Still, SameFlags, SameDir
<1>6. CASE f > 0
  <2> DEFINE w == WithDrive(a, TRUE, TRUE, c)
             s == IF w.state = "BRAKING" THEN w.state ELSE "RUNNING"
  <2>1. (a.oc \/ ~a.running) = TRUE
    BY <1>1 DEF Agree, SameDrive
  <2>2. WriteFreq(a, c) = w
    <3>1. WriteFreq(a, c) =
            [a EXCEPT !.oc = a.oc \/ ~a.running, !.running = TRUE, !.hz = c]
      BY <1>2, <1>6 DEF WriteFreq
    <3>2. QED
      BY <2>1, <3>1 DEF WithDrive
  <2> c \in {ResetHz} \cup Frequencies
    BY <1>2
  <2>3. w \in Motors /\ w.oc /\ w.running /\ w.hz = c /\ SameFlags(w, a) /\ SameDir(w, a)
    BY <1>1, <1>2, WithDriveType
  <2> HIDE DEF w
  <2>4. s \in States
    BY <2>3 DEF Motors, States
  <2>5. SetFrequency(n, f) = WithSpeed(w, c, s)
    BY <1>2, <1>3, <1>6, <2>2, <2>3 DEF WithSpeed
  <2> HIDE DEF s
  <2>6. QED
    BY <1>1, <1>2, <1>6, <2>3, <2>4, <2>5, WithSpeedType
    DEF DrivenAt, SameFlags, SameDir, c
<1>7. QED
  BY <1>5, <1>6

(* set_direction changes the direction, and the count.                       *)
LEMMA SetDirectionStep ==
  ASSUME NEW n \in Motors, NEW d \in {"CW", "CCW"}
  PROVE  /\ SetDirection(n, d) \in Motors
         /\ SameDrive(SetDirection(n, d), n) /\ SameFlags(SetDirection(n, d), n)
         /\ SetDirection(n, d).dir = d /\ SetDirection(n, d).current_dir = d
<1> DEFINE a == Accumulate(n)
<1>1. a \in Motors /\ SameDrive(a, n) /\ SameFlags(a, n)
  BY AccumulateStep
<1>2. SetDirection(n, d) = WithDir(a, d)
  BY DEF SetDirection, WithDir
<1> HIDE DEF a
<1>3. WithDir(a, d) \in Motors /\ SameDrive(WithDir(a, d), a)
      /\ SameFlags(WithDir(a, d), a)
      /\ WithDir(a, d).dir = d /\ WithDir(a, d).current_dir = d
  BY <1>1 DEF Motors, WithDir, SameDrive, SameFlags
<1>4. QED
  BY <1>1, <1>2, <1>3 DEF SameDrive, SameFlags

(* start pulses the motor at whatever frequency the registers hold.          *)
LEMMA StartStep ==
  ASSUME NEW n \in Motors
  PROVE  /\ Start(n) \in Motors /\ Start(n).oc /\ Start(n).running
         /\ Start(n).current_freq = n.current_freq /\ Start(n).hz = n.hz
         /\ Start(n).fault = n.fault /\ SameDir(Start(n), n)
BY DEF Start, Motors, States, SameDir

(* A motor that init leaves behind stands still.                             *)
LEMMA InitialMotor ==
  ASSUME NEW n \in InitialMotors
  PROVE  n \in Motors /\ Still(n) /\ ~n.fault
<1>1. PICK d \in {"CW", "CCW"} :
        n = [enabled |-> FALSE, running |-> FALSE, state |-> "IDLE", brake_decel |-> 0,
             current_freq |-> 0, current_dir |-> "unset", total_steps |-> 0,
             fault |-> FALSE, since |-> Unset, idle |-> IdleTimeout,
             en |-> FALSE, oc |-> FALSE, hz |-> ResetHz, dir |-> d]
  BY DEF InitialMotors
<1>2. /\ 0 \in Frequencies /\ "IDLE" \in States /\ IdleTimeout \in 0..IdleTimeout
      /\ ResetHz \in {ResetHz} \cup Frequencies /\ Unset \in Nat \cup {Unset}
  BY MotorAssumption DEF Frequencies, States
<1>3. QED
  BY <1>1, <1>2 DEF Motors, Still
================================================================================
