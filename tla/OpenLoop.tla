-------------------------------- MODULE OpenLoop -------------------------------
(***************************************************************************)
(* stepper_openloop.c: a control thread that ramps the pulse frequency, and *)
(* the shell that starts, stops, retunes and moves it.  The thread preempts *)
(* the shell anywhere and finishes its period before the shell goes on, so  *)
(* a period is one step and the shell makes one assignment per step.        *)
(* Frequencies are whole Hz; steps are counted in 1/FreqHz of a step, what  *)
(* one Hz makes in one period.  The loop never looks at the fault pin.      *)
(***************************************************************************)
EXTENDS MotorOps

CONSTANTS
  Accel,      (* max_accel, Hz per period                              *)
  FreqHz,     (* freq_hz, periods per second                           *)
  Speeds,     (* arguments of set_freq, and of move when positive      *)
  Lengths,    (* arguments of move in steps, CW positive               *)
  MaxAcc      (* BOUND: |acc_steps| counted, see BoundAssumption       *)

ASSUME OpenLoopAssumption ==
  /\ Accel \in Nat \ {0} /\ FreqHz \in Nat \ {0} /\ MaxAcc \in Nat
  /\ MinFreq <= Accel
  /\ Speeds \subseteq Int /\ Lengths \subseteq Int
  /\ \E f \in Speeds : \A g \in Speeds : g <= f

VARIABLES
  o,          (* the fields of stepper_openloop_t                      *)
  m,          (* its motor, see MotorOps                               *)
  pc,         (* the shell's next assignment                           *)
  arg,        (* arguments of the shell's call of move                 *)
  clean       (* history: the last call was a move that no period      *)
              (* preempted and that had room to brake                  *)

vars == <<o, m, pc, arg, clean>>

NoMove == [steps |-> 0, speed |-> 0]

Init ==
  /\ o = [running |-> FALSE, target |-> 0, cur |-> 0, dir |-> "CW",
          pos_mode |-> FALSE, total |-> 0, acc |-> 0]
  /\ m \in InitialMotors
  /\ pc = "idle" /\ arg = NoMove /\ clean = FALSE

--------------------------------------------------------------------------------
\* The control thread.

Remaining == o.total - o.acc

\* Mutant: the braking distance lacks its factor 2.
MutBrakes == o.pos_mode /\ Accel * Remaining <= o.cur * o.cur

\* remaining <= current_freq^2 / (2 * max_accel * freq_hz)
Brakes == o.pos_mode /\ 2 * Accel * Remaining <= o.cur * o.cur

\* remaining <= 0.5
Done == o.pos_mode /\ 2 * Remaining <= FreqHz

\* Mutant: only deceleration is limited.
MutRamp(from, to) == IF to - from < -Accel THEN from - Accel ELSE to

\* Mutant: the last step of the ramp is not shortened.
MutRampPast(from, to) ==
  IF to > from THEN from + Accel ELSE IF to < from THEN from - Accel ELSE to

Ramp(from, to) ==
  IF to - from > Accel THEN from + Accel
  ELSE IF to - from < -Accel THEN from - Accel ELSE to

Count(steps) ==
  IF steps > MaxAcc THEN MaxAcc ELSE IF steps < -MaxAcc THEN -MaxAcc ELSE steps

RestPeriod ==
  /\ ~o.running
  /\ o' = [o EXCEPT !.cur = 0, !.pos_mode = FALSE]
  /\ UNCHANGED m

\* Mutant: a move that is done leaves the motor to the next period.
MutDonePeriod ==
  /\ o.running /\ Done
  /\ o' = [o EXCEPT !.cur = 0, !.pos_mode = FALSE]
  /\ UNCHANGED m

DonePeriod ==
  /\ o.running /\ Done
  /\ o' = [o EXCEPT !.cur = 0, !.target = 0, !.pos_mode = FALSE]
  /\ m' = SetFrequency(m, 0)

RunPeriod ==
  /\ o.running /\ ~Done
  /\ LET target == IF Brakes THEN 0 ELSE o.target
         cur    == Ramp(o.cur, target)
     IN  /\ o' = [o EXCEPT !.target = target, !.cur = cur, !.acc = Count(@ + cur)]
         /\ m' = SetFrequency(SetDirection(m, o.dir), IF cur > 0 THEN cur ELSE 0)

Period ==
  /\ RestPeriod \/ DonePeriod \/ RunPeriod
  /\ clean' = (clean /\ pc = "idle")
  /\ UNCHANGED <<pc, arg>>

--------------------------------------------------------------------------------
\* The shell, one assignment at a time.

Goto(from, to) == pc = from /\ pc' = to
Assign(from, field, value, to) ==
  /\ Goto(from, to)
  /\ o' = [o EXCEPT ![field] = value]
  /\ UNCHANGED <<m, arg>>

Starting ==
  \/ Assign("start", "cur", Accel, "start_target")
  \/ Assign("start_target", "target", Accel, "start_mode")
  \/ Assign("start_mode", "pos_mode", FALSE, "start_acc")
  \/ Assign("start_acc", "acc", 0, "start_motor")
  \/ Goto("start_motor", "start_run") /\ m' = Start(m) /\ UNCHANGED <<o, arg>>
  \/ Assign("start_run", "running", TRUE, IF arg = NoMove THEN "idle" ELSE "move")

\* Mutant: the motor stops before the loop does.
MutStopping ==
  \/ Goto("stop", "stop_motor") /\ m' = Stop(m) /\ UNCHANGED <<o, arg>>
  \/ Assign("stop_motor", "running", FALSE, "stop_target")
  \/ Assign("stop_target", "target", 0, "stop_cur")
  \/ Assign("stop_cur", "cur", 0, "stop_mode")
  \/ Assign("stop_mode", "pos_mode", FALSE, "stop_acc")
  \/ Assign("stop_acc", "acc", 0, "idle")

Stopping ==
  \/ Assign("stop", "running", FALSE, "stop_motor")
  \/ Goto("stop_motor", "stop_target") /\ m' = Stop(m) /\ UNCHANGED <<o, arg>>
  \/ Assign("stop_target", "target", 0, "stop_cur")
  \/ Assign("stop_cur", "cur", 0, "stop_mode")
  \/ Assign("stop_mode", "pos_mode", FALSE, "stop_acc")
  \/ Assign("stop_acc", "acc", 0, "idle")

Moving ==
  \/ Assign("move", "pos_mode", TRUE, "move_total")
  \/ Assign("move_total", "total", FreqHz * Abs(arg.steps), "move_acc")
  \/ Assign("move_acc", "acc", 0, "move_dir")
  \/ Assign("move_dir", "dir", IF arg.steps >= 0 THEN "CW" ELSE "CCW", "move_target")

MoveEnd ==
  /\ Goto("move_target", "idle")
  /\ o' = [o EXCEPT !.target = arg.speed]
  /\ arg' = NoMove
  /\ clean' = (clean /\ 2 * Accel * Remaining > o.cur * o.cur)
  /\ UNCHANGED m

\* A call in progress.
Continue ==
  \/ (Starting \/ Stopping \/ Moving) /\ UNCHANGED clean
  \/ MoveEnd

Call(to) == Goto("idle", to) /\ clean' = FALSE /\ UNCHANGED <<o, m, arg>>

StartCall == ~o.running /\ Call("start")
StopCall == Call("stop")

SetFreq(f) ==
  /\ Assign("idle", "target", f, "idle")
  /\ clean' = FALSE

SetDir(d) ==
  /\ Assign("idle", "dir", d, "idle")
  /\ clean' = FALSE

MoveCall(steps, speed) ==
  /\ Goto("idle", IF o.running THEN "move" ELSE "start")
  /\ arg' = [steps |-> steps, speed |-> speed]
  /\ clean' = TRUE
  /\ UNCHANGED <<o, m>>

Next ==
  \/ Period
  \/ Continue
  \/ StartCall \/ StopCall
  \/ \E f \in Speeds : SetFreq(f)
  \/ \E d \in {"CW", "CCW"} : SetDir(d)
  \/ \E steps \in Lengths, speed \in {f \in Speeds : f > 0} : MoveCall(steps, speed)

Spec == Init /\ [][Next]_vars

\* The hardware timer goes on, and the shell gets the processor between periods.
FairSpec == Spec /\ WF_vars(Period) /\ WF_vars(Continue)

--------------------------------------------------------------------------------

StartLabels == {"start", "start_target", "start_mode", "start_acc", "start_motor",
                "start_run"}
StopLabels == {"stop_motor", "stop_target", "stop_cur", "stop_mode", "stop_acc"}
MoveLabels == {"move", "move_total", "move_acc", "move_dir", "move_target"}
Labels == {"idle", "stop"} \cup StartLabels \cup StopLabels \cup MoveLabels

Loops ==
  [running : BOOLEAN, target : Int, cur : Int, dir : {"CW", "CCW"},
   pos_mode : BOOLEAN, total : Nat, acc : Int]

Fastest == CHOOSE f \in Speeds : \A g \in Speeds : g <= f

(* The loop's fields have the types of the struct, and its frequency never  *)
(* exceeds what was asked for, or the first step of the ramp.               *)
TypeOK ==
  /\ o \in Loops
  /\ pc \in Labels
  /\ arg \in [steps : Int, speed : Int]
  /\ o.cur <= Fastest \/ o.cur <= Accel
  /\ m \in Motors

(* A stopped loop leaves its motor still, whatever period fell between the  *)
(* assignments of stop.                                                     *)
StoppedLoopIsStill == ~o.running /\ pc = "idle" => ~m.oc

\* The shell's call in progress, as LoopContract names it.
Calling ==
  IF pc = "idle" THEN "none"
  ELSE IF pc \in StartLabels THEN "start"
  ELSE IF pc \in {"stop"} \cup StopLabels THEN "stop" ELSE "command"

Contract == INSTANCE LoopContract WITH
  runs <- o.running, tripped <- FALSE, call <- Calling, turning <- m.oc

(* The loop keeps its contract: whatever period fell between the assignments *)
(* of a call, the call does not return with the motor turning while no loop  *)
(* runs, and only a start sets the loop running.                             *)
KeepsContract == Contract!Spec

\* The motor runs, but no period has set its frequency yet.
JustStarted == m.running /\ m.current_freq = 0

\* The frequency of the pulses that the motor really gets.
PulseRate(n) == Abs(Rate(n))

(* What the motor is pulsed at changes by at most max_accel a period, in a   *)
(* move and across a retarget alike, but for the stop of a move that is done *)
(* or of the loop.  A start pulses the motor at whatever frequency the last  *)
(* run left in the registers (see StartIsFirstStep); the first period after  *)
(* it puts that right: no more than two steps of the ramp from 0 Hz.  The    *)
(* direction is not part of it: set_direction may turn it at any frequency.  *)
RampIsSmooth ==
  [][\/ PulseRate(m') = 0
     \/ Abs(PulseRate(m') - PulseRate(m)) <= Accel
     \/ JustStarted /\ PulseRate(m') <= 2 * Accel
     \/ pc = "start_motor" /\ pc' = "start_run" /\ PulseRate(m') = m.hz]_vars

\* No frequency of the ramp is higher.
TopFreq == IF Fastest > Accel THEN Fastest ELSE Accel

\* The steps of any move are counted without meeting the bound.
ASSUME BoundAssumption == \A s \in Lengths : FreqHz * Abs(s) + TopFreq <= MaxAcc

\* The motor stands still and the loop does not want it to turn.
AtRest == ~m.running /\ o.target = 0

(* A move that had room to brake, and that nothing interferes with, ends     *)
(* near its length, from rest and at speed alike: short of it by at most    *)
(* half a period's pulses at the highest frequency (or the half step that   *)
(* counts as done), and past it, where the braking point was met a period   *)
(* late, by at most what a period at sqrt(3 * Accel * TopFreq) Hz makes.    *)
MoveEndsNear ==
  clean /\ pc = "idle" /\ AtRest =>
    /\ 2 * Remaining <= TopFreq \/ 2 * Remaining <= FreqHz
    /\ Remaining < 0 => Remaining * Remaining <= 3 * Accel * TopFreq

(* A move that nothing interferes with comes to rest.                       *)
MoveComesToRest == clean /\ pc = "idle" ~> AtRest \/ ~clean \/ pc # "idle"

--------------------------------------------------------------------------------
\* What comments of the source say and the code does not do.

(* pos_mode "ramps and stops on arrival": braking may end short of the last *)
(* step, and the loop stays in position mode at 0 Hz for ever.              *)
MoveArrives == clean /\ pc = "idle" ~> ~o.pos_mode \/ ~clean \/ pc # "idle"

(* The same comment: a period that preempts move after its first assignment *)
(* compares the lengths of the last move, finds it done and leaves position *)
(* mode; the speed assigned last then turns the motor without end.          *)
MoveIsInPosMode ==
  [][pc = "move_target" /\ pc' = "idle" => o'.pos_mode]_vars

(* "skip 0 Hz, pulse directly" of start, with its frequency set to max_accel: *)
(* the motor is pulsed at the registers' frequency, that of the last run.     *)
StartIsFirstStep ==
  [][pc = "start_motor" /\ pc' = "start_run" => PulseRate(m') <= Accel]_vars
================================================================================
