------------------------------- MODULE MotorDriver -----------------------------
(***************************************************************************)
(* stepper_motor_driver.c called by several threads.  A critical section   *)
(* under motor->lock is one step (the mutex is recursive and is never held *)
(* across a delay); every access outside the lock is a step of its own, so *)
(* the checks that set_frequency, check_fault and idle_tick make before    *)
(* they act can be stale when they do.  brake and home are loops of such   *)
(* steps.  A call never starts with a non-zero frequency before a          *)
(* direction was set, nor start on a running motor: no caller does         *)
(* (position_loop.c:311,350, speed_loop.c:218,246, stepper_openloop.c:144, *)
(* 152, stepper_motor_driver.c:395).                                       *)
(***************************************************************************)
EXTENDS MotorOps

CONSTANTS
  Threads,    (* the callers                                           *)
  Calls,      (* per thread: the functions it may call, by name        *)
  Freqs,      (* arguments of set_frequency and speeds of home         *)
  Rates,      (* arguments of brake and brake_async                    *)
  Backoffs,   (* backoff_steps of home                                 *)
  Timeouts,   (* timeout of home in ticks, 0 for none                  *)
  MaxAge,     (* BOUND: ticks counted between two accumulations        *)
  MaxSteps    (* BOUND: |total_steps| at which a call may still begin  *)

ASSUME DriverAssumption ==
  /\ Freqs \subseteq Nat /\ Rates \subseteq Nat /\ Backoffs \subseteq Nat
  /\ Timeouts \subseteq Nat /\ MaxAge \in Nat

VARIABLES
  m,          (* the motor, see MotorOps                               *)
  faultPin,   (* the fault pin reads PIN_LOW                           *)
  homePin,    (* the home switch reads PIN_LOW                         *)
  pc,         (* per thread: the next unlocked access or section       *)
  loc         (* per thread: locals and arguments of the call, and as  *)
              (* history last, the frequency brake found or last set   *)

vars == <<m, faultPin, homePin, pc, loc>>

NoDeadline == -1
NoLocals == [f |-> 0, last |-> 0, rate |-> 0, dir |-> "CW", backoff |-> 0, ok |-> TRUE,
             left |-> NoDeadline, goal |-> 0, next |-> "idle"]

Init ==
  /\ m \in InitialMotors
  /\ faultPin = FALSE
  /\ homePin = FALSE
  /\ pc = [t \in Threads |-> "idle"]
  /\ loc = [t \in Threads |-> NoLocals]

\* Thread t calls function c.
Call(t, c) == pc[t] = "idle" /\ c \in Calls[t] /\ Abs(m.total_steps) <= MaxSteps

Goto(t, l) == pc' = [pc EXCEPT ![t] = l]
Return(t) == Goto(t, "idle") /\ loc' = [loc EXCEPT ![t] = NoLocals]
Wait(t, l) == Goto(t, "delay") /\ loc' = [loc EXCEPT ![t].next = l]
Pins == <<faultPin, homePin>>

--------------------------------------------------------------------------------
\* Functions that are one critical section.

Locked(t, c, next) == Call(t, c) /\ m' = next /\ UNCHANGED <<Pins, pc, loc>>

DoEnable(t) == Locked(t, "enable", Enable(m))
DoDisable(t) == Locked(t, "disable", Disable(m))
DoStart(t) == ~m.running /\ Locked(t, "start", Start(m))
DoStop(t) == Locked(t, "stop", Stop(m))
DoBrakeAsync(t) == \E r \in Rates : Locked(t, "brake_async", BrakeAsync(m, r))
DoSetDirection(t) ==
  \E d \in {"CW", "CCW"} : Locked(t, "set_direction", SetDirection(m, d))
DoGetSteps(t) == Locked(t, "get_steps", Accumulate(m))
DoClearSteps(t) == Locked(t, "clear_steps", ClearSteps(m))

--------------------------------------------------------------------------------
\* set_frequency: the fault check, then the section.

SetFreqCall(t) ==
  /\ Call(t, "set_frequency")
  /\ \E f \in Freqs :
       /\ f > 0 => m.current_dir # "unset"
       /\ ~Refused(m, f)
       /\ loc' = [loc EXCEPT ![t].f = f]
  /\ Goto(t, "sf")
  /\ UNCHANGED <<m, Pins>>

SetFreqLocked(t) ==
  /\ pc[t] = "sf"
  /\ m' = SetFrequency(m, loc[t].f)
  /\ Return(t)
  /\ UNCHANGED Pins

--------------------------------------------------------------------------------
\* check_fault, clear_fault, idle_tick: unlocked accesses.

CheckFaultCall(t) ==
  /\ Call(t, "check_fault")
  /\ m' = LatchFault(m, faultPin)
  /\ Goto(t, IF FaultLatches(m, faultPin) THEN "cf_stop" ELSE "idle")
  /\ UNCHANGED <<Pins, loc>>

CheckFaultStop(t) ==
  /\ pc[t] = "cf_stop"
  /\ m' = Stop(m)
  /\ Return(t)
  /\ UNCHANGED Pins

ClearFaultCall(t) ==
  /\ Call(t, "clear_fault")
  /\ m' = [m EXCEPT !.fault = FALSE]
  /\ Goto(t, IF m.state = "FAULT" THEN "clf" ELSE "idle")
  /\ UNCHANGED <<Pins, loc>>

ClearFaultState(t) ==
  /\ pc[t] = "clf"
  /\ m' = [m EXCEPT !.state = "IDLE"]
  /\ Return(t)
  /\ UNCHANGED Pins

IdleTickCall(t) ==
  /\ Call(t, "idle_tick")
  /\ IdleExpired(m)
  /\ Goto(t, "it")
  /\ UNCHANGED <<m, Pins, loc>>

IdleTickRelease(t) ==
  /\ pc[t] = "it"
  /\ m' = ReleaseEn(m)
  /\ Return(t)
  /\ UNCHANGED Pins

--------------------------------------------------------------------------------
\* brake: lower the frequency by rate every 20 ms until 0, then stop.

BrakeCall(t) ==
  /\ Call(t, "brake")
  /\ \E r \in Rates :
       IF r = 0 THEN m' = Stop(m) /\ UNCHANGED <<pc, loc>>
       ELSE /\ m' = [m EXCEPT !.state = "BRAKING"]
            /\ loc' = [loc EXCEPT ![t] = [@ EXCEPT !.f = m.current_freq,
                                                   !.last = m.current_freq, !.rate = r]]
            /\ Goto(t, "brake")
  /\ UNCHANGED Pins

\* Mutant: a frequency that is refused is tried again.
MutBrakeRetry(t) ==
  /\ pc[t] = "brake"
  /\ loc[t].f > 0
  /\ LET f == IF loc[t].f > loc[t].rate THEN loc[t].f - loc[t].rate ELSE 0
     IN  IF Refused(m, f) THEN Goto(t, "brake_wait") /\ UNCHANGED loc
         ELSE Goto(t, "brake_sf") /\ loc' = [loc EXCEPT ![t].f = f]
  /\ UNCHANGED <<m, Pins>>

\* Mutant: the last subtraction wraps (here at 2^4) instead of ending at 0.
MutBrakeLoop(t) ==
  /\ pc[t] = "brake"
  /\ loc[t].f > 0
  /\ LET f == (loc[t].f - loc[t].rate) % 16
     IN  /\ loc' = [loc EXCEPT ![t].f = f]
         /\ Goto(t, IF Refused(m, f) THEN "brake_wait" ELSE "brake_sf")
  /\ UNCHANGED <<m, Pins>>

BrakeLoop(t) ==
  /\ pc[t] = "brake"
  /\ loc[t].f > 0
  /\ LET f == IF loc[t].f > loc[t].rate THEN loc[t].f - loc[t].rate ELSE 0
     IN  /\ loc' = [loc EXCEPT ![t].f = f]
         /\ Goto(t, IF Refused(m, f) THEN "brake_wait" ELSE "brake_sf")
  /\ UNCHANGED <<m, Pins>>

BrakeSetFreq(t) ==
  /\ pc[t] = "brake_sf"
  /\ m' = SetFrequency(m, loc[t].f)
  /\ Goto(t, "delay")
  /\ loc' = [loc EXCEPT ![t] = [@ EXCEPT !.last = Clamp(loc[t].f), !.next = "brake"]]
  /\ UNCHANGED Pins

BrakeRefused(t) ==
  /\ pc[t] = "brake_wait"
  /\ Wait(t, "brake")
  /\ UNCHANGED <<m, Pins>>

BrakeEnd(t) ==
  /\ pc[t] = "brake"
  /\ loc[t].f = 0
  /\ m' = Stop(m)
  /\ Return(t)
  /\ UNCHANGED Pins

--------------------------------------------------------------------------------
\* home: turn towards the switch, stop when it closes or time is up, and back
\* off a number of steps at half the speed.

HomeCall(t) ==
  /\ Call(t, "home")
  /\ \E f \in Freqs \ {0}, d \in {"CW", "CCW"}, b \in Backoffs, w \in Timeouts :
       loc' = [loc EXCEPT ![t] =
                 [@ EXCEPT !.f = IF f < MinFreq THEN MinFreq ELSE f, !.dir = d,
                           !.backoff = b, !.left = IF w = 0 THEN NoDeadline ELSE w]]
  /\ m' = [m EXCEPT !.state = "HOMING"]
  /\ Goto(t, "h_dir")
  /\ UNCHANGED Pins

HomeDirection(t) ==
  /\ pc[t] = "h_dir"
  /\ m' = SetDirection(m, loc[t].dir)
  /\ Goto(t, "h_enable")
  /\ UNCHANGED <<Pins, loc>>

HomeEnable(t) ==
  /\ pc[t] = "h_enable"
  /\ m' = Enable(m)
  /\ Goto(t, "h_check")
  /\ UNCHANGED <<Pins, loc>>

\* The result of set_frequency is dropped: refused or not, home goes on to poll.
HomeCheck(t) ==
  /\ pc[t] = "h_check"
  /\ Goto(t, IF Refused(m, loc[t].f) THEN "h_poll" ELSE "h_run")
  /\ UNCHANGED <<m, Pins, loc>>

HomeRun(t) ==
  /\ pc[t] = "h_run"
  /\ m' = SetFrequency(m, loc[t].f)
  /\ Goto(t, "h_poll")
  /\ UNCHANGED <<Pins, loc>>

\* Mutant: the deadline is not looked at.
MutHomePoll(t) ==
  /\ pc[t] = "h_poll"
  /\ IF homePin THEN Goto(t, "h_stop") /\ UNCHANGED loc ELSE Wait(t, "h_poll")
  /\ UNCHANGED <<m, Pins>>

HomePoll(t) ==
  /\ pc[t] = "h_poll"
  /\ \/ homePin /\ Goto(t, "h_stop") /\ UNCHANGED loc
     \/ /\ ~homePin /\ loc[t].left = 0
        /\ loc' = [loc EXCEPT ![t].ok = FALSE]
        /\ Goto(t, "h_stop")
     \/ ~homePin /\ loc[t].left # 0 /\ Wait(t, "h_poll")
  /\ UNCHANGED <<m, Pins>>

HomeStop(t) ==
  /\ pc[t] = "h_stop"
  /\ m' = SetFrequency(m, 0)
  /\ Goto(t, IF loc[t].ok /\ loc[t].backoff > 0 THEN "b_dir" ELSE "h_end")
  /\ UNCHANGED <<Pins, loc>>

BackoffDirection(t) ==
  /\ pc[t] = "b_dir"
  /\ m' = SetDirection(m, Opposite(loc[t].dir))
  /\ loc' = [loc EXCEPT ![t].f = @ \div 2]
  /\ Goto(t, "b_check")
  /\ UNCHANGED Pins

BackoffCheck(t) ==
  /\ pc[t] = "b_check"
  /\ Goto(t, IF Refused(m, loc[t].f) THEN "b_start" ELSE "b_run")
  /\ UNCHANGED <<m, Pins, loc>>

BackoffRun(t) ==
  /\ pc[t] = "b_run"
  /\ m' = SetFrequency(m, loc[t].f)
  /\ Goto(t, "b_start")
  /\ UNCHANGED <<Pins, loc>>

BackoffStart(t) ==
  /\ pc[t] = "b_start"
  /\ m' = Accumulate(m)
  /\ loc' = [loc EXCEPT ![t].goal = m'.total_steps +
               IF loc[t].dir = "CW" THEN -loc[t].backoff ELSE loc[t].backoff]
  /\ Goto(t, "b_poll")
  /\ UNCHANGED Pins

BackoffPoll(t) ==
  /\ pc[t] = "b_poll"
  /\ m' = Accumulate(m)
  /\ IF IF loc[t].dir = "CW" THEN m'.total_steps <= loc[t].goal
                             ELSE m'.total_steps >= loc[t].goal
     THEN Goto(t, "b_stop") /\ UNCHANGED loc
     ELSE Wait(t, "b_poll")
  /\ UNCHANGED Pins

BackoffStop(t) ==
  /\ pc[t] = "b_stop"
  /\ m' = SetFrequency(m, 0)
  /\ Goto(t, "h_end")
  /\ UNCHANGED <<Pins, loc>>

HomeEnd(t) ==
  /\ pc[t] = "h_end"
  /\ m' = [m EXCEPT !.state = "IDLE"]
  /\ Return(t)
  /\ UNCHANGED Pins

--------------------------------------------------------------------------------

\* home's deadline runs from the first look at the switch.
Polling(t) == "h_poll" \in {pc[t], loc[t].next}

\* One RTOS tick: ages, up to the bound, deadlines, and the end of every delay.
Tick ==
  /\ m' = [Age(m) EXCEPT !.since = IF @ > MaxAge THEN MaxAge ELSE @]
  /\ pc' = [t \in Threads |-> IF pc[t] = "delay" THEN loc[t].next ELSE pc[t]]
  /\ loc' = [t \in Threads |-> [loc[t] EXCEPT !.left =
                IF @ > 0 /\ Polling(t) THEN @ - 1 ELSE @]]
  /\ UNCHANGED Pins

FaultPinChanges == faultPin' = ~faultPin /\ UNCHANGED <<m, homePin, pc, loc>>
HomePinChanges == homePin' = ~homePin /\ UNCHANGED <<m, faultPin, pc, loc>>

Brake(t) == BrakeLoop(t) \/ BrakeSetFreq(t) \/ BrakeRefused(t) \/ BrakeEnd(t)
Home(t) ==
  \/ HomeDirection(t) \/ HomeEnable(t) \/ HomeCheck(t) \/ HomeRun(t) \/ HomePoll(t)
  \/ HomeStop(t) \/ HomeEnd(t)
  \/ BackoffDirection(t) \/ BackoffCheck(t) \/ BackoffRun(t) \/ BackoffStart(t)
  \/ BackoffPoll(t) \/ BackoffStop(t)

\* A step of a call in progress, and the start of a call.
Continue(t) ==
  \/ SetFreqLocked(t) \/ CheckFaultStop(t) \/ ClearFaultState(t) \/ IdleTickRelease(t)
  \/ Brake(t) \/ Home(t)

Begin(t) ==
  \/ DoEnable(t) \/ DoDisable(t) \/ DoStart(t) \/ DoStop(t) \/ DoBrakeAsync(t)
  \/ DoSetDirection(t) \/ DoGetSteps(t) \/ DoClearSteps(t) \/ SetFreqCall(t)
  \/ CheckFaultCall(t) \/ ClearFaultCall(t) \/ IdleTickCall(t)
  \/ BrakeCall(t) \/ HomeCall(t)

\* A step that takes no time.
Act ==
  \/ \E t \in Threads : Continue(t) \/ Begin(t)
  \/ FaultPinChanges
  \/ HomePinChanges

Next == Act \/ Tick

Spec == Init /\ [][Next]_vars

\* The kernel's tick goes on, and a call in progress gets the processor.
FairSpec == Spec /\ WF_vars(Tick) /\ \A t \in Threads : WF_vars(Continue(t))

--------------------------------------------------------------------------------

(* The motor's fields and hardware have the types of the C struct, and no    *)
(* caller (brake's ramp and home's half speed included) drives the timer     *)
(* outside the frequency limits of the header.                               *)
TypeOK ==
  /\ m \in Motors
  /\ faultPin \in BOOLEAN /\ homePin \in BOOLEAN
  /\ \A t \in Threads : loc[t].f \in Nat /\ loc[t].left \in Nat \cup {NoDeadline}

Quiet == \A t \in Threads : pc[t] = "idle"

(* However the calls of several threads interleave, the cached flags agree  *)
(* with the timer: the OC channel is on iff running, and a non-zero         *)
(* current_freq is the frequency and the direction the hardware really has. *)
FlagsMatchHardware ==
  /\ m.oc = m.running
  /\ m.current_freq > 0 => m.oc /\ m.hz = m.current_freq /\ m.dir = m.current_dir

\* No other thread sets a frequency while brake, which keeps its own, is at work.
OneDriver ==
  \A t, u \in Threads :
    t # u /\ "brake" \in Calls[t] => Calls[u] \cap {"set_frequency", "brake", "home"} = {}

(* No frequency that brake sets is above the one it found or last set, the   *)
(* clamp to MOTOR_MIN_FREQ_HZ included, nor above that of a motor that runs  *)
(* under a frequency.  A motor that somebody stopped since, as check_fault   *)
(* does for a fault, brake starts again (see BrakeRestartsNothing): no       *)
(* faster than it ran under brake before.                                    *)
BrakeOnlySlows ==
  [][\A t \in Threads : pc[t] = "brake_sf" /\ pc'[t] # "brake_sf" =>
       /\ m'.current_freq <= loc[t].last
       /\ m.current_freq > 0 => m'.current_freq <= m.current_freq]_vars

(* The blocking calls return: brake reaches 0 Hz, also when latched faults   *)
(* refuse its frequencies, and a home with a deadline ends, unless a fault   *)
(* stops the motor while home counts the steps of its back-off.              *)
CallsReturn ==
  \A t \in Threads :
    /\ pc[t] = "brake" ~> pc[t] = "idle"
    /\ pc[t] = "h_dir" /\ loc[t].left # NoDeadline
         ~> pc[t] = "idle" \/ (pc[t] = "b_poll" /\ ~m.running)

--------------------------------------------------------------------------------
\* What comments of the source say and the code does not do.

(* "0 = stopped" of get_frequency: start emits pulses at the stale frequency *)
(* of the registers while current_freq is 0.                                 *)
ZeroFrequencyIsStopped == m.current_freq = 0 => ~m.oc

(* brake "ramps down to 0, then stops": a fault latched, and the motor       *)
(* stopped, between brake's check of the fault and its lock, is overruled,   *)
(* and the motor runs on until the next step of brake.                       *)
BrakeRestartsNothing ==
  [][\A t \in Threads : pc[t] = "brake_sf" /\ pc'[t] # "brake_sf" /\ ~m.oc => ~m'.oc]_vars

(* "released when stopped" of idle_reduce: idle_tick leaves enabled set, so  *)
(* the next start does not raise EN and the motor is pulsed with EN low.     *)
ReleasedOnlyWhenStopped == m.enabled /\ ~m.en => ~m.running

(* "the state stays FAULT until clear_fault": check_fault's own stop makes   *)
(* it IDLE.                                                                  *)
FaultStateIsKept == m.fault /\ Quiet => m.state = "FAULT"

(* brake_async: "non-blocking braking stop, poll is_running": nothing ever   *)
(* lowers the frequency.                                                     *)
AsyncBrakeStops == m.state = "BRAKING" /\ Quiet ~> ~m.running

(* "back off this many steps": below 2 Hz per tick every poll counts 0 steps *)
(* and home never returns.                                                   *)
BackoffEnds == \A t \in Threads : pc[t] = "b_dir" ~> pc[t] = "idle"
================================================================================
