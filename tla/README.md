# A formal model of the h750_stepper motion controller

TLA+ specifications, TLC model checking and TLAPS proofs for the control
program under `src/applications/`: an STM32H750 that drives stepper motors in
closed loop on RT-Thread. Line numbers below are those of the C sources. The
last section lists what the models show the program to do differently from
its own comments.

## 1. The system

Interrupts, control threads, shell:

    hwtimer ISR --sem--> control thread (priority 5)   shell (priority 20)
    pl_timer_isr         pl_thread_entry               posloop, posloop_home ..
                              |                            |
                              +------ position_loop_t -----+     (no lock)
                              |                            |
         stepper_pid_pos   stepper_encoder_driver   stepper_motor_driver
         (no lock)         (interrupts off)         (recursive mutex)
                              |                            |
                           TIMx CNT                  TIMx OC, EN, DIR, fault

The control thread preempts the shell anywhere and is preempted by no thread
of the application; the shell gets in between two control periods of 20 ms.

| component | files | state | operations |
|---|---|---|---|
| encoder driver | `stepper_encoder_driver.*` | `last_raw`, `overflow`, the 16-bit CNT | read, clear, sync |
| motor driver | `stepper_motor_driver.*` | flags, state, frequency, direction, step count, fault, idle time; PSC/ARR, OC channel, EN, DIR | enable, disable, start, stop, brake, brake_async, set_direction, set_frequency, home, check_fault, clear_fault, idle_tick, get/clear_steps |
| position PID | `stepper_pid_pos.*` | gains, limits, last error, integral | reset, set_target, calculate |
| position loop | `position_loop.*` | target, ramp, position, speed, acceleration, running | control period; start, stop, set_target, move_to, home |
| position scale | `position_scale.*` | scale, soft limits | conversions, range check, set home |
| speed loop | `speed_loop.*` | filtered speed, ramp, PID | control period; start, stop, set_target |
| open loop | `stepper_openloop.*` | frequency ramp, position mode, steps | control period; start, stop, move, set_freq, set_direction |
| initialisation | the `*_init`s, `ensure_inited` | lists walked by the ISRs, semaphores, timers, threads | init |
| shell commands | `test_*.c` | `inited` flags | the commands |
| `main.c`, `board/`, `libraries/`, `rt-thread/` | | LEDs; vendored | |

What is hard in it, and what makes each part correct:

* *Encoder*: the counter wraps, and `read` fetches its result after turning
  interrupts back on. Correct means: callers see one unbounded counter that
  follows the shaft.
* *Motor driver*: flags cache the hardware, several threads call it, checks are
  made before the lock is taken, loops block in `mdelay`. Correct means: flags
  and hardware agree, steps counted are steps made, a fault stops the motor and
  keeps it stopped, blocking calls end.
* *Position loop*: the shell writes the fields of a running loop one at a time;
  ramp, PID and approach switch at boundaries in whole counts; the ramp is
  clamped against target and motor; the motor may be in motion when it is
  retargeted, stopped, homed or faulted. Correct means: speed, acceleration and
  integral stay limited, the ramp never leads the motor across the target, a
  move settles on its target without hunting, start never jumps, stop leaves
  the motor still, `move_to` reports truly.
* *Open and speed loop*: the same thread structure with other laws. The speed
  loop starts its PID and ramp afresh on a large change of target, and measures
  in steps of 80 Hz what it controls to a few hertz. Correct means also: nothing
  of one run reaches the next, the integral that winds up on the ramp is
  dropped when the target is renewed, and the speed settles.
* *Initialisation*: each step may fail after earlier ones took effect; the three
  loops share timers and motors. Correct means: a loop with a thread keeps its
  tick whatever is initialised, fails or is retried after it.
* *Conversions*: registers of 16 bits for 50 Hz to 100 kHz, and single-precision
  positions on an axis with more counts than a float has values. Correct means:
  no frequency stands still, a faster one is never slower, and a position
  within the soft limits stays within them.

`PROJECT.json` lists every hazard at its line with the properties that cover it.

## 2. Modules

| module | models | kind |
|---|---|---|
| `PositionCounter` | what the encoder driver promises | abstract specification |
| `Encoder` | `stepper_encoder_driver.c`, implements `PositionCounter` | state machine |
| `EncoderProofs` | theorems about `Encoder` and, after them, `PositionScale` | theorems |
| `MotorOps` | the body of every locked function of `stepper_motor_driver.c` | operators |
| `MotorOpsProofs` | lemmas about each locked section | lemmas |
| `MotorDriver` | its callers: unlocked checks, `brake` and `home` step by step, pins, ticks | state machine |
| `MotorDriverProofs` | theorems about `MotorDriver` and `MotorAccounting` | theorems |
| `MotorAccounting` | `MotorDriver` with the pulses emitted as history | composition |
| `PulseTimer` | the registers `freq_write_raw` writes and the edges they make | operators |
| `PulseSweep` | the frequencies `set_frequency` lets through, one after another | state machine |
| `Arith` | C's casts, limits and `fabsf` | operators |
| `Pid` | `stepper_pid_pos.c` in fixed point | operators |
| `PosLaw` | one control period of `position_loop.c`, over `Pid` | operators |
| `PosControl` | the loop's fields under control thread and shell, arbitrary feedback | state machine |
| `PosControlProofs` | theorems about `PosControl`, then `PulseSweep`, then `PosServo` | theorems |
| `PosServo` | `PosLaw` with the constants of `rtconfig.h`, closed around an ideal motor | state machine |
| `PositionScale` | `position_scale.c` in single precision, and the moves to physical positions | state machine |
| `LoopContract` | what a loop promises the shell that starts, commands and stops it | abstract specification |
| `PositionLoop` | control thread, shell, `MotorOps`, encoder, pins and shaft together, implements `LoopContract` | composition |
| `PositionLoopProofs` | | theorems |
| `OpenLoop` | `stepper_openloop.c` over `MotorOps`: control thread and shell, implements `LoopContract` | composition |
| `OpenLoopProofs` | | theorems |
| `SpeedLaw` | one control period of `speed_loop.c`, over `Pid` | operators |
| `SpeedLoop` | `speed_loop.c` over `SpeedLaw` and `MotorOps`: control thread and shell, arbitrary feedback, implements `LoopContract` | composition |
| `SpeedLoopProofs` | | theorems |
| `SpeedServo` | `SpeedLaw` with the constants of `rtconfig.h` and `PulseTimer`, closed around an ideal motor | state machine |
| `LoopInit` | `ensure_inited` and the three `*_init`s, timer interrupts, semaphores, threads | state machine |
| `LoopInitProofs` | | theorems |
| `MC*` | values for TLC, and which thread makes which calls; `MCConversions` runs `PulseSweep`, then `PositionScale` | instances |

Operators named `Mut...` are plausible bugs, next to the definition each would
replace; no specification uses them. `PROJECT.json` pairs each checked property
with one that violates it.

**Encoder.** `cnt`, `last_raw` and `overflow` are CNT and the driver's fields;
the casts are `ToUint16` and `ToInt16` at a width of `2 * Half`. `Sample` is
`read` up to the enabling of interrupts and `Return` the fetch after it, so
`Clear`, `Sync` and other reads fall in between. `Turn` is one edge; its guards
are the driver's operating condition (a read every control period, so at most
half the range between two samples) and the mechanical travel. `seen` is
history: the positions held since a read began.

**MotorOps, MotorDriver.** A record `m` holds the driver's struct and the
hardware (`en`, `oc`, `hz`, `dir`). One locked section is one step. The mutex is
recursive and never held over a delay, so nothing is lost by that. Everything
outside the lock is a step of its own: the fault check of `set_frequency`
(`SetFreqCall`, then `SetFreqLocked`), the two halves of `check_fault`,
`clear_fault` and `idle_tick`, each iteration of `brake`, and of `home` and its
back-off. `delay` is `rt_thread_mdelay`, ended by `Tick`. The registers of
`freq_write_raw` are `PulseTimer`'s; here a timer has the frequency it is given.
`start` is never called on a running motor and no non-zero frequency is set
before a direction: no caller does either. The local `last` is history: the
frequency `brake` found or last set. `m.since` is the age of `last_tick`, which
goes on also where `current_freq` is 0 and the timer pulses nevertheless.

**MotorAccounting.** `pulses` integrates what the hardware emits (`Rate`: output
channel, registers, EN and the direction pin), not what the driver believes.
`stray` is the part of it made while `current_freq` is 0: after `start`, which
turns the output on at the registers' old frequency, until the first
`set_frequency`. The driver counts none of these, so the property names them as
lost; that everything is counted is `CountsEveryPulse` of section 6.

**Pid.** `PidStep` is `stepper_pid_pos_calculate` on whatever record of a loop carries
`err_last` and `i`; both loops' laws extend it. Gains and limits are constants:
the tuning commands, which change gains between two periods, are not modelled.

**PosLaw.** The float law is written in integers: frequencies and gains in units
of `1/Unit` Hz, `ki * integral_acc` as one number, casts as truncation towards
0. `v_stop_limit`, a square root, is a parameter: `PosControl` lets it be
anything, `PosServo` computes it. `prev_pos_err` is kept as the sign the code
looks at.

**PosControl.** One control period is one step (`Period`, `FaultPeriod`,
`RestPeriod`); the shell's `start`, `stop` and `set_target` are one assignment
per step. What the encoder reads is arbitrary.

**PosServo.** A motor pulsed at f Hz moves f/80 counts in a period (the figure of
position_loop.c:275-279), so the shaft is kept in 1/80 counts; the pulses are
`PulseTimer`'s, so a period makes whole edges and loses a started one.
`Retarget` falls between two periods; its preemption is `PosControl`'s subject. `Root`
finds the whole root digit by digit, each digit a cardinality, so that no
recursion stands between `v_stop_limit` and the provers.

**LoopContract.** `runs` is the loop's `running`, `turning` the motor's output
channel, `tripped` a fault that stopped the loop (the driver's `fault_state`;
never, for the two loops that do not ask for it) and `call` the shell's call in
progress, by its kind: each loop's `Calling` maps its program counter to it. A
period is `Control` or `Trip`; the assignments of a call are the steps named
there or stutter. Turning belongs to a period of a running loop, to the start or
to a command (`move_to`, `home`, `set_target`); a call returns only with the
motor still or in the hands of a running loop. That a stopped loop leaves its
motor still (`StoppedLoopIsStill`) follows and is no invariant of a run of its
own.

**PositionLoop.** The shell is a program counter over the accesses of `start`,
`stop`, `move_to` and `home`, one step per locked section or unlocked access;
a control period is one step that calls check_fault, idle_tick, set_direction
and set_frequency of `MotorOps`. Far from the target the law's output is any
frequency; within `Near` counts it is towards the target, and 0 on it. The
encoder is `shaft - zero`, what `PositionCounter` promises. Deadlines may pass at
any poll. The step count is `MotorAccounting`'s: here no time passes for it.

**OpenLoop.** A control period (`RestPeriod`, `DonePeriod`, `RunPeriod`) is one step
with its calls of `MotorOps`; `start`, `stop`, `move`, `set_freq` and
`set_direction` are one assignment per step, so that a period can fall between
any two. Steps are counted in `1/FreqHz` (what one Hz makes in one period), and
the braking condition `remaining <= f*f / (2 a freq_hz)` is written as a product,
so both are exact where the code rounds floats. `clean` is history: the last
call was a move that no period preempted and that had room to brake. A move from
rest starts the loop first, as the code does. The loop never asks for the
fault. `PulseRate` is what the motor is really pulsed at; after `start` that is
the frequency of the last run, until the first period sets its own.

**PulseTimer.** `Prescaler` and `Reload` are the search of `freq_write_raw` and what it
finds; the counter restarts at every write, and the output toggles where it
passes the compare register, half the reload value. `Edges` counts that until
the next control period writes again: the motor gets whole edges, 25 Hz apart.

`PulseSweep` walks through the frequencies, so that what changes between two
neighbours, the prescaler included, is an action property.

**PositionScale.** A float is an integer in units of `1/One` with fewer than
`Significands` steps of its granule, rounded to the nearest, ties to even; the
exponent is the least that fits. `ToCounts` and `ToPhysical` round where the
code's expressions do. Whether the product of `to_counts` is rounded before the
sum is the compiler's choice (gcc's default `-ffp-contract=fast` and the
target's fused multiply-add): `fused` is either, for good. `scale` is the struct, `SetHome`
`position_scale_set_home`; a move is in progress from `Refuse` or
`MoveToPhysical`, which pass through `check_range`, `to_counts` and the limits of
`move_to`, to `MoveReturns`. What else `move_to` checks, and the way there, are
`PositionLoop`'s.

**SpeedLaw, SpeedLoop.** As `PosLaw` and `PosControl`, but composed with the motor: a
period is one step with its calls of `MotorOps`, the shell's `start`, `stop` and
`set_target` one assignment per step. The test for a change of sign in
`set_target` follows from the one for a change of 20% and is not repeated.
`n` and `renewed` are history: periods since the call began, and whether the
ramp was cleared since the last one. `speedloop 0` is a stop, so the argument 0
marks a start without target.

**SpeedServo.** `moved` is what the encoder has seen since `last_enc`; a period
measures its whole counts (80 Hz each), filters, controls and commands, and
`PulseTimer` makes the motion. It begins as `speed_loop_start` leaves it, with
`last_enc` as that stores it: without `enc_invert`.

**LoopInit.** A step of the shell is one call of an init that changes shared state
or may fail; every failure path deletes the semaphore and nothing else, as the
code does. The three init functions take the same steps in the same order
(position_loop.c:90-126, speed_loop.c:83-140, stepper_openloop.c:61-90), so one set of
actions with a `Kind` per loop, each kind with a list and a handler of its own,
stands for all. `Tick` is a timer's interrupt and finds the loop by
`Dispatch`; a thread takes its semaphore, runs a period and takes again.
Control threads preempt the shell (`Goto`), interrupts preempt both. A release of
a deleted semaphore halts the machine by the kernel's assertion (ipc.c:703), or
goes unnoticed when the memory looks like a semaphore still: `halted'` may be either.
The timers are `RT_DEVICE_FLAG_STANDALONE`, so a second open fails with `-RT_EBUSY`.

## 3. Runs

| run | checks | states |
|---|---|---|
| `encoder` | types, `OverflowInTravel`, `ReadIsCurrent`, `ImplementsCounter` | 204k |
| `motor_accounting` | types and frequency limits, `FlagsMatchHardware`, `OnlyStrayPulsesAreLost` | 3.3M |
| `motor_blocking` | `BrakeOnlySlows`, `CallsReturn` | 651k |
| `pos_control` | types and ramp limits, `IntegralIsLimited`, `RampIsSmooth`, `RampStaysBefore`, `RampStaysNearMotor`, `StartHoldsPosition` | 412k |
| `pos_servo` | `OvershootIsBounded`, `SettlesInTime`, `ArrivalIsFinal` | 151k |
| `position_loop` | `KeepsContract`, `LatchedFaultIsStill`, `MoveOkMeansArrived`, `FaultEndsMove` | 150k |
| `open_loop` | types and greatest frequency, `KeepsContract`, `RampIsSmooth`, `MoveEndsNear`, `MoveComesToRest` | 207k |
| `speed_loop` | types and limits, `KeepsContract`, `MotorFollowsRamp`, `StartIsFresh`, `RenewalDropsIntegral` | 293k |
| `speed_servo` | `SpeedSettles`, `OvershootIsBounded` | 2.6M |
| `loop_init` | `IsrFindsOwner`, `InitedLoopRuns` | 2k |
| `conversions` | `EdgesMatchFrequency`, `FasterIsFaster`, `TargetsKeepLimits` | 217k |

and `loop_homing`, which shows the divergence at the head of section 6.

Bounds, and why they are enough:

* `encoder`: a 2-bit counter and a travel of four edges either way, so that the
  counter wraps in both directions and a signed difference reaches both of its
  ends; three bits exceed what TLC can enumerate here. Width and travel are
  arbitrary in the proofs.
* `motor_*`: frequencies below, at and above the limits and two threads (the
  program has two): in `motor_accounting` both make every call of one section,
  in `motor_blocking` one makes every call a shell can, `brake` and `home` among
  them, while the other latches faults and releases EN, as the control thread
  does. `MaxAge` bounds the ticks counted between two
  accumulations, `MaxSteps` the count at which a call may still begin,
  `MaxSamples` the accumulations between two clears, `MaxStray` the pulses made
  at a `current_freq` of 0: the step law is linear in all of them. A back-off in `motor_blocking` is fast enough to be counted (a
  step per tick); `MotorBackoff.cfg` shows the other case.
* `pos_control`: five positions, three targets, limits of a few units, so that
  every clamp of the ramp is reached; the gains are such that the integral winds up to
  its limit, the output saturates with and without it, and the back-calculation
  leaves an integral other than 0. All of it is arbitrary in the proofs.
* `pos_servo`: the shipped constants, two starting fractions, six targets on both
  sides, near, middle and far; the second move may be set in any period of the
  first. Moves with a missed zero crossing (`CrossingClearsIntegral` of section
  6) are left out of both bounds. 50 counts of overshoot and 150 periods (3 s) are what the code
  achieves.
* `position_loop`: three counts of travel, a `Near` of one count, so near, far,
  arrived and blocked at the end stop all occur.
* `open_loop`: a negative frequency (the shell passes on what it is given), 0, and
  one that is no multiple of the ramp's step; a move too short to brake from it
  and one in the other direction that is long enough. `MaxAcc` saturates the
  step count of a loop that is left running, above any length moved
  (`BoundAssumption`).

* `speed_loop`: the driver's limits, a dead zone, a ramp step and an integral limit of
  a few units, so that every clamp is reached; targets of both signs, beyond the
  limit, and less and more than 20% apart; all of it is arbitrary in the proofs.
* `speed_servo`: the shipped constants; two of three targets, one of them negative
  and one within 20% of another, the second at any period of the first; a
  start at the encoder's zero and off it. 135 periods (2.7 s), 60 Hz
  (under one count of the encoder) and an overshoot of 65% of the fastest target
  set so far are what the code
  achieves, `Kick` what a start off zero adds.
* `loop_init`: the shipped sharing of timer4 and motor 0 between a position and a speed
  loop, and a second position loop in the same list; a semaphore that counts to
  2 instead of 65535, so that it is often full. Number of loops, kinds, timers
  and the limit are arbitrary in the proof.
* `conversions`: the shipped clocks and every frequency the driver admits, and at the
  last of them the moves. Floats have 10 bits against an axis of 2400 counts either
  way, in about the proportion of 24 bits to the 40 million counts of the longest
  axis the configuration describes, so that neighbouring counts fall together;
  three home offsets; every float within the limits and a little beyond. `One` bounds
  how fine, `MaxExp` how coarse a float can be. All of it is arbitrary in the proofs.

One run may stop and says so: in `loop_init` an assertion of the kernel halts the
machine.

Fairness: `MotorDriver` assumes that ticks go on and that a call in progress
gets the processor (the kernel's tick and its scheduler; a step of a call never
waits except for the mutex, whose sections end). `PositionLoop` assumes the
control period (the hardware timer) and the shell's progress between periods;
so does `OpenLoop`, with the shell's progress only inside a call. `LoopInit` assumes
that a started timer fires again (hardware) and that control threads run
(priority 5, above every other thread of the program); of the shell it assumes
nothing.
No fairness is assumed of callers, pins, shaft or time-outs. The servos have
none: settling is a bound on periods, a safety property.

## 4. Proofs

| theorem | statement |
|---|---|
| `EncoderProofs!Invariance` | `Spec => []IInv` |
| `EncoderProofs!TypeCorrect` | types of counter, accumulator and history |
| `EncoderProofs!OverflowSafe`, `ReadSafe` | the encoder's safety properties |
| `EncoderProofs!Implementation` | `Spec => Counter!Spec` |
| `EncoderProofs!AdmittedIsReached` | `ScaleSpec => []TargetsKeepLimits`: an admitted position is not refused as a count, and is reached where it was asked for |
| `MotorDriverProofs!Invariance` | `Spec => []IInv` |
| `MotorDriverProofs!TypeCorrect` | types, and the frequency limits of the header |
| `MotorDriverProofs!FlagsMatch` | the flags agree with timer and direction pin |
| `MotorDriverProofs!CountsPulses` | `ASpec => []OnlyStrayPulsesAreLost`: the step count misses the pulses made at 0 Hz, one truncation per accumulation, and nothing else |
| `MotorDriverProofs!BrakeSlows` | `OneDriver /\ Spec => BrakeOnlySlows`: no frequency above the last it set, nor above a running motor's |
| `PosControlProofs!Invariance` | `Spec => []IInv` |
| `PosControlProofs!TypeCorrect`, `IntegralLimits` | types, and the limits of ramp and PID |
| `PosControlProofs!SmoothRamp`, `RampBefore`, `RampNearMotor` | the action properties of a period |
| `PosControlProofs!StartHolds` | start holds the position it read |
| `PosControlProofs!PulsesMatchFrequency` | `PulseSpec => []EdgesMatchFrequency`: registers that fit, and the edges a frequency stands for |
| `PosControlProofs!HigherIsFaster` | `PulseSpec => FasterIsFaster`: never fewer edges at a higher frequency |
| `PosControlProofs!ArrivalStays` | `Noise = {0}` and `ServoSpec => ArrivalIsFinal`: a reported arrival, and rest on the target, are final |
| `PositionLoopProofs!Invariance` | `Spec => []IInv` |
| `PositionLoopProofs!StopIsStill`, `FaultIsStill` | a stopped loop, and a latched fault, leave the motor still |
| `PositionLoopProofs!MoveArrives` | `move_to` returns OK at its own goal, but for a fault |
| `PositionLoopProofs!KeepsItsContract` | `Spec => Contract!Spec` |
| `OpenLoopProofs!Invariance` | `Spec => []IInv` |
| `OpenLoopProofs!TypeCorrect` | types, and no frequency above what was asked for |
| `OpenLoopProofs!StopIsStill` | a stopped loop leaves its motor still |
| `OpenLoopProofs!SmoothRamp` | what the motor is pulsed at changes by at most one ramp step a period, but for stops and the start |
| `OpenLoopProofs!MoveInvariance` | `Spec => []Undisturbed` |
| `OpenLoopProofs!EndsNear` | an undisturbed move ends near its length |
| `OpenLoopProofs!KeepsItsContract` | `Spec => Contract!Spec` |
| `SpeedLoopProofs!Invariance` | `Spec => []IInv` |
| `SpeedLoopProofs!TypeCorrect` | types, and the limits of target, ramp and error |
| `SpeedLoopProofs!StopIsStill` | a stopped loop leaves its motor still |
| `SpeedLoopProofs!StartFresh`, `RenewalDrops` | start and renewal leave nothing of what was before |
| `SpeedLoopProofs!FollowsRamp` | the frequency commanded: no reversal at speed, no jump, unless `set_target` cleared the ramp |
| `SpeedLoopProofs!KeepsItsContract` | `Spec => Contract!Spec` |
| `LoopInitProofs!Invariance` | `Spec => []IInv` |
| `LoopInitProofs!FindsOwner` | a loop with a thread has its tick |

Assumptions: `HalfAssumption` and `TravelAssumption` (`Half` positive, the travel a
natural number); `LawAssumption` and `FeedbackAssumption` (the limits are not
negative, those whose 0 means "off" are positive, the least lead is not above
the greatest); `MotorAssumption` (the frequency limits are positive and ordered),
`DriverAssumption` (the arguments of the driver's calls are natural numbers),
`PidAssumption` and `SpeedAssumption` (gains and limits are natural numbers, the
PID's limits positive), `AccelAssumption` (a step of the ramp is at
least the least frequency: 200 and 50 Hz as configured), `SpeedLoopAssumption` (the PID's output limit is the
loop's speed limit, as `ensure_inited` sets both from one entry of the
configuration), `LoopInitAssumption` (every loop has one kind, timer and motor),
`OpenLoopAssumption` (the ramp's step is at least the least frequency, and
some frequency asked for is the greatest), `BoundAssumption` (the bound of the
open loop's step count is above every length, so no move meets it),
`PulseAssumption` (every frequency fits registers of 16 bits, is at most half the
timer's clock and makes an edge a period; an edge stands for whole hertz),
`ClockAssumption` (the timer runs below about 1 GHz; 200 MHz as configured),
`ServoAssumption` (a loop that counts as arrived is near, the limits of output are
within the driver's, and at every distance within the threshold the approach
goes less far in a period than to its far side: as configured, under 22 counts of 38 from
its edge and fewer from nearer, at the coarse factor `TurnedRange` allows),
`RootAssumption` (a bound of the model: three digits are enough for the root),
`FloatAssumption` (granules double; the number of floats between two of them is
even) and `RangeAssumption` (a home, a position and one count are a factor of 16
inside the range of a float: 2^128 on the target). Every constant is otherwise
arbitrary.

*Encoder.* The properties are not inductive: a wrap is harmless only because the
difference to the last sample is within half the range. `IInv` adds that, and
that the true count lies within the travel. `EdgeMovesDifference` shows that an
edge moves the signed difference by exactly one also across a wrap;
the four `CountAfter...` lemmas give the count after each action; the refinement
maps `Sample` to `BeginRead`, `Return` to `EndRead`, `Clear` and `Sync` to `Zero`.

*MotorDriver.* For any number of threads that may make every call of the driver:
a frequency that a thread has chosen (before the lock of `set_frequency`, in
`brake`'s ramp, in `home`) is applied after any number of steps of the others.
`FlagsMatchHardware` says that the hardware turns the way `current_dir` says, so
`IInv` adds that a frequency waiting in a thread's locals finds a direction set
(`Ready`); that is kept because no call unsets a direction (`Steps`). One lemma
per locked section shows that it is such a step; the cases of `Next` combine it
with the thread's own move by `ThreadStep`.
`CountsPulses` is about `MotorAccounting`, for every age and number of samples
its bounds allow. `AInv` adds to `IInv` the property itself, the bound on the age,
and that a motor with a frequency has one. A call either
leaves count, age, frequency and direction alone or is one `Accumulate`
(`Counts`), also when two calls interleave, because no function writes frequency
or direction before it has accumulated; `TruncationBound` limits what that
loses to less than a step. A tick adds to the history what the hardware emits:
while `current_freq` is 0 all of it is stray, and otherwise it is what
`current_freq` adds to the pending part, because of `IInv` (`TickEffect`).

`BrakeSlows` has a hypothesis: while a thread may be in `brake`, no other thread
makes a call that sets a frequency (`OneDriver`; `CallsAssumption` has TLC check
that the instance meets it). It is needed, because `brake` keeps the frequency
it lowers in a local and writes it later: over another thread's lower one it
would speed the motor up. The application never calls `brake`, so who drives
beside it is the caller's choice; starting, stopping, faults and the idle time
may come from anyone. `BInv` says that the frequency in hand, clamped, is not
above the one last set, nor above the motor's unless that is 0 (`Slow`);
`OthersStaySlow` keeps that through the steps of the others, which leave the
frequency alone or set it to 0 (`SectionsKeepFreq`). The exception is real: a
motor that a fault or another thread has stopped, `brake` starts again
(`BrakeRestartsNothing` of section 6), and the theorem bounds how fast.

*PulseTimer.* The prescaler is a search, so the first thing to show is that it
finds something: q = TimClk / 2f, the clocks of half a step, divided by `Top + 2` is a
prescaler under which the reload fits, because two integer divisions are one
(`DivideTwice`). `EdgeCount` is the arithmetic that remains, between the clocks
of a period and the edges in it: the first edge falls half a reload after the
restart, so on the edges a period stands for half an edge may be missing. Too many
there can be by one count of the reload register, and `CountsEnough` shows that it
holds `FewestCounts` at least. `HigherIsFaster` is immediate while the prescaler
stays (`SameScale`). Where it gets finer (`FinerScale`) the step of the lower frequency
has lost to truncation up to three counts of its coarser prescaler; that is less
than what one hertz more takes off the step (`OneHertzSaves`), and this is where
`ClockAssumption` is needed.

*PositionScale.* `TargetsKeepLimits` says that a rounded position stays between the
rounded limits, so everything in between must keep order. Within one exponent
rounding does (`NearestMonotone`); across exponents it does because the boundary of
a binade is a whole number of the coarser granule and rounding never passes a
whole number (`NearestMeets`): `RoundedMonotone`. A sum with a fixed home, a cast that truncates
and the choice to fuse keep order too (`SumMonotone`, `CastMonotone`). For the
distance, `RoundedNear` gives half a unit or one in `Significands`, and
`SumNear`, `TargetNear` and `ShownWhereItIs` add up two or three of them. `ScaleInv` adds
to the property that the limits in counts are those of the present home, which
is what `set_home` recomputes them for.

*PosControl.* `IInv` joins types and limits to what the shell has already assigned
while the loop is not running (`StartHolds` needs it: the assignments of start
come in order, and no running period falls between them). A period is
split as the code is: lemmas for the ramp's acceleration, speed, advance and
follow steps, for the integral and for the zero crossing, combined in
`ControlMeets`. `RampBefore` and `RampNearMotor` follow from `FollowStep` alone:
the last clamp restores the order whatever came before it.

*PosServo.* `ArrivalStays` holds for a loop closed around its motor and no other,
so it joins the two halves of the module: what the law outputs near the target, and
what `PulseTimer` makes of that. `ServoInv` adds to types and limits
(kept by `ControlMeets`, as in `PosControl`) that after a period that found the
shaft within the threshold the shaft still is (`StaysInReach`): the loop's `pos` is
a period old, and it is the shaft the next period will find. `NearMove` shows it.
The approach is proportional, so its frequency is known from the distance alone
whatever the ramp and the PID hold (`OutputRange`, `RampedKeeps`); `CommandRange` lifts it to the
least frequency, `TurnedRange` says that the edges of a period make at most three
and a half times what a frequency stands for (at the least frequencies one edge
is much), and `ServoAssumption` that this ends short of the threshold's other side. At the
target itself the approach is 0, and `Settled` stays. Noise breaks it:
with one count of it `ArrivalIsLatched` of section 6 fails, and the hypothesis
`Noise = {0}` is that of the run.

*PositionLoop.* The control thread may stop the loop on a fault between any two
accesses of the shell, so that a stopped loop is still is not inductive: home
starts the motor of a loop that a fault has just stopped, and turns it off some
accesses later. `Drive` lists the labels at which that may be. For the latched
fault `Latch` says that no loop runs with one and that start is past its
`clear_fault` only without; for `move_to`, `Stages` says that a loop that no
longer runs under a waiting move has its fault latched, so the target that the
stop set to 0 is never taken for the goal unless a fault says so. The law's
outputs, the shaft and the pins are arbitrary in the proofs.

*OpenLoop.* That a stopped loop is still is not inductive: between two
assignments of `stop` or `start` the loop's fields and the motor disagree.
`IInv` says at which of them they may (`Stages`, `Drive`): the motor turns at the
ramp's frequency, clamped to the driver's limits, in every running state except
between `start` and the first period, and it turns only while the loop runs or
is about to. `MotorOpsProofs` states what each locked section of the driver
does to flags, frequency and pulses; `OpenLoopProofs` uses nothing else of it.
`MinFreq <= Accel` is needed for `SmoothRamp`: with a smaller ramp step the
driver's lower clamp would be the larger step. `PulsedAtFrequency` ties what the
motor is pulsed at to `current_freq` wherever that is not 0; a start pulses at
the registers' frequency, whatever it is, and its first period leaves at most
two ramp steps.

`EndsNear` follows the undisturbed move through four states (`Undisturbed`):
before the first period there is room to brake (`Fresh`); while it runs there was
room from the speed of the period before (`Cruising`); braking begins where
the room ends, and from there each period takes one ramp step off the speed and
that speed off the remaining length, which stays between two quadratics of the
speed (`Course`, kept by `CourseBegins`, `CourseContinues`, `CourseEnds`); and at 0 it
has ended near enough (`Ended`). The overshoot is bounded by ramp step and
greatest frequency together: where `FreqHz` is small against the two, a move may
end further past its length than the half period it may end short of it.

*SpeedLoop.* Three parts make the invariant inductive: `Resets` says which fields start
and stop have cleared at each label (a resting period only clears what is
cleared anyway), `Drive` when the motor may turn, and `Renewal` that between the
reset of the integral and the new target it holds at most one limited error
per period of the call. That start finds the measured speed at 0 depends on
stop having finished, an order of two calls: `Resets` carries it through the
stopped state.

`FollowsRamp` adds `Follow` to it: while the loop runs and `set_target` has not just
cleared the ramp, the motor turns at `Law` of the ramp. `LawOfRamp` says what dead
zone, whole hertz, least frequency and the driver's clamp make of a ramp, and
`LawClose` that two ramps one step apart differ by no more than `Change`, also
across 0: there the least frequency counts on both sides, and this is where
`AccelAssumption` is needed.

*The contract.* The three implementations have one argument: a lemma per group
of actions (periods, start, stop, commands) shows that each step maps to one
step of `LoopContract` or to none, where the invariant of the loop is used for
the one thing the abstract guards ask: that the motor stands still when a call
of a loop that no longer runs returns, and that a start goes on only without a
fault (`Drive`, `Latch`, `Stages`).

*LoopInit.* That the interrupt finds the right loop needs three facts the code
never states: a timer appears at most once in all lists together (`OneOwner`:
only an open of a closed timer leads to an insertion, and nothing closes it),
what is listed is open (`ListedOpen`), and how far the shell has got
(`ShellInv`). `DispatchFinds` then gives the unique position by induction-free
reasoning on the least index. Failed loops stay in the list, and the
invariant holds because their timer stays open for ever.

Only model-checked: `InitedLoopRuns`; overshoot and settling of both servos
(`OvershootIsBounded`, `SettlesInTime`, `SpeedSettles`), which are bounds on trajectories of the
shipped constants and no invariant short of enumerating them; liveness (`CallsReturn`,
`FaultEndsMove`, `MoveComesToRest` and the temporal findings), because it needs
fairness and ENABLED, which the prover does not handle. Induction over data and
recursive operators are out of its reach too; no module here uses either.

## 5. What is left

1. The motion home may cause when a period falls between its four assignments:
   `LoopContract` says that it is not left behind, not how far it goes.
2. Deadlines on a wrapping tick: `home` and `move_to` compare absolute ticks.
3. The tuning commands, which change gains between two periods.

Not modelled, and why: `main.c` (two LEDs, no shared state), `board/` and `libraries/`
(clock and pin set-up that runs once; vendored), `rt-thread/` but for what
`LoopInit` translates (vendored; its semantics enter as atomicity, priorities and
time), logging, argument parsing and tables of the shell, rounding of the floats
in the control laws (the fixed-point units are finer than any threshold they are
compared with).

## 6. Where the code does something else than it says

One of these is a run, in which TLC must find the property violated:

| run | property | the code says | the model shows |
|---|---|---|---|
| `loop_homing` | `HomingTurnsToSwitch` | motor_driver.h:165: move towards the switch | the control thread turns the motor elsewhere |

The others are no runs of the project. Each is reproduced with `tlc -config X M` on the
module M and the cfg X of the table after replacing, in the cfg, what is checked
by the property named (an `INVARIANT` where it is a state formula, and then
`SPECIFICATION Spec`, or `ASpec` for `MotorAccounting`; otherwise a `PROPERTY`). The cfgs named `Motor...`,
`PosServoLatch` and `LoopIdleRelease` differ in their constants and name their property.

| M, cfg | property | the code says | the model shows |
|---|---|---|---|
| `MCMotorDriver`, `MotorBackoff` | `BackoffEnds` | motor_driver.h:169: back off this many steps | below a step per tick the count stays 0 and home never returns |
| `MCMotorDriver`, `MotorBrakeAsync` | `AsyncBrakeStops` | motor_driver.h:144: a non-blocking braking stop | nothing ever lowers the frequency |
| `MCMotorDriver`, `MotorZeroFreq` | `ZeroFrequencyIsStopped` | motor_driver.h:212: frequency 0 is stopped | start pulses at a stale frequency while 0 is reported |
| `MCMotorAccounting`, `MotorAccounting` | `CountsEveryPulse` | motor_driver.h:204: the accumulated pulse count | pulses after a start at 0 Hz are not counted |
| `MCMotorDriver`, `MotorBlocking` | `BrakeRestartsNothing` | motor_driver.h:136: ramp down to 0, then stop | a motor stopped between brake's check of the fault and its lock is started again |
| `MCMotorDriver`, `MotorIdleRelease` | `ReleasedOnlyWhenStopped` | motor_driver.h:77: EN is released when stopped | `enabled` stays set, the next run is pulsed with EN low |
| `MCMotorDriver`, `MotorFaultState` | `FaultStateIsKept` | motor_driver.c:451: FAULT is kept until clear_fault | check_fault's own stop makes it IDLE |
| `MCPosControl`, `PosControl` | `RetargetFromRest` | position_loop.c:393: the ramp restarts at the position | a period in between moves it on |
| `MCPosServo`, `PosServo` | `CrossingClearsIntegral` | position_loop.c:256: a zero crossing clears the integral | a crossing sampled at exactly 0 is missed, and the integral survives it |
| `MCPosServo`, `PosServo` | `OutputWithinAccel` | position_loop.h:51, 88: maximum acceleration per period | only the ramp is limited |
| `MCPosServo`, `PosServo` | `ArrivalIsEarned` | position_loop.h:135: wait for arrival | a stale position counts as arrival |
| `MCPosServo`, `PosServoLatch` | `ArrivalIsLatched` | README.md:110: latched on arrival | nothing is latched |
| `MCPositionLoop`, `PositionLoop` | `FaultRefusesToRun` | motor_driver.c:348: refuse to run on a fault | the check is outside the lock, and home starts the motor after the stop |
| `MCPositionLoop`, `PositionLoop` | `MoveOkIsArrival` | position_loop.h:137: OK means arrived | the stop's target 0 counts as arrival |
| `MCPositionLoop`, `PositionLoop` | `IdleIsStopped` | motor_driver.h:49: IDLE is stopped | home's last assignment comes after a period's restart |
| `MCPositionLoop`, `LoopIdleRelease` | `RestReleasesEn` | motor_driver.h:192: EN is released after stopping | each period restarts the idle time |
| `MCOpenLoop`, `OpenLoop` | `MoveArrives` | stepper_openloop.h:41: stops by itself on arrival | braking ends short of the last step, and the loop waits at 0 Hz in position mode for ever |
| `MCOpenLoop`, `OpenLoop` | `MoveIsInPosMode` | stepper_openloop.h:41, again | a period that preempts `move` after its first assignment leaves position mode, and the motor turns without end |
| `MCOpenLoop`, `OpenLoop` | `StartIsFirstStep` | stepper_openloop.c:153: skip 0 Hz, pulse directly, at `max_accel` | until the first period the pulses come at the frequency of the last run |
| `MCSpeedLoop`, `SpeedLoop` | `OutputWithinAccel` | speed_loop.h:45, 79: maximum acceleration, Hz a period | a renewed target clears the ramp, and the motor drops from any speed to the ramp's first step |
| `MCSpeedServo`, `SpeedServo` | `StartHoldsStill` | speed_loop.c:254, 256: start from the current encoder position with target 0 | `last_enc` lacks `enc_invert`, and the first period drives the motor |
| `MCLoopInit`, `LoopInit` | `TickFindsLiveSem` | position_loop.c:118, 125: a failed init deletes its semaphore | the list and the interrupt keep using it |
| `MCLoopInit`, `LoopInit` | `OpenTimerIsUsed` | test_positionloop.c:453-497: an init that failed is tried again | the timer stays open, and every retry finds it busy |
| `MCLoopInit`, `LoopInit` | `MotorIsSetUpOnce` | test_speedloop.c:357: initialised once | once per loop: the other loop's command sets up a running motor again |
