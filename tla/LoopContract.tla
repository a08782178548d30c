------------------------------ MODULE LoopContract -----------------------------
(***************************************************************************)
(* What a control loop promises the shell that starts, commands and stops  *)
(* it, whatever law it follows: no call leaves a motor turning that no     *)
(* loop controls; a loop runs only after a start, and a fault that stopped *)
(* it keeps it stopped until the next one.  There is no frequency, no      *)
(* target and no assignment half done here: OpenLoop, SpeedLoop and        *)
(* PositionLoop are each shown to implement this module.                   *)
(***************************************************************************)

VARIABLES
  runs,       (* the control thread runs the loop                        *)
  tripped,    (* a fault has stopped it, and no start has cleared that   *)
  call,       (* the shell's call in progress: "none", "start", "stop",  *)
              (* or "command" for one that asks a running loop for motion *)
  turning     (* the motor makes pulses                                  *)

vars == <<runs, tripped, call, turning>>

Init == ~runs /\ ~tripped /\ call = "none" /\ ~turning

--------------------------------------------------------------------------------
\* The control thread, whatever the shell is doing.

Control == runs /\ turning' \in BOOLEAN /\ UNCHANGED <<runs, tripped, call>>

Trip ==
  /\ runs /\ ~runs'
  /\ tripped' /\ ~turning'
  /\ UNCHANGED call

--------------------------------------------------------------------------------
\* The shell, one call at a time.

\* A start clears the fault, energises the motor and hands it to the loop; a
\* command may have made the start, and goes on.
BeginStart == call = "none" /\ ~runs /\ call' = "start" /\ UNCHANGED <<runs, tripped, turning>>
ClearFault == call = "start" /\ ~tripped' /\ UNCHANGED <<runs, call, turning>>
Energise ==
  /\ call = "start" /\ ~runs /\ ~tripped
  /\ turning'
  /\ UNCHANGED <<runs, tripped, call>>
Run ==
  /\ call = "start" /\ ~tripped
  /\ runs'
  /\ call' \in {"none", "command"}
  /\ UNCHANGED <<tripped, turning>>

\* A stop takes the motor from the loop before it stops it.
BeginStop ==
  /\ call = "none" /\ call' = "stop"
  /\ runs' \in {runs, FALSE}
  /\ UNCHANGED <<tripped, turning>>
Halt == call = "stop" /\ ~runs' /\ UNCHANGED <<tripped, call, turning>>
StopMotor == call = "stop" /\ ~runs /\ ~turning' /\ UNCHANGED <<runs, tripped, call>>

\* A command may turn the motor itself, beside the loop.
BeginCommand == call = "none" /\ runs /\ call' = "command" /\ UNCHANGED <<runs, tripped, turning>>
Command == call = "command" /\ turning' \in BOOLEAN /\ UNCHANGED <<runs, tripped, call>>

\* A loop that a fault or this call stopped has left the motor still.
Return ==
  /\ call \in {"stop", "command"} /\ call' = "none"
  /\ runs \/ ~turning
  /\ UNCHANGED <<runs, tripped, turning>>

Next ==
  \/ Control \/ Trip
  \/ BeginStart \/ ClearFault \/ Energise \/ Run
  \/ BeginStop \/ Halt \/ StopMotor
  \/ BeginCommand \/ Command
  \/ Return

Spec == Init /\ [][Next]_vars
================================================================================
