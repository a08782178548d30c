-------------------------------- MODULE Encoder --------------------------------
(***************************************************************************)
(* stepper_encoder_driver.c: the 16-bit up/down counter of an encoder      *)
(* timer, extended in software to a signed position by the difference of   *)
(* two samples.  The shaft turns between any two steps; a read samples     *)
(* with interrupts off and returns the accumulator after turning them back *)
(* on, so a clear, a sync or another read may fall in between.             *)
(***************************************************************************)
EXTENDS Integers

CONSTANTS
  Threads,    (* the threads that call the driver                     *)
  Half,       (* half the range of CNT: 2^15 on the target            *)
  MaxCount    (* BOUND: mechanical travel, in counts, either side of 0 *)

ASSUME HalfAssumption == Half \in Nat \ {0}
ASSUME TravelAssumption == MaxCount \in Nat

VARIABLES
  cnt,        (* TIMx->CNT, counts modulo 2*Half                      *)
  last_raw,   (* enc->last_raw                                        *)
  overflow,   (* enc->overflow                                        *)
  pc,         (* per thread: "idle", or "return" between the enabling *)
              (* of interrupts and the return of read                 *)
  reply,      (* what the read that ended last returned               *)
  seen        (* history: positions held since the thread's read began *)

vars == <<cnt, last_raw, overflow, pc, reply, seen>>

Modulus == 2 * Half

\* Mutants of the casts: no reduction to the width of the type.
MutUint16(x) == x
MutInt16(x) == x

\* (rt_uint16_t)x and (rt_int16_t)x
ToUint16(x) == x % Modulus
ToInt16(x) == LET u == x % Modulus IN IF u < Half THEN u ELSE u - Modulus

\* Counts the shaft has made since CNT was last sampled, and the position
\* the driver owes its caller.
Unsampled == ToInt16(cnt - last_raw)
Count == overflow + Unsampled

\* Ghost bookkeeping: every read in progress has now seen position c.
Witness(c) ==
  seen' = [t \in Threads |-> IF pc[t] = "return" THEN seen[t] \cup {c} ELSE seen[t]]

\* CNT is 0 after HAL_TIM_Encoder_Init, and counts from its start on; the
\* last statement of init makes it the base of the first difference.
Init ==
  /\ cnt \in 0..Modulus-1
  /\ last_raw = cnt
  /\ overflow = 0
  /\ pc = [t \in Threads |-> "idle"]
  /\ reply = 0
  /\ seen = [t \in Threads |-> {}]

\* One quadrature edge.  The first guard is the driver's operating condition,
\* that it is called every control period: at most Half counts between samples.
\* The second is the travel of the axis.
Turn(d) ==
  /\ Unsampled + d \in -Half..Half-1
  /\ Count + d \in -MaxCount..MaxCount
  /\ cnt' = ToUint16(cnt + d)
  /\ Witness(Count + d)
  /\ UNCHANGED <<last_raw, overflow, pc, reply>>

\* Mutant: the sample is not kept as the base of the next difference.
MutSample(t) ==
  /\ pc[t] = "idle"
  /\ overflow' = overflow + ToInt16(cnt - last_raw)
  /\ pc' = [pc EXCEPT ![t] = "return"]
  /\ seen' = [seen EXCEPT ![t] = {Count}]
  /\ UNCHANGED <<cnt, last_raw, reply>>

\* stepper_encoder_driver_read up to rt_hw_interrupt_enable.
Sample(t) ==
  /\ pc[t] = "idle"
  /\ last_raw' = cnt
  /\ overflow' = overflow + ToInt16(cnt - last_raw)
  /\ pc' = [pc EXCEPT ![t] = "return"]
  /\ seen' = [seen EXCEPT ![t] = {Count}]
  /\ UNCHANGED <<cnt, reply>>

\* return enc->overflow, read again with interrupts on.
Return(t) ==
  /\ pc[t] = "return"
  /\ reply' = overflow
  /\ pc' = [pc EXCEPT ![t] = "idle"]
  /\ seen' = [seen EXCEPT ![t] = {}]
  /\ UNCHANGED <<cnt, last_raw, overflow>>

\* stepper_encoder_driver_clear
Clear(t) ==
  /\ pc[t] = "idle"
  /\ cnt' = 0
  /\ overflow' = 0
  /\ last_raw' = 0
  /\ Witness(0)
  /\ UNCHANGED <<pc, reply>>

\* Mutant: sync clears the accumulator but not the base of the difference.
MutSync(t) ==
  /\ pc[t] = "idle"
  /\ overflow' = 0
  /\ Witness(0)
  /\ UNCHANGED <<cnt, last_raw, pc, reply>>

\* stepper_encoder_driver_sync
Sync(t) ==
  /\ pc[t] = "idle"
  /\ last_raw' = cnt
  /\ overflow' = 0
  /\ Witness(0)
  /\ UNCHANGED <<cnt, pc, reply>>

Next ==
  \/ \E d \in {-1, 1} : Turn(d)
  \/ \E t \in Threads : Sample(t) \/ Return(t) \/ Clear(t) \/ Sync(t)

Spec == Init /\ [][Next]_vars

--------------------------------------------------------------------------------

(* Every variable of the driver stays in the range of its C type. *)
TypeOK ==
  /\ cnt \in 0..Modulus-1
  /\ last_raw \in 0..Modulus-1
  /\ overflow \in Int
  /\ pc \in [Threads -> {"idle", "return"}]
  /\ reply \in Int
  /\ seen \in [Threads -> SUBSET Int]

(* The 32-bit accumulator of read never leaves the travel of the axis: no   *)
(* sequence of wraps, clears and syncs makes it drift towards its overflow. *)
OverflowInTravel == overflow \in -MaxCount..MaxCount

(* read returns a position the shaft really had during the call, although   *)
(* it fetches the accumulator after its critical section and another thread *)
(* may clear, sync or sample in between.                                    *)
ReadIsCurrent == \A t \in Threads : pc[t] = "return" => overflow \in seen[t]

(* The driver implements the unbounded position counter: sampling never     *)
(* moves the position, a wrap of CNT never jumps it, and a read is atomic.  *)
Counter == INSTANCE PositionCounter WITH count <- Count
ImplementsCounter == Counter!Spec
================================================================================
