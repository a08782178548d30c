---------------------------- MODULE PositionCounter ----------------------------
(***************************************************************************)
(* What the encoder driver promises its callers: a signed position counter *)
(* that follows the shaft count by count, can be zeroed, and whose read    *)
(* returns a position the shaft had while the read was in progress.        *)
(* There is no hardware register, no 16-bit wrap and no sampling here;     *)
(* Encoder.tla is shown to implement this module.                          *)
(***************************************************************************)
EXTENDS Integers

CONSTANTS
  Threads,    (* the threads that call the encoder driver             *)
  MaxCount    (* BOUND: mechanical travel, in counts, either side of 0 *)

VARIABLES
  count,      (* the shaft position since the last zeroing            *)
  pc,         (* per thread: "idle", or "return" inside a read        *)
  seen,       (* per thread: the positions held since its read began  *)
  reply       (* what the read that ended last returned               *)

vars == <<count, pc, seen, reply>>

\* The position becomes c; every read in progress has now seen it.
Moves(c) ==
  /\ count' = c
  /\ seen' = [t \in Threads |-> IF pc[t] = "return" THEN seen[t] \cup {c}
                                                    ELSE seen[t]]

Init ==
  /\ count = 0
  /\ pc = [t \in Threads |-> "idle"]
  /\ seen = [t \in Threads |-> {}]
  /\ reply = 0

Turn(d) ==
  /\ count + d \in -MaxCount..MaxCount
  /\ Moves(count + d)
  /\ UNCHANGED <<pc, reply>>

Zero(t) ==
  /\ pc[t] = "idle"
  /\ Moves(0)
  /\ UNCHANGED <<pc, reply>>

BeginRead(t) ==
  /\ pc[t] = "idle"
  /\ pc' = [pc EXCEPT ![t] = "return"]
  /\ seen' = [seen EXCEPT ![t] = {count}]
  /\ UNCHANGED <<count, reply>>

EndRead(t) ==
  /\ pc[t] = "return"
  /\ reply' \in seen[t]
  /\ pc' = [pc EXCEPT ![t] = "idle"]
  /\ seen' = [seen EXCEPT ![t] = {}]
  /\ UNCHANGED count

Next ==
  \/ \E d \in {-1, 1} : Turn(d)
  \/ \E t \in Threads : Zero(t) \/ BeginRead(t) \/ EndRead(t)

Spec == Init /\ [][Next]_vars
================================================================================
