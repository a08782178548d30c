-------------------------------- MODULE LoopInit -------------------------------
(***************************************************************************)
(* How a loop gets its control tick.  A shell command that needs a loop    *)
(* runs ensure_inited first: it sets up motor and encoder and calls the    *)
(* init of the loop, which creates a semaphore, opens a hardware timer,    *)
(* inserts the loop in the list the timer's interrupt searches, starts the *)
(* timer and creates the control thread, in this order, undoing little     *)
(* when a step fails.  Three kinds of loop do this with the same steps,    *)
(* each kind with a list and an interrupt handler of its own, on timers    *)
(* and motors they share.                                                  *)
(* Timers fire and threads run between any two steps of the shell, which   *)
(* only goes on when every control thread waits.                           *)
(***************************************************************************)
EXTENDS Naturals, Sequences

CONSTANTS
  Loops, Kinds, Timers, Motors,
  Kind, Timer, Motor,   (* of each loop                                  *)
  MaxValue,             (* RT_SEM_VALUE_MAX, 65535 on the target         *)
  None

ASSUME LoopInitAssumption ==
  /\ Kind \in [Loops -> Kinds] /\ Timer \in [Loops -> Timers] /\ Motor \in [Loops -> Motors]
  /\ MaxValue \in Nat \ {0}
  /\ None \notin Loops /\ None \notin Kinds

VARIABLES
  inited,   (* the loops with g_inited set                               *)
  list,     (* g_pl_list, g_sl_list, g_ol_list                           *)
  timer,    (* the timer devices: open, the handler, counting            *)
  sem,      (* the semaphore a loop points to: live or freed, its value  *)
  thread,   (* the control threads                                       *)
  pc, who,  (* the shell: the next step of which loop's init             *)
  halted    (* an assertion of the kernel has stopped the machine        *)

vars == <<inited, list, timer, sem, thread, pc, who, halted>>

Init ==
  /\ inited = {}
  /\ list = [k \in Kinds |-> <<>>]
  /\ timer = [t \in Timers |-> [open |-> FALSE, isr |-> None, on |-> FALSE]]
  /\ sem = [l \in Loops |-> [live |-> FALSE, value |-> 0]]
  /\ thread = [l \in Loops |-> "none"]
  /\ pc = "idle" /\ who = None /\ halted = FALSE

--------------------------------------------------------------------------------
\* The shell.

Goto(from, to) ==
  /\ ~halted /\ \A l \in Loops : thread[l] \in {"none", "waiting"}
  /\ pc = from /\ pc' = to
  /\ UNCHANGED halted
Give(s) == sem' = [sem EXCEPT ![who] = s]
Fail(from) ==
  /\ Goto(from, "idle")
  /\ who' = None
  /\ Give([live |-> FALSE, value |-> 0])
  /\ UNCHANGED <<inited, list, timer, thread>>

\* ensure_inited has set up the motor's timer and pins and the encoder.
Call(l) ==
  /\ l \notin inited
  /\ Goto("idle", "sem")
  /\ who' = l
  /\ UNCHANGED <<inited, list, timer, sem, thread>>

CreateSem ==
  /\ Goto("sem", "open")
  /\ Give([live |-> TRUE, value |-> 0])
  /\ UNCHANGED <<inited, list, timer, thread, who>>
\* No memory: the loop points to no semaphore.
NoSem == Fail("sem")

\* A hardware timer is opened once (RT_DEVICE_FLAG_STANDALONE); mutant: shared.
MutOpenDevice ==
  /\ Goto("open", "insert")
  /\ timer' = [timer EXCEPT ![Timer[who]].open = TRUE]
  /\ UNCHANGED <<inited, list, sem, thread, who>>
OpenDevice ==
  /\ Goto("open", "insert")
  /\ ~timer[Timer[who]].open
  /\ timer' = [timer EXCEPT ![Timer[who]].open = TRUE]
  /\ UNCHANGED <<inited, list, sem, thread, who>>
Busy == Fail("open") /\ timer[Timer[who]].open

\* Not reachable from the list until its head is assigned: one step.
Insert ==
  /\ Goto("insert", "isr")
  /\ list' = [list EXCEPT ![Kind[who]] = <<who>> \o @]
  /\ UNCHANGED <<inited, timer, sem, thread, who>>
SetIndicate ==
  /\ Goto("isr", "write")
  /\ timer' = [timer EXCEPT ![Timer[who]].isr = Kind[who]]
  /\ UNCHANGED <<inited, list, sem, thread, who>>

StartTimer ==
  /\ Goto("write", "thread")
  /\ timer' = [timer EXCEPT ![Timer[who]].on = TRUE]
  /\ UNCHANGED <<inited, list, sem, thread, who>>
TimerRefuses == Fail("write")

CreateThread ==
  /\ Goto("thread", "flag")
  /\ thread' = [thread EXCEPT ![who] = "take"]
  /\ UNCHANGED <<inited, list, timer, sem, who>>
NoThread == Fail("thread")

SetInited ==
  /\ Goto("flag", "idle")
  /\ inited' = inited \cup {who}
  /\ who' = None
  /\ UNCHANGED <<list, timer, sem, thread>>

Shell ==
  \/ \E l \in Loops : Call(l)
  \/ CreateSem \/ NoSem \/ OpenDevice \/ Busy \/ Insert \/ SetIndicate
  \/ StartTimer \/ TimerRefuses \/ CreateThread \/ NoThread \/ SetInited

--------------------------------------------------------------------------------
\* Timer interrupts and control threads.

\* The first loop of the handler's list that has this timer.  Mutant: only the
\* head of the list is looked at.
Hits(t) == LET s == list[timer[t].isr] IN {i \in DOMAIN s : Timer[s[i]] = t}
MutDispatch(t) == IF 1 \in Hits(t) THEN list[timer[t].isr][1] ELSE None
Dispatch(t) ==
  IF Hits(t) = {} THEN None
  ELSE list[timer[t].isr][CHOOSE i \in Hits(t) : \A j \in Hits(t) : i <= j]

Wake(l) ==
  /\ thread[l] = "waiting"
  /\ thread' = [thread EXCEPT ![l] = "busy"]
  /\ UNCHANGED sem
Count(l) ==
  /\ thread[l] # "waiting"
  /\ sem' = [sem EXCEPT ![l].value = IF @ < MaxValue THEN @ + 1 ELSE @]
  /\ UNCHANGED thread
\* rt_sem_release on freed memory: its assertion halts, or a block used again
\* passes for something else.
Release(l) ==
  IF sem[l].live THEN (Wake(l) \/ Count(l)) /\ UNCHANGED halted
  ELSE halted' \in BOOLEAN /\ UNCHANGED <<sem, thread>>

Tick(t) ==
  /\ ~halted /\ timer[t].on
  /\ Dispatch(t) # None
  /\ Release(Dispatch(t))
  /\ UNCHANGED <<inited, list, timer, pc, who>>

\* rt_sem_take, and a period of the loop.
Take(l) ==
  /\ ~halted /\ thread[l] = "take"
  /\ IF sem[l].value > 0
       THEN /\ sem' = [sem EXCEPT ![l].value = @ - 1]
            /\ thread' = [thread EXCEPT ![l] = "busy"]
       ELSE /\ thread' = [thread EXCEPT ![l] = "waiting"]
            /\ UNCHANGED sem
  /\ UNCHANGED <<inited, list, timer, pc, who, halted>>
Period(l) ==
  /\ ~halted /\ thread[l] = "busy"
  /\ thread' = [thread EXCEPT ![l] = "take"]
  /\ UNCHANGED <<inited, list, timer, sem, pc, who, halted>>

Next ==
  \/ Shell
  \/ \E t \in Timers : Tick(t)
  \/ \E l \in Loops : Take(l) \/ Period(l)

Spec == Init /\ [][Next]_vars

\* The hardware counts, and control threads preempt everything else.
FairSpec ==
  /\ Spec
  /\ \A t \in Timers : WF_vars(Tick(t))
  /\ \A l \in Loops : WF_vars(Take(l) \/ Period(l))

--------------------------------------------------------------------------------

Threaded == {l \in Loops : thread[l] # "none"}

(* "Dispatch by timer_dev": while a loop has a thread its timer runs, the   *)
(* timer's interrupt finds this loop and no other, and the semaphore the    *)
(* thread takes is alive: whatever other loops, of any kind, were           *)
(* initialised, failed and retried since.                                   *)
IsrFindsOwner ==
  \A l \in inited \cup Threaded :
    /\ timer[Timer[l]].on
    /\ Dispatch(Timer[l]) = l
    /\ sem[l].live

(* Once initialised, a loop runs its periods for ever, unless a failed      *)
(* initialisation has led to the machine's halt.                            *)
InitedLoopRuns ==
  \A l \in Loops : l \in inited ~> thread[l] = "busy" \/ halted

--------------------------------------------------------------------------------
\* What the code does not do.

(* A semaphore is not released after it was deleted.                        *)
TickFindsLiveSem == ~halted

(* A loop whose initialisation failed can be initialised later: no timer    *)
(* stays open without a loop that uses it.                                  *)
OpenTimerIsUsed ==
  pc = "idle" => \A t \in Timers : timer[t].open => \E l \in inited : Timer[l] = t

(* The motor and encoder of an initialised loop are its own: no other       *)
(* command sets up their hardware again.                                    *)
MotorIsSetUpOnce ==
  [][pc = "idle" /\ who' \in Loops => \A l \in inited : Motor[l] # Motor[who']]_vars
================================================================================
