----------------------------- MODULE LoopInitProofs ----------------------------
(***************************************************************************)
(* IsrFindsOwner for any number of loops, kinds and timers.  The argument: *)
(* a timer is opened at most once, so over all lists at most one entry has *)
(* it (OneOwner); the handler of a timer is set by the loop that opened it *)
(* and by no other, so a loop that got as far as its thread stays the one  *)
(* the interrupt finds.                                                    *)
(***************************************************************************)
EXTENDS LoopInit, SequenceTheorems, TLAPS

Steps == {"idle", "sem", "open", "insert", "isr", "write", "thread", "flag"}

TypeInv ==
  /\ inited \subseteq Loops
  /\ list \in [Kinds -> Seq(Loops)]
  /\ timer \in [Timers -> [open : BOOLEAN, isr : Kinds \cup {None}, on : BOOLEAN]]
  /\ sem \in [Loops -> [live : BOOLEAN, value : Nat]]
  /\ thread \in [Loops -> {"none", "take", "waiting", "busy"}]
  /\ pc \in Steps /\ who \in Loops \cup {None}
  /\ (who = None) <=> (pc = "idle")
  /\ halted \in BOOLEAN

\* Entry i of list k.
Entry(k, i) == list[k][i]

OneOwner ==
  \A k1, k2 \in Kinds : \A i \in DOMAIN list[k1], j \in DOMAIN list[k2] :
    Timer[Entry(k1, i)] = Timer[Entry(k2, j)] => k1 = k2 /\ i = j

ListedOpen ==
  \A k \in Kinds : \A i \in DOMAIN list[k] :
    timer[Timer[Entry(k, i)]].open /\ Kind[Entry(k, i)] = k

Placed(l) == \E i \in DOMAIN list[Kind[l]] : Entry(Kind[l], i) = l

\* How far the shell has got with the loop it initialises.
ShellInv ==
  who \in Loops =>
    /\ who \notin inited
    /\ (thread[who] = "none") <=> (pc # "flag")
    /\ pc # "sem" => sem[who].live
    /\ pc = "insert" => /\ timer[Timer[who]].open
                        /\ \A k \in Kinds : \A i \in DOMAIN list[k] : Timer[Entry(k, i)] # Timer[who]
    /\ pc \in {"isr", "write", "thread", "flag"} => Placed(who)
    /\ pc \in {"write", "thread", "flag"} => timer[Timer[who]].isr = Kind[who]
    /\ pc \in {"thread", "flag"} => timer[Timer[who]].on

\* What an initialised loop has.
Owns(l) == Placed(l) /\ timer[Timer[l]].isr = Kind[l] /\ timer[Timer[l]].on /\ sem[l].live
LoopInv ==
  /\ \A l \in inited : Owns(l) /\ thread[l] # "none"
  /\ \A l \in Threaded : l \in inited \/ l = who

IInv == TypeInv /\ OneOwner /\ ListedOpen /\ ShellInv /\ LoopInv

--------------------------------------------------------------------------------

(* A loop that is placed in its list is what an interrupt of its timer, with *)
(* its kind's handler, finds.                                               *)
LEMMA DispatchFinds ==
  ASSUME TypeInv, OneOwner, NEW l \in Loops, Placed(l), timer[Timer[l]].isr = Kind[l]
  PROVE  Dispatch(Timer[l]) = l
<1> DEFINE t == Timer[l]  k == Kind[l]
<1>1. k \in Kinds /\ t \in Timers
  BY LoopInitAssumption
<1>2. PICK i \in DOMAIN list[k] : list[k][i] = l
  BY DEF Placed, Entry
<1>3. Hits(t) = {i}
  <2>1. i \in Hits(t)
    BY <1>2 DEF Hits
  <2>2. \A j \in Hits(t) : j = i
    BY <1>1, <1>2 DEF Hits, OneOwner, Entry
  <2> QED BY <2>1, <2>2
<1>4. i \in Nat
  BY <1>1, <1>2 DEF TypeInv
<1>5. (CHOOSE m \in Hits(t) : \A j \in Hits(t) : m <= j) = i
  <2>1. i <= i
    BY <1>4
  <2> QED BY <1>3, <2>1
<1> QED BY <1>2, <1>3, <1>5 DEF Dispatch

(* The invariant says that the interrupt finds its owner.                   *)
LEMMA InvFinds ==
  ASSUME IInv
  PROVE  IsrFindsOwner
<1> SUFFICES ASSUME NEW l \in inited \cup Threaded
             PROVE  timer[Timer[l]].on /\ Dispatch(Timer[l]) = l /\ sem[l].live
  BY DEF IsrFindsOwner
<1>1. l \in Loops
  BY DEF IInv, TypeInv, Threaded
<1>2. Placed(l) /\ timer[Timer[l]].isr = Kind[l] /\ timer[Timer[l]].on /\ sem[l].live
  <2>1. CASE l \in inited
    BY <2>1 DEF IInv, LoopInv, Owns
  <2>2. CASE l \notin inited
    <3>1. l \in Threaded /\ l = who
      BY <2>2 DEF IInv, LoopInv
    <3>2. pc = "flag"
      BY <1>1, <3>1 DEF IInv, ShellInv, Threaded
    <3> QED BY <1>1, <3>1, <3>2 DEF IInv, ShellInv
  <2> QED BY <2>1, <2>2
<1> QED BY <1>1, <1>2, DispatchFinds DEF IInv

(* An entry is a loop.                                                      *)
LEMMA EntryType ==
  ASSUME TypeInv, NEW k \in Kinds, NEW i \in DOMAIN list[k]
  PROVE  Entry(k, i) \in Loops
<1>1. list[k] \in Seq(Loops)
  BY DEF TypeInv
<1> QED BY <1>1 DEF Entry

(* Two placed loops of one timer are one.                                   *)
LEMMA PlacedOnce ==
  ASSUME OneOwner, NEW l1 \in Loops, NEW l2 \in Loops, Placed(l1), Placed(l2),
         Timer[l1] = Timer[l2]
  PROVE  l1 = l2
BY LoopInitAssumption DEF OneOwner, Placed, Entry
--------------------------------------------------------------------------------

LEMMA InvInit == ASSUME Init PROVE IInv
<1>1. TypeInv
  <2>1. list \in [Kinds -> Seq(Loops)]
    BY EmptySeq DEF Init
  <2> QED BY <2>1, LoopInitAssumption DEF Init, TypeInv, Steps
<1>2. OneOwner /\ ListedOpen /\ ShellInv /\ LoopInv
  BY LoopInitAssumption DEF Init, OneOwner, ListedOpen, ShellInv, LoopInv, Threaded, Entry
<1> QED BY <1>1, <1>2 DEF IInv

(* A step that leaves the lists and the open timers alone keeps the lists'  *)
(* part of the invariant.                                                   *)
LEMMA ListsStay ==
  ASSUME IInv, UNCHANGED list, \A t \in Timers : timer[t].open => timer'[t].open
  PROVE  /\ OneOwner' /\ ListedOpen'
         /\ \A l \in Loops : Placed(l) <=> Placed(l)'
<1>1. OneOwner'
  BY DEF IInv, OneOwner, Entry
<1>2. ListedOpen'
  <2> SUFFICES ASSUME NEW k \in Kinds, NEW i \in DOMAIN list[k]
               PROVE  timer'[Timer[Entry(k, i)]].open /\ Kind[Entry(k, i)] = k
    BY DEF ListedOpen, Entry
  <2>1. Timer[Entry(k, i)] \in Timers
    BY EntryType, LoopInitAssumption DEF IInv
  <2> QED BY <2>1 DEF IInv, ListedOpen
<1>3. \A l \in Loops : Placed(l) <=> Placed(l)'
  BY DEF Placed, Entry
<1> QED BY <1>1, <1>2, <1>3

LEMMA InvCall == ASSUME IInv, NEW l \in Loops, Call(l) PROVE IInv'
<1> USE DEF Call, Goto
<1>1. TypeInv'
  BY LoopInitAssumption DEF IInv, TypeInv, Steps
<1>2. OneOwner' /\ ListedOpen' /\ \A x \in Loops : Placed(x) <=> Placed(x)'
  BY ListsStay
<1>3. ShellInv'
  BY DEF IInv, ShellInv, LoopInv, TypeInv, Threaded
<1>4. LoopInv'
  BY <1>2, LoopInitAssumption DEF IInv, LoopInv, TypeInv, Threaded, Owns
<1> QED BY <1>1, <1>2, <1>3, <1>4 DEF IInv

(* The shell's other steps have a loop in hand.                             *)
LEMMA InHand ==
  ASSUME IInv, pc # "idle"
  PROVE  who \in Loops /\ who \notin inited /\ Timer[who] \in Timers /\ Kind[who] \in Kinds
BY LoopInitAssumption DEF IInv, TypeInv, ShellInv

LEMMA InvCreateSem == ASSUME IInv, CreateSem PROVE IInv'
<1> USE DEF CreateSem, Goto, Give
<1>0. who \in Loops /\ who \notin inited
  BY InHand
<1>1. TypeInv'
  BY <1>0 DEF IInv, TypeInv, Steps
<1>2. OneOwner' /\ ListedOpen' /\ \A x \in Loops : Placed(x) <=> Placed(x)'
  BY ListsStay
<1>3. ShellInv'
  BY <1>0 DEF IInv, ShellInv, TypeInv
<1>4. LoopInv'
  BY <1>0, <1>2 DEF IInv, LoopInv, TypeInv, Threaded, Owns
<1> QED BY <1>1, <1>2, <1>3, <1>4 DEF IInv

LEMMA InvFail ==
  ASSUME IInv, NEW from \in Steps \ {"idle", "flag"}, Fail(from)
  PROVE  IInv'
<1> USE DEF Fail, Goto, Give
<1>0. who \in Loops /\ who \notin inited /\ thread[who] = "none"
  BY InHand DEF IInv, ShellInv, Steps
<1>1. TypeInv'
  BY <1>0 DEF IInv, TypeInv, Steps
<1>2. OneOwner' /\ ListedOpen' /\ \A x \in Loops : Placed(x) <=> Placed(x)'
  BY ListsStay
<1>3. ShellInv'
  BY LoopInitAssumption DEF ShellInv
<1>4. LoopInv'
  <2>1. \A x \in inited : Owns(x)' /\ thread'[x] # "none"
    BY <1>0, <1>2 DEF IInv, LoopInv, TypeInv, Owns
  <2>2. \A x \in Threaded : x \in inited
    BY <1>0 DEF IInv, LoopInv, Threaded
  <2> QED BY <2>1, <2>2 DEF LoopInv, Threaded
<1> QED BY <1>1, <1>2, <1>3, <1>4 DEF IInv

LEMMA InvOpenDevice == ASSUME IInv, OpenDevice PROVE IInv'
<1> USE DEF OpenDevice, Goto
<1>0. who \in Loops /\ who \notin inited /\ Timer[who] \in Timers
  BY InHand
<1>1. TypeInv'
  BY <1>0 DEF IInv, TypeInv, Steps
<1>t. \A t \in Timers : /\ timer'[t].isr = timer[t].isr /\ timer'[t].on = timer[t].on
                        /\ timer[t].open => timer'[t].open
  BY DEF IInv, TypeInv
<1>2. OneOwner' /\ ListedOpen' /\ \A x \in Loops : Placed(x) <=> Placed(x)'
  BY <1>t, ListsStay
<1>3. ShellInv'
  <2>1. timer'[Timer[who]].open
    BY <1>0 DEF IInv, TypeInv
  <2>2. \A k \in Kinds : \A i \in DOMAIN list[k] : Timer[Entry(k, i)] # Timer[who]
    BY DEF IInv, ListedOpen
  <2> QED BY <1>0, <2>1, <2>2 DEF IInv, ShellInv, Entry
<1>4. LoopInv'
  BY <1>0, <1>2, <1>t, LoopInitAssumption DEF IInv, LoopInv, TypeInv, Threaded, Owns
<1> QED BY <1>1, <1>2, <1>3, <1>4 DEF IInv

LEMMA InvInsert == ASSUME IInv, Insert PROVE IInv'
<1> DEFINE k0 == Kind[who]
<1> USE DEF Insert, Goto
<1>0. who \in Loops /\ who \notin inited /\ Timer[who] \in Timers /\ k0 \in Kinds
  BY InHand
<1>s. list[k0] \in Seq(Loops)
  BY <1>0 DEF IInv, TypeInv
<1>c. /\ list'[k0] = <<who>> \o list[k0]
      /\ \A k \in Kinds \ {k0} : list'[k] = list[k]
  BY <1>0 DEF IInv, TypeInv
\* The entries of the new list: who first, then the old ones.
<1>e. /\ list'[k0] \in Seq(Loops)
      /\ list'[k0][1] = who /\ 1 \in DOMAIN list'[k0]
      /\ \A i \in DOMAIN list'[k0] : i = 1 \/ (i - 1 \in DOMAIN list[k0] /\ list'[k0][i] = list[k0][i - 1])
      /\ \A i \in DOMAIN list[k0] : i + 1 \in DOMAIN list'[k0] /\ list'[k0][i + 1] = list[k0][i]
  BY <1>0, <1>s, <1>c
<1>1. TypeInv'
  BY <1>0, <1>e DEF IInv, TypeInv, Steps
<1>u. /\ timer[Timer[who]].open
      /\ \A k \in Kinds : \A i \in DOMAIN list[k] : Timer[Entry(k, i)] # Timer[who]
  BY <1>0 DEF IInv, ShellInv
\* Where an entry of the new lists comes from.
<1>o. \A k \in Kinds : \A i \in DOMAIN list'[k] :
        \/ k = k0 /\ i = 1 /\ list'[k][i] = who
        \/ k = k0 /\ i - 1 \in DOMAIN list[k] /\ list'[k][i] = list[k][i - 1]
        \/ k # k0 /\ i \in DOMAIN list[k] /\ list'[k][i] = list[k][i]
  BY <1>c, <1>e
<1>f. \A k1, k2 \in Kinds : \A i \in DOMAIN list[k1], j \in DOMAIN list[k2] :
        Timer[list[k1][i]] = Timer[list[k2][j]] => k1 = k2 /\ i = j
  BY DEF IInv, OneOwner, Entry
<1>g. \A k \in Kinds : \A i \in DOMAIN list[k] :
        /\ Timer[list[k][i]] # Timer[who]
        /\ timer[Timer[list[k][i]]].open /\ Kind[list[k][i]] = k
  BY <1>u DEF IInv, ListedOpen, Entry
<1>2. OneOwner'
  <2> SUFFICES ASSUME NEW k1 \in Kinds, NEW k2 \in Kinds,
                      NEW i \in DOMAIN list'[k1], NEW j \in DOMAIN list'[k2],
                      Timer[list'[k1][i]] = Timer[list'[k2][j]]
               PROVE  k1 = k2 /\ i = j
    BY DEF OneOwner, Entry
  <2>1. i \in Nat /\ j \in Nat
    BY <1>1 DEF TypeInv
  <2>2. CASE k1 = k0 /\ i = 1 /\ list'[k1][i] = who
    BY <1>o, <1>g, <2>2
  <2>3. CASE k2 = k0 /\ j = 1 /\ list'[k2][j] = who
    BY <1>o, <1>g, <2>3
  <2>4. CASE k1 = k0 /\ i - 1 \in DOMAIN list[k1] /\ list'[k1][i] = list[k1][i - 1]
    <3>1. CASE k2 = k0 /\ j - 1 \in DOMAIN list[k2] /\ list'[k2][j] = list[k2][j - 1]
      <4>1. i - 1 = j - 1
        BY <1>f, <2>4, <3>1
      <4> QED BY <2>1, <2>4, <3>1, <4>1
    <3>2. CASE k2 # k0 /\ j \in DOMAIN list[k2] /\ list'[k2][j] = list[k2][j]
      BY <1>f, <2>4, <3>2
    <3> QED BY <1>o, <2>3, <3>1, <3>2
  <2>5. CASE k1 # k0 /\ i \in DOMAIN list[k1] /\ list'[k1][i] = list[k1][i]
    <3>1. CASE k2 = k0 /\ j - 1 \in DOMAIN list[k2] /\ list'[k2][j] = list[k2][j - 1]
      BY <1>f, <2>5, <3>1
    <3>2. CASE k2 # k0 /\ j \in DOMAIN list[k2] /\ list'[k2][j] = list[k2][j]
      BY <1>f, <2>5, <3>2
    <3> QED BY <1>o, <2>3, <3>1, <3>2
  <2> QED BY <1>o, <2>2, <2>4, <2>5
<1>3. ListedOpen'
  <2> SUFFICES ASSUME NEW k \in Kinds, NEW i \in DOMAIN list'[k]
               PROVE  timer[Timer[list'[k][i]]].open /\ Kind[list'[k][i]] = k
    BY DEF ListedOpen, Entry
  <2>1. CASE k = k0 /\ list'[k][i] = who
    BY <1>u, <2>1
  <2>2. CASE \E j \in DOMAIN list[k] : list'[k][i] = list[k][j]
    <3>1. PICK j \in DOMAIN list[k] : list'[k][i] = list[k][j]
      BY <2>2
    <3>2. timer[Timer[list[k][j]]].open /\ Kind[list[k][j]] = k
      BY <1>g
    <3> QED BY <3>1, <3>2
  <2> QED BY <1>o, <2>1, <2>2
<1>p. \A l \in Loops : Placed(l) => Placed(l)'
  <2> SUFFICES ASSUME NEW l \in Loops, Placed(l) PROVE Placed(l)'
    OBVIOUS
  <2>1. Kind[l] \in Kinds
    BY LoopInitAssumption
  <2>2. PICK i \in DOMAIN list[Kind[l]] : list[Kind[l]][i] = l
    BY DEF Placed, Entry
  <2>3. CASE Kind[l] = k0
    <3>1. i + 1 \in DOMAIN list'[Kind[l]] /\ list'[Kind[l]][i + 1] = l
      BY <2>2, <2>3, <1>e
    <3> QED BY <3>1 DEF Placed, Entry
  <2>4. CASE Kind[l] # k0
    BY <2>1, <2>2, <2>4, <1>c DEF Placed, Entry
  <2> QED BY <2>3, <2>4
<1>w. Placed(who)'
  BY <1>e DEF Placed, Entry
<1>4. ShellInv'
  BY <1>0, <1>w DEF IInv, ShellInv
<1>5. LoopInv'
  BY <1>0, <1>p DEF IInv, LoopInv, TypeInv, Threaded, Owns
<1> QED BY <1>1, <1>2, <1>3, <1>4, <1>5 DEF IInv

LEMMA InvSetIndicate == ASSUME IInv, SetIndicate PROVE IInv'
<1> USE DEF SetIndicate, Goto
<1>0. who \in Loops /\ who \notin inited /\ Timer[who] \in Timers /\ Kind[who] \in Kinds
  BY InHand
<1>1. TypeInv'
  BY <1>0 DEF IInv, TypeInv, Steps
<1>t. /\ \A t \in Timers : /\ timer'[t].open = timer[t].open /\ timer'[t].on = timer[t].on
                           /\ t # Timer[who] => timer'[t] = timer[t]
      /\ timer'[Timer[who]].isr = Kind[who]
  BY <1>0 DEF IInv, TypeInv
<1>2. OneOwner' /\ ListedOpen' /\ \A x \in Loops : Placed(x) <=> Placed(x)'
  BY <1>t, ListsStay
<1>3. ShellInv'
  BY <1>0, <1>2, <1>t DEF IInv, ShellInv
<1>4. LoopInv'
  <2>1. Placed(who)
    BY <1>0 DEF IInv, ShellInv
  <2>2. \A l \in inited : Timer[l] # Timer[who]
    BY <1>0, <2>1, PlacedOnce DEF IInv, LoopInv, TypeInv, Owns
  <2>3. \A l \in inited : Owns(l)'
    BY <1>2, <1>t, <2>2, LoopInitAssumption DEF IInv, LoopInv, TypeInv, Owns
  <2> QED BY <2>3 DEF IInv, LoopInv, Threaded
<1> QED BY <1>1, <1>2, <1>3, <1>4 DEF IInv

LEMMA InvStartTimer == ASSUME IInv, StartTimer PROVE IInv'
<1> USE DEF StartTimer, Goto
<1>0. who \in Loops /\ who \notin inited /\ Timer[who] \in Timers
  BY InHand
<1>1. TypeInv'
  BY <1>0 DEF IInv, TypeInv, Steps
<1>t. /\ \A t \in Timers : /\ timer'[t].open = timer[t].open /\ timer'[t].isr = timer[t].isr
                           /\ timer[t].on => timer'[t].on
      /\ timer'[Timer[who]].on
  BY <1>0 DEF IInv, TypeInv
<1>2. OneOwner' /\ ListedOpen' /\ \A x \in Loops : Placed(x) <=> Placed(x)'
  BY <1>t, ListsStay
<1>3. ShellInv'
  BY <1>0, <1>2, <1>t DEF IInv, ShellInv
<1>4. LoopInv'
  BY <1>2, <1>t, LoopInitAssumption DEF IInv, LoopInv, TypeInv, Threaded, Owns
<1> QED BY <1>1, <1>2, <1>3, <1>4 DEF IInv

LEMMA InvCreateThread == ASSUME IInv, CreateThread PROVE IInv'
<1> USE DEF CreateThread, Goto
<1>0. who \in Loops /\ who \notin inited
  BY InHand
<1>1. TypeInv'
  BY <1>0 DEF IInv, TypeInv, Steps
<1>2. OneOwner' /\ ListedOpen' /\ \A x \in Loops : Placed(x) <=> Placed(x)'
  BY ListsStay
<1>3. ShellInv'
  BY <1>0, <1>2 DEF IInv, ShellInv, TypeInv
<1>4. LoopInv'
  BY <1>0, <1>2 DEF IInv, LoopInv, TypeInv, Threaded, Owns
<1> QED BY <1>1, <1>2, <1>3, <1>4 DEF IInv

LEMMA InvSetInited == ASSUME IInv, SetInited PROVE IInv'
<1> USE DEF SetInited, Goto
<1>0. who \in Loops /\ who \notin inited
  BY InHand
<1>1. TypeInv'
  BY <1>0 DEF IInv, TypeInv, Steps
<1>2. OneOwner' /\ ListedOpen' /\ \A x \in Loops : Placed(x) <=> Placed(x)'
  BY ListsStay
<1>3. ShellInv'
  BY LoopInitAssumption DEF ShellInv
<1>4. LoopInv'
  <2>1. Owns(who) /\ thread[who] # "none"
    BY <1>0 DEF IInv, ShellInv, Owns
  <2>2. \A l \in inited' : Owns(l)' /\ thread'[l] # "none"
    BY <1>2, <2>1 DEF IInv, LoopInv, TypeInv, Owns
  <2> QED BY <2>2 DEF IInv, LoopInv, Threaded
<1> QED BY <1>1, <1>2, <1>3, <1>4 DEF IInv

(* Interrupts and threads disturb neither lists nor timers, and let nobody  *)
(* lose a thread or a semaphore.                                            *)
LEMMA InvRuns ==
  ASSUME IInv, TypeInv', UNCHANGED <<inited, list, timer, pc, who>>,
         \A l \in Loops : /\ sem'[l].live = sem[l].live
                          /\ (thread'[l] = "none") <=> (thread[l] = "none")
  PROVE  IInv'
<1>2. OneOwner' /\ ListedOpen' /\ \A x \in Loops : Placed(x) <=> Placed(x)'
  BY ListsStay
<1>3. ShellInv'
  <2> SUFFICES ASSUME who \in Loops PROVE ShellInv'
    BY DEF ShellInv
  <2>1. /\ sem'[who].live = sem[who].live /\ timer' = timer /\ pc' = pc /\ who' = who
        /\ inited' = inited /\ list' = list
        /\ Placed(who) <=> Placed(who)'
        /\ (thread'[who] = "none") <=> (thread[who] = "none")
    BY DEF Placed, Entry
  <2>2. ShellInv
    BY DEF IInv
  <2> QED BY <2>1, <2>2, Zenon DEF ShellInv, Entry
<1>4. LoopInv'
  <2>1. \A l \in inited : Owns(l)' /\ thread'[l] # "none"
    <3> SUFFICES ASSUME NEW l \in inited PROVE Owns(l)' /\ thread'[l] # "none"
      OBVIOUS
    <3>1. l \in Loops
      BY DEF IInv, TypeInv
    <3>2. Owns(l) /\ thread[l] # "none"
      BY DEF IInv, LoopInv
    <3>3. Placed(l)' /\ timer' = timer /\ sem'[l].live = sem[l].live /\ thread'[l] # "none"
      BY <3>1, <3>2 DEF Owns, Placed, Entry
    <3> QED BY <3>2, <3>3 DEF Owns
  <2>2. \A l \in Threaded' : l \in inited \/ l = who
    BY DEF IInv, LoopInv, Threaded
  <2> QED BY <2>1, <2>2 DEF LoopInv
<1> QED BY <1>2, <1>3, <1>4 DEF IInv

LEMMA InvTick == ASSUME IInv, NEW t \in Timers, Tick(t) PROVE IInv'
<1> DEFINE l == Dispatch(t)
<1>1. CASE sem[l].live /\ Wake(l)
  <2>1. TypeInv'
    BY <1>1 DEF IInv, TypeInv, Tick, Release, Wake
  <2> QED BY <1>1, <2>1, InvRuns DEF IInv, TypeInv, Tick, Wake
<1>2. CASE sem[l].live /\ Count(l)
  <2> DEFINE v == IF sem[l].value < MaxValue THEN sem[l].value + 1 ELSE sem[l].value
  <2>v. l \in Loops => v \in Nat
    BY DEF IInv, TypeInv
  <2>s. sem' \in [Loops -> [live : BOOLEAN, value : Nat]]
    BY <1>2, <2>v DEF IInv, TypeInv, Count
  <2>1. TypeInv'
    BY <1>2, <2>s DEF IInv, TypeInv, Tick, Release, Count
  <2>2. \A x \in Loops : sem'[x].live = sem[x].live
    BY <1>2 DEF IInv, TypeInv, Count
  <2> QED BY <1>2, <2>1, <2>2, InvRuns DEF Tick, Count
<1>3. CASE ~sem[l].live
  <2>1. TypeInv'
    BY <1>3 DEF IInv, TypeInv, Tick, Release
  <2> QED BY <1>3, <2>1, InvRuns DEF Tick, Release
<1> QED BY <1>1, <1>2, <1>3 DEF Tick, Release

LEMMA InvTake == ASSUME IInv, NEW l \in Loops, Take(l) PROVE IInv'
<1>s. /\ sem' \in [Loops -> [live : BOOLEAN, value : Nat]]
      /\ \A x \in Loops : sem'[x].live = sem[x].live
  <2>1. CASE sem[l].value > 0
    <3> DEFINE v == sem[l].value - 1
    <3>1. v \in Nat
      BY <2>1 DEF IInv, TypeInv
    <3>2. sem' = [sem EXCEPT ![l].value = v]
      BY <2>1 DEF Take
    <3> HIDE DEF v
    <3> QED BY <3>1, <3>2 DEF IInv, TypeInv
  <2>2. CASE ~(sem[l].value > 0)
    BY <2>2 DEF IInv, TypeInv, Take
  <2> QED BY <2>1, <2>2
<1>1. TypeInv'
  BY <1>s DEF IInv, TypeInv, Take
<1>2. \A x \in Loops : sem'[x].live = sem[x].live
  BY <1>s
<1>3. \A x \in Loops : (thread'[x] = "none") <=> (thread[x] = "none")
  BY DEF IInv, TypeInv, Take
<1> QED BY <1>1, <1>2, <1>3, InvRuns DEF Take

LEMMA InvPeriod == ASSUME IInv, NEW l \in Loops, Period(l) PROVE IInv'
<1>1. TypeInv'
  BY DEF IInv, TypeInv, Period
<1> QED BY <1>1, InvRuns DEF IInv, TypeInv, Period

--------------------------------------------------------------------------------

(* Lists, timers, semaphores and the steps of the shell form an inductive   *)
(* invariant, for any number of loops, kinds and timers.                    *)
THEOREM Invariance == Spec => []IInv
<1>1. Init => IInv
  BY InvInit
<1>2. IInv /\ [Next]_vars => IInv'
  <2> SUFFICES ASSUME IInv, [Next]_vars PROVE IInv'
    OBVIOUS
  <2>1. CASE Shell
    <3>1. ASSUME NEW from \in {"sem", "open", "write", "thread"}, Fail(from) PROVE IInv'
      BY <3>1, InvFail DEF Steps
    <3>2. CASE NoSem \/ Busy \/ TimerRefuses \/ NoThread
      BY <3>1, <3>2 DEF NoSem, Busy, TimerRefuses, NoThread
    <3> QED
      BY <2>1, <3>2, InvCall, InvCreateSem, InvOpenDevice, InvInsert, InvSetIndicate,
         InvStartTimer, InvCreateThread, InvSetInited DEF Shell
  <2>2. CASE \E t \in Timers : Tick(t)
    BY <2>2, InvTick
  <2>3. CASE \E l \in Loops : Take(l) \/ Period(l)
    BY <2>3, InvTake, InvPeriod
  <2>4. CASE UNCHANGED vars
    <3>1. TypeInv'
      BY <2>4 DEF IInv, TypeInv, vars
    <3> QED BY <2>4, <3>1, InvRuns DEF vars
  <2> QED BY <2>1, <2>2, <2>3, <2>4 DEF Next
<1> QED BY <1>1, <1>2, PTL DEF Spec

(* "Dispatch by timer_dev": a loop with a thread is what the interrupt of   *)
(* its running timer finds, with a live semaphore, whatever initialisations *)
(* of other loops succeeded or failed since.                                *)
THEOREM FindsOwner == Spec => []IsrFindsOwner
<1>1. IInv => IsrFindsOwner
  BY InvFinds
<1> QED BY <1>1, Invariance, PTL
================================================================================
