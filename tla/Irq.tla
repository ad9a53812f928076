-------------------------------- MODULE Irq --------------------------------
(***************************************************************************)
(* Interrupts: the dispatch of kernel/src/cpu/irq.c, the handlers of       *)
(* drivers/timer.c and drivers/kb.c, the waiting loops of the main thread  *)
(* that depend on them, and the steps of kmain that prepare them: the      *)
(* gates of cpu/idt.c, cpu/isr.c and irq.c, the remapping, the handlers.   *)
(*                                                                         *)
(* External: the pair of interrupt controllers (nothing masked, no         *)
(* automatic end of interrupt), the interrupt flag of the processor, and   *)
(* the devices, heard from once the controllers are initialised.  The      *)
(* processor takes a pending interrupt before the next instruction of the  *)
(* main thread; the gates clear its flag, so handlers do not nest.  A      *)
(* device raises its line again only after the main thread has gone on (a  *)
(* tick is 55 ms), and the keyboard only after its byte has been read.  On *)
(* the last line of each controller an interrupt may come that no device   *)
(* stands behind, and that is not in service there.                        *)
(***************************************************************************)
EXTENDS Integers

CONSTANTS
  U32,              \* 2^32
  TicksPerSec,      \* 18
  Lines,            \* the lines that have a device, 0 and 1 among them
  Spurious,         \* the lines of interrupts without a device
  Sleeps,           \* bound: what callers pass to sleep and sleepP
  MaxTicks          \* bound: the timer stops here

VARIABLES
  timer_ticks, secs,
  idt,              \* vector -> what its gate leads to
  irq_routines,     \* line -> its handler
  int_no,           \* the interrupt that is handled, or NoInterrupt
  position,         \* where in irq_handler
  main,             \* the main thread: its position and locals
  enabled,          \* external: the processor's interrupt flag
  offset,           \* external: the first vector of each controller
  irr, isr,         \* external: lines requested, lines in service
  ready,            \* external: lines whose device may raise them
  scancode,         \* external: whether the keyboard has an unread byte
  slept             \* external: ticks handled since the sleep began

devVars == <<irr, isr, ready, scancode>>
tables == <<idt, offset>>
vars == <<timer_ticks, secs, tables, irq_routines, int_no, position, main, enabled, devVars,
          slept>>

ASSUME IrqAssumption ==
  /\ {U32, TicksPerSec} \subseteq Nat \ {0}
  /\ {0, 1} \subseteq Lines /\ Lines \subseteq 0 .. 15 \ {2}
  /\ Spurious \subseteq {7, 15} \ Lines
  /\ Sleeps \subseteq Nat /\ MaxTicks \in Nat

NoInterrupt == 0
Line(n) == n - 32
Wrap(n) == n % U32
At(pc) == [pc |-> pc, arg |-> 0, until |-> 0]
-----------------------------------------------------------------------------
(* The interrupt controllers.  The slave is at line 2 of the master.       *)
Slave(l) == l >= 8
MasterLine(l) == IF Slave(l) THEN 2 ELSE l

Blocked(l) ==
  \/ \E s \in isr : ~Slave(s) /\ s <= MasterLine(l)
  \/ \E s \in isr : Slave(s) /\ Slave(l) /\ s <= l
Vector(l) == IF Slave(l) THEN offset.slave + l - 8 ELSE offset.master + l
Pending == {l \in irr : ~Blocked(l)}
Before(k, l) == MasterLine(k) < MasterLine(l) \/ (MasterLine(k) = MasterLine(l) /\ k < l)

(* An end of interrupt ends the most urgent interrupt in service.          *)
Ended(inService) == {s \in inService : \E k \in inService : k < s}
SlaveEnded  == {s \in isr : ~Slave(s)} \cup Ended({s \in isr : Slave(s)})
BothEnded(inService) ==
  {s \in inService : Slave(s)} \cup Ended({s \in inService : ~Slave(s)})

(* The gate of the vector leads to irq_handler, with the vector in int_no. *)
Enter(l) ==
  /\ enabled /\ int_no = NoInterrupt
  /\ int_no' = Vector(l)
  /\ position' = "routine"
  /\ UNCHANGED <<timer_ticks, secs, tables, irq_routines, main, enabled, scancode, slept>>

(* The processor is interrupted by the most urgent pending line. *)
Interrupt(l) ==
  /\ l \in Pending /\ \A k \in Pending \ {l} : Before(l, k)
  /\ Enter(l)
  /\ irr' = irr \ {l}
  /\ isr' = isr \cup {l, MasterLine(l)}
  /\ UNCHANGED ready

(* A spurious one: the slave has nothing in service, the master the slave. *)
Noise(l) ==
  /\ l \in ready
  /\ Enter(l)
  /\ isr' = isr \cup ({MasterLine(l)} \ {l})
  /\ ready' = ready \ {l}
  /\ UNCHANGED irr

Preparing == main.pc \in {"idt_install", "isr_install", "irq_install"}
Raise(l) ==
  /\ ~Preparing
  /\ l \in ready
  /\ l = 0 => timer_ticks < MaxTicks
  /\ l = 1 => ~scancode
  /\ irr' = irr \cup {l}
  /\ ready' = ready \ {l}
  /\ scancode' = (scancode \/ l = 1)
  /\ UNCHANGED <<timer_ticks, secs, tables, irq_routines, int_no, position, main, enabled, isr,
                 slept>>
-----------------------------------------------------------------------------
(* irq_handler *)

(* timer_ticks is an int: from half of U32 on it is negative, and the      *)
(* remainder of a negative int is 0 or negative.                           *)
Signed(n) == IF n < U32 \div 2 THEN n ELSE n - U32
timer_handler ==
  /\ timer_ticks' = Wrap(timer_ticks + 1)
  /\ secs' = IF Signed(timer_ticks') % TicksPerSec = 0 THEN Wrap(secs + 1) ELSE secs
  /\ slept' = slept + 1
  /\ UNCHANGED scancode

(* Reads the byte.  What it prints is in another module. *)
keyboard_handler == scancode' = FALSE /\ UNCHANGED <<timer_ticks, secs, slept>>

RunRoutine ==
  /\ position = "routine"
  /\ CASE irq_routines[Line(int_no)] = "timer_handler" -> timer_handler
       [] irq_routines[Line(int_no)] = "keyboard_handler" -> keyboard_handler
       [] OTHER -> UNCHANGED <<timer_ticks, secs, slept, scancode>>
  /\ position' = "eoi"
  /\ UNCHANGED <<tables, irq_routines, int_no, main, enabled, irr, isr, ready>>

(* The end of interrupt of the slave, for its lines; that of the master    *)
(* always.                                                                 *)
AfterEoi_else == IF int_no >= 40 THEN SlaveEnded ELSE BothEnded(isr)
AfterEoi_above == BothEnded(IF int_no > 40 THEN SlaveEnded ELSE isr)
AfterEoi == BothEnded(IF int_no >= 40 THEN SlaveEnded ELSE isr)

SendEoi ==
  /\ position = "eoi"
  /\ isr' = AfterEoi
  /\ int_no' = NoInterrupt
  /\ position' = "none"
  /\ UNCHANGED <<timer_ticks, secs, tables, irq_routines, main, enabled, irr, ready, scancode,
                 slept>>
-----------------------------------------------------------------------------
(* The main thread *)

Step(from, to) ==
  /\ int_no = NoInterrupt
  /\ enabled => Pending = {}
  /\ main.pc = from
  /\ main' = to
  /\ ready' = Lines \cup Spurious
  /\ UNCHANGED <<timer_ticks, int_no, position, irr, isr, scancode>>

(* idt_install clears all gates; isr_install sets those of the exceptions, *)
(* irq_install those of the lines, after irq_remap has moved the lines     *)
(* there from where the firmware had them.                                 *)
idt_set_gates(vectors, stub) ==
  idt' = [v \in DOMAIN idt \cup vectors |-> IF v \in vectors THEN stub ELSE idt[v]]

idt_install ==
  /\ Step("idt_install", At("isr_install"))
  /\ idt' = [v \in {} |-> "fault"]
  /\ UNCHANGED <<offset, secs, irq_routines, enabled, slept>>

isr_install ==
  /\ Step("isr_install", At("irq_install"))
  /\ idt_set_gates(0 .. 31, "fault")
  /\ UNCHANGED <<offset, secs, irq_routines, enabled, slept>>

Firmware == [master |-> 8, slave |-> 112]
irq_remap_not == Firmware
irq_remap == [master |-> 32, slave |-> 40]
irq_install ==
  /\ Step("irq_install", At("timer_install"))
  /\ offset' = irq_remap
  /\ idt_set_gates(32 .. 47, "irq")
  /\ UNCHANGED <<secs, irq_routines, enabled, slept>>

irq_install_handler_byNumber(irq, handler) ==
  irq_routines' = [l \in 0 .. 15 \cup {irq + 32} |->
                     IF l = irq + 32 THEN handler ELSE irq_routines[l]]
irq_install_handler(irq, handler) ==
  irq_routines' = [irq_routines EXCEPT ![irq] = handler]

timer_install ==
  /\ Step("timer_install", At("keyboard_install"))
  /\ secs' = 0
  /\ irq_install_handler(0, "timer_handler")
  /\ UNCHANGED <<tables, enabled, slept>>

keyboard_line_wrong == 12
keyboard_line == 1
keyboard_install ==
  /\ Step("keyboard_install", At("sti"))
  /\ irq_install_handler(keyboard_line, "keyboard_handler")
  /\ UNCHANGED <<tables, secs, enabled, slept>>

sti ==
  /\ Step("sti", At("idle"))
  /\ enabled' = TRUE
  /\ UNCHANGED <<tables, secs, irq_routines, slept>>

(* The loop at the end of kmain, and whatever does not wait. *)
Idle == Step("idle", main) /\ UNCHANGED <<tables, secs, irq_routines, enabled, slept>>

(* sleep waits until secs is what it was plus sec, sleepP until            *)
(* timer_ticks is at least what it was plus ticks, compared on u32.        *)
StartSleep(sec) ==
  /\ timer_ticks + (sec + 1) * TicksPerSec <= MaxTicks
  /\ Step("idle", [pc |-> "sleep", arg |-> sec, until |-> Wrap(secs + sec)])
  /\ slept' = 0
  /\ UNCHANGED <<tables, secs, irq_routines, enabled>>

StartSleepP(ticks) ==
  /\ timer_ticks + ticks <= MaxTicks
  /\ Step("idle", [pc |-> "sleepP", arg |-> ticks, until |-> Wrap(timer_ticks + ticks)])
  /\ slept' = 0
  /\ UNCHANGED <<tables, secs, irq_routines, enabled>>

SleepOver_under == secs + 1 = main.until
SleepOver == secs = main.until
SleepPOver_late == timer_ticks > main.until
SleepPOver == timer_ticks >= main.until

SleepTurn ==
  /\ \/ Step("sleep", IF SleepOver THEN At("idle") ELSE main)
     \/ Step("sleepP", IF SleepPOver THEN At("idle") ELSE main)
  /\ UNCHANGED <<tables, secs, irq_routines, enabled, slept>>

(* get_char: cli, the read of cur_char, sti. *)
get_char_flag_off == FALSE
get_char_flag == TRUE
get_char ==
  /\ \/ Step("idle", At("read")) /\ enabled' = FALSE
     \/ Step("read", At("enable")) /\ UNCHANGED enabled
     \/ Step("enable", At("idle")) /\ enabled' = get_char_flag
  /\ UNCHANGED <<tables, secs, irq_routines, slept>>

Main ==
  \/ idt_install \/ isr_install \/ irq_install
  \/ timer_install \/ keyboard_install \/ sti
  \/ Idle \/ SleepTurn \/ get_char
  \/ \E n \in Sleeps : StartSleep(n) \/ StartSleepP(n)
-----------------------------------------------------------------------------
(* kmain before idt_install, with interrupts off.  Nothing has been set up *)
(* by the kernel; the table of the firmware is not for this mode.          *)
Init ==
  /\ timer_ticks = 0 /\ secs = 0
  /\ irq_routines = [l \in 0 .. 15 |-> "none"]
  /\ int_no = NoInterrupt /\ position = "none"
  /\ idt = [v \in {} |-> "fault"] /\ offset = Firmware
  /\ main = At("idt_install")
  /\ enabled = FALSE
  /\ irr = {} /\ isr = {} /\ ready = Lines \cup Spurious /\ scancode = FALSE
  /\ slept = 0

Next ==
  \/ Main
  \/ RunRoutine \/ SendEoi
  \/ \E l \in Lines : Interrupt(l) \/ Raise(l)
  \/ \E l \in Spurious : Noise(l)

Spec == Init /\ [][Next]_vars

(* The processor executes instructions and takes interrupts, and the timer *)
(* ticks.  Handlers wait for nothing.                                      *)
Fairness ==
  /\ WF_vars(Main) /\ WF_vars(RunRoutine) /\ WF_vars(SendEoi)
  /\ WF_vars(\E l \in Lines : Interrupt(l))
  /\ WF_vars(Raise(0))

FairSpec == Spec /\ Fairness
-----------------------------------------------------------------------------
IrqTypeOK ==
  /\ timer_ticks \in 0 .. U32 - 1 /\ secs \in 0 .. U32 - 1
  /\ irq_routines \in [0 .. 15 -> {"none", "timer_handler", "keyboard_handler"}]
  /\ int_no \in {NoInterrupt} \cup {l + 32 : l \in Lines \cup Spurious}
  /\ position \in {"none", "routine", "eoi"}
  /\ DOMAIN idt \subseteq 0 .. 47 /\ \A v \in DOMAIN idt : idt[v] \in {"fault", "irq"}
  /\ offset \in {Firmware, irq_remap}
  /\ main.pc \in {"idt_install", "isr_install", "irq_install", "timer_install",
                  "keyboard_install", "sti", "idle", "sleep", "sleepP", "read", "enable"}
  /\ irr \subseteq Lines /\ isr \subseteq Lines \cup {2} /\ ready \subseteq Lines \cup Spurious

(* When the interrupted thread goes on, both controllers have been told    *)
(* the end of the interrupt: no level is left blocked.                     *)
NothingLeftInService == int_no = NoInterrupt => isr = {}

(* What is taken for an interrupt comes through its own gate, not that of  *)
(* an exception or of another line: when interrupts are turned on, all of  *)
(* the gates are set, and the lines lie where they are expected.           *)
InterruptsReachTheirGate ==
  int_no # NoInterrupt =>
    /\ int_no \in DOMAIN idt /\ idt[int_no] = "irq"
    /\ Line(int_no) \in isr \cup Spurious

(* Every line a device raises is served, whatever else is raised.          *)
EveryIrqServed == \A l \in Lines : l \in irr ~> l \notin irr

(* Every byte of the keyboard is read: it sends no other before.           *)
KeysRead == scancode ~> ~scancode

(* sleep(n) lasts more than n - 1 seconds, sleepP(n) at least n ticks.     *)
SleepLongEnough ==
  [][/\ main.pc = "sleep" /\ main'.pc = "idle" => slept > (main.arg - 1) * TicksPerSec
     /\ main.pc = "sleepP" /\ main'.pc = "idle" => slept >= main.arg]_vars

(* A sleep goes on only until the given time has been reached, which the   *)
(* main thread sees before the next tick.  One tick may come before it     *)
(* looks for the first time.                                               *)
SleepNotTooLong ==
  \/ slept <= 1
  \/ /\ main.pc = "sleep" => slept <= main.arg * TicksPerSec
     /\ main.pc = "sleepP" => slept <= main.arg

(* Every sleep ends. *)
SleepEnds == main.pc \in {"sleep", "sleepP"} ~> main.pc = "idle"
=============================================================================
