----------------------------- MODULE IrqProofs -----------------------------
(***************************************************************************)
(* Proofs about Irq, for every set of lines with devices and of spurious   *)
(* interrupts.                                                             *)
(***************************************************************************)
EXTENDS Irq, TLAPS

(* What is in service is exactly the interrupt that is handled, and the    *)
(* master's line of the slave if it came from there; of a spurious one     *)
(* only the latter.                                                        *)
Held(l) == IF l \in Lines THEN {l, MasterLine(l)} ELSE {MasterLine(l)} \ {l}
InServiceExact ==
  \/ int_no = NoInterrupt /\ position = "none" /\ isr = {}
  \/ /\ position \in {"routine", "eoi"}
     /\ \E l \in Lines \cup Spurious : int_no = l + 32 /\ isr = Held(l)

(* The preparations are over before the first interrupt, and they last.    *)
Prepared ==
  /\ enabled \/ int_no # NoInterrupt => ~Preparing
  /\ ~Preparing => /\ offset = irq_remap
                   /\ \A v \in 32 .. 47 : v \in DOMAIN idt /\ idt[v] = "irq"

IInv == IrqTypeOK /\ InServiceExact /\ Prepared

LEMMA InitInv == Init => IInv
BY IrqAssumption
DEF Init, IInv, IrqTypeOK, InServiceExact, Prepared, Preparing, At, NoInterrupt

LEMMA LinesAreSmall ==
  ASSUME NEW l \in Lines \cup Spurious
  PROVE  l \in 0 .. 15 /\ l # 2
BY IrqAssumption

(* The end of the only interrupt in service of the master. *)
LEMMA LastEnds ==
  ASSUME NEW k \in 0 .. 7, NEW S, S \subseteq {k}
  PROVE  BothEnded(S) = {}
<1> \A s \in S : s = k /\ ~Slave(s) BY DEF Slave
<1>1. {s \in S : Slave(s)} = {} OBVIOUS
<1>2. \A s, j \in S : ~(j < s) OBVIOUS
<1>3. Ended({s \in S : ~Slave(s)}) = {} BY <1>2 DEF Ended
<1> QED BY <1>1, <1>3 DEF BothEnded

(* The two ends of interrupt empty both controllers. *)
LEMMA EoiEnds ==
  ASSUME NEW l \in Lines \cup Spurious, int_no = l + 32, isr = Held(l)
  PROVE  AfterEoi = {}
<1> l \in 0 .. 15 /\ l # 2 BY LinesAreSmall
<1>1. CASE l >= 8
  <2>1. isr \subseteq {l, 2} /\ int_no >= 40 BY <1>1 DEF Held, MasterLine, Slave
  <2>2. SlaveEnded \subseteq {2} BY <2>1, <1>1 DEF SlaveEnded, Ended, Slave
  <2>3. BothEnded(SlaveEnded) = {}
    <3> 2 \in 0 .. 7 OBVIOUS
    <3> DEFINE S == SlaveEnded
    <3>1. S \subseteq {2} BY <2>2
    <3> HIDE DEF S
    <3>2. BothEnded(S) = {} BY <3>1, LastEnds
    <3> QED BY <3>2 DEF S
  <2> QED BY <2>1, <2>3 DEF AfterEoi
<1>2. CASE l < 8
  <2>1. isr \subseteq {l} /\ ~(int_no >= 40) BY <1>2 DEF Held, MasterLine, Slave
  <2> QED BY <2>1, <1>2, LastEnds DEF AfterEoi
<1> QED BY <1>1, <1>2

(* Where a line lies once the controllers are prepared. *)
LEMMA VectorOfLine ==
  ASSUME NEW l \in Lines \cup Spurious, offset = irq_remap
  PROVE  Vector(l) = l + 32
BY LinesAreSmall DEF Vector, irq_remap, Slave

Ready == {"timer_install", "keyboard_install", "sti", "idle", "sleep", "sleepP", "read", "enable"}

(* The main thread prepares before all else, and only once. *)
LEMMA MainMoves ==
  Main => \/ idt_install /\ main'.pc = "isr_install"
          \/ isr_install /\ main'.pc = "irq_install"
          \/ irq_install /\ main'.pc = "timer_install"
          \/ UNCHANGED tables /\ main.pc \in Ready /\ main'.pc \in Ready
<1> SUFFICES ASSUME Main, ~idt_install, ~isr_install, ~irq_install
             PROVE  UNCHANGED tables /\ main.pc \in Ready /\ main'.pc \in Ready
  BY DEF idt_install, isr_install, irq_install, Step, At
<1>1. \A p : At(p).pc = p BY DEF At
<1>2. CASE timer_install BY <1>1, <1>2 DEF timer_install, Step, Ready
<1>3. CASE keyboard_install BY <1>1, <1>3 DEF keyboard_install, Step, Ready
<1>4. CASE sti BY <1>1, <1>4 DEF sti, Step, Ready
<1>5. CASE Idle BY <1>5 DEF Idle, Step, Ready
<1>6. CASE SleepTurn BY <1>1, <1>6 DEF SleepTurn, Step, Ready
<1>7. CASE get_char BY <1>1, <1>7 DEF get_char, Step, Ready
<1>8. ASSUME NEW n \in Sleeps, StartSleep(n) \/ StartSleepP(n)
      PROVE  UNCHANGED tables /\ main.pc \in Ready /\ main'.pc \in Ready
  BY <1>8 DEF StartSleep, StartSleepP, Step, Ready
<1> QED BY <1>2, <1>3, <1>4, <1>5, <1>6, <1>7, <1>8 DEF Main

(* Interrupts stay off until sti. *)
LEMMA MainEnables ==
  Main => enabled' = enabled \/ main.pc \in Ready
BY MainMoves DEF idt_install, isr_install, irq_install

(* The main thread writes secs once, in timer_install. *)
LEMMA MainKeepsSecs == Main => secs' = secs \/ secs' = 0
<1>1. timer_install => secs' = 0 BY Zenon DEF timer_install
<1>2. keyboard_install \/ sti \/ Idle \/ SleepTurn \/ get_char => secs' = secs
  BY Zenon DEF keyboard_install, sti, Idle, SleepTurn, get_char
<1>3. \A n \in Sleeps : StartSleep(n) \/ StartSleepP(n) => secs' = secs
  BY Zenon DEF StartSleep, StartSleepP
<1>4. idt_install \/ isr_install \/ irq_install => secs' = secs
  BY Zenon DEF idt_install, isr_install, irq_install
<1> QED BY <1>1, <1>2, <1>3, <1>4, Zenon DEF Main

(* The gates and the lines, after a step of the main thread. *)
LEMMA MainPrepares ==
  ASSUME IInv, Main
  PROVE  /\ Prepared'
         /\ DOMAIN idt' \subseteq 0 .. 47 /\ \A v \in DOMAIN idt' : idt'[v] \in {"fault", "irq"}
         /\ offset' \in {Firmware, irq_remap}
<1>0. int_no = NoInterrupt /\ int_no' = NoInterrupt
  BY DEF Main, idt_install, isr_install, irq_install, timer_install, keyboard_install, sti, Idle,
         SleepTurn, get_char, StartSleep, StartSleepP, Step
<1>1. CASE idt_install /\ main'.pc = "isr_install"
  BY <1>0, <1>1 DEF idt_install, Step, IInv, IrqTypeOK, Prepared, Preparing
<1>2. CASE isr_install /\ main'.pc = "irq_install"
  BY <1>0, <1>2 DEF isr_install, idt_set_gates, Step, IInv, IrqTypeOK, Prepared, Preparing
<1>3. CASE irq_install /\ main'.pc = "timer_install"
  BY <1>0, <1>3 DEF irq_install, idt_set_gates, Step, IInv, IrqTypeOK, Prepared, Preparing
<1>4. CASE UNCHANGED tables /\ main.pc \in Ready /\ main'.pc \in Ready
  BY <1>0, <1>4 DEF tables, IInv, IrqTypeOK, Prepared, Preparing, Ready
<1> QED BY <1>1, <1>2, <1>3, <1>4, MainMoves

LEMMA NextInv == IInv /\ [Next]_vars => IInv'
<1> SUFFICES ASSUME IInv, [Next]_vars PROVE IInv' OBVIOUS
<1> USE IrqAssumption
<1>1. CASE Main
  <2>1. UNCHANGED <<timer_ticks, int_no, position, irr, isr>> /\ ready' = Lines \cup Spurious
    BY <1>1 DEF Main, idt_install, isr_install, irq_install, timer_install, keyboard_install,
                sti, Idle, SleepTurn, get_char, StartSleep, StartSleepP, Step
  <2>2. InServiceExact' BY <2>1 DEF IInv, InServiceExact, Held, MasterLine, Slave
  <2>3. main'.pc \in Ready \cup {"isr_install", "irq_install"} BY <1>1, MainMoves DEF Ready
  <2>4. secs' \in 0 .. U32 - 1
    <3>1. secs \in 0 .. U32 - 1 /\ 0 \in 0 .. U32 - 1 BY DEF IInv, IrqTypeOK
    <3>2. secs' = secs \/ secs' = 0 BY <1>1, MainKeepsSecs
    <3> QED BY <3>1, <3>2
  <2>5. irq_routines' \in [0 .. 15 -> {"none", "timer_handler", "keyboard_handler"}]
    BY <1>1 DEF Main, idt_install, isr_install, irq_install, timer_install, keyboard_install,
                sti, Idle, SleepTurn, get_char, StartSleep, StartSleepP, IInv, IrqTypeOK,
                irq_install_handler, keyboard_line
  <2> QED BY <1>1, <2>1, <2>2, <2>3, <2>4, <2>5, MainPrepares DEF IInv, IrqTypeOK, Ready
<1>2. CASE RunRoutine
  <2>1. timer_ticks' \in 0 .. U32 - 1 /\ secs' \in 0 .. U32 - 1
    BY <1>2 DEF RunRoutine, timer_handler, keyboard_handler, Wrap, IInv, IrqTypeOK
  <2>2. InServiceExact' /\ Prepared'
    BY <1>2 DEF RunRoutine, IInv, InServiceExact, Held, MasterLine, Slave, tables, Prepared,
                Preparing
  <2> QED BY <1>2, <2>1, <2>2 DEF RunRoutine, tables, IInv, IrqTypeOK
<1>3. CASE SendEoi
  <2>1. PICK l \in Lines \cup Spurious : int_no = l + 32 /\ isr = Held(l)
    BY <1>3 DEF SendEoi, IInv, InServiceExact
  <2>2. isr' = {} BY <1>3, <2>1, EoiEnds DEF SendEoi
  <2>3. Prepared'
    <3>1. int_no # NoInterrupt BY <2>1, LinesAreSmall DEF NoInterrupt
    <3> QED BY <1>3, <3>1 DEF SendEoi, tables, IInv, Prepared, Preparing
  <2> QED BY <1>3, <2>2, <2>3 DEF SendEoi, tables, IInv, IrqTypeOK, InServiceExact
<1>4. ASSUME NEW l \in Lines \cup Spurious, Enter(l), isr' = isr \cup Held(l),
             irr' \subseteq irr, ready' \subseteq ready
      PROVE  IInv'
  <2>1. isr = {} /\ enabled BY <1>4 DEF Enter, IInv, InServiceExact, NoInterrupt
  <2>2. int_no' = l + 32 BY <1>4, <2>1, VectorOfLine DEF Enter, IInv, Prepared
  <2>3. isr' = Held(l) BY <1>4, <2>1
  <2>4. InServiceExact'
    BY <1>4, <2>2, <2>3 DEF Enter, InServiceExact, Held, MasterLine, Slave
  <2>5. Prepared' BY <1>4, <2>1 DEF Enter, tables, IInv, Prepared, Preparing
  <2>6. isr' \subseteq Lines \cup {2}
    BY <2>3, LinesAreSmall, IrqAssumption DEF Held, MasterLine, Slave
  <2> QED BY <1>4, <2>2, <2>4, <2>5, <2>6 DEF Enter, tables, IInv, IrqTypeOK
<1>5. ASSUME NEW l \in Lines, Interrupt(l) PROVE IInv'
  <2>1. l \in Lines \cup Spurious OBVIOUS
  <2>2. Enter(l) /\ irr' \subseteq irr /\ ready' \subseteq ready BY <1>5 DEF Interrupt
  <2>3. isr' = isr \cup Held(l) BY <1>5 DEF Interrupt, Held
  <2> QED BY <1>4, <2>1, <2>2, <2>3
<1>6. ASSUME NEW l \in Spurious, Noise(l) PROVE IInv'
  <2>1. l \in Lines \cup Spurious /\ l \notin Lines OBVIOUS
  <2>2. Enter(l) /\ irr' \subseteq irr /\ ready' \subseteq ready BY <1>6 DEF Noise
  <2>3. isr' = isr \cup Held(l) BY <1>6, <2>1 DEF Noise, Held
  <2> QED BY <1>4, <2>1, <2>2, <2>3
<1>7. ASSUME NEW l \in Lines, Raise(l) PROVE IInv'
  BY <1>7 DEF Raise, tables, IInv, IrqTypeOK, InServiceExact, Held, MasterLine, Slave, Prepared,
              Preparing
<1>8. CASE UNCHANGED vars
  BY <1>8 DEF vars, devVars, tables, IInv, IrqTypeOK, InServiceExact, Held, MasterLine, Slave,
              Prepared, Preparing
<1> QED BY <1>1, <1>2, <1>3, <1>5, <1>6, <1>7, <1>8 DEF Next

(* The invariant is inductive. *)
THEOREM Invariance == Spec => []IInv
BY InitInv, NextInv, PTL DEF Spec

(* The state keeps its type. *)
THEOREM TypeCorrect == Spec => []IrqTypeOK
BY Invariance, PTL DEF IInv

(* Nothing is in service when the interrupted thread goes on, whatever     *)
(* lines have devices: irq_handler ends what it began in both controllers. *)
THEOREM AllIsAcknowledged == Spec => []NothingLeftInService
<1>1. IInv => NothingLeftInService
  BY LinesAreSmall DEF IInv, InServiceExact, NothingLeftInService, NoInterrupt
<1> QED BY <1>1, Invariance, PTL

(* Every interrupt finds its own gate, whatever lines have devices: the    *)
(* lines have been moved and the gates set before interrupts are on.       *)
THEOREM GatesAreReady == Spec => []InterruptsReachTheirGate
<1>1. IInv => InterruptsReachTheirGate
  <2> SUFFICES ASSUME IInv, int_no # NoInterrupt
               PROVE  int_no \in DOMAIN idt /\ idt[int_no] = "irq"
                      /\ Line(int_no) \in isr \cup Spurious
    BY DEF InterruptsReachTheirGate
  <2>1. PICK l \in Lines \cup Spurious : int_no = l + 32 /\ isr = Held(l)
    BY DEF IInv, InServiceExact
  <2>2. int_no \in 32 .. 47 /\ Line(int_no) = l BY <2>1, LinesAreSmall DEF Line
  <2> QED BY <2>1, <2>2 DEF IInv, Prepared, Held
<1> QED BY <1>1, Invariance, PTL
-----------------------------------------------------------------------------
(* The lengths of sleeps, for every number of ticks a second, as long as   *)
(* timer_ticks has not become negative: up to 2^31 ticks, four years.      *)
NoWrap == MaxTicks + 1 < U32 \div 2

Early == main.pc \in {"idt_install", "isr_install", "irq_install", "timer_install",
                      "keyboard_install", "sti"}
Sleeping == main.pc \in {"sleep", "sleepP"}

(* Ticks that have been raised and are not counted: one may wait while     *)
(* another is handled.                                                     *)
TickHandled == int_no = 32 /\ position = "routine"
One(b) == IF b THEN 1 ELSE 0
TicksBounded == timer_ticks + One(0 \in irr) + One(TickHandled) <= MaxTicks + 1

Clock ==
  /\ secs = timer_ticks \div TicksPerSec
  /\ slept \in 0 .. timer_ticks
  /\ \A l \in 0 .. 15 : irq_routines[l] = "timer_handler" => l = 0
  /\ Early => ~enabled /\ int_no = NoInterrupt /\ timer_ticks = 0
  /\ main.pc = "idle" \/ Sleeping => enabled

(* What a sleep waits for, from the tick at which it began. *)
Target ==
  /\ Sleeping => main.arg \in Sleeps
  /\ main.pc = "sleep" => main.until = (timer_ticks - slept) \div TicksPerSec + main.arg
  /\ main.pc = "sleepP" => main.until = timer_ticks - slept + main.arg

ClockInv == IInv /\ TicksBounded /\ Clock /\ Target

(* Between two looks of the main thread there is at most one tick, and     *)
(* before it the time was not over.                                        *)
TickDue == 0 \in ready \/ 0 \in irr \/ TickHandled
OneTickDue ==
  ~(0 \in ready /\ 0 \in irr) /\ ~(0 \in ready /\ TickHandled) /\ ~(0 \in irr /\ TickHandled)
InTime ==
  /\ Sleeping => OneTickDue
  /\ main.pc = "sleep" => /\ secs <= main.until
                          /\ TickDue => secs < main.until
                          /\ slept <= main.arg * TicksPerSec
  /\ main.pc = "sleepP" => /\ slept <= main.arg \/ slept <= 1
                           /\ TickDue => slept < main.arg \/ slept = 0

SleepInv == ClockInv /\ InTime

(* Division by the ticks of a second. *)
LEMMA SecondsOf ==
  ASSUME NEW a \in Nat
  PROVE  /\ a \div TicksPerSec \in Nat /\ a % TicksPerSec \in 0 .. TicksPerSec - 1
         /\ a = (a \div TicksPerSec) * TicksPerSec + (a % TicksPerSec)
BY IrqAssumption

LEMMA MoreTicks ==
  ASSUME NEW m \in Nat, NEW n \in Nat, m < n
  PROVE  m * TicksPerSec + TicksPerSec <= n * TicksPerSec
<1> TicksPerSec \in Nat BY IrqAssumption
<1>1. PICK d \in Nat : n = m + 1 + d OBVIOUS
<1>2. n * TicksPerSec = m * TicksPerSec + TicksPerSec + d * TicksPerSec BY <1>1
<1>3. d * TicksPerSec \in Nat /\ m * TicksPerSec \in Nat OBVIOUS
<1> QED BY <1>2, <1>3

LEMMA NextTick ==
  ASSUME NEW a \in Nat
  PROVE  (a + 1) \div TicksPerSec =
           IF (a + 1) % TicksPerSec = 0 THEN a \div TicksPerSec + 1 ELSE a \div TicksPerSec
<1> DEFINE T == TicksPerSec
           q == a \div T
           r == a % T
           p == (a + 1) \div T
           z == (a + 1) % T
<1>1. T \in Nat \ {0} BY IrqAssumption
<1>2. q \in Nat /\ r \in 0 .. T - 1 /\ a = q * T + r BY SecondsOf
<1>3. p \in Nat /\ z \in 0 .. T - 1 /\ a + 1 = p * T + z
  <2>1. a + 1 \in Nat OBVIOUS
  <2> QED BY <2>1, SecondsOf
<1> SUFFICES p = IF z = 0 THEN q + 1 ELSE q OBVIOUS
<1>4. \A m, n \in Nat : m < n => m * T + T <= n * T BY MoreTicks
<1> HIDE DEF T, q, r, p, z
<1>5. q * T \in Nat /\ p * T \in Nat BY <1>1, <1>2, <1>3
<1>6. ~(p < q)
  <2>1. p < q => p * T + T <= q * T BY <1>2, <1>3, <1>4
  <2> QED BY <1>1, <1>2, <1>3, <1>5, <2>1
<1>7. ~(q + 1 < p)
  <2>1. q + 1 \in Nat /\ (q + 1) * T = q * T + T BY <1>1, <1>2
  <2>2. q + 1 < p => (q + 1) * T + T <= p * T BY <2>1, <1>3, <1>4
  <2> QED BY <1>1, <1>2, <1>3, <1>5, <2>1, <2>2
<1>8. CASE p = q BY <1>1, <1>2, <1>3, <1>5, <1>8
<1>9. CASE p = q + 1
  <2>1. p * T = q * T + T BY <1>1, <1>2, <1>9
  <2> QED BY <1>1, <1>2, <1>3, <1>5, <1>9, <2>1
<1> QED BY <1>2, <1>3, <1>6, <1>7, <1>8, <1>9

LEMMA SecondsBelow ==
  ASSUME NEW a \in Nat
  PROVE  a \div TicksPerSec \in Nat /\ a \div TicksPerSec <= a
<1> DEFINE T == TicksPerSec
           q == a \div T
           r == a % T
<1>1. q \in Nat /\ r \in 0 .. T - 1 /\ a = q * T + r BY SecondsOf
<1>2. PICK d \in Nat : T = 1 + d BY IrqAssumption
<1> SUFFICES q \in Nat /\ q <= a OBVIOUS
<1> HIDE DEF T, q, r
<1>3. q * T = q + q * d /\ q * d \in Nat BY <1>1, <1>2
<1> QED BY <1>1, <1>2, <1>3

(* k ticks after a: fewer than n seconds later they are fewer than those   *)
(* of n seconds, and exactly n seconds later more than those of n - 1.     *)
LEMMA SecondsApart ==
  ASSUME NEW a \in Nat, NEW k \in Nat, NEW n \in Nat
  PROVE  /\ (a + k) \div TicksPerSec < a \div TicksPerSec + n => k < n * TicksPerSec
         /\ (a + k) \div TicksPerSec = a \div TicksPerSec + n => k > (n - 1) * TicksPerSec
<1> DEFINE T == TicksPerSec
           q == a \div T
           r == a % T
           p == (a + k) \div T
           z == (a + k) % T
<1>1. T \in Nat \ {0} BY IrqAssumption
<1>2. q \in Nat /\ r \in 0 .. T - 1 /\ a = q * T + r BY SecondsOf, <1>1
<1>3. p \in Nat /\ z \in 0 .. T - 1 /\ a + k = p * T + z
  <2>1. a + k \in Nat OBVIOUS
  <2> QED BY <2>1, SecondsOf, <1>1
<1> SUFFICES (p < q + n => k < n * T) /\ (p = q + n => k > (n - 1) * T) OBVIOUS
<1>4. \A m, l \in Nat : m < l => m * T + T <= l * T BY MoreTicks
<1> HIDE DEF T, q, r, p, z
<1>5. q * T \in Nat /\ p * T \in Nat /\ n * T \in Nat BY <1>1, <1>2, <1>3
<1>6. (q + n) * T = q * T + n * T /\ q + n \in Nat BY <1>1, <1>2
<1>7. ASSUME p < q + n PROVE k < n * T
  <2>1. p * T + T <= (q + n) * T BY <1>3, <1>4, <1>6, <1>7
  <2> QED BY <1>1, <1>2, <1>3, <1>5, <1>6, <2>1
<1>8. ASSUME p = q + n PROVE k > (n - 1) * T
  <2>1. (n - 1) * T = n * T - T BY <1>1
  <2>2. p * T = q * T + n * T BY <1>6, <1>8
  <2> QED BY <1>1, <1>2, <1>3, <1>5, <2>1, <2>2
<1> QED BY <1>7, <1>8

(* No sum wraps before the bound, and no tick is negative. *)
LEMMA NoneWraps ==
  ASSUME NoWrap, NEW n \in Nat, n <= MaxTicks + 1
  PROVE  Wrap(n) = n /\ Signed(n) = n
<1>1. U32 \in Nat \ {0} /\ MaxTicks \in Nat BY IrqAssumption
<1>2. n < U32 \div 2 BY <1>1 DEF NoWrap
<1>3. n < U32 BY <1>1, <1>2
<1>4. n % U32 = n BY <1>1, <1>3
<1> QED BY <1>2, <1>4 DEF Wrap, Signed
-----------------------------------------------------------------------------
(* When the main thread goes on with interrupts on, nothing waits. *)
LEMMA MainIsAlone ==
  ASSUME IInv, Main
  PROVE  /\ int_no = NoInterrupt /\ ~TickHandled /\ ~TickHandled'
         /\ UNCHANGED <<timer_ticks, irr>>
         /\ enabled => irr = {}
<1>1. /\ int_no = NoInterrupt /\ UNCHANGED <<timer_ticks, int_no, irr>>
      /\ enabled => Pending = {}
  BY DEF Main, idt_install, isr_install, irq_install, timer_install, keyboard_install, sti, Idle,
         SleepTurn, get_char, StartSleep, StartSleepP, Step
<1>2. isr = {} BY <1>1, LinesAreSmall DEF IInv, InServiceExact, NoInterrupt
<1>3. Pending = irr BY <1>2 DEF Pending, Blocked
<1> QED BY <1>1, <1>3 DEF TickHandled, NoInterrupt

LEMMA ClockInit == NoWrap /\ Init => ClockInv
<1> SUFFICES ASSUME NoWrap, Init PROVE ClockInv OBVIOUS
<1>1. TicksPerSec \in Nat \ {0} /\ MaxTicks \in Nat BY IrqAssumption
<1>2. 0 \div TicksPerSec = 0 BY <1>1
<1>3. TicksBounded BY <1>1 DEF Init, TicksBounded, One, TickHandled, NoInterrupt
<1>4. Clock /\ Target BY <1>2 DEF Init, Clock, Target, Sleeping, Early, At, NoInterrupt
<1> QED BY <1>3, <1>4, InitInv DEF ClockInv

(* The main thread: it starts and ends sleeps, and never moves the clock.  *)
LEMMA ClockMain == ASSUME NoWrap, ClockInv, Main PROVE ClockInv'
<1>1. /\ timer_ticks \in Nat /\ MaxTicks \in Nat /\ timer_ticks <= MaxTicks + 1
      /\ IInv /\ IInv'
  BY NextInv, IrqAssumption DEF ClockInv, IInv, IrqTypeOK, TicksBounded, One, Next
<1>2. /\ int_no = NoInterrupt /\ UNCHANGED <<timer_ticks, int_no, irr>>
      /\ ~TickHandled /\ ~TickHandled'
  BY <1>1, MainIsAlone DEF Main, idt_install, isr_install, irq_install, timer_install,
     keyboard_install, sti, Idle, SleepTurn, get_char, StartSleep, StartSleepP, Step
<1>3. TicksBounded' BY <1>2 DEF ClockInv, TicksBounded, One
<1> SUFFICES Clock' /\ Target' BY <1>1, <1>3 DEF ClockInv
<1>4. ASSUME Early, UNCHANGED <<enabled, slept>>, main'.pc \in {"isr_install", "irq_install",
               "timer_install", "keyboard_install", "sti"}, secs' = secs \/ secs' = 0,
             \A l \in 0 .. 15 : irq_routines'[l] = "timer_handler" => l = 0
      PROVE  Clock' /\ Target'
  <2>1. timer_ticks = 0 /\ ~enabled BY <1>4 DEF ClockInv, Clock
  <2>2. 0 \div TicksPerSec = 0 BY IrqAssumption
  <2>3. secs' = 0 BY <1>4, <2>1, <2>2 DEF ClockInv, Clock
  <2> QED BY <1>2, <1>4, <2>1, <2>2, <2>3 DEF ClockInv, Clock, Target, Sleeping, Early
<1>5. CASE idt_install
  BY <1>4, <1>5 DEF idt_install, Step, At, Early, ClockInv, Clock
<1>6. CASE isr_install
  BY <1>4, <1>6 DEF isr_install, Step, At, Early, ClockInv, Clock
<1>7. CASE irq_install
  BY <1>4, <1>7 DEF irq_install, Step, At, Early, ClockInv, Clock
<1>8. CASE timer_install
  BY <1>1, <1>4, <1>8 DEF timer_install, irq_install_handler, Step, At, Early, ClockInv, Clock,
                          IInv, IrqTypeOK
<1>9. CASE keyboard_install
  BY <1>1, <1>4, <1>9 DEF keyboard_install, irq_install_handler, Step, At, Early, ClockInv, Clock,
                          IInv, IrqTypeOK
<1>10. CASE sti
  BY <1>2, <1>10 DEF sti, Step, At, Early, ClockInv, Clock, Target, Sleeping
<1>11. CASE Idle
  BY <1>2, <1>11 DEF Idle, Step, At, Early, ClockInv, Clock, Target, Sleeping
<1>12. CASE SleepTurn
  BY <1>2, <1>12 DEF SleepTurn, Step, At, Early, ClockInv, Clock, Target, Sleeping
<1>13. CASE get_char
  BY <1>2, <1>13 DEF get_char, get_char_flag, Step, At, Early, ClockInv, Clock, Target, Sleeping
<1>14. ASSUME NEW n \in Sleeps, StartSleep(n) PROVE Clock' /\ Target'
  <2>1. n \in Nat /\ timer_ticks + (n + 1) * TicksPerSec <= MaxTicks
        /\ (n + 1) * TicksPerSec \in Nat /\ TicksPerSec \in Nat \ {0}
    BY <1>14, IrqAssumption DEF StartSleep
  <2>2. n <= (n + 1) * TicksPerSec
    <3>1. PICK d \in Nat : TicksPerSec = 1 + d BY IrqAssumption
    <3>2. (n + 1) * TicksPerSec = n + 1 + (n + 1) * d /\ (n + 1) * d \in Nat BY <2>1, <3>1
    <3> QED BY <2>1, <3>2
  <2>3. secs = timer_ticks \div TicksPerSec /\ secs \in Nat /\ secs <= timer_ticks
    BY <1>1, SecondsBelow DEF ClockInv, Clock
  <2>4. Wrap(secs + n) = secs + n BY <1>1, <2>1, <2>2, <2>3, NoneWraps
  <2>5. /\ main' = [pc |-> "sleep", arg |-> n, until |-> secs + n] /\ main.pc = "idle"
        /\ slept' = 0 /\ UNCHANGED <<secs, irq_routines, enabled>>
    BY <1>14, <2>4 DEF StartSleep, Step
  <2>6. timer_ticks - 0 = timer_ticks BY <1>1
  <2> QED BY <1>1, <1>2, <2>3, <2>5, <2>6 DEF ClockInv, Clock, Target, Sleeping, Early
<1>15. ASSUME NEW n \in Sleeps, StartSleepP(n) PROVE Clock' /\ Target'
  <2>1. n \in Nat /\ timer_ticks + n <= MaxTicks BY <1>15, IrqAssumption DEF StartSleepP
  <2>2. Wrap(timer_ticks + n) = timer_ticks + n BY <1>1, <2>1, NoneWraps
  <2>3. /\ main' = [pc |-> "sleepP", arg |-> n, until |-> timer_ticks + n] /\ main.pc = "idle"
        /\ slept' = 0 /\ UNCHANGED <<secs, irq_routines, enabled>>
    BY <1>15, <2>2 DEF StartSleepP, Step
  <2>4. timer_ticks - 0 = timer_ticks BY <1>1
  <2> QED BY <1>1, <1>2, <2>3, <2>4 DEF ClockInv, Clock, Target, Sleeping, Early
<1> QED BY <1>5, <1>6, <1>7, <1>8, <1>9, <1>10, <1>11, <1>12, <1>13, <1>14, <1>15 DEF Main

(* The handler of the timer moves ticks and seconds together. *)
LEMMA TimerTicks ==
  ASSUME NoWrap, ClockInv, RunRoutine
  PROVE  \/ /\ TickHandled
            /\ timer_ticks' = timer_ticks + 1 /\ slept' = slept + 1
            /\ timer_ticks + 1 <= MaxTicks + 1
            /\ secs' \in {secs, secs + 1} /\ secs' = timer_ticks' \div TicksPerSec
         \/ UNCHANGED <<timer_ticks, secs, slept>>
<1>1. timer_ticks \in Nat /\ MaxTicks \in Nat /\ IInv
  BY IrqAssumption DEF ClockInv, IInv, IrqTypeOK
<1>2. CASE irq_routines[Line(int_no)] = "timer_handler"
  <2>1. PICK l \in Lines \cup Spurious : int_no = l + 32
    BY <1>1, <1>2 DEF RunRoutine, IInv, InServiceExact
  <2>2. l \in 0 .. 15 /\ Line(int_no) = l BY <2>1, LinesAreSmall DEF Line
  <2>3. TickHandled BY <1>2, <2>1, <2>2 DEF ClockInv, Clock, RunRoutine, TickHandled
  <2>4. timer_ticks + 1 <= MaxTicks + 1
    BY <1>1, <2>3 DEF ClockInv, TicksBounded, One
  <2>5. timer_handler BY <1>2 DEF RunRoutine
  <2>6. Wrap(timer_ticks + 1) = timer_ticks + 1 /\ Signed(timer_ticks + 1) = timer_ticks + 1
    BY <1>1, <2>4, NoneWraps
  <2>7. secs = timer_ticks \div TicksPerSec /\ secs \in Nat /\ secs <= timer_ticks
    BY <1>1, SecondsBelow DEF ClockInv, Clock
  <2>8. Wrap(secs + 1) = secs + 1 BY <1>1, <2>4, <2>7, NoneWraps
  <2>9. timer_ticks' = timer_ticks + 1 /\ slept' = slept + 1
        /\ secs' = IF (timer_ticks + 1) % TicksPerSec = 0 THEN secs + 1 ELSE secs
    BY <2>5, <2>6, <2>8 DEF timer_handler
  <2> QED BY <1>1, <2>3, <2>4, <2>7, <2>9, NextTick
<1>3. CASE irq_routines[Line(int_no)] # "timer_handler"
  BY <1>3 DEF RunRoutine, keyboard_handler
<1> QED BY <1>2, <1>3

LEMMA ClockNext == NoWrap /\ ClockInv /\ [Next]_vars => ClockInv'
<1> SUFFICES ASSUME NoWrap, ClockInv, [Next]_vars PROVE ClockInv' OBVIOUS
<1>1. /\ timer_ticks \in Nat /\ MaxTicks \in Nat /\ slept \in Nat /\ slept <= timer_ticks
      /\ IInv /\ IInv'
  BY NextInv, IrqAssumption DEF ClockInv, IInv, IrqTypeOK, Clock
<1>2. CASE Main BY <1>2, ClockMain
<1>3. CASE RunRoutine
  <2>1. UNCHANGED <<irq_routines, int_no, main, enabled, irr>> /\ ~TickHandled'
    BY <1>3 DEF RunRoutine, TickHandled
  <2>2. CASE UNCHANGED <<timer_ticks, secs, slept>>
    <3>1. TicksBounded' BY <1>1, <2>1, <2>2 DEF ClockInv, TicksBounded, One
    <3>2. Clock' /\ Target' BY <2>1, <2>2 DEF ClockInv, Clock, Target, Sleeping, Early
    <3> QED BY <1>1, <3>1, <3>2 DEF ClockInv
  <2>3. CASE /\ TickHandled
             /\ timer_ticks' = timer_ticks + 1 /\ slept' = slept + 1
             /\ secs' = timer_ticks' \div TicksPerSec
    <3>1. TicksBounded' BY <1>1, <2>1, <2>3 DEF ClockInv, TicksBounded, One
    <3>2. timer_ticks' - slept' = timer_ticks - slept /\ slept' \in 0 .. timer_ticks'
      BY <1>1, <2>3
    <3>3. ~Early BY <2>3 DEF ClockInv, Clock, TickHandled, NoInterrupt
    <3>4. Clock' /\ Target'
      BY <2>1, <2>3, <3>2, <3>3 DEF ClockInv, Clock, Target, Sleeping, Early
    <3> QED BY <1>1, <3>1, <3>4 DEF ClockInv
  <2> QED BY <1>3, <2>2, <2>3, TimerTicks
<1>4. ASSUME UNCHANGED <<timer_ticks, secs, slept, irq_routines, main, enabled>>, TicksBounded',
             int_no' = NoInterrupt \/ int_no' = int_no \/ enabled
      PROVE  ClockInv'
  BY <1>1, <1>4 DEF ClockInv, Clock, Target, Sleeping, Early
<1>5. CASE SendEoi
  <2>1. TicksBounded' BY <1>1, <1>5 DEF SendEoi, ClockInv, TicksBounded, One, TickHandled
  <2> QED BY <1>4, <1>5, <2>1 DEF SendEoi
<1>6. ASSUME NEW l \in Lines, Interrupt(l) PROVE ClockInv'
  <2>1. int_no' = l + 32 /\ l \in 0 .. 15 /\ ~TickHandled
    BY <1>1, <1>6, VectorOfLine, LinesAreSmall
    DEF Interrupt, Enter, IInv, Prepared, TickHandled, NoInterrupt
  <2>2. l \in irr /\ irr' = irr \ {l} /\ timer_ticks' = timer_ticks
    BY <1>6 DEF Interrupt, Enter, Pending
  <2>3. TicksBounded'
    BY <1>1, <2>1, <2>2 DEF ClockInv, TicksBounded, One, TickHandled
  <2> QED BY <1>4, <1>6, <2>3 DEF Interrupt, Enter
<1>7. ASSUME NEW l \in Spurious, Noise(l) PROVE ClockInv'
  <2>1. int_no' = l + 32 /\ l \in {7, 15}
    BY <1>1, <1>7, VectorOfLine, IrqAssumption DEF Noise, Enter, IInv, Prepared
  <2>2. irr' = irr /\ timer_ticks' = timer_ticks BY <1>7 DEF Noise, Enter
  <2>3. TicksBounded'
    BY <1>1, <2>1, <2>2 DEF ClockInv, TicksBounded, One, TickHandled
  <2> QED BY <1>4, <1>7, <2>3 DEF Noise, Enter
<1>8. ASSUME NEW l \in Lines, Raise(l) PROVE ClockInv'
  <2>1. irr' = irr \cup {l} /\ (l = 0 => timer_ticks < MaxTicks)
        /\ UNCHANGED <<timer_ticks, int_no, position>>
    BY <1>8 DEF Raise
  <2>2. TicksBounded' BY <1>1, <2>1 DEF ClockInv, TicksBounded, One, TickHandled
  <2> QED BY <1>4, <1>8, <2>2 DEF Raise
<1>9. CASE UNCHANGED vars
  <2>1. TicksBounded' BY <1>9 DEF vars, devVars, ClockInv, TicksBounded, One, TickHandled
  <2> QED BY <1>4, <1>9, <2>1 DEF vars
<1> QED BY <1>2, <1>3, <1>5, <1>6, <1>7, <1>8, <1>9 DEF Next

LEMMA ArgIsNat == ASSUME ClockInv, Sleeping PROVE main.arg \in Nat
<1>1. main.arg \in Sleeps BY DEF ClockInv, Target
<1> QED BY <1>1, IrqAssumption

LEMMA InTimeMain ==
  ASSUME NoWrap, SleepInv, 0 \notin Sleeps, Main
  PROVE  InTime'
<1>1. /\ timer_ticks \in Nat /\ timer_ticks <= MaxTicks + 1 /\ IInv /\ ClockInv
      /\ MaxTicks \in Nat /\ slept \in Nat /\ TicksPerSec \in Nat
  BY IrqAssumption DEF SleepInv, ClockInv, IInv, IrqTypeOK, Clock, TicksBounded, One
<1>2. /\ enabled => irr = {} /\ irr' = {}
      /\ timer_ticks' = timer_ticks /\ ~TickHandled'
  BY <1>1, MainIsAlone
<1>3. secs \in Nat BY <1>1, SecondsBelow DEF ClockInv, Clock
<1>4. (main.pc = "idle" \/ Sleeping) => OneTickDue'
  BY <1>1, <1>2 DEF ClockInv, Clock, OneTickDue
<1>5. CASE SleepTurn
  <2>1. CASE main.pc = "sleep" /\ main' = main
    <3>1. secs # main.until \/ main'.pc = "idle"
      BY <1>5, <2>1 DEF SleepTurn, Step, SleepOver, At
    <3>2. main.arg \in Nat BY <1>1, <2>1, ArgIsNat DEF Sleeping
    <3>3. timer_ticks - slept \in Nat BY <1>1 DEF ClockInv, Clock
    <3>4. main.until \in Nat
      BY <1>1, <2>1, <3>2, <3>3, SecondsBelow DEF ClockInv, Target
    <3> QED BY <1>3, <1>4, <1>5, <2>1, <3>1, <3>4
      DEF SleepTurn, SleepInv, InTime, Sleeping
  <2>2. CASE main.pc = "sleepP" /\ main' = main
    <3>1. ~(timer_ticks >= main.until)
      BY <1>5, <2>2 DEF SleepTurn, Step, SleepPOver, At
    <3>2. main.arg \in Nat /\ main.until = timer_ticks - slept + main.arg
      BY <1>1, <2>2, IrqAssumption DEF ClockInv, Target, Sleeping
    <3>3. slept < main.arg BY <1>1, <3>1, <3>2
    <3> QED BY <1>1, <1>4, <1>5, <2>2, <3>2, <3>3
      DEF SleepTurn, InTime, Sleeping
  <2>3. main.pc \in {"sleep", "sleepP"} /\ (main' = main \/ main' = At("idle"))
    BY <1>5 DEF SleepTurn, Step
  <2> QED BY <2>1, <2>2, <2>3 DEF InTime, Sleeping, At
<1>6. ASSUME NEW n \in Sleeps, StartSleep(n) PROVE InTime'
  <2>1. n \in Nat \ {0} /\ timer_ticks + (n + 1) * TicksPerSec <= MaxTicks
    BY <1>6, IrqAssumption DEF StartSleep
  <2>2. /\ main'.pc = "sleep" /\ main'.arg = n /\ main.pc = "idle" /\ slept' = 0 /\ secs' = secs
    BY <1>6 DEF StartSleep, Step
  <2>3. ClockInv' BY <1>1, ClockMain
  <2>4. main'.until = (timer_ticks - 0) \div TicksPerSec + n
    BY <1>2, <2>2, <2>3 DEF ClockInv, Target
  <2>5. timer_ticks - 0 = timer_ticks BY <1>1
  <2>6. main'.until = secs + n BY <1>1, <2>4, <2>5 DEF ClockInv, Clock
  <2>7. 0 <= n * TicksPerSec BY <1>1, <2>1
  <2> QED BY <1>3, <1>4, <2>1, <2>2, <2>6, <2>7 DEF InTime, Sleeping
<1>7. ASSUME NEW n \in Sleeps, StartSleepP(n) PROVE InTime'
  <2>1. main'.pc = "sleepP" /\ main.pc = "idle" /\ slept' = 0 BY <1>7 DEF StartSleepP, Step
  <2> QED BY <1>4, <2>1 DEF InTime, Sleeping
<1>8. CASE main'.pc \notin {"sleep", "sleepP"} BY <1>8 DEF InTime, Sleeping
<1>9. idt_install \/ isr_install \/ irq_install \/ timer_install \/ keyboard_install \/ sti
        \/ Idle \/ get_char => main'.pc \notin {"sleep", "sleepP"}
  BY DEF idt_install, isr_install, irq_install, timer_install, keyboard_install, sti, Idle,
         get_char, Step, At
<1> QED BY <1>5, <1>6, <1>7, <1>8, <1>9 DEF Main

LEMMA SleepNext == NoWrap /\ 0 \notin Sleeps /\ SleepInv /\ [Next]_vars => SleepInv'
<1> SUFFICES ASSUME NoWrap, 0 \notin Sleeps, SleepInv, [Next]_vars PROVE InTime'
  BY ClockNext DEF SleepInv
<1>1. /\ timer_ticks \in Nat /\ slept \in Nat /\ slept <= timer_ticks /\ IInv /\ ClockInv
      /\ TicksPerSec \in Nat
  BY IrqAssumption DEF SleepInv, ClockInv, IInv, IrqTypeOK, Clock
<1>2. CASE Main BY <1>2, InTimeMain
<1>3. ASSUME UNCHANGED <<secs, slept, main>>, OneTickDue => OneTickDue',
             OneTickDue /\ TickDue' => TickDue
      PROVE  InTime'
  BY <1>3 DEF SleepInv, InTime, Sleeping
<1>4. CASE RunRoutine
  <2>1. UNCHANGED <<main, irr, ready>> /\ ~TickHandled' BY <1>4 DEF RunRoutine, TickHandled
  <2>2. OneTickDue => OneTickDue' BY <2>1 DEF OneTickDue
  <2>3. TickDue' => TickDue BY <2>1 DEF TickDue
  <2>4. CASE UNCHANGED <<timer_ticks, secs, slept>> BY <1>3, <2>1, <2>2, <2>3, <2>4
  <2>5. CASE /\ TickHandled
             /\ timer_ticks' = timer_ticks + 1 /\ slept' = slept + 1
             /\ secs' \in {secs, secs + 1}
    <3>1. Sleeping => ~TickDue' BY <2>1, <2>5 DEF SleepInv, InTime, OneTickDue, TickDue
    <3>2. TickDue BY <2>5 DEF TickDue
    <3>3. secs = timer_ticks \div TicksPerSec /\ secs \in Nat
      BY <1>1, SecondsBelow DEF ClockInv, Clock
    <3>4. CASE main.pc = "sleep"
      <4> DEFINE a == timer_ticks - slept
                 n == main.arg
      <4>1. a \in Nat /\ n \in Nat /\ a + slept = timer_ticks
        BY <1>1, <3>4, ArgIsNat DEF Sleeping
      <4>2. main.until = a \div TicksPerSec + n BY <1>1, <3>4 DEF ClockInv, Target
      <4>3. secs < main.until BY <3>2, <3>4 DEF SleepInv, InTime
      <4>4. a \div TicksPerSec \in Nat /\ n * TicksPerSec \in Nat
        BY <1>1, <4>1, SecondsBelow
      <4> HIDE DEF a
      <4>5. slept < n * TicksPerSec BY <1>1, <3>3, <4>1, <4>2, <4>3, SecondsApart
      <4>6. secs' <= main.until BY <2>5, <3>3, <4>1, <4>2, <4>3, <4>4
      <4>7. slept + 1 <= n * TicksPerSec BY <1>1, <4>4, <4>5
      <4> QED BY <2>1, <2>2, <2>5, <3>1, <3>4, <4>6, <4>7 DEF SleepInv, InTime, Sleeping
    <3>5. CASE main.pc = "sleepP"
      <4>1. main.arg \in Nat BY <1>1, <3>5, IrqAssumption DEF ClockInv, Target, Sleeping
      <4>2. slept < main.arg \/ slept = 0 BY <3>2, <3>5 DEF SleepInv, InTime
      <4>3. slept' <= main.arg \/ slept' <= 1 BY <1>1, <2>5, <4>1, <4>2
      <4> QED BY <2>1, <2>2, <3>1, <3>5, <4>3 DEF SleepInv, InTime, Sleeping
    <3>6. CASE ~Sleeping BY <2>1, <3>6 DEF InTime, Sleeping
    <3> QED BY <3>4, <3>5, <3>6 DEF Sleeping
  <2> QED BY <1>1, <1>4, <2>4, <2>5, TimerTicks
<1>5. CASE SendEoi BY <1>3, <1>5 DEF SendEoi, OneTickDue, TickDue, TickHandled
<1>6. ASSUME NEW l \in Lines, Interrupt(l) PROVE InTime'
  <2>1. int_no' = l + 32 /\ l \in 0 .. 15 /\ ~TickHandled
    BY <1>1, <1>6, VectorOfLine, LinesAreSmall
    DEF Interrupt, Enter, IInv, Prepared, TickHandled, NoInterrupt
  <2>2. l \in irr /\ irr' = irr \ {l} /\ ready' = ready /\ UNCHANGED <<secs, slept, main>>
    BY <1>6 DEF Interrupt, Enter, Pending
  <2>3. CASE l = 0 BY <1>3, <2>1, <2>2, <2>3 DEF OneTickDue, TickDue
  <2>4. CASE l # 0
    <3>1. ~TickHandled' BY <2>1, <2>4 DEF TickHandled
    <3> QED BY <1>3, <2>1, <2>2, <2>4, <3>1 DEF OneTickDue, TickDue
  <2> QED BY <2>3, <2>4
<1>7. ASSUME NEW l \in Spurious, Noise(l) PROVE InTime'
  <2>1. int_no' = l + 32 /\ l \in {7, 15}
    BY <1>1, <1>7, VectorOfLine, IrqAssumption DEF Noise, Enter, IInv, Prepared
  <2>2. irr' = irr /\ ready' = ready \ {l} /\ UNCHANGED <<secs, slept, main>>
    BY <1>7 DEF Noise, Enter
  <2>3. ~TickHandled' BY <2>1 DEF TickHandled
  <2> QED BY <1>3, <2>2, <2>3 DEF OneTickDue, TickDue
<1>8. ASSUME NEW l \in Lines, Raise(l) PROVE InTime'
  <2>1. /\ l \in ready /\ irr' = irr \cup {l} /\ ready' = ready \ {l}
        /\ UNCHANGED <<secs, slept, main>> /\ TickHandled' = TickHandled
    BY <1>8 DEF Raise, TickHandled
  <2> QED BY <1>3, <2>1 DEF OneTickDue, TickDue
<1>9. CASE UNCHANGED vars
  BY <1>3, <1>9 DEF vars, devVars, OneTickDue, TickDue, TickHandled
<1> QED BY <1>2, <1>4, <1>5, <1>6, <1>7, <1>8, <1>9 DEF Next

(* sleep(n) lasts more than n - 1 seconds and sleepP(n) at least n ticks,  *)
(* whatever interrupts come: the wait is counted from the second, or tick, *)
(* in which the call began.                                                *)
THEOREM SleepsAreLong == ASSUME NoWrap PROVE Spec => SleepLongEnough
<1>1. ClockInv /\ [Next]_vars =>
        [/\ main.pc = "sleep" /\ main'.pc = "idle" => slept > (main.arg - 1) * TicksPerSec
         /\ main.pc = "sleepP" /\ main'.pc = "idle" => slept >= main.arg]_vars
  <2> SUFFICES ASSUME ClockInv, Next, Sleeping, main'.pc = "idle"
               PROVE  /\ main.pc = "sleep" => slept > (main.arg - 1) * TicksPerSec
                      /\ main.pc = "sleepP" => slept >= main.arg
    BY DEF Sleeping
  <2>1. /\ timer_ticks \in Nat /\ slept \in Nat /\ slept <= timer_ticks
        /\ main.arg \in Nat /\ TicksPerSec \in Nat
    BY ArgIsNat, IrqAssumption DEF ClockInv, IInv, IrqTypeOK, Clock
  <2>2. main' # main BY DEF Sleeping
  <2>3. Main
    BY <2>2 DEF Next, RunRoutine, SendEoi, Interrupt, Raise, Noise, Enter
  <2>4. SleepTurn
    BY <2>3 DEF Sleeping, Main, idt_install, isr_install, irq_install, timer_install,
                keyboard_install, sti, Idle, get_char, StartSleep, StartSleepP, Step
  <2>5. CASE main.pc = "sleep"
    <3> DEFINE a == timer_ticks - slept
    <3>1. secs = main.until BY <2>2, <2>4, <2>5 DEF SleepTurn, Step, SleepOver
    <3>2. a \in Nat /\ a + slept = timer_ticks BY <2>1
    <3>3. (a + slept) \div TicksPerSec = a \div TicksPerSec + main.arg
      BY <2>5, <3>1, <3>2 DEF ClockInv, Clock, Target
    <3> HIDE DEF a
    <3>4. slept > (main.arg - 1) * TicksPerSec BY <2>1, <3>2, <3>3, SecondsApart
    <3> QED BY <2>5, <3>4
  <2>6. CASE main.pc = "sleepP"
    <3>1. timer_ticks >= main.until BY <2>2, <2>4, <2>6 DEF SleepTurn, Step, SleepPOver
    <3> QED BY <2>1, <2>6, <3>1 DEF ClockInv, Target
  <2> QED BY <2>5, <2>6 DEF Sleeping
<1>2. Init => ClockInv BY ClockInit
<1>3. ClockInv /\ [Next]_vars => ClockInv' BY ClockNext
<1> QED BY <1>1, <1>2, <1>3, PTL DEF Spec, SleepLongEnough

(* A sleep of at least one second, or tick, never goes on for longer than  *)
(* that many whole seconds, or ticks, or the one that was coming when it   *)
(* began.  Without that bound the run irq_sleep shows sleep(0) miss its    *)
(* time.                                                                   *)
THEOREM SleepsEndInTime == ASSUME NoWrap, 0 \notin Sleeps PROVE Spec => []SleepNotTooLong
<1>1. Init => SleepInv
  BY ClockInit DEF Init, SleepInv, InTime, Sleeping, At
<1>2. SleepInv /\ [Next]_vars => SleepInv' BY SleepNext
<1>3. SleepInv => SleepNotTooLong
  BY DEF SleepInv, InTime, SleepNotTooLong
<1> QED BY <1>1, <1>2, <1>3, PTL DEF Spec
=============================================================================
