------------------------------ MODULE Console ------------------------------
(***************************************************************************)
(* The screen, kernel/src/drivers/scrn.c, written to by two: the main      *)
(* thread, which runs the end of kmain, and the keyboard interrupt, which  *)
(* prints each key (drivers/kb.c).  The handler runs between any two       *)
(* steps of the main thread and is one step itself.                        *)
(*                                                                         *)
(* The kernel is built without optimisation, so every statement goes to    *)
(* memory; the read and the write of ++, and the reads of csr_y and of     *)
(* csr_x for an address, are steps of their own.  A fill or a copy of rows *)
(* is one step.  Addresses count cells from textmemptr.  Of a cell only    *)
(* who wrote it is kept; colours and the hardware cursor are left out.     *)
(***************************************************************************)
EXTENDS Integers, Sequences

CONSTANTS
  Width, Height,    \* 80, 25
  Tab,              \* 8
  Script            \* what the main thread does, in order

VARIABLES
  csr_x, csr_y, tstop, vga_locked,
  text,             \* the cells of the screen
  stray,            \* the addresses outside the screen written to so far
  main              \* the main thread: operation, position and locals

screen == <<csr_x, csr_y, text, stray>>
vars == <<screen, tstop, vga_locked, main>>

Operations == {"cls", "char", "newline", "tab_stop", "lock_vga", "unlock_vga"}
Keys == {"char", "backspace", "tab", "newline", "other"}

ASSUME ConsoleAssumption ==
  /\ {Width, Height, Tab} \subseteq Nat \ {0} /\ Height >= 2
  /\ Script \in Seq(Operations)

Cells == 0 .. Width * Height - 1
Row(y) == y * Width .. (y + 1) * Width - 1
-----------------------------------------------------------------------------
(* The screen as a value, and what the statements of the driver make of it. *)
Now == [x |-> csr_x, y |-> csr_y, text |-> text, stray |-> stray]
Becomes(s) ==
  csr_x' = s.x /\ csr_y' = s.y /\ text' = s.text /\ stray' = s.stray

Loc(s) == s.y * Width + s.x

Written(s, addresses, who) ==
  [s EXCEPT !.text = [c \in Cells |-> IF c \in addresses THEN who ELSE @[c]],
            !.stray = @ \cup (addresses \ Cells)]

(* scroll: copies up all rows but the first temp, blanks the row behind    *)
(* them.                                                                   *)
MustScroll_late(s) == s.y > Height
MustScroll(s) == s.y >= Height
Copied(s, temp) ==
  [s EXCEPT !.text = [c \in Cells |->
     IF c < (Height - temp) * Width THEN @[c + temp * Width] ELSE @[c]]]
Shifted(s, temp) == Written(Copied(s, temp), Row(Height - temp), "blank")
Bottom(s) == [s EXCEPT !.y = Height - 1]
Scrolled(s) == IF MustScroll(s) THEN Bottom(Shifted(s, s.y - Height + 1)) ELSE s

(* A cursor past the right margin goes to the next line. *)
MustWrap_never(s) == FALSE
MustWrap_late(s) == s.x > Width
MustWrap(s) == s.x >= Width
NextLine(s) == [s EXCEPT !.x = 0, !.y = @ + 1]
Wrapped(s) == IF MustWrap(s) THEN NextLine(s) ELSE s

(* putch for the characters the keyboard sends.  Backspace does nothing at *)
(* the tab stop and before it, and does not leave the line.                *)
AtStop_below(s) == Loc(s) < tstop
AtStop(s) == Loc(s) <= tstop
Left(s) == IF s.x # 0 THEN [s EXCEPT !.x = @ - 1] ELSE s
Typed(s, key) ==
  CASE key = "char"      -> [Written(s, {Loc(s)}, "key") EXCEPT !.x = @ + 1]
    [] key = "backspace" -> Written(Left(s), {Loc(Left(s))}, "blank")
    [] key = "tab"       -> [s EXCEPT !.x = (@ \div Tab + 1) * Tab]
    [] key = "newline"   -> NextLine(s)
    [] OTHER             -> s
putch(s, key) ==
  IF vga_locked \/ (key = "backspace" /\ AtStop(s)) THEN s
  ELSE Scrolled(Wrapped(Typed(s, key)))

(* The handler of the keyboard interrupt, for a key that goes down. *)
keyboard_handler(key) ==
  /\ Becomes(putch(Now, key))
  /\ UNCHANGED <<tstop, vga_locked, main>>
-----------------------------------------------------------------------------
(* The main thread.  local is the register, or the C variable, that the    *)
(* operation carries from one statement to the next.                       *)
Done == main.op > Len(Script)
Doing(operation) == ~Done /\ Script[main.op] = operation
At(pc) == ~Done /\ main.pc = pc
Goto(pc, value) == main' = [main EXCEPT !.pc = pc, !.local = value]
Return == main' = [op |-> main.op + 1, pc |-> "enter", local |-> 0]

Quiet == UNCHANGED <<tstop, vga_locked>>
OnlyMain == UNCHANGED <<screen, tstop, vga_locked>>

Enter ==
  /\ At("enter")
  /\ OnlyMain
  /\ \/ Doing("cls") /\ Goto("clear", 0)
     \/ Doing("tab_stop") /\ Goto("row", 0)
     \/ (Doing("char") \/ Doing("newline")) /\ vga_locked /\ Return
     \/ Doing("char") /\ ~vga_locked /\ Goto("row", 0)
     \/ Doing("newline") /\ ~vga_locked /\ Goto("line", 0)

(* csr_y * 80 + csr_x *)
ReadRow == At("row") /\ Goto("column", csr_y * Width) /\ OnlyMain
ReadColumn ==
  /\ At("column")
  /\ Goto(IF Doing("tab_stop") THEN "stop" ELSE "store", main.local + csr_x)
  /\ OnlyMain

tab_stop ==
  /\ At("stop")
  /\ tstop' = main.local
  /\ Return
  /\ UNCHANGED <<screen, vga_locked>>

(* cls: a row at a time, then csr_x, then csr_y. *)
ClearRow ==
  /\ At("clear")
  /\ Becomes(Written(Now, Row(main.local), "blank"))
  /\ IF main.local + 1 < Height THEN Goto("clear", main.local + 1) ELSE Goto("home", 0)
  /\ Quiet
HomeX == At("home") /\ Becomes([Now EXCEPT !.x = 0]) /\ Goto("homeY", 0) /\ Quiet
HomeY == At("homeY") /\ Becomes([Now EXCEPT !.y = 0]) /\ Return /\ Quiet

(* putch for the characters kmain prints. *)
Store ==
  /\ At("store")
  /\ Becomes(Written(Now, {main.local}, "main"))
  /\ Goto("readX", 0)
  /\ Quiet
ReadX == At("readX") /\ Goto("writeX", csr_x) /\ OnlyMain
WriteX ==
  /\ At("writeX")
  /\ Becomes([Now EXCEPT !.x = main.local + 1])
  /\ Goto("margin", 0)
  /\ Quiet
Margin ==
  /\ At("margin")
  /\ Goto(IF MustWrap(Now) THEN "line" ELSE "bottom", 0)
  /\ OnlyMain
Line == At("line") /\ Becomes([Now EXCEPT !.x = 0]) /\ Goto("readY", 0) /\ Quiet
ReadY == At("readY") /\ Goto("writeY", csr_y) /\ OnlyMain
WriteY ==
  /\ At("writeY")
  /\ Becomes([Now EXCEPT !.y = main.local + 1])
  /\ Goto("bottom", 0)
  /\ Quiet

(* scroll reads csr_y twice: for the test and for temp. *)
TestBottom ==
  /\ At("bottom")
  /\ IF MustScroll(Now) THEN Goto("temp", 0) ELSE Return
  /\ OnlyMain
ReadTemp == At("temp") /\ Goto("copy", csr_y - Height + 1) /\ OnlyMain
Copy ==
  /\ At("copy")
  /\ Becomes(Copied(Now, main.local))
  /\ Goto("blank", main.local)
  /\ Quiet
Blank ==
  /\ At("blank")
  /\ Becomes(Written(Now, Row(Height - main.local), "blank"))
  /\ Goto("last", 0)
  /\ Quiet
LastRow == At("last") /\ Becomes(Bottom(Now)) /\ Return /\ Quiet

lock_vga == At("enter") /\ Doing("lock_vga") /\ vga_locked' = TRUE
unlock_vga == At("enter") /\ Doing("unlock_vga") /\ vga_locked' = FALSE
Lock == (lock_vga \/ unlock_vga) /\ Return /\ UNCHANGED <<screen, tstop>>

Main ==
  \/ Enter \/ ReadRow \/ ReadColumn \/ tab_stop
  \/ ClearRow \/ HomeX \/ HomeY
  \/ Store \/ ReadX \/ WriteX \/ Margin \/ Line \/ ReadY \/ WriteY
  \/ TestBottom \/ ReadTemp \/ Copy \/ Blank \/ LastRow
  \/ Lock
-----------------------------------------------------------------------------
(* Interrupts have just been enabled.  What was printed before is left out: *)
(* the screen is clear.  tstop is 0, an address before the screen.          *)
Init ==
  /\ csr_x = 0 /\ csr_y = 0
  /\ tstop = -1
  /\ vga_locked = FALSE
  /\ text = [c \in Cells |-> "blank"]
  /\ stray = {}
  /\ main = [op |-> 1, pc |-> "enter", local |-> 0]

Next == Main \/ \E key \in Keys : keyboard_handler(key)

Spec == Init /\ [][Next]_vars
-----------------------------------------------------------------------------
ConsoleTypeOK ==
  /\ csr_x \in 0 .. Width /\ csr_y \in 0 .. Height
  /\ tstop \in {-1} \cup Cells
  /\ vga_locked \in BOOLEAN
  /\ text \in [Cells -> {"blank", "main", "key"}]
  /\ main.op \in 1 .. Len(Script) + 1

(* However a key interrupts the main thread, nothing is written outside    *)
(* the screen but in the row right below it.                               *)
StraysStayNear == stray \subseteq Row(Height)

(* The cursor is on the screen whenever the main thread is not printing.   *)
CursorOnScreen ==
  Done \/ main.pc = "enter" => csr_x \in 0 .. Width - 1 /\ csr_y \in 0 .. Height - 1

(* Once the main thread is done, no key erases or overwrites what it       *)
(* printed before the tab stop: the prompt only moves up with the screen,  *)
(* although the tab stop does not move with it.                            *)
Prompt == {c \in Cells : text[c] = "main" /\ c < tstop}
PromptKept ==
  [][Done => \/ \A c \in Prompt : text'[c] = "main"
             \/ \A c \in Prompt \ Row(0) : text'[c - Width] = "main"]_vars
=============================================================================
