--------------------------- MODULE ConsoleProofs ---------------------------
(***************************************************************************)
(* Proofs about Console: where the cursor and the writes to the screen can *)
(* be, for every size of the screen, every script of the main thread and   *)
(* every interleaving with the keyboard.                                   *)
(***************************************************************************)
EXTENDS Console, TLAPS

(* The positions of the main thread at which csr_x may be one too far to   *)
(* the right, and those at which csr_y may be one too far down: a key then *)
(* finds the cursor there.                                                 *)
RightOfScreen == {"margin", "line"}
BelowScreen == {"bottom", "temp", "copy", "blank", "last"}
OnScreen == {"enter", "row", "column", "stop", "store", "clear", "home", "homeY", "readX",
             "writeX", "readY", "writeY"}
Positions == OnScreen \cup RightOfScreen \cup BelowScreen

CursorNear ==
  /\ main.pc \notin RightOfScreen => csr_x < Width
  /\ main.pc \notin BelowScreen => csr_y < Height
  /\ main.pc = "temp" => csr_y >= Height - 1

(* What the main thread carries from one statement to the next: a value of *)
(* the cursor read before, which a key may have made old.                  *)
LocalNear ==
  CASE main.pc = "column"          -> \E y \in 0 .. Height - 1 : main.local = y * Width
    [] main.pc \in {"stop", "store"} -> main.local \in Cells
    [] main.pc = "writeX"          -> main.local \in 0 .. Width - 1
    [] main.pc \in {"clear", "writeY"} -> main.local \in 0 .. Height - 1
    [] main.pc \in {"copy", "blank"} -> main.local \in {0, 1}
    [] OTHER                       -> TRUE

MainType ==
  /\ main \in [op : 1 .. Len(Script) + 1, pc : Positions, local : Int]
  /\ Done => main.pc = "enter"

IInv == ConsoleTypeOK /\ StraysStayNear /\ MainType /\ CursorNear /\ LocalNear
-----------------------------------------------------------------------------
(* Cells and rows.                                                         *)
LEMMA Sizes ==
  Width \in Nat \ {0} /\ Height \in Nat /\ Height >= 2 /\ Tab \in Nat \ {0}
BY ConsoleAssumption

(* A larger row begins at a larger cell. *)
LEMMA RowsInOrder ==
  ASSUME NEW y \in Int, NEW z \in Int, y <= z
  PROVE  y * Width \in Int /\ z * Width \in Int /\ y * Width <= z * Width
         /\ (y + 1) * Width = y * Width + Width
<1>1. PICK k \in Nat : z = y + k OBVIOUS
<1>2. z * Width = y * Width + k * Width /\ k * Width \in Nat BY <1>1, Sizes
<1> QED BY <1>2, Sizes

LEMMA CellsHaveRows ==
  ASSUME NEW y \in 0 .. Height, NEW x \in 0 .. Width, y < Height \/ x < Width
  PROVE  /\ y * Width + x \in Cells \cup Row(Height)
         /\ y < Height /\ x < Width => y * Width + x \in Cells
<1> y \in Int /\ Height \in Int /\ 0 \in Int BY Sizes
<1>1. 0 * Width = 0 /\ 0 * Width <= y * Width /\ y * Width <= Height * Width
      /\ Height * Width \in Int /\ y * Width \in Int
      /\ (Height + 1) * Width = Height * Width + Width
  BY Sizes, RowsInOrder
<1>2. y < Height => y * Width + Width <= Height * Width
  BY Sizes, RowsInOrder, y + 1 <= Height \/ y >= Height
<1>3. Width * Height = Height * Width BY Sizes
<1> HIDE DEF Cells
<1> QED BY <1>1, <1>2, <1>3, Sizes DEF Cells, Row

LEMMA RowsAreCells ==
  ASSUME NEW y \in 0 .. Height - 1
  PROVE  Row(y) \subseteq Cells
<1>1. ASSUME NEW c \in Row(y) PROVE c \in Cells
  <2>1. y * Width \in Int /\ (y + 1) * Width = y * Width + Width
    BY Sizes, RowsInOrder
  <2>2. PICK x \in 0 .. Width - 1 : c = y * Width + x
    <3> c - y * Width \in 0 .. Width - 1 BY <2>1, Sizes DEF Row
    <3> QED BY <2>1, c = y * Width + (c - y * Width), Sizes DEF Row
  <2> QED BY <2>2, CellsHaveRows, Sizes
<1> QED BY <1>1
-----------------------------------------------------------------------------
(* The statements of the driver, on a screen as a value.                   *)
Who == {"blank", "main", "key"}
Screens == [x : Int, y : Int, text : [Cells -> Who], stray : SUBSET Row(Height)]

LEMMA WrittenNear ==
  ASSUME NEW s \in Screens, NEW A \in SUBSET (Cells \cup Row(Height)), NEW who \in Who
  PROVE  Written(s, A, who) \in Screens /\ Written(s, A, who).x = s.x
         /\ Written(s, A, who).y = s.y
BY DEF Written, Screens

LEMMA CopiedNear ==
  ASSUME NEW s \in Screens, NEW temp \in Nat
  PROVE  Copied(s, temp) \in Screens /\ Copied(s, temp).x = s.x /\ Copied(s, temp).y = s.y
<1>1. ASSUME NEW c \in Cells, c < (Height - temp) * Width
      PROVE  c + temp * Width \in Cells
  <2>1. (Height - temp) * Width + temp * Width = Width * Height
        /\ temp * Width \in Nat /\ (Height - temp) * Width \in Int
    BY Sizes
  <2> QED BY <1>1, <2>1, Sizes DEF Cells
<1> QED BY <1>1 DEF Copied, Screens

LEMMA ScrolledNear ==
  ASSUME NEW s \in Screens, s.y \in 0 .. Height + 1
  PROVE  /\ Scrolled(s) \in Screens /\ Scrolled(s).x = s.x
         /\ Scrolled(s).y = IF s.y >= Height THEN Height - 1 ELSE s.y
<1>1. CASE s.y >= Height
  <2> DEFINE temp == s.y - Height + 1
  <2>1. temp \in Nat /\ Height - temp \in 0 .. Height - 1 BY <1>1, Sizes
  <2> HIDE DEF temp
  <2>2. Copied(s, temp) \in Screens /\ Copied(s, temp).x = s.x BY <2>1, CopiedNear
  <2>3. Row(Height - temp) \subseteq Cells BY <2>1, RowsAreCells
  <2>4. Shifted(s, temp) \in Screens /\ Shifted(s, temp).x = s.x
    BY <2>2, <2>3, WrittenNear DEF Shifted, Who
  <2>5. Scrolled(s) = Bottom(Shifted(s, temp)) BY <1>1 DEF Scrolled, MustScroll, temp
  <2> QED BY <1>1, <2>4, <2>5, Sizes DEF Bottom, Screens
<1>2. CASE ~(s.y >= Height) BY <1>2 DEF Scrolled, MustScroll
<1> QED BY <1>1, <1>2

LEMMA NextLineStart ==
  ASSUME NEW s \in Screens
  PROVE  NextLine(s) \in Screens /\ NextLine(s).x = 0 /\ NextLine(s).y = s.y + 1
<1> DEFINE u == [s EXCEPT !.x = 0]
<1>1. u \in Screens /\ u.x = 0 /\ u.y = s.y BY DEF Screens
<1>2. NextLine(s) = [u EXCEPT !.y = s.y + 1] BY DEF NextLine
<1> HIDE DEF u
<1> QED BY <1>1, <1>2 DEF Screens

(* A key finds the cursor at most one too far to the right or one too far  *)
(* down, and leaves it on the screen, if it does anything.                 *)
LEMMA KeyReturnsToScreen ==
  ASSUME NEW s \in Screens, s.x \in 0 .. Width, s.y \in 0 .. Height,
         s.y < Height \/ s.x < Width, NEW key \in Keys
  PROVE  \/ putch(s, key) = s
         \/ /\ putch(s, key) \in Screens
            /\ putch(s, key).x \in 0 .. Width - 1
            /\ putch(s, key).y \in 0 .. Height - 1
            /\ s.y >= Height - 1 => putch(s, key).y = Height - 1
<1> SUFFICES ASSUME putch(s, key) = Scrolled(Wrapped(Typed(s, key)))
    PROVE  /\ putch(s, key) \in Screens
           /\ putch(s, key).x \in 0 .. Width - 1
           /\ putch(s, key).y \in 0 .. Height - 1
           /\ s.y >= Height - 1 => putch(s, key).y = Height - 1
  BY DEF putch
<1> DEFINE t == Typed(s, key)
           w == Wrapped(t)
<1> s.x \in Int /\ s.y \in Int /\ Width \in Int /\ Height \in Int BY Sizes DEF Screens
<1>1. t \in Screens /\ t.x \in Nat /\ t.y \in s.y .. s.y + 1
      /\ (t.x >= Width => t.y = s.y)
  <2>1. CASE key = "char"
    <3>1. {Loc(s)} \subseteq Cells \cup Row(Height) BY CellsHaveRows DEF Loc
    <3> DEFINE c == Written(s, {Loc(s)}, "key")
    <3>2. c \in Screens /\ c.x = s.x /\ c.y = s.y
      BY <3>1, WrittenNear DEF Who
    <3> HIDE DEF c
    <3>3. t = [c EXCEPT !.x = c.x + 1] BY <2>1 DEF Typed, c
    <3>4. t \in Screens /\ t.x = s.x + 1 /\ t.y = s.y BY <3>2, <3>3 DEF Screens
    <3> QED BY <3>4
  <2>2. CASE key = "backspace"
    <3> DEFINE l == Left(s)
    <3>1. l \in Screens /\ l.x \in 0 .. Width /\ l.y = s.y /\ l.x <= s.x
      BY Sizes DEF Left, Screens
    <3> HIDE DEF l
    <3>2. {Loc(l)} \subseteq Cells \cup Row(Height)
      <4>1. l.y \in 0 .. Height /\ (l.y < Height \/ l.x < Width) BY <3>1
      <4>2. l.y * Width + l.x \in Cells \cup Row(Height) BY <3>1, <4>1, CellsHaveRows
      <4> QED BY <4>2 DEF Loc
    <3>3. t = Written(l, {Loc(l)}, "blank") BY <2>2 DEF Typed, l
    <3>4. t \in Screens /\ t.x = l.x /\ t.y = l.y BY <3>1, <3>2, <3>3, WrittenNear DEF Who
    <3> QED BY <3>1, <3>4
  <2>3. CASE key = "tab"
    <3>1. (s.x \div Tab + 1) * Tab \in Nat
      <4>1. s.x \div Tab + 1 \in Nat BY Sizes
      <4> QED BY <4>1, Sizes
    <3>2. t = [s EXCEPT !.x = (s.x \div Tab + 1) * Tab] BY <2>3 DEF Typed
    <3> QED BY <3>1, <3>2, Sizes DEF Screens
  <2>4. CASE key = "newline"
    <3>1. t = NextLine(s) BY <2>4 DEF Typed
    <3> QED BY <3>1, NextLineStart, Sizes
  <2>5. CASE key = "other"
    BY <2>5, Sizes DEF Typed, Screens
  <2> QED BY <2>1, <2>2, <2>3, <2>4, <2>5 DEF Keys
<1> HIDE DEF t
<1>2. w \in Screens /\ w.x \in 0 .. Width - 1 /\ w.y \in s.y .. s.y + 1
  <2>1. CASE t.x >= Width
    <3>1. w = NextLine(t) BY <2>1 DEF Wrapped, MustWrap
    <3> QED BY <1>1, <2>1, <3>1, NextLineStart, Sizes
  <2>2. CASE ~(t.x >= Width)
    BY <1>1, <2>2, Sizes DEF Wrapped, MustWrap
  <2> QED BY <2>1, <2>2
<1> HIDE DEF w
<1>3. putch(s, key) = Scrolled(w) BY DEF w, t
<1>4. w.y \in 0 .. Height + 1 BY <1>2, Sizes
<1> QED BY <1>2, <1>3, <1>4, ScrolledNear, Sizes
-----------------------------------------------------------------------------
(* What the invariant says of the screen, and where the main thread goes.  *)
LEMMA NowIsScreen ==
  ASSUME IInv
  PROVE  Now \in Screens /\ Now.x = csr_x /\ Now.y = csr_y
         /\ csr_x \in 0 .. Width /\ csr_y \in 0 .. Height
BY Sizes DEF IInv, ConsoleTypeOK, StraysStayNear, Now, Screens, Who

LEMMA GotoMoves ==
  ASSUME MainType, ~Done, NEW pc \in Positions, NEW value \in Int, Goto(pc, value)
  PROVE  MainType' /\ main'.pc = pc /\ main'.local = value
<1> DEFINE m == [main EXCEPT !.pc = pc]
<1> DEFINE Mains == [op : 1 .. Len(Script) + 1, pc : Positions, local : Int]
<1>1. m \in Mains /\ m.op = main.op /\ m.pc = pc BY DEF MainType
<1>2. main' = [m EXCEPT !.local = value] BY DEF Goto
<1> HIDE DEF m
<1>3. main' \in Mains /\ main'.op = m.op /\ main'.pc = m.pc /\ main'.local = value
  BY <1>1, <1>2
<1> QED BY <1>1, <1>3 DEF MainType, Done

LEMMA ReturnMoves ==
  ASSUME MainType, ~Done, Return
  PROVE  MainType' /\ main'.pc = "enter" /\ main'.local = 0
<1>1. Len(Script) \in Nat BY ConsoleAssumption
<1> QED BY <1>1 DEF MainType, Return, Done, Positions, OnScreen

(* A step of the main thread that leaves the screen alone, and one that     *)
(* makes it s.                                                             *)
LEMMA OnlyMainKeeps ==
  ASSUME IInv, OnlyMain, MainType', CursorNear', LocalNear'
  PROVE  IInv'
BY DEF IInv, OnlyMain, screen, ConsoleTypeOK, StraysStayNear, MainType

LEMMA ScreenKept ==
  ASSUME IInv, NEW s \in Screens, s.x \in 0 .. Width, s.y \in 0 .. Height, Becomes(s),
         tstop' \in {-1} \cup Cells, vga_locked' \in BOOLEAN,
         MainType', CursorNear', LocalNear'
  PROVE  IInv'
BY DEF IInv, Becomes, ConsoleTypeOK, StraysStayNear, MainType, Screens, Who
-----------------------------------------------------------------------------
LEMMA InitInv == Init => IInv
<1> SUFFICES ASSUME Init PROVE IInv OBVIOUS
<1>1. Len(Script) \in Nat BY ConsoleAssumption
<1>2. csr_x \in 0 .. Width /\ csr_y \in 0 .. Height /\ main.op \in 1 .. Len(Script) + 1
  BY <1>1, Sizes DEF Init
<1>5. tstop \in {-1} /\ vga_locked \in BOOLEAN BY DEF Init
<1>6. text \in [Cells -> {"blank", "main", "key"}] /\ StraysStayNear
  BY DEF Init, StraysStayNear
<1>3. MainType BY <1>1 DEF Init, MainType, Positions, OnScreen
<1>4. CursorNear /\ LocalNear
  BY Sizes DEF Init, CursorNear, LocalNear, RightOfScreen, BelowScreen
<1> QED BY <1>2, <1>3, <1>4, <1>5, <1>6 DEF IInv, ConsoleTypeOK

LEMMA EnterKeepsIInv == ASSUME IInv, Enter PROVE IInv'
<1>1. MainType /\ ~Done /\ main.pc = "enter" /\ csr_x' = csr_x /\ csr_y' = csr_y
      /\ csr_x < Width /\ csr_y < Height /\ 0 \in Int /\ 0 \in 0 .. Height - 1
  BY Sizes DEF IInv, Enter, At, OnlyMain, screen, CursorNear, RightOfScreen, BelowScreen
<1>2. \/ Goto("clear", 0) \/ Goto("row", 0) \/ Return \/ Goto("line", 0)
  BY DEF Enter
<1>3. CASE Goto("clear", 0)
  <2>1. MainType' /\ main'.pc = "clear" /\ main'.local = 0
    BY <1>1, <1>3, GotoMoves DEF Positions, OnScreen
  <2>2. CursorNear' /\ LocalNear'
    BY <1>1, <2>1 DEF CursorNear, LocalNear, RightOfScreen, BelowScreen
  <2> QED BY <2>1, <2>2, OnlyMainKeeps DEF Enter
<1>4. CASE Goto("row", 0)
  <2>1. MainType' /\ main'.pc = "row"
    BY <1>1, <1>4, GotoMoves DEF Positions, OnScreen
  <2>2. CursorNear' /\ LocalNear'
    BY <1>1, <2>1 DEF CursorNear, LocalNear, RightOfScreen, BelowScreen
  <2> QED BY <2>1, <2>2, OnlyMainKeeps DEF Enter
<1>5. CASE Return
  <2>1. MainType' /\ main'.pc = "enter" BY <1>1, <1>5, ReturnMoves
  <2>2. CursorNear' /\ LocalNear'
    BY <1>1, <2>1 DEF CursorNear, LocalNear, RightOfScreen, BelowScreen
  <2> QED BY <2>1, <2>2, OnlyMainKeeps DEF Enter
<1>6. CASE Goto("line", 0)
  <2>1. MainType' /\ main'.pc = "line"
    BY <1>1, <1>6, GotoMoves DEF Positions, OnScreen, RightOfScreen
  <2>2. CursorNear' /\ LocalNear'
    BY <1>1, <2>1 DEF CursorNear, LocalNear, RightOfScreen, BelowScreen
  <2> QED BY <2>1, <2>2, OnlyMainKeeps DEF Enter
<1> QED BY <1>2, <1>3, <1>4, <1>5, <1>6

(* csr_y is read before a key, csr_x after it: the address is of a cell    *)
(* still, for the row is one of the screen and so is the column.           *)
LEMMA AddressKeepsIInv == ASSUME IInv, ReadRow \/ ReadColumn PROVE IInv'
<1> csr_x \in 0 .. Width /\ csr_y \in 0 .. Height /\ Width \in Nat /\ Height \in Nat
    /\ csr_x \in Int /\ csr_y \in Int
  BY Sizes DEF IInv, ConsoleTypeOK
<1>1. CASE ReadRow
  <2>1. csr_y \in 0 .. Height - 1 /\ csr_x < Width /\ csr_x' = csr_x /\ csr_y' = csr_y
    BY <1>1 DEF IInv, ReadRow, At, OnlyMain, screen, CursorNear, RightOfScreen, BelowScreen
  <2>2. csr_y * Width \in Int OBVIOUS
  <2>3. MainType' /\ main'.pc = "column" /\ main'.local = csr_y * Width
    BY <1>1, <2>2, GotoMoves DEF IInv, ReadRow, At, Positions, OnScreen
  <2>4. CursorNear' BY <2>1, <2>3 DEF CursorNear, RightOfScreen, BelowScreen
  <2>5. LocalNear' BY <2>1, <2>3 DEF LocalNear
  <2> QED BY <1>1, <2>3, <2>4, <2>5, OnlyMainKeeps DEF ReadRow
<1>2. CASE ReadColumn
  <2>1. main.pc = "column" /\ ~Done /\ MainType BY <1>2 DEF IInv, ReadColumn, At
  <2>2. csr_y < Height /\ csr_x \in 0 .. Width - 1 /\ csr_x' = csr_x /\ csr_y' = csr_y
    BY <1>2, <2>1 DEF IInv, ReadColumn, OnlyMain, screen, CursorNear, RightOfScreen, BelowScreen
  <2>3. PICK y \in 0 .. Height - 1 : main.local = y * Width
    BY <2>1 DEF IInv, LocalNear
  <2>4. main.local + csr_x \in Cells
    <3> y \in 0 .. Height /\ y < Height /\ csr_x < Width BY <2>2
    <3>1. y * Width + csr_x \in Cells BY CellsHaveRows
    <3> QED BY <2>3, <3>1
  <2>5. main.local + csr_x \in Int BY <2>4, Sizes DEF Cells
  <2>6. PICK pc \in {"stop", "store"} : Goto(pc, main.local + csr_x)
    BY <1>2 DEF ReadColumn
  <2>7. MainType' /\ main'.pc = pc /\ main'.local = main.local + csr_x
    BY <2>1, <2>5, <2>6, GotoMoves DEF Positions, OnScreen
  <2>8. CursorNear' BY <2>2, <2>7 DEF CursorNear, RightOfScreen, BelowScreen
  <2>9. LocalNear' BY <2>4, <2>7 DEF LocalNear
  <2> QED BY <1>2, <2>7, <2>8, <2>9, OnlyMainKeeps DEF ReadColumn
<1> QED BY <1>1, <1>2

LEMMA tab_stopKeepsIInv == ASSUME IInv, tab_stop PROVE IInv'
<1>1. main.pc = "stop" /\ ~Done /\ MainType /\ tstop' \in Cells /\ vga_locked' = vga_locked
      /\ csr_x' = csr_x /\ csr_y' = csr_y /\ text' = text /\ stray' = stray
  BY DEF IInv, LocalNear, tab_stop, At, screen
<1>2. MainType' /\ main'.pc = "enter" BY <1>1, ReturnMoves DEF tab_stop
<1>3. CursorNear' /\ LocalNear'
  BY <1>1, <1>2 DEF IInv, CursorNear, LocalNear, RightOfScreen, BelowScreen
<1> QED BY <1>1, <1>2, <1>3 DEF IInv, ConsoleTypeOK, StraysStayNear, MainType

LEMMA ClsKeepsIInv == ASSUME IInv, ClearRow \/ HomeX \/ HomeY PROVE IInv'
<1>1. Now \in Screens /\ Now.x = csr_x /\ Now.y = csr_y /\ csr_x \in 0 .. Width
      /\ csr_y \in 0 .. Height /\ MainType /\ ~Done
      /\ tstop' \in {-1} \cup Cells /\ vga_locked' \in BOOLEAN
  BY NowIsScreen DEF IInv, ConsoleTypeOK, ClearRow, HomeX, HomeY, At, Quiet
<1>2. csr_x < Width /\ csr_y < Height /\ 0 \in Int /\ Height \in Int /\ 0 \in 0 .. Width
      /\ 0 \in 0 .. Height
  BY Sizes DEF IInv, CursorNear, RightOfScreen, BelowScreen, ClearRow, HomeX, HomeY, At
<1>3. CASE ClearRow
  <2> DEFINE s == Written(Now, Row(main.local), "blank")
  <2>1. main.local \in 0 .. Height - 1 BY <1>3 DEF IInv, LocalNear, ClearRow, At
  <2>2. s \in Screens /\ s.x = csr_x /\ s.y = csr_y
    BY <1>1, <2>1, RowsAreCells, WrittenNear DEF Who
  <2> HIDE DEF s
  <2>3. Becomes(s) /\ csr_x' = csr_x /\ csr_y' = csr_y
    BY <1>3, <2>2 DEF ClearRow, Becomes, s
  <2>4. PICK pc \in {"clear", "home"}, value \in 0 .. Height - 1 : Goto(pc, value)
    BY <1>3, <2>1, Sizes DEF ClearRow
  <2>5. MainType' /\ main'.pc = pc /\ main'.local = value
    BY <1>1, <2>4, GotoMoves DEF Positions, OnScreen
  <2>6. CursorNear' /\ LocalNear'
    BY <1>2, <2>3, <2>5 DEF CursorNear, LocalNear, RightOfScreen, BelowScreen
  <2> QED BY <1>1, <2>2, <2>3, <2>5, <2>6, ScreenKept
<1>4. CASE HomeX
  <2> DEFINE s == [Now EXCEPT !.x = 0]
  <2>1. s \in Screens /\ s.x = 0 /\ s.y = csr_y BY <1>1, <1>2 DEF Screens
  <2> HIDE DEF s
  <2>2. Becomes(s) /\ csr_x' = 0 /\ csr_y' = csr_y BY <1>4, <2>1 DEF HomeX, Becomes, s
  <2>3. MainType' /\ main'.pc = "homeY"
    BY <1>1, <1>2, <1>4, GotoMoves DEF HomeX, Positions, OnScreen
  <2>4. CursorNear' /\ LocalNear'
    BY <1>2, <2>2, <2>3, Sizes DEF CursorNear, LocalNear, RightOfScreen, BelowScreen
  <2> QED BY <1>1, <1>2, <2>1, <2>2, <2>3, <2>4, ScreenKept
<1>5. CASE HomeY
  <2> DEFINE s == [Now EXCEPT !.y = 0]
  <2>1. s \in Screens /\ s.x = csr_x /\ s.y = 0 BY <1>1, <1>2 DEF Screens
  <2> HIDE DEF s
  <2>2. Becomes(s) /\ csr_x' = csr_x /\ csr_y' = 0 BY <1>5, <2>1 DEF HomeY, Becomes, s
  <2>3. MainType' /\ main'.pc = "enter" BY <1>1, <1>5, ReturnMoves DEF HomeY
  <2>4. CursorNear' /\ LocalNear'
    BY <1>2, <2>2, <2>3, Sizes DEF CursorNear, LocalNear, RightOfScreen, BelowScreen
  <2> QED BY <1>1, <1>2, <2>1, <2>2, <2>3, <2>4, ScreenKept
<1> QED BY <1>3, <1>4, <1>5

(* putch of the main thread, up to the step that may leave the cursor one   *)
(* too far to the right.                                                   *)
LEMMA StoreKeepsIInv == ASSUME IInv, Store \/ ReadX \/ WriteX PROVE IInv'
<1>1. Now \in Screens /\ Now.x = csr_x /\ Now.y = csr_y /\ csr_x \in 0 .. Width
      /\ csr_y \in 0 .. Height /\ MainType /\ ~Done
      /\ tstop' \in {-1} \cup Cells /\ vga_locked' \in BOOLEAN
  BY NowIsScreen DEF IInv, ConsoleTypeOK, Store, ReadX, WriteX, At, Quiet, OnlyMain
<1>2. csr_x \in 0 .. Width - 1 /\ csr_y < Height /\ 0 \in Int /\ csr_x \in Int
      /\ Width \in Nat
  BY <1>1, Sizes DEF IInv, CursorNear, RightOfScreen, BelowScreen, Store, ReadX, WriteX, At
<1>3. CASE Store
  <2> DEFINE s == Written(Now, {main.local}, "main")
  <2>1. main.local \in Cells BY <1>3 DEF IInv, LocalNear, Store, At
  <2>2. s \in Screens /\ s.x = csr_x /\ s.y = csr_y
    BY <1>1, <2>1, WrittenNear DEF Who
  <2> HIDE DEF s
  <2>3. Becomes(s) /\ csr_x' = csr_x /\ csr_y' = csr_y
    BY <1>3, <2>2 DEF Store, Becomes, s
  <2>4. MainType' /\ main'.pc = "readX"
    BY <1>1, <1>2, <1>3, GotoMoves DEF Store, Positions, OnScreen
  <2>5. CursorNear' /\ LocalNear'
    BY <1>2, <2>3, <2>4 DEF CursorNear, LocalNear, RightOfScreen, BelowScreen
  <2> QED BY <1>1, <2>2, <2>3, <2>4, <2>5, ScreenKept
<1>4. CASE ReadX
  <2>1. MainType' /\ main'.pc = "writeX" /\ main'.local = csr_x
    BY <1>1, <1>2, <1>4, GotoMoves DEF ReadX, Positions, OnScreen
  <2>2. csr_x' = csr_x /\ csr_y' = csr_y BY <1>4 DEF ReadX, OnlyMain, screen
  <2>3. CursorNear' /\ LocalNear'
    BY <1>2, <2>1, <2>2 DEF CursorNear, LocalNear, RightOfScreen, BelowScreen
  <2> QED BY <1>4, <2>1, <2>3, OnlyMainKeeps DEF ReadX
<1>5. CASE WriteX
  <2> DEFINE s == [Now EXCEPT !.x = main.local + 1]
  <2>1. main.local + 1 \in 0 .. Width /\ main.local + 1 \in Int
    BY <1>2, <1>5 DEF IInv, LocalNear, WriteX, At
  <2>2. s \in Screens /\ s.x = main.local + 1 /\ s.y = csr_y BY <1>1, <2>1 DEF Screens
  <2> HIDE DEF s
  <2>3. Becomes(s) /\ csr_y' = csr_y BY <1>5, <2>2 DEF WriteX, Becomes, s
  <2>4. MainType' /\ main'.pc = "margin"
    BY <1>1, <1>2, <1>5, GotoMoves DEF WriteX, Positions, RightOfScreen
  <2>5. CursorNear' /\ LocalNear'
    BY <1>2, <2>3, <2>4 DEF CursorNear, LocalNear, RightOfScreen, BelowScreen
  <2> QED BY <1>1, <2>1, <2>2, <2>3, <2>4, <2>5, ScreenKept
<1> QED BY <1>3, <1>4, <1>5

(* The wrap: to the next line, which may be one too far down. *)
LEMMA LineKeepsIInv == ASSUME IInv, Margin \/ Line \/ ReadY \/ WriteY PROVE IInv'
<1>1. Now \in Screens /\ Now.x = csr_x /\ Now.y = csr_y /\ csr_x \in 0 .. Width
      /\ csr_y \in 0 .. Height /\ MainType /\ ~Done
      /\ tstop' \in {-1} \cup Cells /\ vga_locked' \in BOOLEAN
  BY NowIsScreen DEF IInv, ConsoleTypeOK, Margin, Line, ReadY, WriteY, At, Quiet, OnlyMain
<1>2. csr_y \in 0 .. Height - 1 /\ 0 \in Int /\ csr_y \in Int /\ csr_x \in Int
      /\ Width \in Nat \ {0} /\ Height \in Nat /\ 0 \in 0 .. Width
  BY <1>1, Sizes DEF IInv, CursorNear, BelowScreen, Margin, Line, ReadY, WriteY, At
<1>3. CASE Margin
  <2>1. csr_x' = csr_x /\ csr_y' = csr_y BY <1>3 DEF Margin, OnlyMain, screen
  <2>2. CASE csr_x >= Width
    <3>1. MainType' /\ main'.pc = "line"
      BY <1>1, <1>2, <1>3, <2>2, GotoMoves DEF Margin, MustWrap, Positions, RightOfScreen
    <3>2. CursorNear' /\ LocalNear'
      BY <1>2, <2>1, <3>1 DEF CursorNear, LocalNear, RightOfScreen, BelowScreen
    <3> QED BY <1>3, <3>1, <3>2, OnlyMainKeeps DEF Margin
  <2>3. CASE ~(csr_x >= Width)
    <3>1. MainType' /\ main'.pc = "bottom"
      BY <1>1, <1>2, <1>3, <2>3, GotoMoves DEF Margin, MustWrap, Positions, BelowScreen
    <3>2. CursorNear' /\ LocalNear'
      BY <1>2, <2>1, <2>3, <3>1 DEF CursorNear, LocalNear, RightOfScreen, BelowScreen
    <3> QED BY <1>3, <3>1, <3>2, OnlyMainKeeps DEF Margin
  <2> QED BY <2>2, <2>3
<1>4. CASE Line
  <2> DEFINE s == [Now EXCEPT !.x = 0]
  <2>1. s \in Screens /\ s.x = 0 /\ s.y = csr_y BY <1>1, <1>2 DEF Screens
  <2> HIDE DEF s
  <2>2. Becomes(s) /\ csr_x' = 0 /\ csr_y' = csr_y BY <1>4, <2>1 DEF Line, Becomes, s
  <2>3. MainType' /\ main'.pc = "readY"
    BY <1>1, <1>2, <1>4, GotoMoves DEF Line, Positions, OnScreen
  <2>4. CursorNear' /\ LocalNear'
    BY <1>2, <2>2, <2>3 DEF CursorNear, LocalNear, RightOfScreen, BelowScreen
  <2> QED BY <1>1, <1>2, <2>1, <2>2, <2>3, <2>4, ScreenKept
<1>5. CASE ReadY
  <2>1. MainType' /\ main'.pc = "writeY" /\ main'.local = csr_y
    BY <1>1, <1>2, <1>5, GotoMoves DEF ReadY, Positions, OnScreen
  <2>2. csr_x' = csr_x /\ csr_y' = csr_y /\ csr_x < Width
    BY <1>5 DEF IInv, CursorNear, RightOfScreen, ReadY, At, OnlyMain, screen
  <2>3. CursorNear' /\ LocalNear'
    BY <1>2, <2>1, <2>2 DEF CursorNear, LocalNear, RightOfScreen, BelowScreen
  <2> QED BY <1>5, <2>1, <2>3, OnlyMainKeeps DEF ReadY
<1>6. CASE WriteY
  <2> DEFINE s == [Now EXCEPT !.y = main.local + 1]
  <2>1. main.local + 1 \in 0 .. Height /\ main.local + 1 \in Int /\ csr_x < Width
    BY <1>2, <1>6 DEF IInv, LocalNear, WriteY, At, CursorNear, RightOfScreen
  <2>2. s \in Screens /\ s.x = csr_x /\ s.y = main.local + 1 BY <1>1, <2>1 DEF Screens
  <2> HIDE DEF s
  <2>3. Becomes(s) /\ csr_x' = csr_x BY <1>6, <2>2 DEF WriteY, Becomes, s
  <2>4. MainType' /\ main'.pc = "bottom"
    BY <1>1, <1>2, <1>6, GotoMoves DEF WriteY, Positions, BelowScreen
  <2>5. CursorNear' /\ LocalNear'
    BY <2>1, <2>3, <2>4 DEF CursorNear, LocalNear, RightOfScreen, BelowScreen
  <2> QED BY <1>1, <2>1, <2>2, <2>3, <2>4, <2>5, ScreenKept
<1> QED BY <1>3, <1>4, <1>5, <1>6

(* The scroll of the main thread.  A key may bring the cursor back to the   *)
(* last row between the test and the read of temp, which is then 0 and not *)
(* 1, and the row blanked is the one below the screen.                     *)
LEMMA ScrollKeepsIInv ==
  ASSUME IInv, TestBottom \/ ReadTemp \/ Copy \/ Blank \/ LastRow
  PROVE  IInv'
<1>1. Now \in Screens /\ Now.x = csr_x /\ Now.y = csr_y /\ csr_x \in 0 .. Width
      /\ csr_y \in 0 .. Height /\ MainType /\ ~Done
      /\ tstop' \in {-1} \cup Cells /\ vga_locked' \in BOOLEAN
  BY NowIsScreen
  DEF IInv, ConsoleTypeOK, TestBottom, ReadTemp, Copy, Blank, LastRow, At, Quiet, OnlyMain
<1>2. csr_x < Width /\ 0 \in Int /\ csr_y \in Int /\ Height \in Nat /\ Height >= 2
  BY <1>1, Sizes
  DEF IInv, CursorNear, RightOfScreen, TestBottom, ReadTemp, Copy, Blank, LastRow, At
<1>3. CASE TestBottom
  <2>1. csr_x' = csr_x /\ csr_y' = csr_y BY <1>3 DEF TestBottom, OnlyMain, screen
  <2>2. CASE csr_y >= Height
    <3>1. MainType' /\ main'.pc = "temp"
      BY <1>1, <1>2, <1>3, <2>2, GotoMoves DEF TestBottom, MustScroll, Positions, BelowScreen
    <3>2. CursorNear' /\ LocalNear'
      BY <1>2, <2>1, <2>2, <3>1 DEF CursorNear, LocalNear, RightOfScreen, BelowScreen
    <3> QED BY <1>3, <3>1, <3>2, OnlyMainKeeps DEF TestBottom
  <2>3. CASE ~(csr_y >= Height)
    <3>1. MainType' /\ main'.pc = "enter"
      BY <1>1, <1>3, <2>3, ReturnMoves DEF TestBottom, MustScroll
    <3>2. CursorNear' /\ LocalNear'
      BY <1>2, <2>1, <2>3, <3>1 DEF CursorNear, LocalNear, RightOfScreen, BelowScreen
    <3> QED BY <1>3, <3>1, <3>2, OnlyMainKeeps DEF TestBottom
  <2> QED BY <2>2, <2>3
<1>4. CASE ReadTemp
  <2>1. csr_y - Height + 1 \in {0, 1}
    BY <1>1, <1>2, <1>4 DEF IInv, CursorNear, ReadTemp, At
  <2>2. MainType' /\ main'.pc = "copy" /\ main'.local = csr_y - Height + 1
    BY <1>1, <1>2, <1>4, GotoMoves DEF ReadTemp, Positions, BelowScreen
  <2>3. csr_x' = csr_x /\ csr_y' = csr_y BY <1>4 DEF ReadTemp, OnlyMain, screen
  <2>4. CursorNear' /\ LocalNear'
    BY <1>2, <2>1, <2>2, <2>3 DEF CursorNear, LocalNear, RightOfScreen, BelowScreen
  <2> QED BY <1>4, <2>2, <2>4, OnlyMainKeeps DEF ReadTemp
<1>5. CASE Copy
  <2> DEFINE s == Copied(Now, main.local)
  <2>1. main.local \in {0, 1} BY <1>5 DEF IInv, LocalNear, Copy, At
  <2> main.local \in Nat BY <2>1
  <2>2. s \in Screens /\ s.x = csr_x /\ s.y = csr_y BY <1>1, CopiedNear
  <2> HIDE DEF s
  <2>3. Becomes(s) /\ csr_x' = csr_x BY <1>5, <2>2 DEF Copy, Becomes, s
  <2>4. MainType' /\ main'.pc = "blank" /\ main'.local = main.local
    BY <1>1, <1>5, <2>1, GotoMoves DEF Copy, Positions, BelowScreen
  <2>5. CursorNear' /\ LocalNear'
    BY <1>2, <2>1, <2>3, <2>4 DEF CursorNear, LocalNear, RightOfScreen, BelowScreen
  <2> QED BY <1>1, <2>2, <2>3, <2>4, <2>5, ScreenKept
<1>6. CASE Blank
  <2> DEFINE s == Written(Now, Row(Height - main.local), "blank")
  <2>1. main.local \in {0, 1} BY <1>6 DEF IInv, LocalNear, Blank, At
  <2>2. Row(Height - main.local) \subseteq Cells \cup Row(Height)
    <3>1. CASE main.local = 0
      <4>1. Height - main.local = Height BY <1>2, <3>1
      <4> QED BY <4>1
    <3>2. CASE main.local = 1
      <4>1. Height - main.local \in 0 .. Height - 1 BY <1>2, <3>2
      <4> QED BY <4>1, RowsAreCells
    <3> QED BY <2>1, <3>1, <3>2
  <2>3. s \in Screens /\ s.x = csr_x /\ s.y = csr_y
    BY <1>1, <2>2, WrittenNear DEF Who
  <2> HIDE DEF s
  <2>4. Becomes(s) /\ csr_x' = csr_x BY <1>6, <2>3 DEF Blank, Becomes, s
  <2>5. MainType' /\ main'.pc = "last"
    BY <1>1, <1>2, <1>6, GotoMoves DEF Blank, Positions, BelowScreen
  <2>6. CursorNear' /\ LocalNear'
    BY <1>2, <2>4, <2>5 DEF CursorNear, LocalNear, RightOfScreen, BelowScreen
  <2> QED BY <1>1, <2>3, <2>4, <2>5, <2>6, ScreenKept
<1>7. CASE LastRow
  <2> DEFINE s == Bottom(Now)
  <2>1. s \in Screens /\ s.x = csr_x /\ s.y = Height - 1
    BY <1>1, <1>2 DEF Bottom, Screens
  <2> HIDE DEF s
  <2>2. Becomes(s) /\ csr_x' = csr_x /\ csr_y' = Height - 1
    BY <1>7, <2>1 DEF LastRow, Becomes, s
  <2>3. MainType' /\ main'.pc = "enter" BY <1>1, <1>7, ReturnMoves DEF LastRow
  <2>4. CursorNear' /\ LocalNear' /\ s.y \in 0 .. Height
    BY <1>2, <2>1, <2>2, <2>3 DEF CursorNear, LocalNear, RightOfScreen, BelowScreen
  <2> QED BY <1>1, <2>1, <2>2, <2>3, <2>4, ScreenKept
<1> QED BY <1>3, <1>4, <1>5, <1>6, <1>7

LEMMA LockKeepsIInv == ASSUME IInv, Lock PROVE IInv'
<1>1. main.pc = "enter" /\ ~Done /\ MainType /\ vga_locked' \in BOOLEAN /\ tstop' = tstop
      /\ csr_x' = csr_x /\ csr_y' = csr_y /\ text' = text /\ stray' = stray
  BY DEF IInv, Lock, lock_vga, unlock_vga, At, screen
<1>2. MainType' /\ main'.pc = "enter" BY <1>1, ReturnMoves DEF Lock
<1>3. CursorNear' /\ LocalNear'
  BY <1>1, <1>2 DEF IInv, CursorNear, LocalNear, RightOfScreen, BelowScreen
<1> QED BY <1>1, <1>2, <1>3 DEF IInv, ConsoleTypeOK, StraysStayNear, MainType

(* A key: what the main thread carries stays, and the cursor is where it    *)
(* was or on the screen; if it was below, it is in the last row.           *)
LEMMA KeyKeepsIInv ==
  ASSUME IInv, NEW key \in Keys, keyboard_handler(key)
  PROVE  IInv'
<1> DEFINE s == putch(Now, key)
<1>1. Now \in Screens /\ Now.x = csr_x /\ Now.y = csr_y /\ csr_x \in 0 .. Width
      /\ csr_y \in 0 .. Height /\ MainType /\ CursorNear /\ LocalNear
      /\ tstop' \in {-1} \cup Cells /\ vga_locked' \in BOOLEAN
      /\ Width \in Nat \ {0} /\ Height \in Nat
  BY NowIsScreen, Sizes DEF IInv, ConsoleTypeOK, keyboard_handler
<1>2. Becomes(s) /\ main' = main BY DEF keyboard_handler
<1>3. MainType' /\ LocalNear' BY <1>1, <1>2 DEF MainType, LocalNear, Done
<1>4. csr_y < Height \/ csr_x < Width
  BY <1>1 DEF CursorNear, RightOfScreen, BelowScreen
<1>5. \/ s = Now
      \/ /\ s \in Screens
         /\ s.x \in 0 .. Width - 1
         /\ s.y \in 0 .. Height - 1
         /\ Now.y >= Height - 1 => s.y = Height - 1
  <2>1. Now.x \in 0 .. Width /\ Now.y \in 0 .. Height /\ (Now.y < Height \/ Now.x < Width)
    BY <1>1, <1>4
  <2> QED BY <1>1, <2>1, KeyReturnsToScreen
<1> HIDE DEF s
<1>6. s \in Screens /\ s.x \in 0 .. Width /\ s.y \in 0 .. Height BY <1>1, <1>5
<1>7. CursorNear' BY <1>1, <1>2, <1>5 DEF CursorNear, Becomes
<1> QED BY <1>1, <1>2, <1>3, <1>6, <1>7, ScreenKept

LEMMA NextKeepsIInv == ASSUME IInv, [Next]_vars PROVE IInv'
<1>1. CASE Main
  BY <1>1, EnterKeepsIInv, AddressKeepsIInv, tab_stopKeepsIInv, ClsKeepsIInv,
     StoreKeepsIInv, LineKeepsIInv, ScrollKeepsIInv, LockKeepsIInv
  DEF Main
<1>2. CASE \E key \in Keys : keyboard_handler(key) BY <1>2, KeyKeepsIInv
<1>3. CASE UNCHANGED vars
  <2>1. csr_x' = csr_x /\ csr_y' = csr_y /\ text' = text /\ stray' = stray
        /\ tstop' = tstop /\ vga_locked' = vga_locked /\ main' = main
    BY <1>3 DEF vars, screen
  <2> QED BY <2>1 DEF IInv, ConsoleTypeOK, StraysStayNear, MainType, CursorNear, LocalNear, Done
<1> QED BY <1>1, <1>2, <1>3 DEF Next
-----------------------------------------------------------------------------
THEOREM Invariance == Spec => []IInv
<1>1. IInv /\ [Next]_vars => IInv' BY NextKeepsIInv
<1> QED BY InitInv, <1>1, PTL DEF Spec

(* csr_x and csr_y pass the edge of the screen by one at most, the tab stop *)
(* is a cell, and the screen holds what one of the two wrote.              *)
THEOREM TypeCorrect == Spec => []ConsoleTypeOK
<1>1. IInv => ConsoleTypeOK BY DEF IInv
<1> QED BY Invariance, <1>1, PTL

(* No write of the driver, however a key interrupts the main thread, is     *)
(* outside the screen but in the row right below it.                       *)
THEOREM WritesStayNear == Spec => []StraysStayNear
<1>1. IInv => StraysStayNear BY DEF IInv
<1> QED BY Invariance, <1>1, PTL

(* The cursor is on the screen whenever the main thread is not printing.    *)
THEOREM CursorReturns == Spec => []CursorOnScreen
<1>1. IInv => CursorOnScreen
  BY Sizes DEF IInv, ConsoleTypeOK, MainType, CursorNear, CursorOnScreen, RightOfScreen,
     BelowScreen
<1> QED BY Invariance, <1>1, PTL
-----------------------------------------------------------------------------
(* The prompt.  Of what the main thread has printed, nothing before the tab *)
(* stop lies at the cursor or behind it.                                   *)
Clear(s, stop) == \A c \in Cells : s.text[c] = "main" /\ c < stop => c < Loc(s)

LEMMA TabAhead ==
  ASSUME NEW x \in Nat
  PROVE  (x \div Tab + 1) * Tab \in Nat /\ (x \div Tab + 1) * Tab >= x
<1> DEFINE q == x \div Tab
           r == x % Tab
<1>1. q \in Nat /\ r \in 0 .. Tab - 1 /\ x = Tab * q + r BY Sizes
<1> HIDE DEF q, r
<1>2. (q + 1) * Tab = Tab * q + Tab /\ Tab * q \in Nat BY <1>1, Sizes
<1> QED BY <1>1, <1>2, Sizes DEF q

LEMMA WrittenText ==
  ASSUME NEW s \in Screens, NEW A, NEW who
  PROVE  \A c \in Cells : Written(s, A, who).text[c] = IF c \in A THEN who ELSE s.text[c]
BY DEF Written, Screens

(* What a key writes, and where it leaves the cursor before a scroll. *)
LEMMA TypedWraps ==
  ASSUME NEW s \in Screens, s.x \in 0 .. Width - 1, s.y \in 0 .. Height - 1, NEW key \in Keys
  PROVE  LET w == Wrapped(Typed(s, key))
         IN  /\ w \in Screens /\ w.x \in 0 .. Width - 1 /\ w.y \in s.y .. s.y + 1
             /\ key # "backspace" =>
                  /\ Loc(s) <= Loc(w)
                  /\ \A c \in Cells : c # Loc(s) => w.text[c] = s.text[c]
                  /\ \A c \in Cells : w.text[c] = "main" => s.text[c] = "main"
             /\ key = "backspace" =>
                  /\ w.y = s.y /\ Loc(w) \in {Loc(s) - 1, Loc(s)}
                  /\ \A c \in Cells : w.text[c] = IF c = Loc(w) THEN "blank" ELSE s.text[c]
<1> DEFINE t == Typed(s, key)
           w == Wrapped(t)
<1>1. /\ s.x \in Int /\ s.y \in Int /\ Width \in Nat \ {0} /\ Height \in Nat
      /\ s.y * Width \in Int /\ (s.y + 1) * Width = s.y * Width + Width
      /\ Loc(s) = s.y * Width + s.x /\ Loc(s) \in Cells /\ s.text \in [Cells -> Who]
  <2>1. s.y \in 0 .. Height /\ s.x \in 0 .. Width /\ s.y < Height /\ s.x < Width BY Sizes
  <2>2. s.y * Width + s.x \in Cells BY <2>1, CellsHaveRows
  <2> QED BY <2>2, Sizes, RowsInOrder DEF Screens, Loc
<1>2. ASSUME key # "backspace"
      PROVE  /\ t \in Screens /\ t.x \in Nat
             /\ \/ t.y = s.y /\ t.x >= s.x
                \/ t.y = s.y + 1 /\ t.x = 0
             /\ \A c \in Cells : c # Loc(s) => t.text[c] = s.text[c]
             /\ \A c \in Cells : t.text[c] = "main" => s.text[c] = "main"
  <2>1. CASE key = "char"
    <3> DEFINE u == Written(s, {Loc(s)}, "key")
    <3>1. u \in Screens /\ u.x = s.x /\ u.y = s.y BY <1>1, WrittenNear DEF Who
    <3>2. \A c \in Cells : u.text[c] = IF c = Loc(s) THEN "key" ELSE s.text[c]
      BY WrittenText
    <3> HIDE DEF u
    <3>3. t = [u EXCEPT !.x = u.x + 1] BY <2>1 DEF Typed, u
    <3>4. t \in Screens /\ t.x = s.x + 1 /\ t.y = s.y /\ t.text = u.text
      BY <1>1, <3>1, <3>3 DEF Screens
    <3> QED BY <1>1, <3>2, <3>4
  <2>2. CASE key = "tab"
    <3>1. (s.x \div Tab + 1) * Tab \in Nat /\ (s.x \div Tab + 1) * Tab >= s.x
      <4> s.x \in Nat BY <1>1
      <4> QED BY TabAhead
    <3>2. t = [s EXCEPT !.x = (s.x \div Tab + 1) * Tab] BY <2>2 DEF Typed
    <3> QED BY <3>1, <3>2 DEF Screens
  <2>3. CASE key = "newline"
    <3>1. t = NextLine(s) BY <2>3 DEF Typed
    <3>2. t.text = s.text BY <3>1 DEF NextLine, Screens
    <3> QED BY <3>1, <3>2, NextLineStart
  <2>4. CASE key = "other"
    BY <1>1, <2>4 DEF Typed
  <2> QED BY <1>2, <2>1, <2>2, <2>3, <2>4 DEF Keys
<1>3. ASSUME key = "backspace"
      PROVE  /\ t \in Screens /\ t.x \in 0 .. Width - 1 /\ t.y = s.y
             /\ Loc(t) \in {Loc(s) - 1, Loc(s)}
             /\ \A c \in Cells : t.text[c] = IF c = Loc(t) THEN "blank" ELSE s.text[c]
  <2> DEFINE l == Left(s)
  <2>1. /\ l \in Screens /\ l.x \in {s.x - 1, s.x} /\ l.x \in 0 .. Width - 1 /\ l.y = s.y
        /\ l.text = s.text
    BY <1>1 DEF Left, Screens
  <2> HIDE DEF l
  <2>2. Loc(l) = s.y * Width + l.x /\ Loc(l) \in Cells
    <3>1. l.y \in 0 .. Height /\ l.x \in 0 .. Width /\ l.y < Height /\ l.x < Width
      BY <1>1, <2>1
    <3>2. l.y * Width + l.x \in Cells BY <3>1, CellsHaveRows
    <3> QED BY <2>1, <3>2 DEF Loc
  <2>3. t = Written(l, {Loc(l)}, "blank") BY <1>3 DEF Typed, l
  <2>4. t \in Screens /\ t.x = l.x /\ t.y = l.y
    BY <2>1, <2>2, <2>3, WrittenNear DEF Who
  <2>5. \A c \in Cells : t.text[c] = IF c = Loc(l) THEN "blank" ELSE s.text[c]
    BY <2>1, <2>3, WrittenText
  <2>6. Loc(t) = Loc(l) BY <2>4 DEF Loc
  <2> QED BY <1>1, <2>1, <2>2, <2>4, <2>5, <2>6
<1> HIDE DEF t
<1>4. ASSUME key # "backspace"
      PROVE  /\ w \in Screens /\ w.x \in 0 .. Width - 1 /\ w.y \in s.y .. s.y + 1
             /\ Loc(s) <= Loc(w) /\ w.text = t.text
  <2>1. CASE t.x >= Width
    <3>1. w = NextLine(t) BY <2>1 DEF Wrapped, MustWrap
    <3>2. t.y = s.y /\ t.x # 0 BY <1>1, <1>2, <1>4, <2>1
    <3>3. w \in Screens /\ w.x = 0 /\ w.y = s.y + 1 BY <1>2, <1>4, <3>1, <3>2, NextLineStart
    <3>4. w.text = t.text BY <1>2, <1>4, <3>1 DEF NextLine, Screens
    <3>5. Loc(w) = (s.y + 1) * Width BY <1>1, <3>3 DEF Loc
    <3> QED BY <1>1, <3>3, <3>4, <3>5
  <2>2. CASE ~(t.x >= Width)
    <3>1. w = t BY <2>2 DEF Wrapped, MustWrap
    <3>2. t.x \in 0 .. Width - 1 BY <1>1, <1>2, <1>4, <2>2
    <3>3. Loc(s) <= Loc(t)
      <4>1. CASE t.y = s.y /\ t.x >= s.x BY <1>1, <3>2, <4>1 DEF Loc
      <4>2. CASE t.y = s.y + 1 /\ t.x = 0 BY <1>1, <4>2 DEF Loc
      <4> QED BY <1>2, <1>4, <4>1, <4>2
    <3> QED BY <1>1, <1>2, <1>4, <3>1, <3>2, <3>3
  <2> QED BY <2>1, <2>2
<1>5. key = "backspace" => w = t
  <2>1. key = "backspace" => ~(t.x >= Width) BY <1>1, <1>3
  <2> QED BY <2>1 DEF Wrapped, MustWrap
<1>6. CASE key = "backspace"
  <2>1. /\ w \in Screens /\ w.x \in 0 .. Width - 1 /\ w.y = s.y
        /\ Loc(w) \in {Loc(s) - 1, Loc(s)}
        /\ \A c \in Cells : w.text[c] = IF c = Loc(w) THEN "blank" ELSE s.text[c]
    BY <1>3, <1>5, <1>6
  <2> HIDE DEF w
  <2> QED BY <1>1, <1>6, <2>1 DEF w, t
<1>7. CASE key # "backspace"
  <2>1. /\ w \in Screens /\ w.x \in 0 .. Width - 1 /\ w.y \in s.y .. s.y + 1
        /\ Loc(s) <= Loc(w)
        /\ \A c \in Cells : c # Loc(s) => w.text[c] = s.text[c]
        /\ \A c \in Cells : w.text[c] = "main" => s.text[c] = "main"
    BY <1>2, <1>4, <1>7
  <2> HIDE DEF w
  <2> QED BY <1>7, <2>1 DEF w, t
<1> QED BY <1>6, <1>7

(* A scroll by one row: all of it moves up, and the last row is blank. *)
LEMMA ScrolledText ==
  ASSUME NEW s \in Screens, s.y = Height
  PROVE  \A c \in Cells :
           /\ c < (Height - 1) * Width => /\ c + Width \in Cells
                                          /\ Scrolled(s).text[c] = s.text[c + Width]
           /\ c >= (Height - 1) * Width => Scrolled(s).text[c] = "blank"
<1>1. Height - s.y = 0 /\ s.y - Height + 1 = 1 BY Sizes
<1>2. Scrolled(s) = Bottom(Shifted(s, 1)) BY <1>1, Sizes DEF Scrolled, MustScroll
<1> DEFINE k == Copied(s, 1)
<1>3. /\ k \in Screens
      /\ \A c \in Cells :
           k.text[c] = IF c < (Height - 1) * Width THEN s.text[c + 1 * Width] ELSE s.text[c]
  <2>1. k \in Screens BY CopiedNear
  <2>2. k.text = [c \in Cells |-> IF c < (Height - 1) * Width THEN s.text[c + 1 * Width]
                                  ELSE s.text[c]]
    BY DEF Copied, Screens
  <2> HIDE DEF k
  <2> QED BY <2>1, <2>2
<1> HIDE DEF k
<1> DEFINE h == Shifted(s, 1)
<1>4. \A c \in Cells : h.text[c] = IF c \in Row(Height - 1) THEN "blank" ELSE k.text[c]
  <2>1. h = Written(k, Row(Height - 1), "blank") BY DEF Shifted, k
  <2> HIDE DEF h
  <2> QED BY <1>3, <2>1, WrittenText
<1>5. Scrolled(s).text = h.text
  <2>1. h \in Screens
    <3>1. h = Written(k, Row(Height - 1), "blank") BY DEF Shifted, k
    <3>2. Row(Height - 1) \subseteq Cells
      <4>1. Height - 1 \in 0 .. Height - 1 BY Sizes
      <4> QED BY <4>1, RowsAreCells
    <3> QED BY <1>3, <3>1, <3>2, WrittenNear DEF Who
  <2> HIDE DEF h
  <2>2. Bottom(h).text = h.text BY <2>1 DEF Bottom, Screens
  <2> QED BY <1>2, <2>2 DEF h
<1> HIDE DEF h
<1>6. /\ (Height - 1) * Width \in Nat /\ Height * Width = (Height - 1) * Width + Width
      /\ Width * Height = Height * Width /\ 1 * Width = Width /\ Width \in Nat
      /\ (Height - 1 + 1) * Width = Height * Width
  <2>1. Height - 1 \in Nat /\ Height - 1 + 1 = Height BY Sizes
  <2>2. (Height - 1) * Width \in Nat /\ (Height - 1 + 1) * Width = (Height - 1) * Width + Width
    BY <2>1, Sizes
  <2> QED BY <2>1, <2>2, Sizes
<1>7. \A c \in Cells : c \in Row(Height - 1) <=> c >= (Height - 1) * Width
  BY <1>6 DEF Row, Cells
<1>8. \A c \in Cells : c < (Height - 1) * Width => c + Width \in Cells
  BY <1>6 DEF Cells
<1> TAKE c \in Cells
<1>9. CASE c < (Height - 1) * Width
  <2>1. ~(c >= (Height - 1) * Width) BY <1>6, <1>9 DEF Cells
  <2> QED BY <1>3, <1>4, <1>5, <1>6, <1>7, <1>8, <1>9, <2>1
<1>10. CASE ~(c < (Height - 1) * Width)
  <2>1. c >= (Height - 1) * Width BY <1>6, <1>10 DEF Cells
  <2> QED BY <1>4, <1>5, <1>7, <1>10, <2>1
<1> QED BY <1>9, <1>10

(* putch of a key, in these terms: nothing, or a write, a wrap and a scroll. *)
LEMMA KeyIs ==
  ASSUME NEW s \in Screens, s.x \in 0 .. Width - 1, s.y \in 0 .. Height - 1, NEW key \in Keys
  PROVE  LET w == Wrapped(Typed(s, key))
         IN  \/ putch(s, key) = s
             \/ /\ putch(s, key) = w /\ w.y \in 0 .. Height - 1
                /\ key = "backspace" => ~AtStop(s)
             \/ /\ putch(s, key) = Scrolled(w) /\ w.y = Height /\ key # "backspace"
<1> DEFINE w == Wrapped(Typed(s, key))
<1>1. w.y \in s.y .. s.y + 1 /\ (key = "backspace" => w.y = s.y) BY TypedWraps
<1>2. \/ putch(s, key) = s
      \/ putch(s, key) = Scrolled(w) /\ (key = "backspace" => ~AtStop(s))
  BY DEF putch
<1> HIDE DEF w
<1>3. CASE w.y = Height
  <2>1. key # "backspace" BY <1>1, <1>3, Sizes
  <2> QED BY <1>2, <1>3, <2>1 DEF w
<1>4. CASE w.y # Height
  <2>1. w.y \in 0 .. Height - 1 BY <1>1, <1>4, Sizes
  <2>2. Scrolled(w) = w BY <2>1, Sizes DEF Scrolled, MustScroll
  <2> QED BY <1>2, <2>1, <2>2 DEF w
<1> QED BY <1>3, <1>4

LEMMA LastRowStarts ==
  /\ (Height - 1) * Width \in Nat /\ \A c \in Cells : c \in Int
  /\ \A c \in Cells \ Row(0) : c - Width \in Cells /\ c - Width < (Height - 1) * Width
<1>1. Height - 1 \in Nat /\ Width \in Nat /\ Height \in Int /\ (Height - 1) * Width \in Nat BY Sizes
<1>2. (Height - 1 + 1) * Width = (Height - 1) * Width + Width /\ Height - 1 + 1 = Height
  BY <1>1, Sizes
<1>3. Width * Height = (Height - 1) * Width + Width /\ (0 + 1) * Width = Width /\ 0 * Width = 0
  BY <1>1, <1>2, Sizes
<1>4. \A c \in Cells : c \in Int BY DEF Cells
<1>5. \A c \in Cells \ Row(0) : c - Width \in Cells /\ c - Width < (Height - 1) * Width
  BY <1>1, <1>3 DEF Cells, Row
<1> QED BY <1>1, <1>4, <1>5

(* No key puts the cursor before what the main thread has printed. *)
LEMMA KeyKeepsClear ==
  ASSUME NEW s \in Screens, s.x \in 0 .. Width - 1, s.y \in 0 .. Height - 1, NEW key \in Keys,
         NEW stop \in Int, Clear(s, stop)
  PROVE  /\ Clear(putch(s, key), stop)
         /\ putch(s, key).y \in s.y .. Height - 1
<1> DEFINE w == Wrapped(Typed(s, key))
           p == putch(s, key)
<1>1. /\ w \in Screens /\ w.x \in 0 .. Width - 1 /\ w.y \in s.y .. s.y + 1
      /\ key # "backspace" =>
           /\ Loc(s) <= Loc(w)
           /\ \A c \in Cells : w.text[c] = "main" => s.text[c] = "main"
      /\ key = "backspace" =>
           /\ w.y = s.y /\ Loc(w) \in {Loc(s) - 1, Loc(s)}
           /\ \A c \in Cells : w.text[c] = IF c = Loc(w) THEN "blank" ELSE s.text[c]
  BY TypedWraps
<1>2. \/ p = s
      \/ p = w /\ w.y \in 0 .. Height - 1
      \/ p = Scrolled(w) /\ w.y = Height
  BY KeyIs
<1>3. Loc(s) \in Int /\ Loc(w) \in Int
  <2> w.x \in Int /\ w.y \in Int /\ Width \in Int /\ s.x \in Int /\ s.y \in Int
    BY <1>1, Sizes DEF Screens
  <2> HIDE DEF w
  <2> QED BY DEF Loc
<1> HIDE DEF w, p
<1>4. ASSUME p = w, w.y \in 0 .. Height - 1 PROVE Clear(p, stop) /\ p.y \in s.y .. Height - 1
  <2>1. ASSUME NEW c \in Cells, w.text[c] = "main", c < stop PROVE c < Loc(w)
    <3>1. CASE key = "backspace"
      <4>1. c # Loc(w) /\ s.text[c] = "main" BY <1>1, <2>1, <3>1
      <4>2. c < Loc(s) BY <2>1, <4>1 DEF Clear
      <4> QED BY <1>1, <1>3, <3>1, <4>1, <4>2, LastRowStarts
    <3>2. CASE key # "backspace"
      <4>1. c < Loc(s) /\ Loc(s) <= Loc(w) BY <1>1, <2>1, <3>2 DEF Clear
      <4> QED BY <1>3, <4>1, LastRowStarts
    <3> QED BY <3>1, <3>2
  <2> QED BY <1>1, <1>4, <2>1, Sizes DEF Clear, Screens
<1>5. ASSUME p = Scrolled(w), w.y = Height PROVE Clear(p, stop) /\ p.y \in s.y .. Height - 1
  <2>1. p \in Screens /\ p.x = w.x /\ p.y = Height - 1
    BY <1>1, <1>5, ScrolledNear, Sizes
  <2>2. Loc(p) = (Height - 1) * Width + w.x BY <2>1 DEF Loc
  <2>3. \A c \in Cells : c >= (Height - 1) * Width => p.text[c] = "blank"
    BY <1>1, <1>5, ScrolledText
  <2>4. ASSUME NEW c \in Cells, p.text[c] = "main" PROVE c < Loc(p)
    <3>1. ~(c >= (Height - 1) * Width) BY <2>3, <2>4
    <3> QED BY <1>1, <2>2, <3>1, LastRowStarts, Sizes
  <2> QED BY <2>1, <2>4, Sizes DEF Clear
<1>6. ASSUME p = s PROVE Clear(p, stop) /\ p.y \in s.y .. Height - 1
  BY <1>6, Sizes
<1> QED BY <1>2, <1>4, <1>5, <1>6 DEF p

(* Of what the main thread has printed before the tab stop, a key leaves    *)
(* all where it is, or moves all but the first row up.                      *)
LEMMA KeyKeepsPrompt ==
  ASSUME NEW s \in Screens, s.x \in 0 .. Width - 1, s.y \in 0 .. Height - 1, NEW key \in Keys,
         tstop \in Int, Clear(s, tstop)
  PROVE  \/ \A c \in Cells : s.text[c] = "main" /\ c < tstop => putch(s, key).text[c] = "main"
         \/ \A c \in Cells \ Row(0) :
              s.text[c] = "main" /\ c < tstop => putch(s, key).text[c - Width] = "main"
<1> DEFINE w == Wrapped(Typed(s, key))
           p == putch(s, key)
<1>1. /\ w \in Screens
      /\ key # "backspace" => \A c \in Cells : c # Loc(s) => w.text[c] = s.text[c]
      /\ key = "backspace" =>
           /\ Loc(w) \in {Loc(s) - 1, Loc(s)}
           /\ \A c \in Cells : w.text[c] = IF c = Loc(w) THEN "blank" ELSE s.text[c]
  BY TypedWraps
<1>2. \/ p = s
      \/ p = w /\ (key = "backspace" => ~AtStop(s))
      \/ p = Scrolled(w) /\ w.y = Height /\ key # "backspace"
  BY KeyIs
<1>3. Loc(s) \in Int
  <2> s.x \in Int /\ s.y \in Int /\ Width \in Int BY Sizes DEF Screens
  <2> QED BY DEF Loc
<1> HIDE DEF w, p
<1>4. ASSUME key = "backspace" => ~AtStop(s), NEW c \in Cells, s.text[c] = "main", c < tstop
      PROVE  w.text[c] = "main"
  <2>1. c < Loc(s) BY <1>4 DEF Clear
  <2>2. CASE key = "backspace"
    <3>1. Loc(s) > tstop BY <1>3, <1>4, <2>2 DEF AtStop
    <3>2. c # Loc(w) BY <1>1, <1>3, <1>4, <2>1, <2>2, <3>1, LastRowStarts
    <3> QED BY <1>1, <1>4, <2>2, <3>2
  <2>3. CASE key # "backspace" BY <1>1, <1>3, <1>4, <2>1, <2>3, LastRowStarts
  <2> QED BY <2>2, <2>3
<1>5. CASE p = s BY <1>5 DEF p
<1>6. CASE p = w /\ (key = "backspace" => ~AtStop(s)) BY <1>4, <1>6 DEF p
<1>7. CASE p = Scrolled(w) /\ w.y = Height /\ key # "backspace"
  <2>1. ASSUME NEW c \in Cells \ Row(0), s.text[c] = "main", c < tstop
        PROVE  p.text[c - Width] = "main"
    <3> DEFINE d == c - Width
    <3>1. w.text[c] = "main" BY <1>4, <1>7, <2>1
    <3>2. d \in Cells /\ d < (Height - 1) * Width /\ d + Width = c
      BY <2>1, LastRowStarts, Sizes
    <3> HIDE DEF d
    <3>3. p.text[d] = w.text[d + Width] BY <1>1, <1>7, <3>2, ScrolledText
    <3> QED BY <3>1, <3>2, <3>3 DEF d
  <2> QED BY <2>1 DEF p
<1> QED BY <1>2, <1>5, <1>6, <1>7

(* A script that ends like terminal(), with the tab stop behind the prompt. *)
EndsInTabStop == Script # <<>> /\ Script[Len(Script)] = "tab_stop"

(* From the first of its reads on, the address tab_stop comes to is not     *)
(* behind the cursor, or nothing printed lies between the two.             *)
PromptInv ==
  /\ main.op = Len(Script) =>
       /\ main.pc \in {"enter", "row", "column", "stop"}
       /\ main.pc = "column" => main.local <= csr_y * Width
       /\ main.pc = "stop" => Clear(Now, main.local)
  /\ Done => Clear(Now, tstop)

LEMMA InitPrompt == EndsInTabStop /\ Init => PromptInv
<1> SUFFICES ASSUME EndsInTabStop, Init PROVE PromptInv OBVIOUS
<1>1. Len(Script) \in Nat /\ Len(Script) # 0 BY ConsoleAssumption DEF EndsInTabStop
<1> QED BY <1>1 DEF Init, PromptInv, Done

LEMMA MainKeepsPrompt == ASSUME EndsInTabStop, IInv, PromptInv, Main PROVE PromptInv'
<1>1. /\ Len(Script) \in Nat /\ ~Done /\ MainType /\ main.op \in 1 .. Len(Script)
      /\ Script[Len(Script)] = "tab_stop"
  <2>1. Len(Script) \in Nat BY ConsoleAssumption
  <2>2. ~Done
    BY DEF Main, Enter, ReadRow, ReadColumn, tab_stop, ClearRow, HomeX, HomeY, Store, ReadX,
       WriteX, Margin, Line, ReadY, WriteY, TestBottom, ReadTemp, Copy, Blank, LastRow, Lock,
       lock_vga, unlock_vga, At
  <2> QED BY <2>1, <2>2 DEF IInv, MainType, Done, EndsInTabStop
<1>2. CASE main.op # Len(Script)
  <2>1. \/ Return
        \/ \E pc, value : Goto(pc, value)
    BY DEF Main, Enter, ReadRow, ReadColumn, tab_stop, ClearRow, HomeX, HomeY, Store, ReadX,
       WriteX, Margin, Line, ReadY, WriteY, TestBottom, ReadTemp, Copy, Blank, LastRow, Lock
  <2>2. CASE Return
    <3>1. main'.op = main.op + 1 /\ main'.pc = "enter" BY <2>2 DEF Return
    <3> QED BY <1>1, <1>2, <3>1 DEF PromptInv, Done
  <2>3. ASSUME NEW pc, NEW value, Goto(pc, value) PROVE PromptInv'
    <3>1. main'.op = main.op BY <1>1, <2>3 DEF Goto, MainType
    <3> QED BY <1>1, <1>2, <3>1 DEF PromptInv, Done
  <2> QED BY <2>1, <2>2, <2>3
<1>3. CASE main.op = Len(Script)
  <2>1. main.pc \in {"enter", "row", "column", "stop"} /\ Script[main.op] = "tab_stop"
    BY <1>1, <1>3 DEF PromptInv
  <2>2. Enter \/ ReadRow \/ ReadColumn \/ tab_stop
    BY <2>1
    DEF Main, ClearRow, HomeX, HomeY, Store, ReadX, WriteX, Margin, Line, ReadY, WriteY,
        TestBottom, ReadTemp, Copy, Blank, LastRow, Lock, lock_vga, unlock_vga, At, Doing
  <2>3. /\ csr_x \in Int /\ csr_y \in Int /\ Width \in Int /\ csr_x \in 0 .. Width - 1
        /\ csr_y \in 0 .. Height - 1 /\ main.local \in Int /\ csr_y * Width \in Int
    BY <1>1, <2>1, Sizes
    DEF IInv, ConsoleTypeOK, CursorNear, MainType, RightOfScreen, BelowScreen
  <2>4. CASE Enter
    <3>1. Goto("row", 0) BY <2>1, <2>4 DEF Enter, Doing
    <3>2. main'.op = main.op /\ main'.pc = "row" BY <1>1, <3>1 DEF Goto, MainType
    <3> QED BY <1>1, <1>3, <3>2 DEF PromptInv, Done
  <2>5. CASE ReadRow
    <3>1. Goto("column", csr_y * Width) /\ csr_y' = csr_y
      BY <2>5 DEF ReadRow, OnlyMain, screen
    <3>2. main'.op = main.op /\ main'.pc = "column" /\ main'.local = csr_y * Width
      BY <1>1, <3>1 DEF Goto, MainType
    <3> QED BY <1>1, <1>3, <2>3, <3>1, <3>2 DEF PromptInv, Done
  <2>6. CASE ReadColumn
    <3>1. /\ Goto("stop", main.local + csr_x) /\ main.local <= csr_y * Width
          /\ csr_x' = csr_x /\ csr_y' = csr_y /\ text' = text /\ stray' = stray
      BY <1>3, <2>1, <2>6 DEF ReadColumn, At, Doing, OnlyMain, screen, PromptInv
    <3>2. main'.op = main.op /\ main'.pc = "stop" /\ main'.local = main.local + csr_x
      BY <1>1, <3>1 DEF Goto, MainType
    <3>3. Loc(Now) = csr_y * Width + csr_x BY DEF Loc, Now
    <3>4. main.local + csr_x <= Loc(Now) BY <2>3, <3>1, <3>3
    <3>5. \A c \in Cells : c < main.local + csr_x => c < Loc(Now)
      BY <2>3, <3>3, <3>4, LastRowStarts
    <3>6. Now' = Now BY <3>1 DEF Now
    <3>7. Clear(Now, main.local)' BY <3>2, <3>5, <3>6 DEF Clear, Cells, Loc
    <3> QED BY <1>1, <1>3, <3>2, <3>7 DEF PromptInv, Done
  <2>7. CASE tab_stop
    <3>1. /\ Clear(Now, main.local) /\ tstop' = main.local
          /\ csr_x' = csr_x /\ csr_y' = csr_y /\ text' = text /\ stray' = stray
      BY <1>3, <2>7 DEF tab_stop, At, screen, PromptInv
    <3>2. main'.op = main.op + 1 BY <2>7 DEF tab_stop, Return
    <3>3. Now' = Now BY <3>1 DEF Now
    <3>4. Clear(Now, tstop)' BY <3>1, <3>3 DEF Clear, Cells, Loc
    <3> QED BY <1>1, <1>3, <3>2, <3>4 DEF PromptInv
  <2> QED BY <2>2, <2>4, <2>5, <2>6, <2>7
<1> QED BY <1>2, <1>3

LEMMA KeyKeepsPromptInv ==
  ASSUME EndsInTabStop, IInv, PromptInv, NEW key \in Keys, keyboard_handler(key)
  PROVE  PromptInv'
<1>1. /\ Now \in Screens /\ Now.x = csr_x /\ Now.y = csr_y /\ main' = main /\ tstop' = tstop
      /\ MainType /\ tstop \in Int /\ Len(Script) \in Nat /\ Becomes(putch(Now, key))
  BY NowIsScreen, ConsoleAssumption DEF IInv, ConsoleTypeOK, keyboard_handler, Cells
<1> SUFFICES ASSUME main.op = Len(Script) \/ Done PROVE PromptInv'
  BY <1>1 DEF PromptInv, Done
<1>2. main.pc \in {"enter", "row", "column", "stop"}
  BY <1>1 DEF PromptInv, MainType
<1>3. Now.x \in 0 .. Width - 1 /\ Now.y \in 0 .. Height - 1
  BY <1>1, <1>2, Sizes DEF IInv, ConsoleTypeOK, CursorNear, RightOfScreen, BelowScreen
<1> DEFINE p == putch(Now, key)
<1>4. csr_y' = p.y /\ Now'.text = p.text /\ Loc(Now)' = Loc(p)
  BY <1>1 DEF Becomes, Now, Loc
<1>5. \A stop \in Int : Clear(Now, stop) => Clear(p, stop)
  BY <1>1, <1>3, KeyKeepsClear
<1>6. p.y \in csr_y .. Height - 1
  <2>1. Clear(Now, -1) BY LastRowStarts DEF Clear, Cells
  <2>2. -1 \in Int OBVIOUS
  <2> QED BY <1>1, <1>3, <2>1, <2>2, KeyKeepsClear
<1> HIDE DEF p
<1>7. \A stop \in Int : Clear(p, stop) => \A c \in Cells :
        Now'.text[c] = "main" /\ c < stop => c < Loc(Now)'
  BY <1>4 DEF Clear
<1>8. main.local \in Int BY <1>1 DEF MainType
<1>9. csr_y * Width <= csr_y' * Width
  <2>1. csr_y \in Int /\ csr_y' \in Int /\ csr_y <= csr_y' BY <1>1, <1>3, <1>4, <1>6, Sizes
  <2> QED BY <2>1, RowsInOrder
<1>10. csr_y * Width \in Int /\ csr_y' * Width \in Int
  <2>1. csr_y \in Int /\ csr_y' \in Int BY <1>1, <1>3, <1>4, <1>6, Sizes
  <2> QED BY <2>1, Sizes
<1>11. ASSUME main.op = Len(Script), main.pc = "column" PROVE main'.local <= csr_y' * Width
  BY <1>1, <1>8, <1>9, <1>10, <1>11 DEF PromptInv
<1>12. ASSUME main.op = Len(Script), main.pc = "stop" PROVE Clear(Now, main.local)'
  <2>1. Clear(Now, main.local) BY <1>12 DEF PromptInv
  <2>2. Clear(p, main.local) BY <1>5, <1>8, <2>1
  <2> QED BY <1>1, <1>7, <1>8, <2>2 DEF Clear, Cells
<1>13. ASSUME Done PROVE Clear(Now, tstop)'
  <2>1. Clear(Now, tstop) BY <1>13 DEF PromptInv
  <2>2. Clear(p, tstop) BY <1>1, <1>5, <2>1
  <2> QED BY <1>1, <1>7, <2>2 DEF Clear, Cells
<1> QED BY <1>1, <1>2, <1>11, <1>12, <1>13 DEF PromptInv, Done

LEMMA NextKeepsPrompt == ASSUME EndsInTabStop, IInv, PromptInv, [Next]_vars PROVE PromptInv'
<1>1. CASE UNCHANGED vars
  <2>1. csr_x' = csr_x /\ csr_y' = csr_y /\ text' = text /\ stray' = stray
        /\ tstop' = tstop /\ main' = main
    BY <1>1 DEF vars, screen
  <2>2. Now' = Now BY <2>1 DEF Now
  <2> QED BY <2>1, <2>2 DEF PromptInv, Clear, Loc, Cells, Done
<1> QED BY <1>1, MainKeepsPrompt, KeyKeepsPromptInv DEF Next

(* Once the main thread is done, a key leaves the prompt where it is, or    *)
(* moves it up with the screen; it neither erases nor overwrites it,        *)
(* although tab_stop does not move when the screen does.                    *)
THEOREM PromptStays == EndsInTabStop => (Spec => PromptKept)
<1> SUFFICES ASSUME EndsInTabStop PROVE Spec => PromptKept OBVIOUS
<1>1. IInv /\ PromptInv /\ [Next]_vars => PromptInv'
  BY NextKeepsPrompt
<1>2. Init => PromptInv BY InitPrompt
<1>3. ASSUME IInv, PromptInv, [Next]_vars
      PROVE  [Done => \/ \A c \in Prompt : text'[c] = "main"
                      \/ \A c \in Prompt \ Row(0) : text'[c - Width] = "main"]_vars
  <2> SUFFICES ASSUME Done, Next
               PROVE  \/ \A c \in Prompt : text'[c] = "main"
                      \/ \A c \in Prompt \ Row(0) : text'[c - Width] = "main"
    BY <1>3
  <2>1. ~Main
    BY DEF Main, Enter, ReadRow, ReadColumn, tab_stop, ClearRow, HomeX, HomeY, Store, ReadX,
       WriteX, Margin, Line, ReadY, WriteY, TestBottom, ReadTemp, Copy, Blank, LastRow, Lock,
       lock_vga, unlock_vga, At
  <2>2. PICK key \in Keys : keyboard_handler(key) BY <2>1 DEF Next
  <2>3. /\ Now \in Screens /\ Now.x = csr_x /\ Now.y = csr_y /\ tstop \in Int
        /\ text' = putch(Now, key).text /\ Now.text = text
    BY <1>3, <2>2, NowIsScreen DEF IInv, ConsoleTypeOK, keyboard_handler, Becomes, Cells, Now
  <2>4. Now.x \in 0 .. Width - 1 /\ Now.y \in 0 .. Height - 1
    BY <1>3, <2>3, Sizes
    DEF IInv, ConsoleTypeOK, MainType, CursorNear, RightOfScreen, BelowScreen
  <2>5. Clear(Now, tstop) BY <1>3 DEF PromptInv
  <2>6. \/ \A c \in Cells : Now.text[c] = "main" /\ c < tstop => putch(Now, key).text[c] = "main"
        \/ \A c \in Cells \ Row(0) :
             Now.text[c] = "main" /\ c < tstop => putch(Now, key).text[c - Width] = "main"
    BY <2>3, <2>4, <2>5, KeyKeepsPrompt
  <2> QED BY <2>3, <2>6 DEF Prompt
<1> QED BY Invariance, <1>1, <1>2, <1>3, PTL DEF Spec, PromptKept
=============================================================================
