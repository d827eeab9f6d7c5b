------------------------------ MODULE Console ------------------------------
(***************************************************************************)
(* The console, kernel/chr_drv/console.c: a part of the memory of the      *)
(* video adapter, of which origin..scr_end is shown, the cursor, and the   *)
(* automaton of the escape sequences.                                      *)
(*                                                                         *)
(* con holds the variables of vc_cons[currcons] and the adapter's memory;  *)
(* each function of the code is an operator on it.  An address counts      *)
(* characters.  Attributes, colours, the beep and the character sets are   *)
(* left out, and so is the answer to ESC Z; a character is written without *)
(* an interrupt that writes to the same console.                           *)
(***************************************************************************)
EXTENDS Integers

CONSTANTS
  NrLines, NrColumns,
  Scrolls,       \* an EGA: can the adapter show any part of its memory?
  MemLines,      \* lines of memory of a console
  TabSize,       \* 8
  NPAR,          \* parameters of a sequence
  MaxPar         \* a bound on a parameter

ConsoleAssumption ==
  /\ NrLines \in Nat \ {0} /\ NrColumns \in Nat \ {0}
  /\ TabSize \in 1..NrColumns
  /\ MemLines \in Nat /\ MemLines >= NrLines /\ NPAR \in Nat \ {0, 1}
  /\ MaxPar \in Nat /\ Scrolls \in BOOLEAN

VARIABLE con

Blank == " "
Printable == "a"

(* The window of this console in the adapter's memory, with those of others
   around it. *)
Start == NrColumns
End == Start + MemLines * NrColumns
Cells == 0..End + NrColumns - 1

-----------------------------------------------------------------------------
Fill(c, from, n) == [c EXCEPT !.mem = [a \in Cells |-> IF a \in from..from + n - 1 THEN Blank ELSE @[a]]]
Copy(c, to, from, n) == [c EXCEPT !.mem = [a \in Cells |-> IF a \in to..to + n - 1 THEN @[a - to + from] ELSE @[a]]]

Least(a, b) == IF a < b THEN a ELSE b

GotoXY(c, nx, ny) ==
  IF nx \notin 0..NrColumns \/ ny \notin 0..NrLines - 1 THEN c
  ELSE [c EXCEPT !.x = nx, !.y = ny, !.pos = c.origin + ny * NrColumns + nx]

(* When the end of the memory is reached, what is shown moves to its start. *)
Wrapped_Late(c) ==                   \* faulty: the last line is not there any more
  IF c.scr_end > End + NrColumns
  THEN [Fill(Copy(c, Start, c.origin, (NrLines - 1) * NrColumns), Start + (NrLines - 1) * NrColumns, NrColumns)
          EXCEPT !.scr_end = @ - (c.origin - Start), !.pos = @ - (c.origin - Start), !.origin = Start]
  ELSE Fill(c, c.scr_end - NrColumns, NrColumns)

Wrapped(c) ==
  IF c.scr_end > End
  THEN [Fill(Copy(c, Start, c.origin, (NrLines - 1) * NrColumns), Start + (NrLines - 1) * NrColumns, NrColumns)
          EXCEPT !.scr_end = @ - (c.origin - Start), !.pos = @ - (c.origin - Start), !.origin = Start]
  ELSE Fill(c, c.scr_end - NrColumns, NrColumns)

ScrUp(c) ==
  LET n == (c.bottom - c.top - 1) * NrColumns
      to == c.origin + NrColumns * c.top
  IN  IF c.bottom <= c.top THEN c
      ELSE IF Scrolls /\ c.top = 0 /\ c.bottom = NrLines
      THEN Wrapped([c EXCEPT !.origin = @ + NrColumns, !.pos = @ + NrColumns, !.scr_end = @ + NrColumns])
      ELSE Fill(Copy(c, to, to + NrColumns, n), to + n, NrColumns)

ScrDown(c) ==
  LET n == (c.bottom - c.top - 1) * NrColumns
      from == c.origin + NrColumns * c.top
  IN  IF c.bottom <= c.top THEN c ELSE Fill(Copy(c, from + NrColumns, from, n), from, NrColumns)

Lf(c) == IF c.y + 1 < c.bottom THEN [c EXCEPT !.y = @ + 1, !.pos = @ + NrColumns] ELSE ScrUp(c)
Ri(c) == IF c.y > c.top THEN [c EXCEPT !.y = @ - 1, !.pos = @ - NrColumns] ELSE ScrDown(c)
Cr(c) == [c EXCEPT !.pos = @ - c.x, !.x = 0]
Del(c) == IF c.x > 0 THEN Fill([c EXCEPT !.pos = @ - 1, !.x = @ - 1], c.pos - 1, 1) ELSE c

CsiJ(c, par) ==
  CASE par = 0 -> Fill(c, c.pos, c.scr_end - c.pos)
    [] par = 1 -> Fill(c, c.origin, c.pos - c.origin)
    [] par = 2 -> Fill(c, c.origin, NrLines * NrColumns)
    [] OTHER -> c

CsiK(c, par) ==
  CASE par = 0 /\ c.x < NrColumns -> Fill(c, c.pos, NrColumns - c.x)
    [] par = 1 -> Fill(c, c.pos - c.x, Least(c.x, NrColumns))
    [] par = 2 -> Fill(c, c.pos - c.x, NrColumns)
    [] OTHER -> c

InsertChar(c) == IF c.x >= NrColumns THEN c ELSE Fill(Copy(c, c.pos + 1, c.pos, NrColumns - c.x - 1), c.pos, 1)
DeleteChar(c) ==
  IF c.x >= NrColumns THEN c
  ELSE Fill(Copy(c, c.pos, c.pos + 1, NrColumns - c.x - 1), c.pos + NrColumns - c.x - 1, 1)

(* insert_line and delete_line scroll from the cursor to the last line. *)
FromCursor(c) == [c EXCEPT !.top = c.y, !.bottom = NrLines]
SameRegion(c, d) == [d EXCEPT !.top = c.top, !.bottom = c.bottom]
InsertLine(c) == SameRegion(c, ScrDown(FromCursor(c)))
DeleteLine(c) == SameRegion(c, ScrUp(FromCursor(c)))

Edited(c, ch) ==
  CASE ch = "@" -> InsertChar(c)
    [] ch = "L" -> InsertLine(c)
    [] ch = "P" -> DeleteChar(c)
    [] ch = "M" -> DeleteLine(c)

(* csi_at, csi_L, csi_P and csi_M: at least once, and for all at most. *)
EditedTimes(c, ch, par) ==
  LET max == IF ch \in {"L", "M"} THEN NrLines ELSE NrColumns
      after[i \in 0..max] == IF i = 0 THEN c ELSE Edited(after[i - 1], ch)
  IN  after[IF par > max THEN max ELSE IF par = 0 THEN 1 ELSE par]

SaveCur(c) == [c EXCEPT !.saved_x = c.x, !.saved_y = c.y]
RestoreCur(c) == GotoXY(c, c.saved_x, c.saved_y)

-----------------------------------------------------------------------------
(* con_write, for one character: in each state of the automaton. *)
WrapLine_SameLine(c) == IF c.x >= NrColumns THEN Lf([c EXCEPT !.x = @ - NrColumns]) ELSE c   \* faulty: pos
WrapLine(c) ==
  IF c.x >= NrColumns THEN Lf([c EXCEPT !.x = @ - NrColumns, !.pos = @ - NrColumns]) ELSE c

Normal(c, ch) ==
  CASE ch = Printable ->
         LET d == WrapLine(c) IN [d EXCEPT !.mem[d.pos] = ch, !.pos = @ + 1, !.x = @ + 1]
    [] ch = "ESC" -> [c EXCEPT !.state = "esc"]
    [] ch = "LF" -> Lf(c)
    [] ch = "CR" -> Cr(c)
    [] ch = "DEL" -> Del(c)
    [] ch = "BS" -> IF c.x > 0 THEN [c EXCEPT !.x = @ - 1, !.pos = @ - 1] ELSE c
    [] ch = "TAB" ->
         LET n == TabSize - (c.x % TabSize)
             d == [c EXCEPT !.x = @ + n, !.pos = @ + n]
         IN  IF d.x > NrColumns THEN WrapLine(d) ELSE d
    [] OTHER -> c

Esc(c, ch) ==
  LET d == [c EXCEPT !.state = "normal"] IN
  CASE ch = "[" -> [d EXCEPT !.state = "square"]
    [] ch = "E" -> GotoXY(d, 0, d.y + 1)
    [] ch = "M" -> Ri(d)
    [] ch = "D" -> Lf(d)
    [] ch = "7" -> SaveCur(d)
    [] ch = "8" -> RestoreCur(d)
    [] ch = "c" -> [d EXCEPT !.top = 0, !.bottom = NrLines]
    [] ch \in {"(", "P", "#"} -> [d EXCEPT !.state = "skip"]
    [] OTHER -> d

OneAtLeast(par) == IF par = 0 THEN 1 ELSE par
OneLess(par) == IF par = 0 THEN 0 ELSE par - 1

Region(c, a, b) ==
  IF a < b /\ b <= NrLines THEN [c EXCEPT !.top = a, !.bottom = b] ELSE c

NoPars == [i \in 1..NPAR |-> 0]

(* The next sequence starts without the parameters of this one. *)
Forgotten(c) == [c EXCEPT !.state = "normal", !.ques = FALSE, !.npar = 1, !.par = NoPars]

GotPars(c, ch) ==
  LET p == c.par[1]
      q == c.par[2]
      d == Forgotten(c)
      n == OneAtLeast(p)
  IN  IF c.ques THEN d
      ELSE CASE ch = "G" -> GotoXY(d, OneLess(p), d.y)
             [] ch = "A" -> GotoXY(d, d.x, d.y - n)
             [] ch = "B" -> GotoXY(d, d.x, d.y + n)
             [] ch = "C" -> GotoXY(d, d.x + n, d.y)
             [] ch = "D" -> GotoXY(d, d.x - n, d.y)
             [] ch = "E" -> GotoXY(d, 0, d.y + n)
             [] ch = "F" -> GotoXY(d, 0, d.y - n)
             [] ch = "d" -> GotoXY(d, d.x, OneLess(p))
             [] ch = "H" -> GotoXY(d, OneLess(q), OneLess(p))
             [] ch = "J" -> CsiJ(d, p)
             [] ch = "K" -> CsiK(d, p)
             [] ch \in {"L", "M", "P", "@"} -> EditedTimes(d, ch, p)
             [] ch = "r" -> Region(d, OneLess(p), IF q = 0 THEN NrLines ELSE q)
             [] ch = "s" -> SaveCur(d)
             [] ch = "u" -> RestoreCur(d)
             [] OTHER -> d

Digits == [ch \in {"1", "2"} |-> IF ch = "1" THEN 1 ELSE 2]

GetPars(c, ch) ==
  IF ch = ";" /\ c.npar < NPAR THEN [c EXCEPT !.npar = @ + 1]
  ELSE IF ch \in DOMAIN Digits THEN [c EXCEPT !.par[c.npar] = Least(10 * @ + Digits[ch], MaxPar)]
  ELSE GotPars(c, ch)

Square(c, ch) ==
  LET d == [c EXCEPT !.npar = 1, !.par = NoPars, !.ques = ch = "?", !.state = "getpars"]
  IN  IF ch = "[" THEN [d EXCEPT !.state = "skip", !.ques = c.ques] ELSE IF ch = "?" THEN d ELSE GetPars(d, ch)

Interpreted(c, ch) ==
  IF ch = "CAN" THEN Normal(Forgotten(c), ch)
  ELSE CASE c.state = "normal" -> Normal(c, ch)
         [] c.state = "esc" -> Esc(c, ch)
         [] c.state = "square" -> Square(c, ch)
         [] c.state = "getpars" -> GetPars(c, ch)
         [] OTHER -> [c EXCEPT !.state = "normal"]

(* The characters that matter in a state; any other printable one is like "a"
   in the state normal and ignored elsewhere. *)
Heard ==
  CASE con.state = "normal" -> {Printable, "ESC", "LF", "CR", "DEL", "BS", "TAB"}
    [] con.state = "esc" -> {"[", "E", "M", "D", "7", "8", "c", "(", "CAN"}
    [] con.state = "square" -> {"[", "?", "2", ";", "J", "K", "M"}
    [] con.state = "getpars" /\ con.ques -> {"H"}
    [] con.state = "getpars" /\ ~con.ques -> (IF con.par[con.npar] = 0 THEN {"1"} ELSE {}) \cup
                                {";", "G", "A", "B", "C", "D", "E", "F", "d", "H", "J", "K", "L",
                                 "M", "P", "@", "r", "s", "u", "CAN"}
    [] OTHER -> {Printable}

ConWrite(ch) == con' = Interpreted(con, ch)

-----------------------------------------------------------------------------
(* con_init, with the cursor at the origin. *)
ConInit ==
  con = [mem |-> [a \in Cells |-> Blank],
         x |-> 0, y |-> 0, pos |-> Start, origin |-> Start, scr_end |-> Start + NrLines * NrColumns,
         top |-> 0, bottom |-> NrLines, saved_x |-> 0, saved_y |-> 0,
         state |-> "normal", npar |-> 1, par |-> NoPars, ques |-> FALSE]

ConNext == \E ch \in Heard : ConWrite(ch)

ConSpec == ConInit /\ [][ConNext]_con

-----------------------------------------------------------------------------
(* pos is where x and y say, in what is shown, which is in the memory of this
   console; the region is not empty. The functions keep pos apart from x and
   y and move them together (console.c:195-212, 594-629). *)
CursorIsOnScreen ==
  /\ con.pos = con.origin + con.y * NrColumns + con.x
  /\ con.x \in 0..NrColumns /\ con.y \in 0..NrLines - 1
  /\ con.scr_end = con.origin + NrLines * NrColumns
  /\ Start <= con.origin /\ con.scr_end <= End
  /\ con.top < con.bottom /\ con.bottom <= NrLines

(* What is shown is a screen that scrolls. *)
Shown == INSTANCE Screen WITH
  Chars <- {Printable}, x <- con.x, y <- con.y, top <- con.top, bottom <- con.bottom,
  screen <- [l \in 0..NrLines - 1 |-> [k \in 0..NrColumns - 1 |-> con.mem[con.origin + l * NrColumns + k]]]

ScreenStep == UNCHANGED Shown!vars \/ Shown!Next
ImplementsScreen == Shown!Init /\ [][ScreenStep]_con
=============================================================================
