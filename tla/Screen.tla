------------------------------- MODULE Screen -------------------------------
(***************************************************************************)
(* What a console promises: lines of characters, a cursor that may stand   *)
(* after the last character of its line, and a region of lines that        *)
(* scrolls.  How the memory of the adapter is used, and the escape         *)
(* sequences that ask for all this, are Console's.                         *)
(***************************************************************************)
EXTENDS Integers

CONSTANTS NrLines, NrColumns, Chars, Blank

VARIABLES
  screen,        \* the character in each line and column
  x, y,          \* the cursor
  top, bottom    \* the region: the lines from top to bottom - 1

vars == <<screen, x, y, top, bottom>>

Lines == 0..NrLines - 1
Columns == 0..NrColumns - 1
BlankLine == [c \in Columns |-> Blank]

(* The lines from a to b - 1 move up or down by n. *)
ScrolledUp(s, a, b, n) ==
  [l \in Lines |-> IF l \notin a..b - 1 THEN s[l] ELSE IF l + n < b THEN s[l + n] ELSE BlankLine]
ScrolledDown(s, a, b, n) ==
  [l \in Lines |-> IF l \notin a..b - 1 THEN s[l] ELSE IF l - n >= a THEN s[l - n] ELSE BlankLine]

LineFeed(s, l) ==
  IF l + 1 < bottom THEN [screen |-> s, y |-> l + 1]
  ELSE [screen |-> ScrolledUp(s, top, bottom, 1), y |-> l]

Moves == x' \in 0..NrColumns /\ y' \in Lines /\ UNCHANGED screen

(* A character at the end of a line goes to the next one. *)
PutChar ==
  \E char \in Chars :
    LET fed == LineFeed(screen, y) IN
    IF x < NrColumns
    THEN screen' = [screen EXCEPT ![y][x] = char] /\ x' = x + 1 /\ y' = y
    ELSE screen' = [fed.screen EXCEPT ![fed.y][0] = char] /\ x' = 1 /\ y' = fed.y

Feed ==
  LET fed == LineFeed(screen, y) IN
  screen' = fed.screen /\ y' = fed.y /\ x' \in 0..NrColumns

ReverseFeed == y <= top /\ screen' = ScrolledDown(screen, top, bottom, 1) /\ UNCHANGED <<x, y>>

Delete == x > 0 /\ x' = x - 1 /\ screen' = [screen EXCEPT ![y][x - 1] = Blank] /\ y' = y

(* Places are counted through the lines; those from i to j - 1 are cleared. *)
Cursor == y * NrColumns + x
Ranges == {<<Cursor, NrLines * NrColumns>>, <<0, Cursor>>, <<0, NrLines * NrColumns>>,
           <<Cursor, (y + 1) * NrColumns>>, <<y * NrColumns, Cursor>>,
           <<y * NrColumns, (y + 1) * NrColumns>>}

Clear ==
  /\ UNCHANGED <<x, y>>
  /\ \E r \in Ranges :
       screen' = [l \in Lines |-> [c \in Columns |->
                    IF l * NrColumns + c \in r[1]..r[2] - 1 THEN Blank ELSE screen[l][c]]]

InsertOrDelete ==
  /\ UNCHANGED <<x, y>>
  /\ \/ \E n \in 1..NrLines : screen' \in {ScrolledDown(screen, y, NrLines, n), ScrolledUp(screen, y, NrLines, n)}
     \/ \E n \in 1..NrColumns :
          screen' \in
            {[screen EXCEPT ![y] = [c \in Columns |-> IF c < x THEN @[c] ELSE IF c - n >= x THEN @[c - n] ELSE Blank]],
             [screen EXCEPT ![y] = [c \in Columns |-> IF c < x THEN @[c] ELSE IF c + n < NrColumns THEN @[c + n] ELSE Blank]]}

SetRegion == top' \in Lines /\ bottom' \in top' + 1..NrLines /\ UNCHANGED <<screen, x, y>>

Init ==
  /\ screen = [l \in Lines |-> BlankLine] /\ x = 0 /\ y = 0
  /\ top = 0 /\ bottom = NrLines

Next ==
  \/ /\ UNCHANGED <<top, bottom>>
     /\ Moves \/ PutChar \/ Feed \/ ReverseFeed \/ Delete \/ InsertOrDelete \/ Clear
  \/ SetRegion

Spec == Init /\ [][Next]_vars
=============================================================================
