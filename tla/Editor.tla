--------------------------------- MODULE Editor ---------------------------------
(***************************************************************************)
(* les10: the editor's keys.  tickX and tickY are the program's own row    *)
(* and column, the window has its cursor; text goes to the cursor, moves   *)
(* go by the counters.  Of the text only the rows a save writes are kept.  *)
(***************************************************************************)
EXTENDS Integers, Sequences

CONSTANTS Rows, Cols,   \* mainHeight, mainWidth
          Beyond        \* bound: how far the counters leave the window

HintLines == 8   \* maxHeight - mainHeight

VARIABLES key,           \* "main", "getch", "saving" or "exited"
          tickX, tickY,
          y, x,          \* the cursor of the window
          i, saved,      \* the loop of funcWrite; the rows it has written
          astray         \* history: something other than a move took the cursor away

evars == <<key, tickX, tickY, y, x, i, saved, astray>>

Inside(row, col) == row \in 0..(Rows - 1) /\ col \in 0..(Cols - 1)

Init == /\ key = "main" /\ tickX = 0 /\ tickY = 0 /\ y = 0 /\ x = 0
        /\ i = 0 /\ saved = <<>> /\ astray = FALSE

-----------------------------------------------------------------------------
(* The window *)

(* A move that leaves the window fails.                                     *)
Wmove(row, col) == IF Inside(row, col) THEN y' = row /\ x' = col ELSE UNCHANGED <<y, x>>

(* Where the cursor is after a character: behind the last column is the     *)
(* next row, and the corner is not left.                                    *)
After == IF x < Cols - 1 THEN <<y, x + 1>>
         ELSE IF y < Rows - 1 THEN <<y + 1, 0>> ELSE <<y, x>>

-----------------------------------------------------------------------------
(* The keys *)

Anywhere == y' \in 0..(Rows - 1) /\ x' \in 0..(Cols - 1)

(* main, without a file or with one: winRead leaves the cursor behind the   *)
(* text, and an open that fails shows what is in an uninitialised buffer.   *)
Main == /\ key = "main" /\ key' = "getch"
        /\ \/ UNCHANGED <<y, x, astray>>
           \/ Anywhere /\ astray' = TRUE
        /\ UNCHANGED <<tickX, tickY, i, saved>>

Getch == key = "getch" /\ UNCHANGED <<i, saved>>

Least(a, b) == IF a < b THEN a ELSE b

(* The counters have new values, and the cursor follows if it can.          *)
Ticks(row, col) == /\ tickX' = row /\ tickY' = col
                   /\ Wmove(row, col)
                   /\ astray' = (astray /\ ~Inside(row, col))
                   /\ UNCHANGED key

KeyDown == Getch /\ Ticks(Least(tickX + 1, Rows - 1), tickY)
KeyUp == Getch /\ tickX > 0 /\ Ticks(tickX - 1, tickY)
KeyLeft == Getch /\ tickY > 0 /\ Ticks(tickX, tickY - 1)

(* Mutant: the border is taken for a column.                                *)
KeyRightToBorder == Getch /\ tickY # Cols /\ tickY < Cols + Beyond /\ Ticks(tickX, tickY + 1)

(* The last column is found by equality: a counter beyond it goes on.       *)
KeyRight == Getch /\ tickY # Cols - 1 /\ tickY < Cols + Beyond /\ Ticks(tickX, tickY + 1)

(* The blank is written where the cursor is, and the cursor moved back: if  *)
(* the move fails it stays behind the blank.                                *)
Backspace ==
    /\ Getch
    /\ tickX' = tickX /\ tickY' = IF tickY > 0 THEN tickY - 1 ELSE 0
    /\ IF Inside(tickX, tickY') THEN y' = tickX /\ x' = tickY' /\ astray' = FALSE
                                ELSE y' = After[1] /\ x' = After[2] /\ astray' = TRUE
    /\ UNCHANGED key

(* The test of the row compares with the width and changes nothing.         *)
Newline == /\ Getch /\ tickX < Rows + Beyond
           /\ tickX' = tickX + 1 /\ tickY' = 0
           /\ IF y < Rows - 1 THEN y' = y + 1 /\ x' = 0 ELSE y' = y /\ x' \in {0, Cols - 1}
           /\ astray' = (astray \/ y = Rows - 1)
           /\ UNCHANGED key

(* A character is printed where the cursor is.                              *)
Default == /\ Getch /\ tickY < Cols + Beyond
           /\ tickX' = tickX /\ tickY' = tickY + 1
           /\ IF Inside(tickX, tickY') THEN y' = tickX /\ x' = tickY' /\ astray' = FALSE
                                       ELSE y' = After[1] /\ x' = After[2] /\ astray' = TRUE
           /\ UNCHANGED key

(* winRead of any file, and back to the first cell; the counters stay.      *)
Open == /\ Getch /\ Wmove(0, 0) /\ astray' = TRUE
        /\ UNCHANGED <<key, tickX, tickY>>

Exit == /\ Getch /\ key' = "exited"
        /\ Anywhere /\ astray' = TRUE
        /\ UNCHANGED <<tickX, tickY>>

-----------------------------------------------------------------------------
(* Saving *)

Save == /\ key = "getch" /\ key' = "saving"
        /\ i' = 0 /\ saved' = <<>> /\ astray' = TRUE
        /\ UNCHANGED <<tickX, tickY, y, x>>

(* winstr reads the row of the cursor, which stays on the last row when the *)
(* loop goes on below the window.                                           *)
SaveRow == /\ key = "saving" /\ i < Rows + HintLines
           /\ Wmove(i, 0)
           /\ saved' = Append(saved, y')
           /\ i' = i + 1
           /\ UNCHANGED <<key, tickX, tickY, astray>>

Saved == /\ key = "saving" /\ i = Rows + HintLines
         /\ key' = "getch"
         /\ UNCHANGED <<tickX, tickY, y, x, i, saved, astray>>

Next == \/ Main \/ KeyDown \/ KeyUp \/ KeyLeft \/ KeyRight \/ Backspace \/ Newline \/ Default
        \/ Open \/ Exit \/ Save \/ SaveRow \/ Saved

Spec == Init /\ [][Next]_evars

-----------------------------------------------------------------------------
(* Properties *)

TypeOK == /\ key \in {"main", "getch", "saving", "exited"}
          /\ tickX \in 0..(Rows + Beyond) /\ tickY \in 0..(Cols + Beyond)
          /\ Inside(y, x) /\ astray \in BOOLEAN
          /\ i \in 0..(Rows + HintLines) /\ saved \in Seq(0..(Rows - 1))

(* The cursor is where the counters say, so that what is typed goes where   *)
(* the arrows went, until a file is read or saved, a line is filled or the  *)
(* last row ended: then a move inside the window brings them together.      *)
CursorAtTicks == ~astray => y = tickX /\ x = tickY

(* A saved file has the rows of the window, in order and none left out; the *)
(* last one comes again for each line the borders and hints take.           *)
RowsSaved == key = "getch" /\ saved # <<>> =>
                 saved = [n \in 1..(Rows + HintLines) |-> Least(n, Rows) - 1]

(* What is typed and what is saved are at the place the user sees.          *)
EditorKeepsPlace == CursorAtTicks /\ RowsSaved
=============================================================================
