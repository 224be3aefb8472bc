------------------------------ MODULE Terminal ------------------------------
(***************************************************************************)
(* What a console promises: a screen of ROWS by COLS cells that text fills *)
(* from the top, and that moves up a row when the last one is full.        *)
(***************************************************************************)
EXTENDS Integers

CONSTANTS ROWS, COLS, Chars, Colors, BLANK

VARIABLES
    grid,           \* the cells, by row and column
    x, y,           \* where the next character goes
    textcolor,      \* the color it will have
    textcolor_orig  \* the color set for the console

termVars == <<grid, x, y, textcolor, textcolor_orig>>

Rows == 0..(ROWS - 1)
Cols == 0..(COLS - 1)

Blank == <<textcolor, BLANK>>

\* The cursor goes to a new row after the cells have become g.
LineFeed(g) ==
    /\ x' = 0
    /\ IF y < ROWS - 1
       THEN y' = y + 1 /\ grid' = g
       ELSE /\ y' = y
            /\ grid' = [r \in Rows |-> IF r < ROWS - 1 THEN g[r + 1]
                                       ELSE [c \in Cols |-> Blank]]

Put(ch) ==
    /\ LET g == [grid EXCEPT ![y][x] = <<textcolor, ch>>]
       IN  IF x < COLS - 1 THEN x' = x + 1 /\ y' = y /\ grid' = g ELSE LineFeed(g)
    /\ UNCHANGED <<textcolor, textcolor_orig>>

NewLine == LineFeed(grid) /\ UNCHANGED <<textcolor, textcolor_orig>>

Backspace ==
    /\ x > 0
    /\ x' = x - 1
    /\ grid' = [grid EXCEPT ![y][x - 1] = Blank]
    /\ UNCHANGED <<y, textcolor, textcolor_orig>>

Clear ==
    /\ grid' = [r \in Rows |-> [c \in Cols |-> Blank]]
    /\ x' = 0 /\ y' = 0
    /\ UNCHANGED <<textcolor, textcolor_orig>>

Color(c) == textcolor' = c /\ UNCHANGED <<grid, x, y, textcolor_orig>>

SetColor(c) ==
    /\ textcolor' = c /\ textcolor_orig' = c
    /\ UNCHANGED <<grid, x, y>>

Init ==
    /\ grid \in [Rows -> [Cols -> Colors \X (Chars \union {BLANK})]]
    /\ x = 0 /\ y = 0
    /\ textcolor \in Colors /\ textcolor_orig = textcolor

Next ==
    \/ \E ch \in Chars : Put(ch)
    \/ NewLine \/ Backspace \/ Clear
    \/ \E c \in Colors : Color(c) \/ SetColor(c)

Spec == Init /\ [][Next]_termVars
=============================================================================
