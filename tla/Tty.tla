-------------------------------- MODULE Tty --------------------------------
(***************************************************************************)
(* The virtual consoles of kernel/device/tty.c.                            *)
(*                                                                         *)
(* Every console has STRIDE words of video memory, of which the first two  *)
(* screens of rows are its virtual buffer.  The display shows the screen   *)
(* that starts at tlcorner; a line feed scrolls by moving tlcorner, and at *)
(* the buffer's end it goes back one screen, which works because each row  *)
(* was copied one screen up when it was left.  The controller's start and  *)
(* cursor registers follow the active console.                             *)
(*                                                                         *)
(* Only the main thread prints, so an interrupt changes nothing here.  A   *)
(* string is printed character by character (printing), and the cursor is  *)
(* set at its end.                                                         *)
(***************************************************************************)
EXTENDS Integers, Sequences

CONSTANTS
    MAX_TTYS,
    SCREEN_ROWS, SCREEN_COLS,
    STRIDE,         \* words from one console's memory to the next
    Chars,          \* the characters printed
    Codes,          \* the color codes used
    BLANK,          \* the character ' '
    Users           \* the consoles that are printed to

ASSUME TtyAssumption ==
    /\ MAX_TTYS \in Nat \ {0}
    /\ SCREEN_ROWS \in Nat \ {0, 1} /\ SCREEN_COLS \in Nat \ {0}
    /\ STRIDE \in Nat /\ STRIDE >= (2 * SCREEN_ROWS + 1) * SCREEN_COLS
    /\ BLANK \notin Chars
    /\ Users \subseteq 0..(MAX_TTYS - 1)
    /\ Codes # {}

VARIABLES
    mem,            \* the video memory's words, <<color, character>>
    tty,            \* the consoles' records
    active_tty,     \* the console on display
    start, cursor,  \* the controller's start and cursor registers
    printing        \* the console whose string is being printed, or NONE

vars == <<mem, tty, active_tty, start, cursor, printing>>

NONE == MAX_TTYS    \* no console prints

Ids  == 0..(MAX_TTYS - 1)
Addr == 0..(MAX_TTYS * STRIDE - 1)

SCREEN_SIZE == SCREEN_ROWS * SCREEN_COLS

screen(id) == id * STRIDE

\* A console that does not exist means the first one.
Valid(id) == IF id \in Ids THEN id ELSE 0

\* Words before the first console's memory belong to another adapter.
Store(m, from, words) ==
    [a \in Addr |-> IF a - from + 1 \in DOMAIN words THEN words[a - from + 1] ELSE m[a]]

memsetw(m, from, n, word) == Store(m, from, [i \in 1..n |-> word])

Space(t) == <<t.textcolor, BLANK>>

CursorOf(id, t) == screen(id) + t.ybuf * SCREEN_COLS + t.x

-----------------------------------------------------------------------------
(* Printing a character: the console's record and memory after it. *)

\* Where the row that is left is copied to.
RowCopy(m, from) ==
    Store(m, from - SCREEN_SIZE,
          [i \in 1..SCREEN_COLS |-> IF from + i - 1 \in Addr THEN m[from + i - 1]
                                    ELSE <<0, BLANK>>])

\* Mistaken variant: the bottom row is left as it was.
linefeedNoClear(id, t, m) ==
    LET row    == screen(id) + t.ybuf * SCREEN_COLS
        copied == RowCopy(m, row)
        wrapped == IF t.ybuf + 1 = 2 * SCREEN_ROWS THEN SCREEN_ROWS ELSE t.ybuf + 1
        bottom == screen(id) + wrapped * SCREEN_COLS
    IN  IF t.y + 1 < SCREEN_ROWS
        THEN [t |-> [t EXCEPT !.y = @ + 1, !.ybuf = @ + 1], m |-> copied]
        ELSE [t |-> [t EXCEPT !.ybuf = wrapped,
                              !.tlcorner = bottom + SCREEN_COLS - SCREEN_SIZE],
              m |-> copied]

\* The bottom row is cleared with a count of bytes where words are meant, so
\* the row after it is cleared as well.
linefeed(id, t, m) ==
    LET row    == screen(id) + t.ybuf * SCREEN_COLS
        copied == RowCopy(m, row)
        wrapped == IF t.ybuf + 1 = 2 * SCREEN_ROWS THEN SCREEN_ROWS ELSE t.ybuf + 1
        bottom == screen(id) + wrapped * SCREEN_COLS
    IN  IF t.y + 1 < SCREEN_ROWS
        THEN [t |-> [t EXCEPT !.y = @ + 1, !.ybuf = @ + 1], m |-> copied]
        ELSE [t |-> [t EXCEPT !.ybuf = wrapped,
                              !.tlcorner = bottom + SCREEN_COLS - SCREEN_SIZE],
              m |-> memsetw(copied, bottom, 2 * SCREEN_COLS, Space(t))]

\* The display scrolls with the active console.
Scroll(id, s) ==
    /\ tty' = [tty EXCEPT ![id] = s.t]
    /\ mem' = s.m
    /\ start' = IF id = active_tty THEN s.t.tlcorner ELSE start

\* tty_print and tty_printc begin with any console.
PrintBegin(id) ==
    /\ printing = NONE
    /\ printing' = id
    /\ UNCHANGED <<mem, tty, active_tty, start, cursor>>

NewLine(id) ==
    /\ printing = id
    /\ Scroll(id, linefeed(id, [tty[id] EXCEPT !.x = 0], mem))
    /\ UNCHANGED <<active_tty, cursor, printing>>

Put(id, ch) ==
    /\ printing = id
    /\ LET t == tty[id]
           m == Store(mem, CursorOf(id, t), <<<<t.textcolor, ch>>>>)
       IN  Scroll(id, IF t.x + 1 = SCREEN_COLS
                      THEN linefeed(id, [t EXCEPT !.x = 0], m)
                      ELSE [t |-> [t EXCEPT !.x = @ + 1], m |-> m])
    /\ UNCHANGED <<active_tty, cursor, printing>>

Backspace(id) ==
    /\ printing = id
    /\ tty[id].x > 0
    /\ LET t == [tty[id] EXCEPT !.x = @ - 1]
       IN  Scroll(id, [t |-> t, m |-> Store(mem, CursorOf(id, t), <<Space(t)>>)])
    /\ UNCHANGED <<active_tty, cursor, printing>>

\* A color escape, one to restore the color included.
ColorCode(id, code) ==
    /\ printing = id
    /\ tty' = [tty EXCEPT ![id].textcolor = code]
    /\ UNCHANGED <<mem, active_tty, start, cursor, printing>>

PrintEnd(id) ==
    /\ printing = id
    /\ printing' = NONE
    /\ cursor' = IF id = active_tty THEN CursorOf(id, tty[id]) ELSE cursor
    /\ UNCHANGED <<mem, tty, active_tty, start>>

-----------------------------------------------------------------------------
(* The other calls. *)

\* Mistaken variant: the display's start is not set.
tty_activateCursorOnly(arg) ==
    /\ printing = NONE
    /\ LET id == Valid(arg)
       IN  /\ id # active_tty
           /\ active_tty' = id
           /\ cursor' = CursorOf(id, tty[id])
    /\ UNCHANGED <<mem, tty, start, printing>>

tty_activate(arg) ==
    /\ printing = NONE
    /\ LET id == Valid(arg)
       IN  /\ id # active_tty
           /\ active_tty' = id
           /\ start' = tty[id].tlcorner
           /\ cursor' = CursorOf(id, tty[id])
    /\ UNCHANGED <<mem, tty, printing>>

\* Both screens of the virtual buffer are cleared.
tty_clear(id) ==
    /\ printing = NONE
    /\ LET t == [tty[id] EXCEPT !.x = 0, !.y = 0, !.ybuf = 0, !.tlcorner = screen(id)]
       IN  /\ mem' = memsetw(mem, screen(id), 2 * SCREEN_SIZE, Space(t))
           /\ tty' = [tty EXCEPT ![id] = t]
           /\ start' = IF id = active_tty THEN t.tlcorner ELSE start
           /\ cursor' = IF id = active_tty THEN CursorOf(id, t) ELSE cursor
    /\ UNCHANGED <<active_tty, printing>>

tty_set_textcolor(id, code) ==
    /\ printing = NONE
    /\ tty' = [tty EXCEPT ![id].textcolor = code, ![id].textcolor_orig = code]
    /\ UNCHANGED <<mem, active_tty, start, cursor, printing>>

\* The virtual row moves by as much as the row on the screen; tlcorner and the
\* copies of rows stay.
tty_setpos(id, px, py) ==
    /\ printing = NONE
    /\ LET t == [tty[id] EXCEPT !.x = px, !.y = py, !.ybuf = @ + py - tty[id].y]
       IN  /\ tty' = [tty EXCEPT ![id] = t]
           /\ cursor' = IF id = active_tty THEN CursorOf(id, t) ELSE cursor
    /\ UNCHANGED <<mem, active_tty, start, printing>>

-----------------------------------------------------------------------------
FirstCode == CHOOSE c \in Codes : TRUE

tty_init ==
    [id \in Ids |-> [textcolor |-> FirstCode, textcolor_orig |-> FirstCode,
                     x |-> 0, y |-> 0, ybuf |-> 0, tlcorner |-> screen(id)]]

\* tty_init leaves memory and controller as the loader did: kmain then clears
\* console 0, here the first of the consoles' clears.
Init ==
    /\ mem = [a \in Addr |-> <<FirstCode, BLANK>>]
    /\ tty = tty_init
    /\ active_tty = 0
    /\ start = 0 /\ cursor = 0
    /\ printing = NONE

Printing(id) ==
    \/ PrintBegin(id) \/ PrintEnd(id)
    \/ NewLine(id) \/ Backspace(id)
    \/ \E ch \in Chars : Put(id, ch)
    \/ \E code \in Codes : ColorCode(id, code)

\* What the kernel does: nothing calls tty_setpos.
Next ==
    \/ \E id \in Users : Printing(id) \/ tty_clear(id)
    \/ \E id \in Users, code \in Codes : tty_set_textcolor(id, code)
    \/ \E arg \in 0..MAX_TTYS : tty_activate(arg)

Spec == Init /\ [][Next]_vars

\* What the interface allows.
SetPosNext ==
    \/ Next
    \/ \E id \in Users, px \in 0..(SCREEN_COLS - 1), py \in 0..(SCREEN_ROWS - 1) :
           tty_setpos(id, px, py)

SetPosSpec == Init /\ [][SetPosNext]_vars

-----------------------------------------------------------------------------
(* Properties. *)

\* Every variable keeps to its type; in particular the virtual row stays in
\* the buffer, so no character is stored outside the console's memory.
TypeOK ==
    /\ mem \in [Addr -> Codes \X (Chars \union {BLANK})]
    /\ \A id \in Ids :
           /\ tty[id].x \in 0..(SCREEN_COLS - 1)
           /\ tty[id].y \in 0..(SCREEN_ROWS - 1)
           /\ tty[id].ybuf \in 0..(2 * SCREEN_ROWS - 1)
    /\ active_tty \in Ids /\ start \in Addr /\ cursor \in Addr
    /\ printing \in 0..MAX_TTYS

\* What the display would show of a console.
Window(id) ==
    [r \in 0..(SCREEN_ROWS - 1) |-> [c \in 0..(SCREEN_COLS - 1) |->
        mem[tty[id].tlcorner + r * SCREEN_COLS + c]]]

Term(id) == INSTANCE Terminal WITH
    ROWS <- SCREEN_ROWS, COLS <- SCREEN_COLS, Colors <- Codes,
    grid <- Window(id), x <- tty[id].x, y <- tty[id].y,
    textcolor <- tty[id].textcolor, textcolor_orig <- tty[id].textcolor_orig

\* The consoles are terminals: the window of each is the screen it promises,
\* through every scroll and wrap, whatever is printed to the others.
ShowsTerminals ==
    /\ \A id \in Ids : Term(id)!Init
    /\ [][\A id \in Ids : Term(id)!Next \/ UNCHANGED Term(id)!termVars]_vars

\* Between two calls the controller shows the active console, with its cursor
\* where the next character goes.
DisplayFollows ==
    /\ TypeOK
    /\ printing = NONE =>
        LET t == tty[active_tty]
        IN  /\ start = t.tlcorner
            /\ cursor = start + t.y * SCREEN_COLS + t.x

\* "When we reach the end of the virtual buffer, we'll have another shifted
\* copy of the screen ready to display" (tty.c:301-302): the rows above the
\* cursor in the window are those one screen up.
CopyIsReady ==
    \A id \in Users :
        LET t == tty[id]
        IN  t.tlcorner >= screen(id) + SCREEN_SIZE =>
                \A i \in 0..(t.y * SCREEN_COLS - 1) :
                    mem[t.tlcorner + i] = mem[t.tlcorner + i - SCREEN_SIZE]
=============================================================================
