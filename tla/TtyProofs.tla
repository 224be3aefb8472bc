------------------------------- MODULE TtyProofs -------------------------------
(***************************************************************************)
(* For every number of consoles, size of the screen and distance between   *)
(* the consoles' memories: what is printed stays in the console's memory,  *)
(* between two calls the display shows the active console, and, if only    *)
(* the first one is printed to, every console is the terminal it promises. *)
(***************************************************************************)
EXTENDS Tty, TLAPS

Record == [textcolor : Codes, textcolor_orig : Codes,
           x : 0..(SCREEN_COLS - 1), y : 0..(SCREEN_ROWS - 1),
           ybuf : 0..(2 * SCREEN_ROWS - 1), tlcorner : Int]

Word == Codes \X (Chars \union {BLANK})

\* The window begins as many rows above the cursor in the virtual buffer as
\* the cursor is below the top of the screen, and is at the buffer's beginning
\* until the cursor is on its bottom row: there only does a line feed wrap.
Placed(id, t) ==
    /\ t.y <= t.ybuf
    /\ t.y # SCREEN_ROWS - 1 => t.ybuf = t.y
    /\ t.tlcorner = screen(id) + (t.ybuf - t.y) * SCREEN_COLS

\* The start register follows the active console at once, the cursor register
\* at the end of what is printed to it.
IInv ==
    /\ mem \in [Addr -> Word]
    /\ tty \in [Ids -> Record]
    /\ \A id \in Ids : Placed(id, tty[id])
    /\ active_tty \in Ids
    /\ printing \in 0..MAX_TTYS
    /\ start = tty[active_tty].tlcorner
    /\ cursor \in Addr
    /\ printing # active_tty => cursor = CursorOf(active_tty, tty[active_tty])

-----------------------------------------------------------------------------
(* Arithmetic: what is on a row of a console's buffer is in its memory. *)

LEMMA MulMono == \A a, b, c \in Nat : a <= b => a * c <= b * c
  OBVIOUS

LEMMA MulSucc == \A a, c \in Nat : (a + 1) * c = a * c + c
  OBVIOUS

LEMMA RowInBuffer ==
    ASSUME NEW k \in 0..(2 * SCREEN_ROWS), NEW c \in 0..(SCREEN_COLS - 1)
    PROVE  k * SCREEN_COLS + c \in 0..(STRIDE - 1)
  <1> USE TtyAssumption
  <1>1. (k + 1) * SCREEN_COLS <= (2 * SCREEN_ROWS + 1) * SCREEN_COLS
    BY MulMono
  <1>2. (k + 1) * SCREEN_COLS = k * SCREEN_COLS + SCREEN_COLS
    BY MulSucc
  <1>3. k * SCREEN_COLS \in Nat
    OBVIOUS
  <1> QED
    BY <1>1, <1>2, <1>3

LEMMA InMemory ==
    ASSUME NEW id \in Ids, NEW a \in 0..(STRIDE - 1)
    PROVE  screen(id) + a \in Addr
  <1> USE TtyAssumption
  <1>1. (id + 1) * STRIDE <= MAX_TTYS * STRIDE
    BY MulMono DEF Ids
  <1>2. (id + 1) * STRIDE = id * STRIDE + STRIDE
    BY MulSucc DEF Ids
  <1>3. id * STRIDE \in Nat /\ MAX_TTYS * STRIDE \in Nat
    BY DEF Ids
  <1> QED
    BY <1>1, <1>2, <1>3 DEF screen, Addr

LEMMA RowInMemory ==
    ASSUME NEW id \in Ids, NEW k \in 0..(2 * SCREEN_ROWS), NEW c \in 0..(SCREEN_COLS - 1)
    PROVE  screen(id) + k * SCREEN_COLS + c \in Addr
  <1>1. screen(id) + (k * SCREEN_COLS + c) \in Addr
    BY RowInBuffer, InMemory
  <1>2. screen(id) \in Nat /\ k * SCREEN_COLS \in Nat
    BY TtyAssumption DEF screen, Ids
  <1> QED
    BY <1>1, <1>2

\* The window of a console and its cursor are in its memory.
LEMMA PlacedInMemory ==
    ASSUME NEW id \in Ids, NEW t \in Record, Placed(id, t)
    PROVE  /\ t.tlcorner \in Addr
           /\ CursorOf(id, t) \in Addr
           /\ CursorOf(id, t) = t.tlcorner + t.y * SCREEN_COLS + t.x
  <1> USE TtyAssumption
  <1>1. /\ t.x \in 0..(SCREEN_COLS - 1) /\ t.y \in 0..(SCREEN_ROWS - 1)
        /\ t.ybuf \in 0..(2 * SCREEN_ROWS - 1)
    BY DEF Record
  <1>2. CursorOf(id, t) \in Addr
    BY <1>1, RowInMemory DEF CursorOf
  <1>3. t.tlcorner \in Addr
    <2>1. t.ybuf - t.y \in 0..(2 * SCREEN_ROWS) /\ 0 \in 0..(SCREEN_COLS - 1)
      BY <1>1 DEF Placed
    <2>2. screen(id) + (t.ybuf - t.y) * SCREEN_COLS + 0 \in Addr
      BY <2>1, RowInMemory
    <2>3. screen(id) + (t.ybuf - t.y) * SCREEN_COLS \in Int
      BY <2>1 DEF screen, Ids
    <2> QED
      BY <2>2, <2>3 DEF Placed
  <1>4. CursorOf(id, t) = t.tlcorner + t.y * SCREEN_COLS + t.x
    <2>1. (t.ybuf - t.y) * SCREEN_COLS = t.ybuf * SCREEN_COLS - t.y * SCREEN_COLS
      BY <1>1
    <2>2. screen(id) \in Int /\ t.ybuf * SCREEN_COLS \in Int /\ t.y * SCREEN_COLS \in Int
      BY <1>1 DEF screen, Ids
    <2> QED
      BY <1>1, <2>1, <2>2 DEF CursorOf, Placed
  <1> QED
    BY <1>2, <1>3, <1>4

LEMMA IInvImplies == IInv => DisplayFollows
  <1> SUFFICES ASSUME IInv PROVE DisplayFollows
    OBVIOUS
  <1> DEFINE t == tty[active_tty]
  <1>1. t \in Record /\ Placed(active_tty, t) /\ active_tty \in Ids
    BY DEF IInv
  <1>2. start \in Addr /\ start = t.tlcorner
    BY <1>1, PlacedInMemory DEF IInv
  <1>3. printing = NONE => cursor = t.tlcorner + t.y * SCREEN_COLS + t.x
    BY <1>1, PlacedInMemory, TtyAssumption DEF IInv, NONE, Ids
  <1>4. TypeOK
    <2>1. \A id \in Ids : tty[id] \in Record
      BY DEF IInv
    <2>2. \A id \in Ids : /\ tty[id].x \in 0..(SCREEN_COLS - 1)
                          /\ tty[id].y \in 0..(SCREEN_ROWS - 1)
                          /\ tty[id].ybuf \in 0..(2 * SCREEN_ROWS - 1)
      BY <2>1 DEF Record
    <2> QED
      BY <1>2, <2>2 DEF TypeOK, IInv, Word
  <1> QED
    BY <1>2, <1>3, <1>4 DEF DisplayFollows

-----------------------------------------------------------------------------
(* Stores and the line feed. *)

LEMMA StoreType ==
    ASSUME NEW m \in [Addr -> Word], NEW from \in Int, NEW n \in Nat,
           NEW words, DOMAIN words = 1..n, \A i \in 1..n : words[i] \in Word
    PROVE  Store(m, from, words) \in [Addr -> Word]
  BY DEF Store

LEMMA SpaceType == \A t \in Record : Space(t) \in Word
  BY DEF Space, Word, Record

LEMMA ClearType ==
    ASSUME NEW m \in [Addr -> Word], NEW from \in Int, NEW n \in Nat, NEW w \in Word
    PROVE  memsetw(m, from, n, w) \in [Addr -> Word]
  <1> DEFINE words == [i \in 1..n |-> w]
  <1>1. DOMAIN words = 1..n /\ \A i \in 1..n : words[i] \in Word
    OBVIOUS
  <1> HIDE DEF words
  <1>2. Store(m, from, words) \in [Addr -> Word]
    BY <1>1, StoreType
  <1> QED
    BY <1>2 DEF memsetw, words

LEMMA LineFeedRecord ==
    ASSUME NEW id \in Ids, NEW t \in Record, Placed(id, t), NEW m
    PROVE  linefeed(id, t, m).t \in Record /\ Placed(id, linefeed(id, t, m).t)
  <1> USE TtyAssumption
  <1> DEFINE R == SCREEN_ROWS
             C == SCREEN_COLS
             wrapped == IF t.ybuf + 1 = 2 * R THEN R ELSE t.ybuf + 1
             down == [t EXCEPT !.y = @ + 1, !.ybuf = @ + 1]
             corner == screen(id) + wrapped * C + C - R * C
             scrolled == [t EXCEPT !.ybuf = wrapped, !.tlcorner = corner]
  <1>1. /\ t.y \in 0..(R - 1) /\ t.ybuf \in 0..(2 * R - 1) /\ t.y <= t.ybuf
        /\ screen(id) \in Int
        /\ t.tlcorner = screen(id) + (t.ybuf - t.y) * C
    BY DEF Record, Placed, screen, Ids
  <1>2. linefeed(id, t, m).t = IF t.y + 1 < R THEN down ELSE scrolled
    BY DEF linefeed, SCREEN_SIZE
  <1>3. CASE t.y + 1 < R
    <2>1. t.ybuf = t.y
      BY <1>1, <1>3 DEF Placed
    <2>2. t.y + 1 \in 0..(R - 1) /\ t.ybuf + 1 \in 0..(2 * R - 1)
      BY <1>1, <1>3, <2>1
    <2>3. /\ down \in Record /\ down.y = t.y + 1 /\ down.ybuf = t.ybuf + 1
          /\ down.tlcorner = t.tlcorner
      BY <2>2 DEF Record
    <2>4. down.ybuf - down.y = t.ybuf - t.y
      BY <1>1, <2>3
    <2> HIDE DEF down
    <2> QED
      BY <1>1, <1>2, <1>3, <2>1, <2>3, <2>4 DEF Placed
  <1>4. CASE t.y + 1 >= R
    <2>1. t.y = R - 1 /\ wrapped \in 0..(2 * R - 1) /\ t.y <= wrapped
      <3>1. t.y = R - 1
        <4>1. t.y \in 0..(R - 1) /\ R \in Nat
          BY <1>1
        <4>2. t.y + 1 >= R
          BY <1>4
        <4> QED
          BY <4>1, <4>2
      <3>2. CASE t.ybuf + 1 = 2 * R
        BY <1>1, <3>1, <3>2
      <3>3. CASE t.ybuf + 1 # 2 * R
        BY <1>1, <3>1, <3>3
      <3> QED
        BY <3>1, <3>2, <3>3
    <2> HIDE DEF wrapped
    <2>2. corner = screen(id) + (wrapped - t.y) * C
      <3>1. (wrapped - t.y) * C = wrapped * C - t.y * C
        BY <2>1
      <3>2. t.y * C = R * C - C
        BY <2>1
      <3>3. wrapped * C \in Int /\ R * C \in Int
        BY <2>1
      <3> QED
        BY <1>1, <3>1, <3>2, <3>3
    <2>3. corner \in Int
      BY <1>1, <2>1
    <2> HIDE DEF corner
    <2>4. /\ scrolled \in Record /\ scrolled.y = t.y /\ scrolled.ybuf = wrapped
          /\ scrolled.tlcorner = corner
      BY <2>1, <2>3 DEF Record
    <2> HIDE DEF scrolled
    <2> QED
      BY <1>1, <1>2, <1>4, <2>1, <2>2, <2>4 DEF Placed
  <1> QED
    BY <1>1, <1>3, <1>4

LEMMA RowCopyType ==
    ASSUME NEW id \in Ids, NEW k \in 0..(2 * SCREEN_ROWS), NEW m \in [Addr -> Word]
    PROVE  RowCopy(m, screen(id) + k * SCREEN_COLS) \in [Addr -> Word]
  <1> USE TtyAssumption
  <1> DEFINE row == screen(id) + k * SCREEN_COLS
             words == [i \in 1..SCREEN_COLS |->
                          IF row + i - 1 \in Addr THEN m[row + i - 1] ELSE <<0, BLANK>>]
  <1>1. row \in Int /\ row - SCREEN_SIZE \in Int
    BY DEF screen, Ids, SCREEN_SIZE
  <1>2. \A i \in 1..SCREEN_COLS : words[i] \in Word
    <2> SUFFICES ASSUME NEW i \in 1..SCREEN_COLS PROVE words[i] \in Word
      OBVIOUS
    <2>1. i - 1 \in 0..(SCREEN_COLS - 1)
      OBVIOUS
    <2>2. row + (i - 1) \in Addr
      BY <2>1, RowInMemory
    <2>3. row + i - 1 = row + (i - 1)
      BY <1>1
    <2> HIDE DEF row
    <2> QED
      BY <2>2, <2>3
  <1>3. RowCopy(m, row) = Store(m, row - SCREEN_SIZE, words)
    BY DEF RowCopy
  <1>4. DOMAIN words = 1..SCREEN_COLS
    OBVIOUS
  <1> HIDE DEF words, row
  <1>5. Store(m, row - SCREEN_SIZE, words) \in [Addr -> Word]
    BY <1>1, <1>2, <1>4, StoreType
  <1> QED
    BY <1>3, <1>5 DEF row

LEMMA LineFeedMemory ==
    ASSUME NEW id \in Ids, NEW t \in Record, NEW m \in [Addr -> Word]
    PROVE  linefeed(id, t, m).m \in [Addr -> Word]
  <1> USE TtyAssumption
  <1> DEFINE row == screen(id) + t.ybuf * SCREEN_COLS
             wrapped == IF t.ybuf + 1 = 2 * SCREEN_ROWS THEN SCREEN_ROWS ELSE t.ybuf + 1
             bottom == screen(id) + wrapped * SCREEN_COLS
  <1>1. t.ybuf \in 0..(2 * SCREEN_ROWS) /\ screen(id) \in Int
    BY DEF Record, screen, Ids
  <1>2. row \in Int /\ bottom \in Int
    BY <1>1
  <1>3. RowCopy(m, row) \in [Addr -> Word]
    BY <1>1, RowCopyType
  <1>4. memsetw(RowCopy(m, row), bottom, 2 * SCREEN_COLS, Space(t)) \in [Addr -> Word]
    <2>1. Space(t) \in Word /\ 2 * SCREEN_COLS \in Nat
      BY SpaceType
    <2> HIDE DEF row, bottom
    <2> QED
      BY <1>2, <1>3, <2>1, ClearType
  <1>5. linefeed(id, t, m).m = IF t.y + 1 < SCREEN_ROWS THEN RowCopy(m, row)
             ELSE memsetw(RowCopy(m, row), bottom, 2 * SCREEN_COLS, Space(t))
    BY DEF linefeed
  <1> HIDE DEF row, bottom
  <1> QED
    BY <1>3, <1>4, <1>5

-----------------------------------------------------------------------------
(* Printing. *)

\* What is printed to a console moves its window, and the start register with
\* it if it is the one on display.
LEMMA ScrollIInv ==
    ASSUME IInv, NEW id \in Ids, printing = id, NEW s, Scroll(id, s),
           s.t \in Record, Placed(id, s.t), s.m \in [Addr -> Word],
           UNCHANGED <<active_tty, cursor, printing>>
    PROVE  IInv'
  <1>1. /\ tty' = [tty EXCEPT ![id] = s.t] /\ mem' = s.m
        /\ start' = IF id = active_tty THEN s.t.tlcorner ELSE start
    BY DEF Scroll
  <1>2. \A i \in Ids : tty'[i] = IF i = id THEN s.t ELSE tty[i]
    BY <1>1 DEF IInv
  <1>3. tty' \in [Ids -> Record] /\ \A i \in Ids : Placed(i, tty'[i])
    BY <1>1, <1>2 DEF IInv
  <1>4. start' = tty'[active_tty].tlcorner
    BY <1>1, <1>2 DEF IInv
  <1>5. printing # active_tty => cursor = CursorOf(active_tty, tty'[active_tty])
    BY <1>2 DEF IInv
  <1> QED
    BY <1>1, <1>3, <1>4, <1>5 DEF IInv

LEMMA PrintIInv ==
    ASSUME IInv, NEW id \in Users, Printing(id)
    PROVE  IInv'
  <1> USE TtyAssumption
  <1>1. id \in Ids /\ id \in 0..MAX_TTYS
    BY DEF Ids
  <1> DEFINE t == tty[id]
  <1>2. /\ t \in Record /\ Placed(id, t) /\ mem \in [Addr -> Word]
        /\ t.x \in 0..(SCREEN_COLS - 1)
    BY <1>1 DEF IInv, Record
  <1>3. CursorOf(id, t) \in Addr
    BY <1>1, <1>2, PlacedInMemory
  <1>4. ASSUME NEW x \in 0..(SCREEN_COLS - 1)
        PROVE  [t EXCEPT !.x = x] \in Record /\ Placed(id, [t EXCEPT !.x = x])
    BY <1>2, <1>4 DEF Record, Placed
  <1>5. CASE PrintBegin(id)
    BY <1>1, <1>5 DEF PrintBegin, IInv, NONE, Ids
  <1>6. CASE PrintEnd(id)
    <2>1. cursor' = IF id = active_tty THEN CursorOf(id, t) ELSE cursor
      BY <1>6 DEF PrintEnd
    <2> QED
      BY <1>3, <1>6, <2>1 DEF PrintEnd, IInv, NONE
  <1>7. CASE NewLine(id)
    <2> DEFINE s == linefeed(id, [t EXCEPT !.x = 0], mem)
    <2>1. s.t \in Record /\ Placed(id, s.t) /\ s.m \in [Addr -> Word]
      <3>1. 0 \in 0..(SCREEN_COLS - 1)
        OBVIOUS
      <3> QED
        BY <1>1, <1>2, <1>4, <3>1, LineFeedRecord, LineFeedMemory
    <2>2. printing = id /\ Scroll(id, s) /\ UNCHANGED <<active_tty, cursor, printing>>
      BY <1>7 DEF NewLine
    <2> HIDE DEF s
    <2> QED
      BY <1>1, <2>1, <2>2, ScrollIInv
  <1>8. ASSUME NEW ch \in Chars, Put(id, ch) PROVE IInv'
    <2> DEFINE m == Store(mem, CursorOf(id, t), <<<<t.textcolor, ch>>>>)
               s == IF t.x + 1 = SCREEN_COLS
                    THEN linefeed(id, [t EXCEPT !.x = 0], m)
                    ELSE [t |-> [t EXCEPT !.x = @ + 1], m |-> m]
    <2>1. m \in [Addr -> Word]
      <3> DEFINE words == <<<<t.textcolor, ch>>>>
      <3>1. DOMAIN words = 1..1 /\ \A i \in 1..1 : words[i] = <<t.textcolor, ch>>
        OBVIOUS
      <3>2. <<t.textcolor, ch>> \in Word
        BY <1>2 DEF Word, Record
      <3> HIDE DEF words
      <3>3. CursorOf(id, t) \in Int
        BY <1>3 DEF Addr
      <3>4. Store(mem, CursorOf(id, t), words) \in [Addr -> Word]
        BY <1>2, <3>1, <3>2, <3>3, StoreType
      <3> QED
        BY <3>4 DEF words
    <2>2. printing = id /\ Scroll(id, s) /\ UNCHANGED <<active_tty, cursor, printing>>
      BY <1>8 DEF Put
    <2> HIDE DEF m
    <2>3. s.t \in Record /\ Placed(id, s.t) /\ s.m \in [Addr -> Word]
      <3>1. CASE t.x + 1 = SCREEN_COLS
        <4>1. 0 \in 0..(SCREEN_COLS - 1)
          OBVIOUS
        <4>2. s = linefeed(id, [t EXCEPT !.x = 0], m)
          BY <3>1
        <4> HIDE DEF s
        <4> QED
          BY <1>1, <1>4, <2>1, <4>1, <4>2, LineFeedRecord, LineFeedMemory
      <3>2. CASE t.x + 1 # SCREEN_COLS
        <4>1. t.x + 1 \in 0..(SCREEN_COLS - 1)
          BY <1>2, <3>2
        <4>2. s.t = [t EXCEPT !.x = t.x + 1] /\ s.m = m
          BY <3>2
        <4> HIDE DEF s
        <4> QED
          BY <1>4, <2>1, <4>1, <4>2
      <3> QED
        BY <3>1, <3>2
    <2> HIDE DEF s
    <2> QED
      BY <1>1, <2>2, <2>3, ScrollIInv
  <1>9. CASE Backspace(id)
    <2> DEFINE u == [t EXCEPT !.x = @ - 1]
               s == [t |-> u, m |-> Store(mem, CursorOf(id, u), <<Space(u)>>)]
    <2>1. u \in Record /\ Placed(id, u)
      <3>1. t.x - 1 \in 0..(SCREEN_COLS - 1) /\ u = [t EXCEPT !.x = t.x - 1]
        BY <1>2, <1>9 DEF Backspace
      <3> QED
        BY <1>4, <3>1
    <2>2. printing = id /\ Scroll(id, s) /\ UNCHANGED <<active_tty, cursor, printing>>
      BY <1>9 DEF Backspace
    <2> HIDE DEF u
    <2>3. CursorOf(id, u) \in Int /\ Space(u) \in Word
      BY <1>1, <2>1, PlacedInMemory, SpaceType DEF Addr
    <2>4. s.m \in [Addr -> Word]
      <3> DEFINE words == <<Space(u)>>
      <3>1. DOMAIN words = 1..1 /\ \A i \in 1..1 : words[i] = Space(u)
        OBVIOUS
      <3> HIDE DEF words
      <3>2. Store(mem, CursorOf(id, u), words) \in [Addr -> Word]
        BY <1>2, <2>3, <3>1, StoreType
      <3> QED
        BY <3>2 DEF words
    <2>5. s.t = u
      OBVIOUS
    <2> HIDE DEF s
    <2> QED
      BY <1>1, <2>1, <2>2, <2>4, <2>5, ScrollIInv
  <1>10. ASSUME NEW code \in Codes, ColorCode(id, code) PROVE IInv'
    <2> DEFINE s == [t |-> [t EXCEPT !.textcolor = code], m |-> mem]
    <2>1. s.t \in Record /\ Placed(id, s.t) /\ s.m \in [Addr -> Word]
      BY <1>2 DEF Record, Placed
    <2>2. printing = id /\ Scroll(id, s) /\ UNCHANGED <<active_tty, cursor, printing>>
      <3>1. s.t.tlcorner = t.tlcorner
        BY <1>2 DEF Record
      <3> QED
        BY <1>1, <1>10, <3>1 DEF ColorCode, Scroll, IInv
    <2> HIDE DEF s
    <2> QED
      BY <1>1, <2>1, <2>2, ScrollIInv
  <1> QED
    BY <1>5, <1>6, <1>7, <1>8, <1>9, <1>10 DEF Printing

-----------------------------------------------------------------------------
(* The other calls. *)

LEMMA ActivateIInv ==
    ASSUME IInv, NEW arg \in 0..MAX_TTYS, tty_activate(arg)
    PROVE  IInv'
  <1>1. Valid(arg) \in Ids
    BY TtyAssumption DEF Valid, Ids
  <1>2. /\ active_tty' = Valid(arg) /\ start' = tty[Valid(arg)].tlcorner
        /\ cursor' = CursorOf(Valid(arg), tty[Valid(arg)])
        /\ UNCHANGED <<mem, tty, printing>>
    BY DEF tty_activate
  <1>3. cursor' \in Addr
    BY <1>1, <1>2, PlacedInMemory DEF IInv
  <1> QED
    BY <1>1, <1>2, <1>3 DEF IInv

LEMMA ClearIInv ==
    ASSUME IInv, NEW id \in Users, tty_clear(id)
    PROVE  IInv'
  <1> USE TtyAssumption
  <1> DEFINE t == [tty[id] EXCEPT !.x = 0, !.y = 0, !.ybuf = 0, !.tlcorner = screen(id)]
             m == memsetw(mem, screen(id), 2 * SCREEN_SIZE, Space(t))
  <1>1. id \in Ids
    BY DEF Ids
  <1>2. screen(id) \in Int /\ 2 * SCREEN_SIZE \in Nat
    BY <1>1 DEF screen, Ids, SCREEN_SIZE
  <1>3. t \in Record /\ Placed(id, t)
    <2>1. tty[id] \in Record /\ (0 - 0) * SCREEN_COLS = 0
      BY <1>1 DEF IInv
    <2>2. 0 \in 0..(SCREEN_COLS - 1) /\ 0 \in 0..(SCREEN_ROWS - 1)
          /\ 0 \in 0..(2 * SCREEN_ROWS - 1)
      OBVIOUS
    <2>3. t \in Record /\ t.y = 0 /\ t.ybuf = 0 /\ t.tlcorner = screen(id)
      BY <1>2, <2>1, <2>2 DEF Record
    <2> HIDE DEF t
    <2> QED
      BY <1>2, <2>1, <2>3 DEF Placed
  <1>4. /\ mem' = m /\ tty' = [tty EXCEPT ![id] = t]
        /\ start' = IF id = active_tty THEN t.tlcorner ELSE start
        /\ cursor' = IF id = active_tty THEN CursorOf(id, t) ELSE cursor
        /\ UNCHANGED <<active_tty, printing>>
    BY DEF tty_clear
  <1> HIDE DEF t
  <1>5. m \in [Addr -> Word]
    BY <1>2, <1>3, SpaceType, ClearType DEF IInv
  <1>6. CursorOf(id, t) \in Addr
    BY <1>1, <1>3, PlacedInMemory
  <1> HIDE DEF m
  <1>7. \A i \in Ids : tty'[i] = IF i = id THEN t ELSE tty[i]
    BY <1>4 DEF IInv
  <1>8. tty' \in [Ids -> Record] /\ \A i \in Ids : Placed(i, tty'[i])
    BY <1>3, <1>4, <1>7 DEF IInv
  <1>9. start' = tty'[active_tty].tlcorner
    BY <1>4, <1>7 DEF IInv
  <1>10. printing # active_tty => cursor' = CursorOf(active_tty, tty'[active_tty])
    BY <1>4, <1>7 DEF IInv
  <1> QED
    BY <1>4, <1>5, <1>6, <1>8, <1>9, <1>10 DEF IInv

LEMMA SetTextcolorIInv ==
    ASSUME IInv, NEW id \in Users, NEW code \in Codes, tty_set_textcolor(id, code)
    PROVE  IInv'
  <1> DEFINE t == [tty[id] EXCEPT !.textcolor = code, !.textcolor_orig = code]
  <1>1. id \in Ids
    BY TtyAssumption DEF Ids
  <1>2. /\ t \in Record /\ Placed(id, t) /\ t.tlcorner = tty[id].tlcorner
        /\ CursorOf(id, t) = CursorOf(id, tty[id])
    BY <1>1 DEF IInv, Record, Placed, CursorOf
  <1>3. tty' = [tty EXCEPT ![id] = t]
    BY <1>1 DEF tty_set_textcolor, IInv
  <1> HIDE DEF t
  <1>4. \A i \in Ids : tty'[i] = IF i = id THEN t ELSE tty[i]
    BY <1>3 DEF IInv
  <1>5. tty' \in [Ids -> Record] /\ \A i \in Ids : Placed(i, tty'[i])
    BY <1>2, <1>3, <1>4 DEF IInv
  <1> QED
    BY <1>2, <1>4, <1>5 DEF IInv, tty_set_textcolor

-----------------------------------------------------------------------------
(* The theorem. *)

LEMMA InitIInv == Init => IInv
  <1> SUFFICES ASSUME Init PROVE IInv
    OBVIOUS
  <1> USE TtyAssumption
  <1>1. FirstCode \in Codes
    BY DEF FirstCode
  <1>2. 0 \in Ids /\ \A id \in Ids : screen(id) \in Int
    BY DEF Ids, screen
  <1>3. tty \in [Ids -> Record]
    BY <1>1, <1>2 DEF Init, tty_init, Record
  <1>4. \A id \in Ids : tty[id].y = 0 /\ tty[id].ybuf = 0 /\ tty[id].x = 0
                        /\ tty[id].tlcorner = screen(id)
    BY DEF Init, tty_init
  <1>5. \A id \in Ids : Placed(id, tty[id])
    <2>1. (0 - 0) * SCREEN_COLS = 0
      OBVIOUS
    <2> QED
      BY <1>2, <1>4, <2>1 DEF Placed
  <1>6. screen(0) = 0 /\ CursorOf(0, tty[0]) = 0
    BY <1>2, <1>4 DEF screen, CursorOf
  <1>7. mem \in [Addr -> Word]
    BY <1>1 DEF Init, Word
  <1>8. cursor \in Addr
    BY <1>2, <1>3, <1>5, <1>6, PlacedInMemory DEF Init
  <1>9. active_tty = 0 /\ start = 0 /\ cursor = 0 /\ printing \in 0..MAX_TTYS
    BY DEF Init, NONE
  <1> QED
    BY <1>2, <1>3, <1>4, <1>5, <1>6, <1>7, <1>8, <1>9 DEF IInv

LEMMA NextIInv == IInv /\ [Next]_vars => IInv'
  <1>1. IInv /\ UNCHANGED vars => IInv'
    BY DEF IInv, vars
  <1> QED
    BY <1>1, PrintIInv, ActivateIInv, ClearIInv, SetTextcolorIInv DEF Next

\* Between two calls the display shows the window of the active console with
\* the cursor where the next character goes, and no character is stored
\* outside a console's memory, for every number of consoles and every size of
\* screen and memory.
THEOREM DisplayCorrect == Spec => []DisplayFollows
  BY InitIInv, NextIInv, IInvImplies, PTL DEF Spec

-----------------------------------------------------------------------------
(* The first console's buffer, by rows and columns.  Its memory begins at   *)
(* address 0, so the row above its first is in nobody's memory.             *)

BufRows == 0..(2 * SCREEN_ROWS)     \* the buffer's rows and the one after them
Cols == 0..(SCREEN_COLS - 1)

Pos(k, c) == k * SCREEN_COLS + c

LEMMA PosInt == \A k \in Int, c \in Int : Pos(k, c) \in Int
  BY TtyAssumption DEF Pos

LEMMA RowBefore ==
    ASSUME NEW j \in Int, NEW k \in Int, j < k
    PROVE  j * SCREEN_COLS + SCREEN_COLS <= k * SCREEN_COLS
  <1> USE TtyAssumption
  <1> DEFINE n == k - (j + 1)
  <1>1. n \in Nat /\ k = j + 1 + n
    OBVIOUS
  <1>2. n * SCREEN_COLS \in Nat
    <2> HIDE DEF n
    <2>. QED  BY <1>1
  <1>3. k * SCREEN_COLS = j * SCREEN_COLS + SCREEN_COLS + n * SCREEN_COLS
    <2> HIDE DEF n
    <2>. QED  BY <1>1
  <1>4. j * SCREEN_COLS \in Int  OBVIOUS
  <1> HIDE DEF n
  <1>. QED  BY <1>2, <1>3, <1>4

\* Different rows share no address.
LEMMA PosApart ==
    ASSUME NEW j \in Int, NEW k \in Int, NEW c \in Cols, NEW d \in Cols
    PROVE  /\ Pos(j, c) = Pos(k, d) <=> j = k /\ c = d
           /\ j < k => Pos(j, c) < Pos(k, d)
  <1> USE TtyAssumption
  <1>1. c \in 0..(SCREEN_COLS - 1) /\ d \in 0..(SCREEN_COLS - 1)  BY DEF Cols
  <1>2. j * SCREEN_COLS \in Int /\ k * SCREEN_COLS \in Int  OBVIOUS
  <1>3. CASE j < k
    BY <1>1, <1>2, <1>3, RowBefore DEF Pos
  <1>4. CASE k < j
    BY <1>1, <1>2, <1>4, RowBefore DEF Pos
  <1>5. CASE j = k
    BY <1>1, <1>2, <1>5 DEF Pos
  <1>. QED  BY <1>3, <1>4, <1>5

LEMMA PosInMemory ==
    ASSUME NEW k \in BufRows, NEW c \in Cols
    PROVE  Pos(k, c) \in Addr /\ Pos(k, c) \in 0..(STRIDE - 1)
  <1> USE TtyAssumption
  <1>1. 0 \in Ids /\ screen(0) = 0  BY DEF Ids, screen
  <1>2. Pos(k, c) \in 0..(STRIDE - 1)  BY RowInBuffer DEF BufRows, Cols, Pos
  <1>3. screen(0) + Pos(k, c) \in Addr  BY <1>1, <1>2, InMemory
  <1>. QED  BY <1>1, <1>2, <1>3

LEMMA ConsoleZero ==
    ASSUME NEW t \in Record
    PROVE  0 \in Ids /\ screen(0) = 0 /\ CursorOf(0, t) = Pos(t.ybuf, t.x)
           /\ t.x \in Cols /\ t.y \in 0..(SCREEN_ROWS - 1)
           /\ t.ybuf \in 0..(2 * SCREEN_ROWS - 1) /\ t.ybuf \in BufRows
  <1> USE TtyAssumption
  <1>1. 0 \in Ids /\ screen(0) = 0  BY DEF Ids, screen
  <1>2. /\ t.x \in Cols /\ t.y \in 0..(SCREEN_ROWS - 1)
        /\ t.ybuf \in 0..(2 * SCREEN_ROWS - 1) /\ t.ybuf \in BufRows
    BY DEF Record, Cols, BufRows
  <1>3. t.ybuf * SCREEN_COLS \in Int /\ t.x \in Int  BY <1>2 DEF Cols
  <1>. QED  BY <1>1, <1>2, <1>3 DEF CursorOf, Pos

\* What a store leaves in a row.
LEMMA CharCell ==
    ASSUME NEW m \in [Addr -> Word], NEW w, NEW j \in BufRows, NEW d \in Cols,
           NEW k \in BufRows, NEW c \in Cols
    PROVE  Store(m, Pos(j, d), <<w>>)[Pos(k, c)]
               = IF k = j /\ c = d THEN w ELSE m[Pos(k, c)]
  <1> DEFINE a == Pos(k, c)
             b == Pos(j, d)
  <1>1. a \in Addr /\ a \in Int /\ b \in Int /\ (a = b <=> k = j /\ c = d)
    BY PosInMemory, PosApart, PosInt DEF BufRows, Cols
  <1> HIDE DEF a, b
  <1>2. Store(m, b, <<w>>)[a] = IF a - b + 1 \in {1} THEN <<w>>[a - b + 1] ELSE m[a]
    BY <1>1 DEF Store
  <1>3. a - b + 1 = 1 <=> a = b
    BY <1>1
  <1>4. Store(m, b, <<w>>)[a] = IF a = b THEN w ELSE m[a]
    BY <1>2, <1>3
  <1>. QED  BY <1>1, <1>4 DEF a, b

LEMMA CopyCell ==
    ASSUME NEW m \in [Addr -> Word], NEW j \in BufRows, NEW k \in BufRows, NEW c \in Cols
    PROVE  RowCopy(m, Pos(j, 0))[Pos(k, c)]
               = IF k = j - SCREEN_ROWS THEN m[Pos(j, c)] ELSE m[Pos(k, c)]
  <1> USE TtyAssumption
  <1> DEFINE C == SCREEN_COLS
             a == Pos(k, c)
             b == Pos(j, 0)
             n == a - (b - SCREEN_SIZE) + 1
             words == [i \in 1..C |-> IF b + i - 1 \in Addr THEN m[b + i - 1]
                                      ELSE <<0, BLANK>>]
  <1>1. /\ j \in Int /\ k \in Int /\ j - SCREEN_ROWS \in Int /\ 0 \in Cols
        /\ c \in Int /\ 0 <= c /\ c < C
    BY DEF BufRows, Cols
  <1>2. b - SCREEN_SIZE = Pos(j - SCREEN_ROWS, 0)
    <2>1. (j - SCREEN_ROWS) * C = j * C - SCREEN_ROWS * C /\ j * C \in Int
          /\ SCREEN_ROWS * C \in Int
      BY <1>1
    <2>. QED  BY <2>1 DEF Pos, SCREEN_SIZE
  <1>3. a \in Addr /\ a \in Int /\ b \in Int /\ b - SCREEN_SIZE \in Int
    BY <1>1, <1>2, PosInMemory, PosInt
  <1>4. RowCopy(m, b)[a] = IF n \in 1..C THEN words[n] ELSE m[a]
    BY <1>3 DEF RowCopy, Store
  <1>5. CASE k = j - SCREEN_ROWS
    <2>1. a = (b - SCREEN_SIZE) + c /\ Pos(j, c) = b + c
      <3>1. (j - SCREEN_ROWS) * C \in Int /\ j * C \in Int  BY <1>1
      <3>. QED  BY <1>1, <1>2, <1>5, <3>1 DEF Pos
    <2>2. n = c + 1 /\ b + n - 1 = Pos(j, c)
      <3> HIDE DEF a, b
      <3>. QED  BY <1>1, <1>3, <2>1
    <2>3. n \in 1..C
      <3> HIDE DEF n
      <3>. QED  BY <1>1, <2>2
    <2>4. Pos(j, c) \in Addr  BY PosInMemory
    <2>5. words[n] = m[Pos(j, c)]
      <3> HIDE DEF n, b
      <3>. QED  BY <2>2, <2>3, <2>4
    <2>. QED  BY <1>4, <1>5, <2>3, <2>5
  <1>6. CASE k # j - SCREEN_ROWS
    <2>1. n \notin 1..C
      <3>1. SUFFICES ASSUME n \in 1..C PROVE FALSE  OBVIOUS
      <3>2. n - 1 \in Cols
        <4> HIDE DEF n
        <4>. QED  BY <3>1 DEF Cols
      <3>3. a = Pos(j - SCREEN_ROWS, n - 1)
        <4>1. Pos(j - SCREEN_ROWS, n - 1) = Pos(j - SCREEN_ROWS, 0) + (n - 1)
          <5>1. (j - SCREEN_ROWS) * C \in Int  BY <1>1
          <5>2. n - 1 \in Int  BY <3>2 DEF Cols
          <5> HIDE DEF n
          <5>. QED  BY <5>1, <5>2 DEF Pos
        <4>2. a = (b - SCREEN_SIZE) + (n - 1)
          <5> HIDE DEF a, b
          <5>. QED  BY <1>3
        <4>. QED  BY <4>1, <4>2, <1>2
      <3> DEFINE d == n - 1
      <3>4. d \in Cols /\ Pos(k, c) = Pos(j - SCREEN_ROWS, d)  BY <3>2, <3>3
      <3> HIDE DEF d, n
      <3>5. k = j - SCREEN_ROWS  BY <3>4, <1>1, PosApart
      <3>. QED  BY <3>5, <1>6
    <2>. QED  BY <1>4, <1>6, <2>1
  <1>. QED  BY <1>5, <1>6

LEMMA ClearCell ==
    ASSUME NEW m \in [Addr -> Word], NEW w, NEW j \in Nat, NEW n \in Nat,
           NEW k \in BufRows, NEW c \in Cols
    PROVE  memsetw(m, Pos(j, 0), n * SCREEN_COLS, w)[Pos(k, c)]
               = IF k \in j..(j + n - 1) THEN w ELSE m[Pos(k, c)]
  <1> USE TtyAssumption
  <1> DEFINE C == SCREEN_COLS
             a == Pos(k, c)
             b == Pos(j, 0)
             i == a - b + 1
  <1>1. k \in Int /\ c \in Int /\ 0 <= c /\ c < C /\ 0 \in Cols  BY DEF BufRows, Cols
  <1>2. a \in Addr /\ a \in Int /\ b \in Int
    BY <1>1, PosInMemory, PosInt
  <1>3. memsetw(m, b, n * C, w)[a] = IF i \in 1..(n * C) THEN w ELSE m[a]
    BY <1>2 DEF memsetw, Store
  <1>4. i \in 1..(n * C) <=> k \in j..(j + n - 1)
    <2>1. /\ a = k * C + c /\ b = j * C /\ k * C \in Int /\ j * C \in Int
          /\ (j + n) * C = j * C + n * C /\ n * C \in Int
      BY <1>1 DEF Pos
    <2>2. CASE k < j
      <3>1. k * C + C <= j * C  BY <1>1, <2>2, RowBefore
      <3> HIDE DEF a, b
      <3>. QED  BY <1>1, <2>1, <2>2, <3>1
    <2>3. CASE k \in j..(j + n - 1)
      <3>1. j * C <= k * C
        BY <1>1, <2>1, <2>3, RowBefore
      <3>2. k * C + C <= (j + n) * C
        BY <1>1, <2>3, RowBefore
      <3> HIDE DEF a, b
      <3>. QED  BY <1>1, <2>1, <2>3, <3>1, <3>2
    <2>4. CASE k >= j + n
      <3>1. (j + n) * C <= k * C
        <4>1. CASE k = j + n  BY <4>1, <2>1
        <4>2. CASE k # j + n
          <5>1. j + n < k /\ j + n \in Int  BY <1>1, <2>4, <4>2
          <5>2. (j + n) * C + C <= k * C  BY <1>1, <5>1, RowBefore
          <5>. QED  BY <5>2, <2>1
        <4>. QED  BY <4>1, <4>2
      <3> HIDE DEF a, b
      <3>. QED  BY <1>1, <2>1, <2>4, <3>1
    <2>. QED  BY <1>1, <2>2, <2>3, <2>4
  <1> HIDE DEF i
  <1>. QED  BY <1>3, <1>4

\* The memories of the other consoles are left alone.
LEMMA StoresNear ==
    ASSUME NEW m \in [Addr -> Word], NEW w, NEW j \in BufRows,
           NEW a \in Addr, a >= STRIDE
    PROVE  /\ \A d \in Cols : Store(m, Pos(j, d), <<w>>)[a] = m[a]
           /\ RowCopy(m, Pos(j, 0))[a] = m[a]
  <1> USE TtyAssumption
  <1> DEFINE C == SCREEN_COLS
             b == Pos(j, 0)
  <1>1. a \in Int /\ j \in Int /\ 0 \in Cols /\ b \in Int /\ b \in 0..(STRIDE - 1)
        /\ C - 1 \in Cols
    <2>1. 0 \in Cols /\ C - 1 \in Cols /\ j \in Int  BY DEF Cols, BufRows
    <2>2. b \in 0..(STRIDE - 1)  BY <2>1, PosInMemory
    <2>3. a \in Int  BY DEF Addr
    <2>. QED  BY <2>1, <2>2, <2>3
  <1>2. ASSUME NEW d \in Cols  PROVE Store(m, Pos(j, d), <<w>>)[a] = m[a]
    <2> DEFINE p == Pos(j, d)
    <2>1. p \in 0..(STRIDE - 1)  BY PosInMemory
    <2> HIDE DEF p
    <2>2. a - p + 1 \notin {1}  BY <1>1, <2>1
    <2>3. Store(m, p, <<w>>)[a] = m[a]  BY <2>2 DEF Store
    <2>. QED  BY <2>3 DEF p
  <1>3. RowCopy(m, b)[a] = m[a]
    <2> DEFINE words == [i \in 1..C |-> IF b + i - 1 \in Addr THEN m[b + i - 1]
                                        ELSE <<0, BLANK>>]
               k == a - (b - SCREEN_SIZE) + 1
    <2>1. RowCopy(m, b)[a] = IF k \in 1..C THEN words[k] ELSE m[a]
      BY DEF RowCopy, Store
    <2>2. b + (C - 1) <= STRIDE - 1
      <3>1. Pos(j, C - 1) = b + (C - 1)  BY <1>1 DEF Pos
      <3>2. Pos(j, C - 1) \in 0..(STRIDE - 1)  BY <1>1, PosInMemory
      <3>. QED  BY <3>1, <3>2
    <2>3. SCREEN_SIZE \in Nat /\ SCREEN_SIZE >= 1
      <3>1. 1 * C <= SCREEN_ROWS * C  BY MulMono
      <3>. QED  BY <3>1 DEF SCREEN_SIZE
    <2> HIDE DEF b
    <2>4. k \notin 1..C  BY <1>1, <2>2, <2>3
    <2> HIDE DEF k
    <2>. QED  BY <2>1, <2>4
  <1>. QED  BY <1>2, <1>3

LEMMA ClearNear ==
    ASSUME NEW m \in [Addr -> Word], NEW w, NEW j \in Nat, NEW n \in Nat,
           j + n <= 2 * SCREEN_ROWS + 1, NEW a \in Addr, a >= STRIDE
    PROVE  memsetw(m, Pos(j, 0), n * SCREEN_COLS, w)[a] = m[a]
  <1> USE TtyAssumption
  <1> DEFINE C == SCREEN_COLS
             b == Pos(j, 0)
             i == a - b + 1
  <1>1. a \in Int /\ b \in Int /\ n * C \in Int
    BY PosInt DEF Addr
  <1>2. memsetw(m, b, n * C, w)[a] = IF i \in 1..(n * C) THEN w ELSE m[a]
    BY DEF memsetw, Store
  <1>3. b + n * C <= STRIDE
    <2>1. b = j * C /\ (j + n) * C = j * C + n * C /\ j * C \in Int
      BY DEF Pos
    <2>2. (j + n) * C <= (2 * SCREEN_ROWS + 1) * C
      BY MulMono
    <2> HIDE DEF b
    <2>. QED  BY <1>1, <2>1, <2>2
  <1> HIDE DEF b
  <1>4. i \notin 1..(n * C)  BY <1>1, <1>3
  <1> HIDE DEF i
  <1>. QED  BY <1>2, <1>4 DEF b

-----------------------------------------------------------------------------
(* The line feed on the first console. *)

ScreenRows == 0..(SCREEN_ROWS - 1)

\* What the display shows of console 0 if its record is t and memory is m.
Win(m, t) ==
    [r \in ScreenRows |-> [c \in Cols |-> m[Pos(t.ybuf - t.y + r, c)]]]

\* Every row that has been left in the buffer's second screen is also one
\* screen up, where the window is to be after the next wrap.
Copies(m, t) ==
    \A k \in SCREEN_ROWS..(t.ybuf - 1) : \A c \in Cols :
        m[Pos(k, c)] = m[Pos(k - SCREEN_ROWS, c)]

Far(m, n) == \A a \in Addr : a >= STRIDE => n[a] = m[a]

\* Above the bottom row nothing moves: the row is copied to where nobody's
\* memory is.
LEMMA LineFeedDown ==
    ASSUME NEW t \in Record, Placed(0, t), NEW m \in [Addr -> Word],
           t.y + 1 < SCREEN_ROWS
    PROVE  LET s == linefeed(0, t, m)
           IN  /\ s.t = [t EXCEPT !.y = t.y + 1, !.ybuf = t.ybuf + 1]
               /\ \A k \in BufRows, c \in Cols : s.m[Pos(k, c)] = m[Pos(k, c)]
               /\ Far(m, s.m)
  <1> USE TtyAssumption
  <1> DEFINE s == linefeed(0, t, m)
             j == t.ybuf
  <1>1. /\ screen(0) = 0 /\ t.y \in ScreenRows /\ j \in BufRows
        /\ j \in 0..(2 * SCREEN_ROWS - 1)
    BY ConsoleZero DEF ScreenRows
  <1>2. j < SCREEN_ROWS
    <2>1. j = t.y  BY <1>1 DEF Placed, ScreenRows
    <2>. QED  BY <1>1, <2>1 DEF ScreenRows
  <1>3. screen(0) + j * SCREEN_COLS = Pos(j, 0)
    <2>1. j * SCREEN_COLS \in Int  BY <1>1
    <2>. QED  BY <1>1, <2>1 DEF Pos
  <1>4. s.t = [t EXCEPT !.y = t.y + 1, !.ybuf = t.ybuf + 1] /\ s.m = RowCopy(m, Pos(j, 0))
    BY <1>3 DEF linefeed
  <1> HIDE DEF s, j
  <1>5. ASSUME NEW k \in BufRows, NEW c \in Cols  PROVE s.m[Pos(k, c)] = m[Pos(k, c)]
    <2>1. k # j - SCREEN_ROWS  BY <1>1, <1>2 DEF BufRows
    <2>. QED  BY <1>1, <1>4, <2>1, CopyCell
  <1>6. Far(m, s.m)
    <2> SUFFICES ASSUME NEW a \in Addr, a >= STRIDE  PROVE s.m[a] = m[a]
      BY DEF Far
    <2>1. RowCopy(m, Pos(j, 0))[a] = m[a]  BY <1>1, StoresNear
    <2>. QED  BY <1>4, <2>1
  <1>. QED  BY <1>4, <1>5, <1>6 DEF s, j

\* On the bottom row the row is copied one screen up, and two rows are
\* cleared at the window's new end.
LEMMA LineFeedScroll ==
    ASSUME NEW t \in Record, Placed(0, t), NEW m \in [Addr -> Word],
           t.y + 1 = SCREEN_ROWS
    PROVE  LET s == linefeed(0, t, m)
               w == IF t.ybuf + 1 = 2 * SCREEN_ROWS THEN SCREEN_ROWS ELSE t.ybuf + 1
           IN  /\ \E corner : s.t = [t EXCEPT !.ybuf = w, !.tlcorner = corner]
               /\ \A k \in BufRows, c \in Cols :
                      s.m[Pos(k, c)] = IF k \in {w, w + 1} THEN Space(t)
                                       ELSE IF k = t.ybuf - SCREEN_ROWS THEN m[Pos(t.ybuf, c)]
                                       ELSE m[Pos(k, c)]
               /\ Far(m, s.m)
  <1> USE TtyAssumption
  <1> DEFINE s == linefeed(0, t, m)
             j == t.ybuf
             w == IF j + 1 = 2 * SCREEN_ROWS THEN SCREEN_ROWS ELSE j + 1
             copied == RowCopy(m, Pos(j, 0))
             corner == screen(0) + w * SCREEN_COLS + SCREEN_COLS - SCREEN_SIZE
  <1>1. /\ screen(0) = 0 /\ j \in BufRows /\ 0 \in Ids
        /\ j \in 0..(2 * SCREEN_ROWS - 1) /\ w \in BufRows /\ w \in Nat
        /\ w + 2 <= 2 * SCREEN_ROWS + 1
    <2>1. /\ screen(0) = 0 /\ j \in BufRows /\ 0 \in Ids
          /\ j \in 0..(2 * SCREEN_ROWS - 1)
      BY ConsoleZero
    <2>2. w \in BufRows /\ w \in Nat /\ w + 2 <= 2 * SCREEN_ROWS + 1
      <3>1. CASE j + 1 = 2 * SCREEN_ROWS  BY <2>1, <3>1 DEF BufRows
      <3>2. CASE j + 1 # 2 * SCREEN_ROWS
        <4>1. w = j + 1  BY <3>2
        <4> HIDE DEF w
        <4>. QED  BY <2>1, <3>2, <4>1 DEF BufRows
      <3>. QED  BY <3>1, <3>2
    <2>. QED  BY <2>1, <2>2
  <1>2. screen(0) + j * SCREEN_COLS = Pos(j, 0) /\ screen(0) + w * SCREEN_COLS = Pos(w, 0)
    <2> HIDE DEF w
    <2>1. j * SCREEN_COLS \in Int /\ w * SCREEN_COLS \in Int  BY <1>1
    <2>. QED  BY <1>1, <2>1 DEF Pos
  <1>3. /\ s.t = [t EXCEPT !.ybuf = w, !.tlcorner = corner]
        /\ s.m = memsetw(copied, Pos(w, 0), 2 * SCREEN_COLS, Space(t))
    BY <1>2 DEF linefeed
  <1> HIDE DEF s, w, corner
  <1>4. copied \in [Addr -> Word]
    <2>1. j \in 0..(2 * SCREEN_ROWS)  BY <1>1 DEF BufRows
    <2>2. RowCopy(m, screen(0) + j * SCREEN_COLS) \in [Addr -> Word]
      BY <1>1, <2>1, RowCopyType
    <2>. QED  BY <1>2, <2>2
  <1>5. ASSUME NEW k \in BufRows, NEW c \in Cols
        PROVE  s.m[Pos(k, c)] = IF k \in {w, w + 1} THEN Space(t)
                                ELSE IF k = j - SCREEN_ROWS THEN m[Pos(j, c)]
                                ELSE m[Pos(k, c)]
    <2>1. copied[Pos(k, c)] = IF k = j - SCREEN_ROWS THEN m[Pos(j, c)] ELSE m[Pos(k, c)]
      BY <1>1, CopyCell
    <2>2. k \in w..(w + 2 - 1) <=> k \in {w, w + 1}
      BY <1>1 DEF BufRows
    <2> HIDE DEF copied, j
    <2>3. s.m[Pos(k, c)] = IF k \in w..(w + 2 - 1) THEN Space(t) ELSE copied[Pos(k, c)]
      BY <1>1, <1>3, <1>4, ClearCell
    <2>. QED  BY <2>1, <2>2, <2>3
  <1>6. Far(m, s.m)
    <2> SUFFICES ASSUME NEW a \in Addr, a >= STRIDE  PROVE s.m[a] = m[a]
      BY DEF Far
    <2>1. copied[a] = m[a]  BY <1>1, StoresNear
    <2> HIDE DEF copied, j
    <2>2. memsetw(copied, Pos(w, 0), 2 * SCREEN_COLS, Space(t))[a] = copied[a]
      BY <1>1, <1>4, ClearNear
    <2>. QED  BY <1>3, <2>1, <2>2
  <1>. QED  BY <1>3, <1>5, <1>6 DEF s, w, j

\* A line feed moves the window's rows up, if the cursor was on the last, and
\* keeps the copies.
LEMMA LineFeedWindow ==
    ASSUME NEW t \in Record, Placed(0, t), NEW m \in [Addr -> Word], Copies(m, t)
    PROVE  LET s == linefeed(0, t, m)
           IN  /\ Copies(s.m, s.t)
               /\ s.t.x = t.x /\ s.t.textcolor = t.textcolor
               /\ s.t.textcolor_orig = t.textcolor_orig
               /\ s.t.y = IF t.y < SCREEN_ROWS - 1 THEN t.y + 1 ELSE t.y
               /\ Win(s.m, s.t) =
                      IF t.y < SCREEN_ROWS - 1 THEN Win(m, t)
                      ELSE [r \in ScreenRows |->
                               IF r < SCREEN_ROWS - 1 THEN Win(m, t)[r + 1]
                               ELSE [c \in Cols |-> Space(t)]]
               /\ Far(m, s.m)
  <1> USE TtyAssumption
  <1> DEFINE s == linefeed(0, t, m)
             R == SCREEN_ROWS
             j == t.ybuf
             moved == [r \in ScreenRows |-> IF r < R - 1 THEN Win(m, t)[r + 1]
                                            ELSE [c \in Cols |-> Space(t)]]
  <1>1. /\ t.y \in ScreenRows /\ t.y \in 0..(R - 1) /\ j \in 0..(2 * R - 1)
        /\ t.y <= j /\ (t.y # R - 1 => j = t.y)
    BY ConsoleZero DEF ScreenRows, Placed
  <1>2. CASE t.y + 1 < R
    <2>1. /\ s.t = [t EXCEPT !.y = t.y + 1, !.ybuf = t.ybuf + 1]
          /\ \A k \in BufRows, c \in Cols : s.m[Pos(k, c)] = m[Pos(k, c)]
          /\ Far(m, s.m)
      BY <1>2, LineFeedDown
    <2> HIDE DEF s
    <2>2. /\ s.t.y = t.y + 1 /\ s.t.ybuf = j + 1 /\ s.t.x = t.x
          /\ s.t.textcolor = t.textcolor /\ s.t.textcolor_orig = t.textcolor_orig
      BY <2>1 DEF Record
    <2>3. j = t.y  BY <1>1, <1>2
    <2>4. Copies(s.m, s.t)
      <3>1. R..(s.t.ybuf - 1) = {}  BY <1>1, <1>2, <2>2, <2>3
      <3>. QED  BY <3>1 DEF Copies
    <2>5. Win(s.m, s.t) = Win(m, t)
      <3>1. s.t.ybuf - s.t.y = 0 /\ t.ybuf - t.y = 0  BY <1>1, <2>2, <2>3
      <3>2. \A r \in ScreenRows : 0 + r \in BufRows  BY DEF ScreenRows, BufRows
      <3>. QED  BY <2>1, <3>1, <3>2 DEF Win
    <2>. QED  BY <1>1, <1>2, <2>1, <2>2, <2>4, <2>5 DEF s
  <1>3. CASE ~(t.y + 1 < R)
    <2> DEFINE w == IF j + 1 = 2 * R THEN R ELSE j + 1
    <2>1. t.y = R - 1 /\ t.y + 1 = R /\ ~(t.y < R - 1) /\ j >= R - 1  BY <1>1, <1>3
    <2>2. /\ \E corner : s.t = [t EXCEPT !.ybuf = w, !.tlcorner = corner]
          /\ \A k \in BufRows, c \in Cols :
                 s.m[Pos(k, c)] = IF k \in {w, w + 1} THEN Space(t)
                                  ELSE IF k = j - R THEN m[Pos(j, c)]
                                  ELSE m[Pos(k, c)]
          /\ Far(m, s.m)
      BY <2>1, LineFeedScroll
    <2> HIDE DEF s
    <2>3. /\ s.t.y = t.y /\ s.t.ybuf = w /\ s.t.x = t.x
          /\ s.t.textcolor = t.textcolor /\ s.t.textcolor_orig = t.textcolor_orig
      BY <2>2 DEF Record
    <2>4. w \in Nat /\ (j = 2 * R - 1 => w = R) /\ (j # 2 * R - 1 => w = j + 1)
      BY <1>1
    <2> HIDE DEF w
    <2>5. ASSUME NEW r \in ScreenRows, r < R - 1, NEW c \in Cols
          PROVE  s.m[Pos(s.t.ybuf - s.t.y + r, c)] = m[Pos(j - t.y + (r + 1), c)]
      <3> DEFINE k == s.t.ybuf - s.t.y + r
      <3>1. r \in Nat /\ r < R - 1  BY <2>5 DEF ScreenRows
      <3>2. k = w - (R - 1) + r /\ j - t.y + (r + 1) = j - (R - 1) + (r + 1)
        BY <1>1, <2>1, <2>3, <2>4, <3>1
      <3> HIDE DEF k
      <3>3. CASE j = 2 * R - 1
        <4>1. /\ k = r + 1 /\ k \in BufRows /\ k \notin {w, w + 1}
              /\ j - t.y + (r + 1) = R + k /\ j - R = R - 1 /\ k \in Int /\ k <= R - 1
          BY <1>1, <2>4, <3>1, <3>2, <3>3 DEF BufRows
        <4>2. s.m[Pos(k, c)] = IF k = j - R THEN m[Pos(j, c)] ELSE m[Pos(k, c)]
          BY <2>2, <2>5, <4>1
        <4>3. CASE k = j - R
          <5>1. R + k = j  BY <3>3, <4>1, <4>3
          <5>. QED  BY <4>1, <4>2, <4>3, <5>1 DEF k
        <4>4. CASE k # j - R
          <5>1. R + k \in R..(j - 1) /\ (R + k) - R = k  BY <3>1, <3>3, <4>1, <4>4
          <5>2. m[Pos(R + k, c)] = m[Pos(k, c)]  BY <2>5, <5>1 DEF Copies
          <5>. QED  BY <4>1, <4>2, <4>4, <5>2 DEF k
        <4>. QED  BY <4>3, <4>4
      <3>4. CASE j # 2 * R - 1
        <4>1. /\ k \in BufRows /\ k \notin {w, w + 1} /\ k # j - R
              /\ j - t.y + (r + 1) = k
          <5>1. w = j + 1 /\ j \in 0..(2 * R - 1) /\ j >= R - 1  BY <1>1, <2>1, <2>4, <3>4
          <5>2. k = (j + 1) - (R - 1) + r /\ j - t.y + (r + 1) = k
            BY <1>1, <2>1, <3>1, <3>2, <5>1
          <5>3. k \in 0..j /\ k > j - R  BY <3>1, <5>1, <5>2
          <5>. QED  BY <5>1, <5>2, <5>3 DEF BufRows
        <4>2. s.m[Pos(k, c)] = m[Pos(k, c)]
          BY <2>2, <2>5, <4>1
        <4>. QED  BY <4>1, <4>2 DEF k
      <3>. QED  BY <3>3, <3>4
    <2>6. ASSUME NEW c \in Cols
          PROVE  s.m[Pos(s.t.ybuf - s.t.y + (R - 1), c)] = Space(t)
      <3>1. s.t.ybuf - s.t.y + (R - 1) = w /\ w \in BufRows
        BY <1>1, <2>1, <2>3, <2>4 DEF BufRows
      <3>. QED  BY <2>2, <3>1
    <2>7. Win(s.m, s.t) = moved
      <3>1. ASSUME NEW r \in ScreenRows, r < R - 1
            PROVE  /\ r + 1 \in ScreenRows
                   /\ Win(m, t)[r + 1] = [c \in Cols |-> m[Pos(j - t.y + (r + 1), c)]]
        <4>1. r + 1 \in ScreenRows  BY <3>1 DEF ScreenRows
        <4>. QED  BY <4>1 DEF Win
      <3>2. ASSUME NEW r \in ScreenRows
            PROVE  [c \in Cols |-> s.m[Pos(s.t.ybuf - s.t.y + r, c)]] = moved[r]
        <4>1. CASE r < R - 1
          <5>1. moved[r] = [c \in Cols |-> m[Pos(j - t.y + (r + 1), c)]]
            BY <3>1, <4>1
          <5>. QED  BY <2>5, <4>1, <5>1
        <4>2. CASE ~(r < R - 1)
          <5>1. r = R - 1  BY <4>2 DEF ScreenRows
          <5>2. moved[r] = [c \in Cols |-> Space(t)]  BY <4>2
          <5>. QED  BY <2>6, <5>1, <5>2
        <4>. QED  BY <4>1, <4>2
      <3> DEFINE seen == [r \in ScreenRows |->
                             [c \in Cols |-> s.m[Pos(s.t.ybuf - s.t.y + r, c)]]]
      <3>3. seen = moved
        <4>1. \A r \in ScreenRows : seen[r] = moved[r]  BY <3>2
        <4>. QED  BY <4>1
      <3>. QED  BY <3>3 DEF Win
    <2>8. Copies(s.m, s.t)
      <3> SUFFICES ASSUME NEW k \in R..(w - 1), NEW c \in Cols
                   PROVE  s.m[Pos(k, c)] = s.m[Pos(k - R, c)]
        BY <2>3 DEF Copies
      <3>1. /\ j # 2 * R - 1 /\ w = j + 1 /\ k \in R..j /\ k \in BufRows
            /\ k - R \in BufRows /\ k \notin {w, w + 1} /\ k - R \notin {w, w + 1}
            /\ k # j - R /\ (k - R = j - R <=> k = j)
        BY <1>1, <2>4 DEF BufRows
      <3>2. s.m[Pos(k, c)] = m[Pos(k, c)]  BY <2>2, <3>1
      <3>3. s.m[Pos(k - R, c)] = IF k = j THEN m[Pos(j, c)] ELSE m[Pos(k - R, c)]
        BY <2>2, <3>1
      <3>4. CASE k = j  BY <3>2, <3>3, <3>4
      <3>5. CASE k # j
        <4>1. k \in R..(j - 1)  BY <1>1, <3>1, <3>5
        <4>2. m[Pos(k, c)] = m[Pos(k - R, c)]  BY <4>1 DEF Copies
        <4>. QED  BY <3>2, <3>3, <3>5, <4>2
      <3>. QED  BY <3>4, <3>5
    <2>. QED  BY <2>1, <2>2, <2>3, <2>7, <2>8 DEF s
  <1>. QED  BY <1>2, <1>3

-----------------------------------------------------------------------------
(* The steps of the terminals. *)

LEMMA WindowIs ==
    ASSUME NEW t \in Record, Placed(0, t), NEW m
    PROVE  [r \in ScreenRows |-> [c \in Cols |-> m[t.tlcorner + r * SCREEN_COLS + c]]]
               = Win(m, t)
  <1> USE TtyAssumption
  <1>1. /\ screen(0) = 0 /\ t.y \in Int /\ t.ybuf \in Int
        /\ t.tlcorner = screen(0) + (t.ybuf - t.y) * SCREEN_COLS
    BY ConsoleZero DEF Placed
  <1>2. ASSUME NEW r \in ScreenRows, NEW c \in Cols
        PROVE  t.tlcorner + r * SCREEN_COLS + c = Pos(t.ybuf - t.y + r, c)
    <2> DEFINE n == t.ybuf - t.y
    <2>1. n \in Int /\ r \in Int /\ c \in Int  BY <1>1 DEF ScreenRows, Cols
    <2>2. t.tlcorner = n * SCREEN_COLS
      <3>1. n * SCREEN_COLS \in Int  BY <2>1
      <3>. QED  BY <1>1, <3>1
    <2> HIDE DEF n
    <2>3. (n + r) * SCREEN_COLS = n * SCREEN_COLS + r * SCREEN_COLS
          /\ n * SCREEN_COLS \in Int /\ r * SCREEN_COLS \in Int
      BY <2>1
    <2>4. Pos(n + r, c) = n * SCREEN_COLS + r * SCREEN_COLS + c
      BY <2>1, <2>3 DEF Pos
    <2>. QED  BY <2>2, <2>4 DEF n
  <1>. QED  BY <1>2 DEF Win

\* A word stored in the cursor's row.
WithCell(g, r, c, w) == [g EXCEPT ![r][c] = w]

LEMMA CharWindow ==
    ASSUME NEW t \in Record, Placed(0, t), NEW m \in [Addr -> Word], Copies(m, t),
           NEW w, NEW d \in Cols, NEW n, n = Store(m, Pos(t.ybuf, d), <<w>>)
    PROVE  /\ Copies(n, t)
           /\ Win(n, t) = WithCell(Win(m, t), t.y, d, w)
           /\ Far(m, n)
  <1> USE TtyAssumption
  <1> DEFINE j == t.ybuf
             R == SCREEN_ROWS
  <1>1. /\ t.y \in ScreenRows /\ t.y \in 0..(R - 1) /\ j \in 0..(2 * R - 1)
        /\ j \in BufRows /\ t.y <= j /\ (t.y # R - 1 => j = t.y)
    BY ConsoleZero DEF ScreenRows, Placed
  <1>2. \A k \in BufRows, c \in Cols :
            n[Pos(k, c)] = IF k = j /\ c = d THEN w ELSE m[Pos(k, c)]
    BY <1>1, CharCell
  <1>3. Far(m, n)
    BY <1>1, StoresNear DEF Far
  <1>4. Copies(n, t)
    <2> SUFFICES ASSUME NEW k \in R..(j - 1), NEW c \in Cols
                 PROVE  n[Pos(k, c)] = n[Pos(k - R, c)]
      BY DEF Copies
    <2>1. k \in BufRows /\ k - R \in BufRows /\ k # j /\ k - R # j
      BY <1>1 DEF BufRows
    <2>2. m[Pos(k, c)] = m[Pos(k - R, c)]  BY DEF Copies
    <2>. QED  BY <1>2, <2>1, <2>2
  <1>5. Win(n, t) = [Win(m, t) EXCEPT ![t.y][d] = w]
    <2> DEFINE g == Win(m, t)
    <2>1. \A r \in ScreenRows : /\ j - t.y + r \in BufRows
                                /\ (j - t.y + r = j <=> r = t.y)
      <3> SUFFICES ASSUME NEW r \in ScreenRows
                   PROVE  j - t.y + r \in BufRows /\ (j - t.y + r = j <=> r = t.y)
        OBVIOUS
      <3>1. r \in 0..(R - 1)  BY DEF ScreenRows
      <3>2. CASE t.y = R - 1  BY <1>1, <3>1, <3>2 DEF BufRows
      <3>3. CASE t.y # R - 1  BY <1>1, <3>1, <3>3 DEF BufRows
      <3>. QED  BY <3>2, <3>3
    <2>2. \A r \in ScreenRows, c \in Cols :
              n[Pos(j - t.y + r, c)]
                  = IF r = t.y /\ c = d THEN w ELSE m[Pos(j - t.y + r, c)]
      BY <1>2, <2>1
    <2>3. \A r \in ScreenRows : g[r] = [c \in Cols |-> m[Pos(j - t.y + r, c)]]
      BY DEF Win
    <2>4. DOMAIN g = ScreenRows  BY DEF Win
    <2>5. Win(n, t) = [r \in ScreenRows |-> [c \in Cols |-> n[Pos(j - t.y + r, c)]]]
      BY DEF Win
    <2> HIDE DEF g
    <2>6. ASSUME NEW r \in ScreenRows
          PROVE  [c \in Cols |-> n[Pos(j - t.y + r, c)]]
                     = IF r = t.y THEN [g[r] EXCEPT ![d] = w] ELSE g[r]
      <3>1. CASE r = t.y
        <4>1. [g[r] EXCEPT ![d] = w]
                  = [c \in Cols |-> IF c = d THEN w ELSE m[Pos(j - t.y + r, c)]]
          BY <2>3, ZenonT(60)
        <4>2. \A c \in Cols : n[Pos(j - t.y + r, c)]
                                  = IF c = d THEN w ELSE m[Pos(j - t.y + r, c)]
          BY <2>2, <3>1
        <4>. QED  BY <3>1, <4>1, <4>2
      <3>2. CASE r # t.y  BY <2>2, <2>3, <3>2
      <3>. QED  BY <3>1, <3>2
    <2>7. [g EXCEPT ![t.y][d] = w]
              = [r \in ScreenRows |-> IF r = t.y THEN [g[r] EXCEPT ![d] = w] ELSE g[r]]
      BY <1>1, <2>4
    <2>8. Win(n, t) = [r \in ScreenRows |-> IF r = t.y THEN [g[r] EXCEPT ![d] = w] ELSE g[r]]
      BY <2>5, <2>6, ZenonT(60)
    <2>. QED  BY <2>7, <2>8 DEF g
  <1>. QED  BY <1>3, <1>4, <1>5 DEF WithCell

\* What is kept of the consoles that are not printed to.
LEMMA OtherWindows ==
    ASSUME IInv, NEW id \in Ids, id # 0, Far(mem, mem'), tty'[id] = tty[id]
    PROVE  UNCHANGED Term(id)!termVars
  <1> USE TtyAssumption
  <1> DEFINE t == tty[id]
  <1>1. /\ t \in Record /\ Placed(id, t) /\ screen(id) \in Nat /\ screen(id) >= STRIDE
        /\ t.y \in 0..(SCREEN_ROWS - 1) /\ t.ybuf \in 0..(2 * SCREEN_ROWS - 1)
        /\ t.y <= t.ybuf
    <2>1. 1 * STRIDE <= id * STRIDE  BY MulMono DEF Ids
    <2>2. t \in Record /\ Placed(id, t)  BY DEF IInv
    <2>3. id * STRIDE \in Nat  BY DEF Ids
    <2>. QED  BY <2>1, <2>2, <2>3 DEF Record, Placed, screen
  <1>2. ASSUME NEW r \in 0..(SCREEN_ROWS - 1), NEW c \in 0..(SCREEN_COLS - 1)
        PROVE  mem'[t.tlcorner + r * SCREEN_COLS + c] = mem[t.tlcorner + r * SCREEN_COLS + c]
    <2> DEFINE n == t.ybuf - t.y
               k == n + r
               a == t.tlcorner + r * SCREEN_COLS + c
    <2>1. n \in Nat /\ k \in 0..(2 * SCREEN_ROWS)
      <3>1. CASE t.y = SCREEN_ROWS - 1  BY <1>1, <3>1
      <3>2. CASE t.y # SCREEN_ROWS - 1
        <4>1. t.ybuf = t.y  BY <1>1, <3>2 DEF Placed
        <4>. QED  BY <1>1, <4>1
      <3>. QED  BY <3>1, <3>2
    <2>2. t.tlcorner = screen(id) + n * SCREEN_COLS  BY <1>1 DEF Placed
    <2> HIDE DEF n
    <2>3. k * SCREEN_COLS = n * SCREEN_COLS + r * SCREEN_COLS
          /\ n * SCREEN_COLS \in Nat /\ r * SCREEN_COLS \in Nat
      BY <2>1
    <2>4. a = screen(id) + k * SCREEN_COLS + c /\ a >= STRIDE
      BY <1>1, <2>2, <2>3
    <2>5. a \in Addr
      <3> HIDE DEF k, a
      <3>. QED  BY <2>1, <2>4, RowInMemory
    <2> HIDE DEF a
    <2>6. mem'[a] = mem[a]  BY <2>4, <2>5 DEF Far
    <2>. QED  BY <2>6 DEF a
  <1>3. Window(id)' = Window(id)  BY <1>2 DEF Window
  <1>. QED  BY <1>3 DEF Term!termVars

LEMMA ZeroWindow ==
    ASSUME IInv
    PROVE  Window(0) = Win(mem, tty[0]) /\ tty[0] \in Record /\ Placed(0, tty[0])
  <1>1. 0 \in Ids /\ tty[0] \in Record /\ Placed(0, tty[0])
    BY TtyAssumption DEF IInv, Ids
  <1>. QED  BY <1>1, WindowIs DEF Window, ScreenRows, Cols

\* What a step of the printing makes of the first console, and that it makes
\* nothing of the others.
LEMMA ScrollWindows ==
    ASSUME IInv, IInv', NEW s, Scroll(0, s), Far(mem, s.m)
    PROVE  /\ mem' = s.m /\ tty'[0] = s.t
           /\ Window(0)' = Win(s.m, s.t)
           /\ \A id \in Ids \ {0} : UNCHANGED Term(id)!termVars
  <1>1. 0 \in Ids  BY TtyAssumption DEF Ids
  <1>2. /\ mem' = s.m /\ tty'[0] = s.t
        /\ \A id \in Ids \ {0} : tty'[id] = tty[id]
    BY <1>1 DEF Scroll, IInv
  <1>3. Window(0)' = Win(mem', tty'[0])
    <2>1. tty'[0] \in Record /\ Placed(0, tty'[0])
      BY <1>1 DEF IInv
    <2>. QED  BY <2>1, WindowIs DEF Window, ScreenRows, Cols
  <1>. QED  BY <1>2, <1>3, OtherWindows

\* Win and Copies look at the rows of the record only.
LEMMA SameRows ==
    ASSUME NEW t, NEW u, t.y = u.y, t.ybuf = u.ybuf
    PROVE  \A m : Win(m, u) = Win(m, t) /\ (Copies(m, t) => Copies(m, u))
  BY DEF Win, Copies

RefInv == IInv /\ Copies(mem, tty[0])

Terminals == \A id \in Ids : Term(id)!Next \/ UNCHANGED Term(id)!termVars

LEMMA LineFeedStep ==
    ASSUME RefInv, IInv', NEW n \in [Addr -> Word],
           Copies(n, tty[0]), Far(mem, n),
           Scroll(0, linefeed(0, [tty[0] EXCEPT !.x = 0], n))
    PROVE  /\ Copies(mem, tty[0])'
           /\ Term(0)!LineFeed(Win(n, tty[0]))
           /\ UNCHANGED <<tty[0].textcolor, tty[0].textcolor_orig>>
           /\ \A id \in Ids \ {0} : UNCHANGED Term(id)!termVars
  <1> USE TtyAssumption
  <1> DEFINE t == tty[0]
             u == [t EXCEPT !.x = 0]
             s == linefeed(0, u, n)
             moved == [r \in ScreenRows |-> IF r < SCREEN_ROWS - 1 THEN Win(n, t)[r + 1]
                                            ELSE [c \in Cols |-> Space(t)]]
  <1>1. t \in Record /\ Placed(0, t) /\ IInv  BY ZeroWindow DEF RefInv
  <1>2. /\ u \in Record /\ Placed(0, u) /\ u.x = 0 /\ u.y = t.y /\ u.ybuf = t.ybuf
        /\ u.textcolor = t.textcolor /\ u.textcolor_orig = t.textcolor_orig
    BY <1>1 DEF Record, Placed
  <1>3. Scroll(0, s)  OBVIOUS
  <1> HIDE DEF u
  <1>4. Copies(n, u) /\ Win(n, u) = Win(n, t) /\ Space(u) = Space(t)
    BY <1>2, SameRows DEF Space
  <1>5. /\ Copies(s.m, s.t)
        /\ s.t.x = u.x /\ s.t.textcolor = u.textcolor
        /\ s.t.textcolor_orig = u.textcolor_orig
        /\ s.t.y = IF u.y < SCREEN_ROWS - 1 THEN u.y + 1 ELSE u.y
        /\ Win(s.m, s.t) =
               IF u.y < SCREEN_ROWS - 1 THEN Win(n, u)
               ELSE [r \in ScreenRows |->
                        IF r < SCREEN_ROWS - 1 THEN Win(n, u)[r + 1]
                        ELSE [c \in Cols |-> Space(u)]]
        /\ Far(n, s.m)
    BY <1>2, <1>4, LineFeedWindow
  <1> HIDE DEF s
  <1>6. Far(mem, s.m)  BY <1>5 DEF Far
  <1>7. /\ mem' = s.m /\ tty'[0] = s.t
        /\ Window(0)' = Win(s.m, s.t)
        /\ \A id \in Ids \ {0} : UNCHANGED Term(id)!termVars
    BY <1>1, <1>3, <1>6, ScrollWindows
  <1>8. Win(s.m, s.t) = IF t.y < SCREEN_ROWS - 1 THEN Win(n, t) ELSE moved
    BY <1>2, <1>4, <1>5
  <1>9. moved = [r \in Term(0)!Rows |-> IF r < SCREEN_ROWS - 1 THEN Win(n, t)[r + 1]
                                        ELSE [c \in Term(0)!Cols |-> Term(0)!Blank]]
    BY DEF Term!Rows, Term!Cols, Term!Blank, ScreenRows, Cols, Space
  <1> HIDE DEF moved
  <1>10. tty'[0].y = (IF t.y < SCREEN_ROWS - 1 THEN t.y + 1 ELSE t.y) /\ tty'[0].x = 0
    BY <1>2, <1>5, <1>7
  <1>11. Term(0)!LineFeed(Win(n, t))
    BY <1>7, <1>8, <1>9, <1>10 DEF Term!LineFeed
  <1>. QED  BY <1>2, <1>5, <1>7, <1>11

LEMMA PutStep ==
    ASSUME RefInv, IInv', NEW ch \in Chars, Put(0, ch)
    PROVE  Copies(mem, tty[0])' /\ Terminals
  <1> USE TtyAssumption
  <1> DEFINE t == tty[0]
             w == <<t.textcolor, ch>>
             n == Store(mem, CursorOf(0, t), <<w>>)
             g == [Window(0) EXCEPT ![t.y][t.x] = w]
  <1>1. /\ t \in Record /\ Placed(0, t) /\ IInv /\ Window(0) = Win(mem, t)
        /\ Copies(mem, t) /\ mem \in [Addr -> Word]
    BY ZeroWindow DEF RefInv, IInv
  <1>2. CursorOf(0, t) = Pos(t.ybuf, t.x) /\ t.x \in Cols /\ t.ybuf \in BufRows
    BY <1>1, ConsoleZero
  <1>3. Copies(n, t) /\ Win(n, t) = g /\ Far(mem, n)
    <2>1. n = Store(mem, Pos(t.ybuf, t.x), <<w>>)  BY <1>2
    <2> HIDE DEF w, n
    <2>2. Copies(n, t) /\ Far(mem, n) /\ Win(n, t) = WithCell(Win(mem, t), t.y, t.x, w)
      BY <1>1, <1>2, <2>1, CharWindow
    <2>. QED  BY <1>1, <2>2 DEF WithCell
  <1>4. n \in [Addr -> Word]
    <2> DEFINE words == <<w>>
    <2>1. w \in Word  BY <1>1 DEF Word, Record
    <2>2. DOMAIN words = 1..1 /\ \A i \in 1..1 : words[i] = w  OBVIOUS
    <2>3. CursorOf(0, t) \in Int  BY <1>2, PosInt DEF Cols, BufRows
    <2> HIDE DEF words, w
    <2>4. Store(mem, CursorOf(0, t), words) \in [Addr -> Word]
      BY <1>1, <2>1, <2>2, <2>3, StoreType
    <2>. QED  BY <2>4 DEF words
  <1>5. Scroll(0, IF t.x + 1 = SCREEN_COLS THEN linefeed(0, [t EXCEPT !.x = 0], n)
                  ELSE [t |-> [t EXCEPT !.x = @ + 1], m |-> n])
    BY DEF Put
  <1> HIDE DEF n
  <1>6. SUFFICES /\ Copies(mem, tty[0])' /\ Term(0)!Put(ch)
                 /\ \A id \in Ids \ {0} : UNCHANGED Term(id)!termVars
    BY DEF Terminals, Term!Next
  <1>7. CASE t.x + 1 = SCREEN_COLS
    <2>1. /\ Copies(mem, tty[0])' /\ Term(0)!LineFeed(Win(n, t))
          /\ UNCHANGED <<t.textcolor, t.textcolor_orig>>
          /\ \A id \in Ids \ {0} : UNCHANGED Term(id)!termVars
      BY <1>3, <1>4, <1>5, <1>7, LineFeedStep
    <2>2. ~(t.x < SCREEN_COLS - 1)  BY <1>2, <1>7 DEF Cols
    <2>. QED  BY <1>3, <2>1, <2>2 DEF Term!Put
  <1>8. CASE t.x + 1 # SCREEN_COLS
    <2> DEFINE s == [t |-> [t EXCEPT !.x = @ + 1], m |-> n]
    <2>1. Scroll(0, s) /\ s.m = n  BY <1>5, <1>8
    <2>2. /\ s.t.x = t.x + 1 /\ s.t.y = t.y /\ s.t.ybuf = t.ybuf
          /\ s.t.textcolor = t.textcolor /\ s.t.textcolor_orig = t.textcolor_orig
      BY <1>1 DEF Record
    <2> HIDE DEF s
    <2>3. /\ mem' = n /\ tty'[0] = s.t /\ Window(0)' = Win(n, s.t)
          /\ \A id \in Ids \ {0} : UNCHANGED Term(id)!termVars
      BY <1>1, <1>3, <2>1, ScrollWindows
    <2>4. Copies(n, s.t) /\ Win(n, s.t) = Win(n, t)
      BY <1>3, <2>2, SameRows
    <2>5. t.x < SCREEN_COLS - 1  BY <1>2, <1>8 DEF Cols
    <2>. QED  BY <1>3, <2>2, <2>3, <2>4, <2>5 DEF Term!Put
  <1>. QED  BY <1>7, <1>8

LEMMA BackspaceStep ==
    ASSUME RefInv, IInv', Backspace(0)
    PROVE  Copies(mem, tty[0])' /\ Terminals
  <1> USE TtyAssumption
  <1> DEFINE t == tty[0]
             u == [t EXCEPT !.x = @ - 1]
             n == Store(mem, CursorOf(0, u), <<Space(u)>>)
             s == [t |-> u, m |-> n]
  <1>1. /\ t \in Record /\ Placed(0, t) /\ IInv /\ Window(0) = Win(mem, t)
        /\ Copies(mem, t) /\ mem \in [Addr -> Word] /\ t.x > 0
    BY ZeroWindow DEF RefInv, IInv, Backspace
  <1>2. Scroll(0, s) /\ s.t = u /\ s.m = n  BY DEF Backspace
  <1>3. /\ u \in Record /\ u.x = t.x - 1 /\ u.y = t.y /\ u.ybuf = t.ybuf
        /\ u.textcolor = t.textcolor /\ u.textcolor_orig = t.textcolor_orig
    <2>1. t.x - 1 \in 0..(SCREEN_COLS - 1)  BY <1>1 DEF Record
    <2>. QED  BY <1>1, <2>1 DEF Record
  <1> HIDE DEF u
  <1>4. CursorOf(0, u) = Pos(t.ybuf, t.x - 1) /\ t.x - 1 \in Cols /\ Space(u) = Space(t)
    BY <1>3, ConsoleZero DEF Space
  <1>5. /\ Copies(n, t) /\ Far(mem, n)
        /\ Win(n, t) = [Window(0) EXCEPT ![t.y][t.x - 1] = Space(t)]
    <2> DEFINE d == t.x - 1
    <2>1. d \in Cols  BY <1>4
    <2> HIDE DEF d
    <2> DEFINE w == Space(t)
    <2>2. n = Store(mem, Pos(t.ybuf, d), <<w>>)  BY <1>4 DEF d
    <2> HIDE DEF w, n
    <2>3. Copies(n, t) /\ Far(mem, n) /\ Win(n, t) = WithCell(Win(mem, t), t.y, d, w)
      BY <1>1, <2>1, <2>2, CharWindow
    <2>. QED  BY <1>1, <2>3 DEF d, w, WithCell
  <1> HIDE DEF n, s
  <1>6. Copies(n, u) /\ Win(n, u) = Win(n, t)  BY <1>3, <1>5, SameRows
  <1>7. /\ mem' = n /\ tty'[0] = u /\ Window(0)' = Win(n, u)
        /\ \A id \in Ids \ {0} : UNCHANGED Term(id)!termVars
    BY <1>1, <1>2, <1>5, ScrollWindows
  <1>8. Term(0)!Backspace
    BY <1>1, <1>3, <1>5, <1>6, <1>7 DEF Term!Backspace, Term!Blank, Space
  <1>. QED  BY <1>6, <1>7, <1>8 DEF Terminals, Term!Next

\* The steps that leave memory alone.
LEMMA ColorStep ==
    ASSUME RefInv, IInv', UNCHANGED mem, NEW u, tty' = [tty EXCEPT ![0] = u],
           u.x = tty[0].x, u.y = tty[0].y, u.ybuf = tty[0].ybuf
    PROVE  /\ Copies(mem, tty[0])' /\ tty'[0] = u /\ Window(0)' = Window(0)
           /\ \A id \in Ids \ {0} : UNCHANGED Term(id)!termVars
  <1>1. 0 \in Ids /\ IInv  BY TtyAssumption DEF Ids, RefInv
  <1>2. tty'[0] = u /\ \A id \in Ids \ {0} : tty'[id] = tty[id]
    BY <1>1 DEF IInv
  <1>3. Window(0) = Win(mem, tty[0])  BY <1>1, ZeroWindow
  <1>4. Window(0)' = Win(mem', tty'[0])
    <2> DEFINE t == tty'[0]
    <2>1. t \in Record /\ Placed(0, t)
      BY <1>1 DEF IInv
    <2> HIDE DEF t
    <2>2. [r \in ScreenRows |-> [c \in Cols |-> mem'[t.tlcorner + r * SCREEN_COLS + c]]]
              = Win(mem', t)
      BY <2>1, WindowIs
    <2>. QED  BY <2>2 DEF Window, ScreenRows, Cols, t
  <1>5. Win(mem, u) = Win(mem, tty[0]) /\ Copies(mem, u)
    BY SameRows DEF RefInv
  <1>6. Far(mem, mem')  BY DEF Far
  <1>. QED  BY <1>1, <1>2, <1>3, <1>4, <1>5, <1>6, OtherWindows

\* The rows of a buffer cleared from its beginning are blank.
LEMMA ClearedRow ==
    ASSUME NEW m \in [Addr -> Word], NEW w, NEW l \in Nat,
           NEW k \in BufRows, k < l, NEW c \in Cols
    PROVE  memsetw(m, Pos(0, 0), l * SCREEN_COLS, w)[Pos(k, c)] = w
  <1> DEFINE z == 0
  <1>1. z \in Nat /\ k \in z..(z + l - 1)  BY DEF BufRows
  <1> HIDE DEF z
  <1>2. memsetw(m, Pos(z, 0), l * SCREEN_COLS, w)[Pos(k, c)]
            = IF k \in z..(z + l - 1) THEN w ELSE m[Pos(k, c)]
    BY <1>1, ClearCell
  <1>. QED  BY <1>1, <1>2 DEF z

LEMMA ClearStep ==
    ASSUME RefInv, IInv', tty_clear(0)
    PROVE  Copies(mem, tty[0])' /\ Terminals
  <1> USE TtyAssumption
  <1> DEFINE t == [tty[0] EXCEPT !.x = 0, !.y = 0, !.ybuf = 0, !.tlcorner = screen(0)]
             n == memsetw(mem, screen(0), 2 * SCREEN_SIZE, Space(t))
             R == SCREEN_ROWS
  <1>1. /\ tty[0] \in Record /\ IInv /\ mem \in [Addr -> Word] /\ 0 \in Ids
        /\ screen(0) = 0
    BY ZeroWindow, ConsoleZero DEF RefInv, IInv
  <1>2. /\ mem' = n /\ tty' = [tty EXCEPT ![0] = t]
    BY DEF tty_clear
  <1>3. /\ t.x = 0 /\ t.y = 0 /\ t.ybuf = 0 /\ t.textcolor = tty[0].textcolor
        /\ t.textcolor_orig = tty[0].textcolor_orig
    BY <1>1 DEF Record
  <1> HIDE DEF t
  <1>4. Space(t) = Space(tty[0])  BY <1>3 DEF Space
  <1>5. tty'[0] = t /\ \A id \in Ids \ {0} : tty'[id] = tty[id]
    BY <1>1, <1>2 DEF IInv
  <1>6. n = memsetw(mem, Pos(0, 0), (2 * R) * SCREEN_COLS, Space(t))
    <2>1. Pos(0, 0) = 0  BY DEF Pos
    <2>2. 2 * SCREEN_SIZE = (2 * R) * SCREEN_COLS  BY DEF SCREEN_SIZE
    <2>. QED  BY <1>1, <2>1, <2>2
  <1> HIDE DEF n
  <1>7. ASSUME NEW k \in ScreenRows, NEW c \in Cols  PROVE n[Pos(k, c)] = Space(t)
    <2> DEFINE q == 2 * R
    <2>1. k \in BufRows /\ c \in Cols /\ q \in Nat /\ k < q
      BY DEF ScreenRows, BufRows
    <2>2. n = memsetw(mem, Pos(0, 0), q * SCREEN_COLS, Space(t))  BY <1>6
    <2>3. ASSUME NEW m, m = mem, NEW w
          PROVE  memsetw(m, Pos(0, 0), q * SCREEN_COLS, w)[Pos(k, c)] = w
      <3>1. m \in [Addr -> Word]  BY <1>1, <2>3
      <3> HIDE DEF q
      <3>. QED  BY <3>1, <2>1, ClearedRow
    <2>. QED  BY <2>2, <2>3
  <1>8. Far(mem, n)
    <2> SUFFICES ASSUME NEW a \in Addr, a >= STRIDE  PROVE n[a] = mem[a]
      BY DEF Far
    <2> DEFINE q == 2 * R
               sp == Space(t)
    <2>1. q \in Nat /\ 0 \in Nat /\ 0 + q <= 2 * R + 1  OBVIOUS
    <2> HIDE DEF q, sp
    <2>2. n = memsetw(mem, Pos(0, 0), q * SCREEN_COLS, sp)  BY <1>6 DEF q, sp
    <2>3. memsetw(mem, Pos(0, 0), q * SCREEN_COLS, sp)[a] = mem[a]
      BY <1>1, <2>1, ClearNear
    <2>. QED  BY <2>2, <2>3
  <1>9. Copies(n, t)
    <2>1. R..(0 - 1) = {}  OBVIOUS
    <2>. QED  BY <1>3, <2>1 DEF Copies
  <1>10. Window(0)' = [r \in ScreenRows |-> [c \in Cols |-> Space(t)]]
    <2>1. t \in Record /\ Placed(0, t)
      BY <1>1, <1>5 DEF IInv
    <2>2. [r \in ScreenRows |-> [c \in Cols |-> n[t.tlcorner + r * SCREEN_COLS + c]]]
              = Win(n, t)
      BY <2>1, WindowIs
    <2>3. \A r \in ScreenRows : t.ybuf - t.y + r = r  BY <1>3 DEF ScreenRows
    <2>4. Win(n, t) = [r \in ScreenRows |-> [c \in Cols |-> Space(t)]]
      BY <1>7, <2>3 DEF Win
    <2>5. Window(0)' = [r \in ScreenRows |-> [c \in Cols |->
                          mem'[tty'[0].tlcorner + r * SCREEN_COLS + c]]]
      BY DEF Window, ScreenRows, Cols
    <2>6. mem' = n /\ tty'[0] = t  BY <1>2, <1>5
    <2>. QED  BY <2>2, <2>4, <2>5, <2>6
  <1>11. \A id \in Ids \ {0} : UNCHANGED Term(id)!termVars
    BY <1>1, <1>2, <1>5, <1>8, OtherWindows
  <1>12. Term(0)!Clear
    BY <1>3, <1>4, <1>5, <1>10
       DEF Term!Clear, Term!Rows, Term!Cols, Term!Blank, ScreenRows, Cols, Space
  <1>. QED  BY <1>2, <1>5, <1>9, <1>11, <1>12 DEF Terminals, Term!Next

LEMMA IdleStep ==
    ASSUME RefInv, UNCHANGED <<mem, tty>>
    PROVE  Copies(mem, tty[0])' /\ Terminals
  <1>1. \A id \in Ids : UNCHANGED Term(id)!termVars
    BY DEF Term!termVars, Window
  <1>. QED  BY <1>1 DEF Terminals, RefInv

LEMMA RefStep ==
    ASSUME Users \subseteq {0}, RefInv, [Next]_vars
    PROVE  RefInv' /\ Terminals
  <1> USE TtyAssumption
  <1>1. IInv' /\ IInv  BY NextIInv DEF RefInv
  <1>2. 0 \in Ids /\ tty[0] \in Record  BY <1>1, ZeroWindow DEF Ids
  <1>3. CASE PrintBegin(0) \/ PrintEnd(0) \/ UNCHANGED vars
    BY <1>1, <1>3, IdleStep DEF PrintBegin, PrintEnd, vars, RefInv
  <1>4. CASE NewLine(0)
    <2> DEFINE t == tty[0]
    <2>1. /\ Scroll(0, linefeed(0, [t EXCEPT !.x = 0], mem))
          /\ mem \in [Addr -> Word] /\ Copies(mem, t) /\ Far(mem, mem)
      BY <1>1, <1>4 DEF NewLine, RefInv, IInv, Far
    <2>2. /\ Copies(mem, tty[0])' /\ Term(0)!LineFeed(Win(mem, t))
          /\ UNCHANGED <<t.textcolor, t.textcolor_orig>>
          /\ \A id \in Ids \ {0} : UNCHANGED Term(id)!termVars
      BY <1>1, <2>1, LineFeedStep
    <2>3. Term(0)!NewLine
      BY <1>1, <2>2, ZeroWindow DEF Term!NewLine
    <2>. QED  BY <1>1, <2>2, <2>3 DEF Terminals, Term!Next, RefInv
  <1>5. CASE Backspace(0)
    BY <1>1, <1>5, BackspaceStep DEF RefInv
  <1>6. ASSUME NEW ch \in Chars, Put(0, ch)  PROVE RefInv' /\ Terminals
    BY <1>1, <1>6, PutStep DEF RefInv
  <1>7. ASSUME NEW code \in Codes, ColorCode(0, code)  PROVE RefInv' /\ Terminals
    <2> DEFINE u == [tty[0] EXCEPT !.textcolor = code]
    <2>1. tty' = [tty EXCEPT ![0] = u] /\ UNCHANGED mem
      BY <1>1, <1>2, <1>7 DEF ColorCode, IInv
    <2>2. /\ u.x = tty[0].x /\ u.y = tty[0].y /\ u.ybuf = tty[0].ybuf
          /\ u.textcolor = code /\ u.textcolor_orig = tty[0].textcolor_orig
      BY <1>2 DEF Record
    <2> HIDE DEF u
    <2>3. /\ Copies(mem, tty[0])' /\ tty'[0] = u /\ Window(0)' = Window(0)
          /\ \A id \in Ids \ {0} : UNCHANGED Term(id)!termVars
      BY <1>1, <2>1, <2>2, ColorStep
    <2>4. Term(0)!Color(code)  BY <2>2, <2>3 DEF Term!Color
    <2>. QED  BY <1>1, <2>3, <2>4 DEF Terminals, Term!Next, RefInv
  <1>8. ASSUME NEW code \in Codes, tty_set_textcolor(0, code)  PROVE RefInv' /\ Terminals
    <2> DEFINE u == [tty[0] EXCEPT !.textcolor = code, !.textcolor_orig = code]
    <2>1. tty' = [tty EXCEPT ![0] = u] /\ UNCHANGED mem
      BY <1>1, <1>2, <1>8 DEF tty_set_textcolor, IInv
    <2>2. /\ u.x = tty[0].x /\ u.y = tty[0].y /\ u.ybuf = tty[0].ybuf
          /\ u.textcolor = code /\ u.textcolor_orig = code
      BY <1>2 DEF Record
    <2> HIDE DEF u
    <2>3. /\ Copies(mem, tty[0])' /\ tty'[0] = u /\ Window(0)' = Window(0)
          /\ \A id \in Ids \ {0} : UNCHANGED Term(id)!termVars
      BY <1>1, <2>1, <2>2, ColorStep
    <2>4. Term(0)!SetColor(code)  BY <2>2, <2>3 DEF Term!SetColor
    <2>. QED  BY <1>1, <2>3, <2>4 DEF Terminals, Term!Next, RefInv
  <1>9. CASE tty_clear(0)
    BY <1>1, <1>9, ClearStep DEF RefInv
  <1>10. ASSUME NEW arg \in 0..MAX_TTYS, tty_activate(arg)  PROVE RefInv' /\ Terminals
    BY <1>1, <1>10, IdleStep DEF tty_activate, RefInv
  <1>11. \A id \in Users : id = 0  OBVIOUS
  <1>. QED  BY <1>3, <1>4, <1>5, <1>6, <1>7, <1>8, <1>9, <1>10, <1>11 DEF Next, Printing

LEMMA RefInit ==
    ASSUME Init
    PROVE  RefInv /\ \A id \in Ids : Term(id)!Init
  <1> USE TtyAssumption
  <1>1. IInv  BY InitIInv
  <1>2. 0 \in Ids /\ FirstCode \in Codes  BY DEF Ids, FirstCode
  <1>3. \A id \in Ids : /\ tty[id].x = 0 /\ tty[id].y = 0 /\ tty[id].ybuf = 0
                        /\ tty[id].textcolor = FirstCode
                        /\ tty[id].textcolor_orig = FirstCode
                        /\ tty[id].tlcorner = screen(id)
    BY DEF Init, tty_init
  <1>4. Copies(mem, tty[0])
    <2>1. SCREEN_ROWS..(0 - 1) = {}  OBVIOUS
    <2>. QED  BY <1>2, <1>3, <2>1 DEF Copies
  <1>5. ASSUME NEW id \in Ids  PROVE Term(id)!Init
    <2>1. ASSUME NEW r \in 0..(SCREEN_ROWS - 1), NEW c \in 0..(SCREEN_COLS - 1)
          PROVE  mem[tty[id].tlcorner + r * SCREEN_COLS + c] \in Word
      <3>1. r \in 0..(2 * SCREEN_ROWS)  OBVIOUS
      <3>2. screen(id) + r * SCREEN_COLS + c \in Addr  BY <3>1, RowInMemory
      <3>3. tty[id].tlcorner = screen(id)  BY <1>3
      <3>. QED  BY <1>1, <3>2, <3>3 DEF IInv
    <2>2. Window(id) \in [0..(SCREEN_ROWS - 1) -> [0..(SCREEN_COLS - 1) -> Word]]
      BY <2>1 DEF Window
    <2>. QED  BY <1>2, <1>3, <2>2 DEF Term!Init, Term!Rows, Term!Cols, Word
  <1>. QED  BY <1>1, <1>4, <1>5 DEF RefInv

\* Every console is a terminal, for every number of consoles and every size
\* of screen and memory, if the first alone is printed to, as in the kernel:
\* line feeds, wraps and the extra row each of them clears included.  It needs
\* that each row left in the second screen has its copy.
THEOREM TerminalsCorrect ==
    ASSUME Users \subseteq {0}
    PROVE  Spec => ShowsTerminals
  <1>1. Init => RefInv /\ \A id \in Ids : Term(id)!Init
    BY RefInit
  <1>2. RefInv /\ [Next]_vars =>
            RefInv' /\ [\A id \in Ids : Term(id)!Next \/ UNCHANGED Term(id)!termVars]_vars
    BY RefStep DEF Terminals
  <1>. QED  BY <1>1, <1>2, PTL DEF Spec, ShowsTerminals
===============================================================================
