-------------------------------- MODULE Dump --------------------------------
(***************************************************************************)
(* The memory dump, dump_memory of kernel/debug/dump.c, which writes lines *)
(* of sixteen bytes to a sized buffer: an offset or an address, the bytes  *)
(* in hexadecimal, and as characters.                                      *)
(*                                                                         *)
(* A line is put out piece by piece, and a piece is stored only if all of  *)
(* it and a zero behind it fit.  An action is one piece.  A cell holds     *)
(* what part of the dump it shows, rather than a character.                *)
(***************************************************************************)
EXTENDS Integers, Sequences, SequencesExt, FiniteSets, FiniteSetsExt

VARIABLES
    call,       \* the arguments: [n, memsize, style]
    line,       \* the bytes dumped, m - mem
    piece,      \* the piece of the line, 0 where the loop tests its condition
    bufptr, buf, outside    \* see Format

Old == <<"old", 0, 0>>
Nul == <<"nul", 0, 0>>

\* The cells of one piece: what it shows, of which byte, and which part of it.
Cells(kind, byte, size) == [k \in 1..size |-> <<kind, byte, k>>]

InMemory(kind, byte, size) ==
    Cells(IF byte < call.memsize THEN kind ELSE "blank", byte, size)

Gutter(byte) == Cells("gutter", byte, 1)

\* The pieces of the line that begins at byte m.
Pieces(m) ==
    LET head == CASE call.style = "offset" -> <<Cells("offset", m, 11)>>
                  [] call.style = "addr"   -> <<Cells("addr", m, 20)>>
                  [] OTHER                 -> <<>>
        hex(j) == <<InMemory("hex", m + j, 2)>>
                      \o (IF (j + 1) % 4 = 0 THEN <<Gutter(m + j)>> ELSE <<>>)
        ascii(j) == <<InMemory("ascii", m + j, 1)>>
                      \o (IF j = 7 THEN <<Gutter(m + j)>> ELSE <<>>)
    IN  head \o FlattenSeq([j \in 1..16 |-> hex(j - 1)]) \o <<Gutter(m)>>
            \o FlattenSeq([j \in 1..16 |-> ascii(j - 1)]) \o <<Cells("newline", m, 1)>>

\* while (b < bt && m < mt)
LineStarts == bufptr < call.n /\ line < call.memsize

StartLine ==
    /\ piece = 0
    /\ LineStarts
    /\ piece' = 1
    /\ UNCHANGED <<call, line, bufptr, buf, outside>>

\* Mistaken variant: no room is kept for the zero.
FitsExactly(s) == bufptr + Len(s) <= call.n

Fits(s) == bufptr + Len(s) < call.n

PutPiece ==
    /\ piece > 0
    /\ LET s == Pieces(line)[piece]
       IN  /\ bufptr' = bufptr + Len(s)
           /\ buf' = IF Fits(s)
                     THEN [c \in DOMAIN buf |->
                              IF c >= bufptr /\ c < bufptr + Len(s)
                              THEN s[c - bufptr + 1] ELSE buf[c]]
                     ELSE buf
    /\ IF piece < Len(Pieces(line)) THEN piece' = piece + 1 /\ UNCHANGED line
       ELSE piece' = 0 /\ line' = line + 16
    /\ UNCHANGED <<call, outside>>

\* The zero goes behind the dump; the pointer stands there already when the
\* code means the buffer's last cell.
EndDump ==
    /\ piece = 0
    /\ ~LineStarts
    /\ LET zero == IF bufptr < call.n THEN bufptr ELSE bufptr + call.n - 1
       IN  IF zero \in DOMAIN buf
           THEN buf' = [buf EXCEPT ![zero] = Nul] /\ UNCHANGED outside
           ELSE UNCHANGED buf /\ outside' = IF call.n > 0 THEN zero ELSE -1
    /\ piece' = -1
    /\ UNCHANGED <<call, line, bufptr>>

dump_memory == StartLine \/ PutPiece \/ EndDump

Init(calls) ==
    /\ call \in calls
    /\ line = 0
    /\ piece = 0
    /\ bufptr = 0
    /\ buf = [c \in 0..(call.n - 1) |-> Old]
    /\ outside = -1

-----------------------------------------------------------------------------
\* The whole dump.
Layout ==
    FlattenSeq(FlattenSeq([l \in 1..((call.memsize + 15) \div 16) |-> Pieces(16 * (l - 1))]))

\* What is stored is the dump's beginning, without a hole, and all of it if
\* it fits with its zero; the last cell is never given to a character; no
\* piece is stored in part.
StoresBeginning ==
    piece = -1 =>
        LET all    == Layout
            stored == {c \in DOMAIN buf : buf[c] \notin {Old, Nul}}
        IN  /\ stored = 0..(Cardinality(stored) - 1)
            /\ \A c \in stored : buf[c] = all[c + 1]
            /\ Cardinality(stored) < Max({call.n, 1})
            /\ Len(all) < call.n =>
                   Cardinality(stored) = Len(all) /\ buf[Len(all)] = Nul /\ bufptr = Len(all)
            /\ Cardinality(stored) < Len(all) /\ stored # {} =>
                   all[Cardinality(stored) + 1][3] = 1

\* "The number of characters that would have been written to the buffer if n
\* had been sufficiently large" (dump.h:64-65).
ReturnsFullLength == piece = -1 => bufptr = Len(Layout)

\* "The resulting null-terminated string" (dump.h:58-59): nothing is written
\* outside the buffer, and the text it holds ends.
EndsInBuffer ==
    piece = -1 => outside = -1 /\ (call.n > 0 => \E c \in DOMAIN buf : buf[c] = Nul)
=============================================================================
