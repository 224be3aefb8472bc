------------------------------- MODULE Format -------------------------------
(***************************************************************************)
(* Formatted output to a sized buffer, libc/stdio/vsnprintf.c: what        *)
(* snprintf, tty_printf, logf and the register dump are built from.        *)
(*                                                                         *)
(* The format is parsed by a state machine, one character a turn, and an   *)
(* action is a turn.  The output may be longer than the buffer: the        *)
(* pointer then goes on behind it and nothing is stored, so that the       *)
(* length is still right.                                                  *)
(*                                                                         *)
(* Characters are strings of length one.  Integers have few bits.          *)
(***************************************************************************)
EXTENDS Integers, Sequences, SequencesExt, FiniteSets, FiniteSetsExt

CONSTANTS
    Bits,       \* of a datalen, the bits of its integers: at most MaxBits
    MaxBits,    \* the bits of uintmax_t
    PtrDigits,  \* the digits of a pointer
    Null        \* the null string

VARIABLES
    call,       \* the arguments: [n, items], see the end of the module
    format,     \* what is left of the format
    args,       \* what is left of the argument list
    parse,      \* [state, flags, width, precision, datalen]
    bufptr,     \* the position in the buffer, or behind it
    buf,        \* the buffer's cells, 0 .. n - 1
    outside,    \* the cell outside the buffer that was written, -1 if none
    count       \* what %n stored, -1 if nothing

Old == "old"    \* what a cell held before
Nul == "nul"

Lower == <<"0", "1", "2", "3", "4", "5", "6", "7", "8", "9", "a", "b", "c", "d", "e", "f">>
Upper == SubSeq(Lower, 1, 10) \o <<"A", "B", "C", "D", "E", "F">>

IsDigit(c) == c \in ToSet(SubSeq(Lower, 1, 10))
Digit(c)   == (CHOOSE d \in 1..10 : Lower[d] = c) - 1

Copies(c, times) == [i \in 1..Max({times, 0}) |-> c]

Fresh == [flags |-> {}, width |-> 0, precision |-> -1, datalen |-> "int"]

ch   == Head(format)
Eat  == format' = Tail(format)
Stay == UNCHANGED format

InState(s) == format # <<>> /\ parse.state = s
Goto(s)    == parse' = [parse EXCEPT !.state = s]

\* addchar for each character of s: stored where the buffer has room.
Put(s) ==
    /\ bufptr' = bufptr + Len(s)
    /\ buf' = [c \in DOMAIN buf |->
                  IF c >= bufptr /\ c < bufptr + Len(s) THEN s[c - bufptr + 1] ELSE buf[c]]

NoOutput == UNCHANGED <<bufptr, buf>>

-----------------------------------------------------------------------------
(* What a conversion puts out; p is the parser's state. *)

addstring(p, str) ==
    LET s    == IF str = Null THEN <<"(", "n", "u", "l", "l", ")">> ELSE str
        slen == IF p.precision > -1 THEN Min({p.precision, Len(s)}) ELSE Len(s)
        text == SubSeq(s, 1, slen)
    IN  IF "-" \in p.flags THEN text \o Copies(" ", p.width - slen)
        ELSE Copies(IF "0" \in p.flags THEN "0" ELSE " ", p.width - slen) \o text

\* The digits of value, generated backwards.
Digits(value, base, ndigits, table) ==
    [i \in 1..ndigits |-> table[((value \div base ^ (ndigits - i)) % base) + 1]]

\* addint of a value of MaxBits bits, which is negative if signed and the
\* highest is set.
addint(p, word, signed, base, upper) ==
    LET minus   == signed /\ word >= 2 ^ (MaxBits - 1)
        value   == IF minus THEN (2 ^ MaxBits - word) % 2 ^ MaxBits ELSE word
        counted == Min({k \in 0..MaxBits : value < base ^ k})
        prec    == IF "#" \in p.flags /\ base = 8
                   THEN Max({p.precision, counted + 1}) ELSE p.precision
        ndigits == IF counted < prec THEN prec ELSE IF value = 0 THEN 1 ELSE counted
        sign    == IF minus THEN <<"-">>
                   ELSE IF "+" \in p.flags THEN <<"+">>
                   ELSE IF " " \in p.flags THEN <<" ">> ELSE <<>>
        hex     == IF "#" \in p.flags /\ base = 16
                   THEN <<"0", IF upper THEN "X" ELSE "x">> ELSE <<>>
        pad     == p.width - (ndigits + Len(sign) + Len(hex))
    IN  Copies(" ", IF p.flags \intersect {"-", "0"} = {} THEN pad ELSE 0)
            \o sign \o hex
            \o Copies("0", IF p.flags \intersect {"-", "0"} = {"0"} THEN pad ELSE 0)
            \o Digits(value, base, ndigits, IF upper THEN Upper ELSE Lower)
            \o Copies(" ", IF "-" \in p.flags THEN pad ELSE 0)

\* Mistaken variant: short arguments are not extended by their sign.
WordUnsigned(arg, datalen, signed) == arg % 2 ^ Bits[datalen]

\* The argument cut to its length, and extended to that of uintmax_t.
Word(arg, datalen, signed) ==
    LET low == arg % 2 ^ Bits[datalen]
    IN  IF signed /\ low >= 2 ^ (Bits[datalen] - 1)
        THEN low + 2 ^ MaxBits - 2 ^ Bits[datalen] ELSE low

-----------------------------------------------------------------------------
(* The states of the parser. *)

CharsState ==
    /\ InState("chars")
    /\ Eat
    /\ IF ch = "%" THEN NoOutput /\ parse' = [state |-> "flags"] @@ Fresh
       ELSE Put(<<ch>>) /\ UNCHANGED parse
    /\ UNCHANGED args

FlagsState ==
    /\ InState("flags")
    /\ IF ch \in {"0", "-", "+", " ", "#"}
       THEN Eat /\ parse' = [parse EXCEPT !.flags = @ \union {ch}]
       ELSE Stay /\ Goto("width")
    /\ UNCHANGED args /\ NoOutput

WidthState ==
    /\ InState("width")
    /\ \/ /\ IsDigit(ch) /\ Eat /\ UNCHANGED args
          /\ parse' = [parse EXCEPT !.width = @ * 10 + Digit(ch)]
       \/ /\ ch = "*" /\ Eat /\ args' = Tail(args)
          /\ parse' = IF Head(args) < 0
                      THEN [parse EXCEPT !.width = -Head(args), !.flags = @ \union {"-"}]
                      ELSE [parse EXCEPT !.width = Head(args)]
       \/ /\ ch = "." /\ Eat /\ UNCHANGED args
          /\ parse' = [parse EXCEPT !.precision = 0, !.state = "precision"]
       \/ /\ ~IsDigit(ch) /\ ch \notin {"*", "."} /\ Stay /\ UNCHANGED args
          /\ Goto("datalen")
    /\ NoOutput

PrecisionState ==
    /\ InState("precision")
    /\ \/ /\ IsDigit(ch) /\ Eat /\ UNCHANGED args
          /\ parse' = [parse EXCEPT !.precision = @ * 10 + Digit(ch)]
       \/ /\ ch = "*" /\ Eat /\ args' = Tail(args)
          /\ parse' = [parse EXCEPT !.precision = Max({Head(args), -1})]
       \/ /\ ~IsDigit(ch) /\ ch # "*" /\ Stay /\ UNCHANGED args
          /\ Goto("datalen")
    /\ NoOutput

\* A second l or h is taken in the same turn.
DatalenState ==
    /\ InState("datalen")
    /\ LET twice == Len(format) > 1 /\ format[2] = ch
           set(d) == parse' = [parse EXCEPT !.datalen = d, !.state = "type"]
       IN  \/ ch = "l" /\ set(IF twice THEN "longlong" ELSE "long")
              /\ format' = SubSeq(format, IF twice THEN 3 ELSE 2, Len(format))
           \/ ch = "h" /\ set(IF twice THEN "char" ELSE "short")
              /\ format' = SubSeq(format, IF twice THEN 3 ELSE 2, Len(format))
           \/ ch = "j" /\ Eat /\ set("intmax_t")
           \/ ch = "z" /\ Eat /\ set("size_t")
           \/ ch = "t" /\ Eat /\ set("ptrdiff_t")
           \/ ch \notin {"l", "h", "j", "z", "t"} /\ Stay /\ Goto("type")
    /\ UNCHANGED args /\ NoOutput

\* The numerical base of a conversion.
BaseOf(type) ==
    IF type \in {"d", "i", "u"} THEN 10 ELSE IF type = "o" THEN 8 ELSE 16

Pointer(p) == [p EXCEPT !.flags = @ \union {"#"}, !.precision = PtrDigits,
                        !.datalen = "ptrdiff_t"]

TypeState ==
    /\ InState("type")
    /\ Eat
    /\ Goto("chars")
    /\ \/ /\ ch \in {"s", "c"}
          /\ Put(addstring(parse, Head(args)))
          /\ args' = Tail(args)
       \/ /\ ch \in {"d", "i", "u", "o", "x", "X", "p", "P"}
          /\ LET p == IF ch \in {"p", "P"} THEN Pointer(parse) ELSE parse
                 s == ch \in {"d", "i"}
             IN  Put(addint(p, Word(Head(args), p.datalen, s), s, BaseOf(ch),
                            ch \in {"X", "P"}))
          /\ args' = Tail(args)
       \/ /\ ch \notin {"s", "c", "d", "i", "u", "o", "x", "X", "p", "P", "n"}
          /\ Put(<<ch>>)
          /\ UNCHANGED args
    /\ UNCHANGED count

\* %n stores how long the output is so far.
CountState ==
    /\ InState("type")
    /\ ch = "n"
    /\ Eat
    /\ Goto("chars")
    /\ count' = bufptr
    /\ args' = Tail(args)
    /\ NoOutput

Turn ==
    /\ \/ /\ \/ CharsState \/ FlagsState \/ WidthState
             \/ PrecisionState \/ DatalenState
          /\ UNCHANGED count
       \/ TypeState \/ CountState
    /\ UNCHANGED <<call, outside>>

\* The end of the format: the text is ended by a zero, which replaces the
\* character before the pointer if the pointer has reached the buffer's end.
Terminate ==
    /\ format = <<>>
    /\ parse.state # "done"
    /\ LET zero == IF bufptr < call.n THEN bufptr ELSE bufptr - 1
       IN  IF zero \in DOMAIN buf
           THEN buf' = [buf EXCEPT ![zero] = Nul] /\ UNCHANGED outside
           ELSE UNCHANGED buf /\ outside' = IF call.n > 0 THEN zero ELSE -1
    /\ Goto("done")
    /\ UNCHANGED <<call, format, args, bufptr, count>>

vsnprintf == Turn \/ Terminate

-----------------------------------------------------------------------------
(* The calls, and what ISO C says of them.  An item of the format is a     *)
(* character or a conversion: its flags, width and precision (none: -1),   *)
(* whether these are given as arguments, its length and type, and the      *)
(* argument.                                                               *)

Literal(c) == [type |-> "literal", arg |-> c]

Given(number, star) ==
    IF star THEN <<"*">>
    ELSE IF number >= 10 THEN <<Lower[(number \div 10) + 1], Lower[(number % 10) + 1]>>
    ELSE <<Lower[number + 1]>>

Spelled(i) ==
    CASE i.type = "literal" -> <<i.arg>>
      [] i.type \in {"%", "n"} -> <<"%", i.type>>
      [] OTHER -> <<"%">> \o i.flags
                      \o (IF i.width # 0 THEN Given(i.width, i.star) ELSE <<>>)
                      \o (IF i.precision >= 0
                          THEN <<".">> \o Given(i.precision, i.star) ELSE <<>>)
                      \o i.length \o <<i.type>>

Arguments(i) ==
    CASE i.type \in {"literal", "%"} -> <<>>
      [] i.type = "n" -> <<Null>>
      [] OTHER -> (IF i.star /\ i.width # 0 THEN <<i.width>> ELSE <<>>)
                      \o (IF i.star /\ i.precision >= 0 THEN <<i.precision>> ELSE <<>>)
                      \o <<i.arg>>

Init(calls) ==
    /\ call \in calls
    /\ format = FlattenSeq([k \in DOMAIN call.items |-> Spelled(call.items[k])])
    /\ args = FlattenSeq([k \in DOMAIN call.items |-> Arguments(call.items[k])])
    /\ parse = [state |-> "chars"] @@ Fresh
    /\ bufptr = 0
    /\ buf = [c \in 0..(call.n - 1) |-> Old]
    /\ outside = -1
    /\ count = -1

Datalen(length) ==
    CASE length = <<>> -> "int"          [] length = <<"h">> -> "short"
      [] length = <<"h", "h">> -> "char" [] length = <<"l">> -> "long"
      [] OTHER -> "longlong"

\* The number an integer conversion prints.
Number(i) ==
    LET bits == IF i.type \in {"p", "P"} THEN MaxBits ELSE Bits[Datalen(i.length)]
        low  == i.arg % 2 ^ bits
    IN  IF i.type \in {"d", "i"} /\ low >= 2 ^ (bits - 1) THEN low - 2 ^ bits ELSE low

Numeral(number, base, table) ==
    LET f[m \in Nat] == IF m = 0 THEN <<>>
                        ELSE Append(f[m \div base], table[(m % base) + 1])
    IN  f[number]

\* The prefix and the digits of an integer conversion.
PrefixAndDigits(i) ==
    LET v       == Number(i)
        pointer == i.type \in {"p", "P"}
        least   == IF pointer THEN PtrDigits ELSE IF i.precision >= 0 THEN i.precision ELSE 1
        numeral == Numeral(IF v < 0 THEN -v ELSE v, BaseOf(i.type),
                           IF i.type \in {"X", "P"} THEN Upper ELSE Lower)
        digits  == Copies("0", least - Len(numeral)) \o numeral
        alt     == pointer \/ "#" \in ToSet(i.flags)
    IN  CASE i.type \in {"d", "i"} ->
                 <<IF v < 0 THEN <<"-">> ELSE IF "+" \in ToSet(i.flags) THEN <<"+">>
                   ELSE IF " " \in ToSet(i.flags) THEN <<" ">> ELSE <<>>, digits>>
          [] i.type = "o" -> <<IF alt /\ Head(digits) # "0" THEN <<"0">> ELSE <<>>, digits>>
          [] i.type \in {"x", "p"} -> <<IF alt THEN <<"0", "x">> ELSE <<>>, digits>>
          [] i.type \in {"X", "P"} -> <<IF alt THEN <<"0", "X">> ELSE <<>>, digits>>
          [] OTHER -> <<<<>>, digits>>

Rendered(i) ==
    IF i.type \in {"literal", "%"} THEN <<IF i.type = "%" THEN "%" ELSE i.arg>>
    ELSE IF i.type = "n" THEN <<>>
    ELSE LET halves == IF i.type \in {"s", "c"}
                       THEN LET s == IF i.arg = Null THEN <<"(", "n", "u", "l", "l", ")">> ELSE i.arg
                            IN  <<<<>>, IF i.precision >= 0
                                        THEN SubSeq(s, 1, Min({i.precision, Len(s)})) ELSE s>>
                       ELSE PrefixAndDigits(i)
             left == "-" \in ToSet(i.flags) \/ i.width < 0
             fill == (IF i.width < 0 THEN -i.width ELSE i.width)
                         - Len(halves[1]) - Len(halves[2])
         IN  IF left THEN halves[1] \o halves[2] \o Copies(" ", fill)
             ELSE IF "0" \in ToSet(i.flags)
                 THEN halves[1] \o Copies("0", fill) \o halves[2]
             ELSE Copies(" ", fill) \o halves[1] \o halves[2]

Text(items) == FlattenSeq([k \in DOMAIN items |-> Rendered(items[k])])

\* The length is the text's, whatever the buffer's; what the buffer holds is
\* the text's beginning, and if the text fits up to its last character, a
\* zero behind it; the cells after that are left alone; and %n stores the
\* length up to it.
RendersAsC ==
    parse.state = "done" =>
        LET text == Text(call.items)
            kept == Min({Len(text), call.n - 1})
        IN  /\ bufptr = Len(text)
            /\ \A c \in DOMAIN buf :
                   /\ c < kept => buf[c] = text[c + 1]
                   /\ Len(text) <= call.n /\ c = kept => buf[c] = Nul
                   /\ Len(text) <= call.n /\ c > kept => buf[c] = Old
            /\ \A k \in DOMAIN call.items :
                   call.items[k].type = "n" =>
                       count = Len(Text(SubSeq(call.items, 1, k - 1)))

\* "n: Maximum number of characters in the the buffer, including space for a
\* null terminator" (stdio.h:23-24, 43-44): nothing is written outside it,
\* and the text it holds ends.
StaysInBuffer ==
    parse.state = "done" =>
        outside = -1 /\ (call.n > 0 => \E c \in DOMAIN buf : buf[c] = Nul)
=============================================================================
