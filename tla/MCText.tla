------------------------------- MODULE MCText -------------------------------
(***************************************************************************)
(* Text and memory: vsnprintf, dump_memory and the string functions, one   *)
(* call of any from the initial state, with the calls for TLC.             *)
(***************************************************************************)
EXTENDS Integers, Sequences, FiniteSets, TLC

CONSTANTS
    Null,
    Sizes,      \* the sizes of the buffer of vsnprintf
    Formats,    \* what it is called with: sequences of items
    DumpSizes   \* ... and of dump_memory

VARIABLES
    call, bufptr, buf, outside, format, args, parse, count, line, piece,
    mem, step, d, s, left

bufVars    == <<bufptr, buf, outside>>
formatVars == <<format, args, parse, count>>
dumpVars   == <<line, piece>>
memVars    == <<mem, step, d, s, left>>
vars       == <<call, bufVars, formatVars, dumpVars, memVars>>

F == INSTANCE Format WITH
    MaxBits <- 7, PtrDigits <- 2,
    Bits <- "char" :> 3 @@ "short" :> 4 @@ "int" :> 6 @@ "long" :> 7 @@ "longlong" :> 7
                @@ "intmax_t" :> 7 @@ "size_t" :> 7 @@ "ptrdiff_t" :> 7
D == INSTANCE Dump
C == INSTANCE Cstring

Item(flags, width, precision, star, length, type, arg) ==
    [flags |-> flags, width |-> width, precision |-> precision, star |-> star,
     length |-> length, type |-> type, arg |-> arg]

\* The ends of each length's range, zero, and a number of two digits.
Numbers == {0, 1, 7, 12, 31, 32, 63, 64, 127}

Lengths == {<<>>, <<"h">>, <<"h", "h">>, <<"l">>}

\* Flags and precisions on which this C library and ISO C agree: see README.
IntItems ==
    {i \in {Item(f, w, p, x, l, t, a) :
                f \in {<<>>, <<"-">>, <<"0">>, <<"#">>, <<"+">>, <<"0", " ">>, <<"#", "0">>},
                w \in {0, 3, 10}, p \in {-1, 2}, x \in {FALSE},
                l \in Lengths, t \in {"d", "u", "o", "x", "X"}, a \in Numbers} :
        LET flag(c) == \E k \in DOMAIN i.flags : i.flags[k] = c
        IN  /\ flag("0") => i.precision = -1
            /\ flag("+") \/ flag(" ") => i.type = "d"
            /\ flag("#") => i.type \in {"o", "x", "X"} /\ (i.type = "o" \/ i.arg % 8 # 0)}

PointerItems == {Item(<<>>, w, -1, FALSE, <<>>, t, a) : w \in {0, 6}, t \in {"p", "P"}, a \in Numbers}

StarItems ==
    {Item(<<>>, w, p, TRUE, <<>>, "d", a) : w \in {-4, 4}, p \in {-1, 2}, a \in Numbers}

Strings == {Null, <<>>, <<"a">>, <<"a", "b", "c">>}
StringItems ==
    {Item(f, w, p, x, <<>>, "s", a) :
        f \in {<<>>, <<"-">>}, w \in {0, 4}, p \in {-1, 0, 2}, x \in BOOLEAN, a \in Strings}
    \union {Item(<<>>, w, -1, FALSE, <<>>, "c", <<"a">>) : w \in {0, 2}}

Percent == Item(<<>>, 0, -1, FALSE, <<>>, "%", 0)
Counted == Item(<<>>, 0, -1, FALSE, <<>>, "n", 0)

\* One conversion, and a register of the register dump between others.
AllFormats ==
    {<<i, F!Literal(".")>> : i \in IntItems}
        \union {<<F!Literal("l"), i, Counted, Percent>> :
                    i \in PointerItems \union StarItems \union StringItems}
        \union {<<F!Literal("R"), Item(<<"0">>, 4, -1, FALSE, <<"l">>, "x", a),
                  Item(<<>>, 0, -1, FALSE, <<>>, "s", b)>> : a \in Numbers, b \in Strings}

PlainFormats == {<<F!Literal("l"), i, Percent>> : i \in StringItems}

FormatCalls == [n : Sizes, items : Formats]

\* No byte, one, a whole line, and more; and the dump of a stack of 128 bytes
\* to the 640 of an exception's message.
DumpCalls ==
    [n : DumpSizes, memsize : {0, 1, 16, 18}, style : {"noaddr", "addr", "offset"}]
    \union {[n |-> 640, memsize |-> 128, style |-> "addr"]}

\* Regions of a memory of six bytes, which are all different, for memmove; for
\* the others each byte may also be a zero, and the source, which ends, is
\* apart from the destination.
Memory == 0..5

MoveCalls ==
    {c \in [op : {"memmove"}, dst : Memory, src : Memory, num : 0..4,
            before : {[x \in Memory |-> x + 1]}] :
        c.dst + c.num <= 6 /\ c.src + c.num <= 6}

StringCalls ==
    {c \in [op : {"strlcpy", "strlcat"}, dst : {0, 3}, src : {0, 3}, num : 0..3,
            before : {b \in [Memory -> 0..6] : \A x \in Memory : b[x] \in {0, x + 1}}] :
        /\ c.dst # c.src
        /\ \A r \in {c.dst, c.src} : \E x \in r..(r + 2) : c.before[x] = 0}

NoFormat == format = <<>> /\ args = <<>> /\ parse = [state |-> "idle"] /\ count = -1
NoDump   == line = 0 /\ piece = -2
NoBuffer == bufptr = 0 /\ buf = <<>> /\ outside = -1
NoMemory == mem = <<>> /\ step = "idle" /\ d = 0 /\ s = 0 /\ left = 0

Init == \/ F!Init(FormatCalls) /\ NoDump /\ NoMemory
        \/ D!Init(DumpCalls) /\ NoFormat /\ NoMemory
        \/ C!Init(MoveCalls \union StringCalls) /\ NoBuffer /\ NoFormat /\ NoDump

Next == \/ parse.state # "idle" /\ F!vsnprintf /\ UNCHANGED <<dumpVars, memVars>>
        \/ piece # -2 /\ D!dump_memory /\ UNCHANGED <<formatVars, memVars>>
        \/ step # "idle" /\ C!Step /\ UNCHANGED <<bufVars, formatVars, dumpVars>>

Spec == Init /\ [][Next]_vars

-----------------------------------------------------------------------------
\* Whatever the buffer's size, vsnprintf returns the length of the text that
\* ISO C describes, and stores its beginning.
RendersAsC == F!RendersAsC

\* A memory dump is stored from its beginning and in whole pieces.
StoresBeginning == D!StoresBeginning

\* memmove, strlcpy and strlcat write what they should, and nowhere else.
CopiesExactly == C!CopiesExactly

\* What stdio.h and dump.h say of a buffer too small for the text: refuted.
StaysInBuffer     == F!StaysInBuffer
EndsInBuffer      == D!EndsInBuffer
ReturnsFullLength == D!ReturnsFullLength
=============================================================================
