------------------------------- MODULE Cstring -------------------------------
(***************************************************************************)
(* Copying in memory, libc/string: memmove, strlcpy and strlcat.  An       *)
(* action is one character.                                                *)
(*                                                                         *)
(* memmove copies from the left or from the right, so that it reads no     *)
(* byte it has already overwritten; strlcpy and strlcat stop one character *)
(* before the end of the buffer, of which a size of zero leaves them none. *)
(***************************************************************************)
EXTENDS Integers, FiniteSetsExt

VARIABLES
    call,   \* the arguments: [op, dst, src, num, before], the memory included
    mem,    \* the memory, a function of the address
    step,   \* what the code does next
    d, s,   \* the two pointers
    left    \* the bytes memmove has yet to move

Cells == DOMAIN mem

Init(calls) ==
    /\ call \in calls
    /\ mem = call.before
    /\ step = "start"
    /\ d = call.dst
    /\ s = call.src
    /\ left = 0

Continue(where) == step' = where /\ UNCHANGED call

Copy(to) == mem' = [mem EXCEPT ![d] = mem[s]] /\ d' = d + to /\ s' = s + to

\* Mistaken variant: an overlap is not noticed.
OverlapsNever == FALSE

\* The destination begins inside the source.
Overlaps == call.src < call.dst /\ call.dst < call.src + call.num

memmove ==
    /\ step = "start"
    /\ call.op = "memmove"
    /\ left' = call.num
    /\ IF call.dst = call.src THEN Continue("done") /\ UNCHANGED <<d, s>>
       ELSE IF ~Overlaps THEN Continue("fast") /\ UNCHANGED <<d, s>>
       ELSE Continue("slow") /\ d' = d + call.num - 1 /\ s' = s + call.num - 1
    /\ UNCHANGED mem

movsb ==
    /\ step \in {"fast", "slow"}
    /\ IF left = 0 THEN Continue("done") /\ UNCHANGED <<mem, d, s, left>>
       ELSE /\ Copy(IF step = "slow" THEN -1 ELSE 1)
            /\ left' = left - 1
            /\ Continue(step)

\* while (d < dt && ...)
HasRoom == d < call.dst + call.num - 1

strl ==
    /\ step = "start"
    /\ call.op \in {"strlcpy", "strlcat"}
    /\ Continue(IF call.op = "strlcpy" THEN "copy" ELSE "find")
    /\ UNCHANGED <<mem, d, s, left>>

FindEnd ==
    /\ step = "find"
    /\ IF HasRoom /\ mem[d] # 0 THEN d' = d + 1 /\ Continue("find")
       ELSE UNCHANGED d /\ Continue("copy")
    /\ UNCHANGED <<mem, s, left>>

CopyChar ==
    /\ step = "copy"
    /\ IF HasRoom /\ mem[s] # 0 THEN Copy(1) /\ Continue("copy")
       ELSE /\ mem' = IF call.num > 0 THEN [mem EXCEPT ![d] = 0] ELSE mem
            /\ Continue("done")
            /\ UNCHANGED <<d, s>>
    /\ UNCHANGED left

Step == memmove \/ movsb \/ strl \/ FindEnd \/ CopyChar

-----------------------------------------------------------------------------
\* How many characters the string at address a has.
Length(a) == Min({x \in Cells : x >= a /\ call.before[x] = 0}) - a

\* The characters a buffer of the size keeps, beside its zero.
Fitting(length) == Max({Min({length, call.num - 1}), 0})

Kept == IF call.op = "strlcpy" THEN 0 ELSE Fitting(Length(call.dst))

\* memmove moves what the source held before, "even if the regions overlap"
\* (string.h:87-88).  strlcpy and strlcat leave a terminated string of at most
\* dstsize - 1 characters, of which they return the number, and "unless dstsize
\* was 0" (string.h:31, 45) they have written; no other byte changes.
CopiesExactly ==
    step = "done" =>
        IF call.op = "memmove"
        THEN \A x \in Cells :
                 mem[x] = call.before[IF x \in call.dst..(call.dst + call.num - 1)
                                      THEN x - call.dst + call.src ELSE x]
        ELSE LET length == Fitting(Kept + Length(call.src))
             IN  /\ d - call.dst = length
                 /\ \A x \in Cells :
                        mem[x] = CASE x < call.dst + Kept -> call.before[x]
                                   [] x \in (call.dst + Kept)..(call.dst + length - 1) ->
                                          call.before[x - call.dst - Kept + call.src]
                                   [] x = call.dst + length /\ call.num > 0 -> 0
                                   [] OTHER -> call.before[x]
=============================================================================
