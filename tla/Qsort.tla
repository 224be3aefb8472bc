-------------------------------- MODULE Qsort --------------------------------
(***************************************************************************)
(* The C library's qsort, libc/stdlib/qsort.c: Hoare's partition with the  *)
(* first element as the pivot.  The left part is sorted by a recursive     *)
(* call, the right part by another turn of the outer loop, so the ranges   *)
(* still to sort are kept as a stack.                                      *)
(*                                                                         *)
(* Neither scan tests where the range ends: each relies on an element that *)
(* stops it.  An action is one turn of the partition's loop.               *)
(***************************************************************************)
EXTENDS Integers, Sequences, FiniteSetsExt

CONSTANT Before(_, _)   \* whether cmp puts its first element before the second

VARIABLES
    base,       \* the array
    ranges,     \* the ranges to sort, <<first, last>>, the innermost at the end
    scan        \* the partition of the innermost: the positions i and j, the pivot

first == ranges[Len(ranges)][1]
last  == ranges[Len(ranges)][2]

NoScan == [i |-> 0, j |-> 0, pivot |-> <<>>]

\* A range of fewer than two elements returns at once.
Part(l, r) == IF l < r THEN << <<l, r>> >> ELSE <<>>

\* The innermost range starts its partition.
Begin(todo, s) ==
    /\ base' = s
    /\ ranges' = todo
    /\ scan' = IF todo = <<>> THEN NoScan
               ELSE LET r == todo[Len(todo)]
                    IN  [i |-> r[1] - 1, j |-> r[2] + 1, pivot |-> s[r[1]]]

qsort(s) == Begin(Part(1, Len(s)), s)

Sorting == ranges # <<>>

\* Mistaken variant: the scan from the left passes elements equal to the pivot.
UpStopsPastEqual == {k \in (scan.i + 1)..last : Before(scan.pivot, base[k])}

\* The positions of the range at which either scan stops.
UpStops   == {k \in (scan.i + 1)..last : ~Before(base[k], scan.pivot)}
DownStops == {k \in first..(scan.j - 1) : ~Before(scan.pivot, base[k])}

up   == Min(UpStops)
down == Max(DownStops)

Exchange ==
    /\ Sorting
    /\ up < down
    /\ base' = [base EXCEPT ![up] = base[down], ![down] = base[up]]
    /\ scan' = [scan EXCEPT !.i = up, !.j = down]
    /\ UNCHANGED ranges

Split ==
    /\ Sorting
    /\ up >= down
    /\ Begin(SubSeq(ranges, 1, Len(ranges) - 1)
                 \o Part(down + 1, last) \o Part(first, down), base)

-----------------------------------------------------------------------------
\* Both scans meet an element of the range that stops them, although the
\* exchanges have moved the pivot's own, and both parts are smaller than the
\* range, so that the recursion ends.
ScansStop ==
    Sorting => /\ UpStops # {} /\ DownStops # {}
               /\ up >= down => down \in first..(last - 1)
=============================================================================
