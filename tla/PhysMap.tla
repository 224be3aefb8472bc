------------------------------- MODULE PhysMap -------------------------------
(***************************************************************************)
(* The physical memory map, kernel/mem/pmap.c.                             *)
(*                                                                         *)
(* The boot loader and the ACPI tables leave an arbitrary list of regions, *)
(* overlapping and in any order.  pmap_init adds its own and normalizes:   *)
(* it sorts, sweeps the list to remove overlaps (the stronger type wins),  *)
(* fills the gaps with reserved memory and joins equal neighbours.  Every  *)
(* later pmap_add normalizes again.                                        *)
(*                                                                         *)
(* An action is one turn of the sort's partition or of one of the three    *)
(* loops, with curr the region it looks at.  wanted records, when a        *)
(* normalization starts, what the sweep has to preserve.                   *)
(***************************************************************************)
EXTENDS Integers, Sequences, SequencesExt, FiniteSetsExt

CONSTANTS
    Bytes,          \* the addresses are 0 .. Bytes - 1
    AddTypes,       \* the types of the regions reported and added
    FixedRegions,   \* the regions pmap_init adds
    MaxReported,    \* bound: regions listed before pmap_init
    MaxAdds,        \* bound: calls of pmap_add after it
    EmptyAt         \* where a region reported may have size zero

PMEMTYPE_USABLE   == 1
PMEMTYPE_RESERVED == 2
Types             == 1..7

ASSUME PhysMapAssumption ==
    /\ Bytes \in Nat /\ MaxReported \in Nat /\ MaxAdds \in Nat
    /\ AddTypes \subseteq Types
    /\ FixedRegions \in Seq([addr : Nat, size : Nat \ {0}, type : Types])
    /\ \A i \in DOMAIN FixedRegions :
           FixedRegions[i].addr + FixedRegions[i].size <= Bytes
    /\ EmptyAt \subseteq Nat

VARIABLES
    region,         \* the map's regions, a sequence of [addr, size, type]
    last_usable,    \* the end of the last usable region
    ranges, scan,   \* the sort of the list, see Qsort
    pc,             \* boot, sort, the loop that runs, or ready
    curr,           \* the loop's position
    wanted,         \* of each address, the strongest type listed (0: none)
    adds            \* calls of pmap_add so far

sortVars == <<ranges, scan>>
vars     == <<region, last_usable, sortVars, pc, curr, wanted, adds>>

Region == [addr : 0..Bytes, size : 0..Bytes, type : Types]

Addable == {r \in [addr : 0..(Bytes - 1), size : 0..Bytes, type : AddTypes] :
                r.addr + r.size <= Bytes /\ (r.size = 0 => r.addr \in EmptyAt)}

End(r) == r.addr + r.size

Covers(r, x) == r.addr <= x /\ x < End(r)

\* The strongest type among the regions of s that cover address x.
TypeAt(s, x) ==
    LET over == {i \in DOMAIN s : Covers(s[i], x)}
    IN  IF over = {} THEN 0 ELSE Max({s[i].type : i \in over})

Listed(s) == [x \in 0..(Bytes - 1) |-> TypeAt(s, x)]

cmp_region(r1, r2) ==
    \/ r1.addr < r2.addr
    \/ r1.addr = r2.addr /\ r1.size < r2.size

Q == INSTANCE Qsort WITH base <- region, Before <- cmp_region

\* Region i, whose address has grown, moves behind those that are not greater.
resort(s, i) ==
    LET stop == Min({Len(s) + 1} \union
                    {j \in (i + 1)..Len(s) : cmp_region(s[i], s[j])})
    IN  SubSeq(s, 1, i - 1) \o SubSeq(s, i + 1, stop - 1)
            \o <<s[i]>> \o SubSeq(s, stop, Len(s))

-----------------------------------------------------------------------------
(* Adding regions. *)

SortThenCollapse ==
    /\ pc' = IF ranges' = <<>> THEN "collapse" ELSE "sort"
    /\ curr' = 1

normalize(s) ==
    /\ Q!qsort(s)
    /\ wanted' = Listed(s)
    /\ SortThenCollapse

\* Before pmap_init the loader and the ACPI module only list regions.
add_region(r) ==
    /\ pc = "boot"
    /\ Len(region) < MaxReported
    /\ region' = Append(region, r)
    /\ UNCHANGED <<last_usable, sortVars, pc, curr, wanted, adds>>

pmap_init ==
    /\ pc = "boot"
    /\ normalize(region \o FixedRegions)
    /\ UNCHANGED <<last_usable, adds>>

pmap_add(r) ==
    /\ pc = "ready"
    /\ adds < MaxAdds
    /\ adds' = adds + 1
    /\ normalize(Append(region, r))
    /\ UNCHANGED last_usable

SortTurn ==
    /\ pc = "sort"
    /\ Q!Exchange \/ Q!Split
    /\ SortThenCollapse
    /\ UNCHANGED <<last_usable, wanted, adds>>

-----------------------------------------------------------------------------
(* collapse_overlaps: one turn of the loop. *)

Looping(loop) == pc = loop /\ curr < Len(region)

C  == region[curr]
N  == region[curr + 1]
cl == C.addr
cr == End(C)
nl == N.addr
nr == End(N)

Change(s) == region' = s /\ UNCHANGED <<last_usable, sortVars, pc, curr, wanted, adds>>
Advance   == curr' = curr + 1 /\ UNCHANGED <<region, last_usable, sortVars, pc, wanted, adds>>

SetSize(s, i, n) == [s EXCEPT ![i].size = n]
SetSpan(s, i, a, b) == [s EXCEPT ![i].addr = a, ![i].size = b - a]

CollapseEmpty ==
    /\ Looping("collapse")
    /\ C.size = 0
    /\ Change(RemoveAt(region, curr))

\* Mistaken variant: regions that touch count as overlapping.
ApartStrict == Min({cr, nr}) < Max({cl, nl})

Apart == Min({cr, nr}) <= Max({cl, nl})

SkipDisjoint ==
    /\ Looping("collapse")
    /\ C.size # 0
    /\ Apart
    /\ Advance

Overlap == Looping("collapse") /\ C.size # 0 /\ ~Apart

Stronger == N.type > C.type

DropCurr ==
    /\ Overlap /\ Stronger
    /\ cl = nl
    /\ Change(RemoveAt(region, curr))

DropNext ==
    /\ Overlap /\ ~Stronger
    /\ IF cl = nl THEN cr = nr ELSE cr >= nr
    /\ Change(RemoveAt(region, curr + 1))

\* Mistaken variant: the list is not put in order again.
TrimNextUnsorted ==
    /\ Overlap /\ ~Stronger
    /\ IF cl = nl THEN cr # nr ELSE cr < nr
    /\ Change(SetSpan(region, curr + 1, cr, nr))

\* What is left of the weaker region starts later, so it may have to move.
TrimNext ==
    /\ Overlap /\ ~Stronger
    /\ IF cl = nl THEN cr # nr ELSE cr < nr
    /\ Change(resort(SetSpan(region, curr + 1, cr, nr), curr + 1))

TrimCurr ==
    /\ Overlap /\ Stronger
    /\ cl # nl /\ cr <= nr
    /\ Change(SetSize(region, curr, nl - cl))

\* Mistaken variant: only the left part of the split region survives.
SplitCurrLeft ==
    /\ Overlap /\ Stronger
    /\ cl # nl /\ cr > nr
    /\ Change(SetSize(region, curr, nl - cl))

\* A weaker region sticks out on both sides: its right part becomes a region
\* of its own and finds its place behind next.
SplitCurr ==
    /\ Overlap /\ Stronger
    /\ cl # nl /\ cr > nr
    /\ LET cut   == SetSize(region, curr, nl - cl)
           right == [addr |-> nr, size |-> cr - nr, type |-> C.type]
       IN  Change(resort(InsertAt(cut, curr + 2, right), curr + 2))

collapse_overlaps ==
    CollapseEmpty \/ SkipDisjoint \/ DropCurr \/ DropNext
        \/ TrimNext \/ TrimCurr \/ SplitCurr

-----------------------------------------------------------------------------
(* fill_gaps, consolidate_neighbors, update_last_usable. *)

FillNone ==
    /\ Looping("fill")
    /\ cr = nl
    /\ Advance

FillGap ==
    /\ Looping("fill")
    /\ cr # nl
    /\ Change(IF C.type = PMEMTYPE_RESERVED
                  THEN SetSize(region, curr, nl - cl)
              ELSE IF N.type = PMEMTYPE_RESERVED
                  THEN SetSpan(region, curr + 1, cr, nr)
              ELSE InsertAt(region, curr + 1,
                       [addr |-> cr, size |-> nl - cr, type |-> PMEMTYPE_RESERVED]))

fill_gaps == FillNone \/ FillGap

\* Mistaken variant: the joined region is not compared with the one after it.
JoinEqualAdvance ==
    /\ Looping("consolidate")
    /\ C.type = N.type
    /\ region' = RemoveAt(SetSize(region, curr, C.size + N.size), curr + 1)
    /\ curr' = curr + 1
    /\ UNCHANGED <<last_usable, sortVars, pc, wanted, adds>>

JoinEqual ==
    /\ Looping("consolidate")
    /\ C.type = N.type
    /\ Change(RemoveAt(SetSize(region, curr, C.size + N.size), curr + 1))

KeepDifferent ==
    /\ Looping("consolidate")
    /\ C.type # N.type
    /\ Advance

consolidate_neighbors == JoinEqual \/ KeepDifferent

NextLoop(from, to) ==
    /\ pc = from
    /\ curr >= Len(region)
    /\ pc' = to
    /\ curr' = 1

\* The end of the last usable region of the list, 0 if there is none.
update_last_usable ==
    /\ NextLoop("consolidate", "ready")
    /\ last_usable' =
           LET usable == {i \in DOMAIN region : region[i].type = PMEMTYPE_USABLE}
           IN  IF usable = {} THEN 0 ELSE End(region[Max(usable)])
    /\ UNCHANGED <<region, sortVars, wanted, adds>>

LoopEnds ==
    /\ NextLoop("collapse", "fill") \/ NextLoop("fill", "consolidate")
    /\ UNCHANGED <<region, last_usable, sortVars, wanted, adds>>

Normalizing ==
    SortTurn \/ collapse_overlaps \/ fill_gaps 
        \/ consolidate_neighbors \/ LoopEnds \/ update_last_usable

-----------------------------------------------------------------------------
Init ==
    /\ region = <<>>
    /\ last_usable = 0
    /\ ranges = <<>>
    /\ scan = Q!NoScan
    /\ pc = "boot"
    /\ curr = 1
    /\ wanted = Listed(<<>>)
    /\ adds = 0

Next ==
    \/ \E r \in Addable : add_region(r) \/ pmap_add(r)
    \/ pmap_init
    \/ Normalizing

Spec == Init /\ [][Next]_vars

\* A loop that can go on does.
FairSpec == Spec /\ WF_vars(Normalizing)

-----------------------------------------------------------------------------
(* Properties. *)

\* Every variable keeps to its type.
TypeOK ==
    /\ region \in Seq(Region)
    /\ last_usable \in 0..Bytes
    /\ pc \in {"boot", "sort", "collapse", "fill", "consolidate", "ready"}
    /\ curr \in 1..(Len(region) + 1)
    /\ wanted \in [0..(Bytes - 1) -> Types \union {0}]
    /\ adds \in 0..MaxAdds

\* The invariant of the sweep: up to curr the regions are disjoint, from
\* there on they are in order, so that the next overlap is always with the
\* neighbour, and the five cases of the comment in collapse_overlaps are all.
SweepInOrder ==
    /\ TypeOK
    /\ pc = "collapse" =>
        /\ \A i \in 1..(curr - 1) : End(region[i]) <= region[i + 1].addr
        /\ \A i \in curr..(Len(region) - 1) :
               ~cmp_region(region[i + 1], region[i])

\* No turn of the sweep, and no filling or joining, changes what the
\* strongest type is at any address; what nobody listed becomes reserved.
StrongestTypeWins ==
    \A x \in 0..(Bytes - 1) :
        CASE pc \in {"sort", "collapse"} -> TypeAt(region, x) = wanted[x]
          [] pc \in {"fill", "consolidate", "ready"} ->
                 \/ TypeAt(region, x) = wanted[x]
                 \/ wanted[x] = 0 /\ TypeAt(region, x) = PMEMTYPE_RESERVED
          [] OTHER -> TRUE

\* "There are no gaps in a memory map" (pmap.h:50), nor overlaps nor equal
\* neighbours, and last_usable is the end of its last usable byte.
MapExact ==
    pc = "ready" =>
        /\ \A i \in 1..(Len(region) - 1) :
               /\ End(region[i]) = region[i + 1].addr
               /\ region[i].type # region[i + 1].type
        /\ LET usable == {x \in 0..(Bytes - 1) : wanted[x] = PMEMTYPE_USABLE}
           IN  last_usable = IF usable = {} THEN 0 ELSE Max(usable) + 1

\* Neither scan of the sort leaves the list, and every part is smaller than
\* what it is a part of.
ScansStop == Q!ScansStop

\* Every normalization ends, its sort included: again and again none runs.
NormalizeEnds == []<>(pc \in {"boot", "ready"})

\* "Find all overlapping memory regions in the memory map and collapse or
\* reorganize them" (pmap.c:88-89): after the sweep no address is in two.
OverlapsGone ==
    pc = "fill" =>
        \A x \in 0..(Bytes - 1) : \A i, j \in DOMAIN region :
            Covers(region[i], x) /\ Covers(region[j], x) => i = j
=============================================================================
