----------------------------- MODULE PageFrames -----------------------------
(***************************************************************************)
(* The page frame database of kernel/mem/paging.c: page_init's list of     *)
(* available frames, pfalloc and pffree.                                   *)
(*                                                                         *)
(* pf holds a record per frame; the available ones form a doubly linked    *)
(* list through prev and next.  Addresses are in units smaller than a      *)
(* page, for regions that do not begin or end at a page's edge.  A store   *)
(* or load at pf[PFN_INVALID] is far outside the machine's memory: it      *)
(* faults, and isr_fatal stops the system.                                 *)
(***************************************************************************)
EXTENDS Integers, FiniteSets

CONSTANTS
    Count,          \* pfdb.count
    PageUnits,      \* address units of a page
    MaxRegions,     \* bound: usable regions of the memory map
    MaxReleases,    \* bound: calls of pffree
    Aligned         \* whether regions begin and end at a page's edge

ASSUME PageFramesAssumption ==
    /\ Count \in Nat \ {0} /\ PageUnits \in Nat \ {0}
    /\ MaxRegions \in Nat /\ MaxReleases \in Nat /\ Aligned \in BOOLEAN

VARIABLES
    pf,             \* the frames' records
    head, tail,     \* the list's ends
    avail,          \* its length, as counted
    pc,             \* "init", "ready", or "stopped" by a fault
    usable,         \* the usable address units of the regions traversed
    held            \* the frames handed out

vars == <<pf, head, tail, avail, pc, usable, held>>

PFN_INVALID == Count
Pfn         == 0..(Count - 1)
Link        == 0..Count

PFTYPE_RESERVED  == 0
PFTYPE_AVAILABLE == 1
PFTYPE_ALLOCATED == 2

ZeroPf == [prev |-> 0, next |-> 0, refcount |-> 0, type |-> PFTYPE_RESERVED]

-----------------------------------------------------------------------------
(* page_init. *)

\* The usable regions that may follow in the map, which is sorted and has
\* something else between two of them; the first page is never usable.
NextRegions ==
    LET from == IF usable = {} THEN PageUnits
                ELSE 2 + CHOOSE u \in usable : \A v \in usable : v <= u
    IN  {r \in (from..(Count * PageUnits)) \X (1..(Count * PageUnits)) :
            /\ r[1] < r[2]
            /\ Aligned => r[1] % PageUnits = 0 /\ r[2] % PageUnits = 0}

\* The frames of a region [a, b): its first is rounded down.
pfn0(a) == a \div PageUnits
pfnN(b) == b \div PageUnits

\* The records once the region's frames are chained to the list.
Chain(a, b) ==
    LET first == pfn0(a)
        last  == pfnN(b) - 1
        chain == [f \in Pfn |->
                     IF f \in first..last
                     THEN [ZeroPf EXCEPT !.prev = f - 1, !.next = f + 1,
                                         !.type = PFTYPE_AVAILABLE]
                     ELSE pf[f]]
        hooked == IF tail = PFN_INVALID THEN chain
                  ELSE [chain EXCEPT ![tail].next = first]
    IN  [hooked EXCEPT ![first].prev = tail, ![last].next = PFN_INVALID]

InitRegion(a, b) ==
    /\ pc = "init"
    /\ pf' = Chain(a, b)
    /\ head' = IF tail = PFN_INVALID THEN pfn0(a) ELSE head
    /\ tail' = pfnN(b) - 1
    /\ avail' = avail + (pfnN(b) - pfn0(a))
    /\ usable' = usable \union a..(b - 1)
    /\ UNCHANGED <<pc, held>>

\* Bound: the traversal ends after MaxRegions regions.
InitDone ==
    /\ pc = "init"
    /\ pc' = "ready"
    /\ UNCHANGED <<pf, head, tail, avail, usable, held>>

\* The frames all of whose addresses are usable.
UsableFrames ==
    {f \in Pfn : (f * PageUnits)..((f + 1) * PageUnits - 1) \subseteq usable}

Regions == Cardinality({u \in usable : u + 1 \notin usable})

-----------------------------------------------------------------------------
(* Allocation and release. *)

Fault ==
    /\ pc' = "stopped"
    /\ UNCHANGED <<tail, avail, usable>>

\* Mistaken variant: the list's head is not moved on.
PfallocKeepsHead ==
    /\ pc = "ready" /\ head # PFN_INVALID
    /\ pf' = [pf EXCEPT ![head] = [ZeroPf EXCEPT !.refcount = 1,
                                                 !.type = PFTYPE_ALLOCATED]]
    /\ held' = held \union {head}
    /\ UNCHANGED <<head, tail, avail, pc, usable>>

\* The frame at the head of the list is handed out, its record cleared.  The
\* count of available frames is not touched.
Pfalloc ==
    /\ pc = "ready" /\ head # PFN_INVALID
    /\ LET next == pf[head].next
           back == IF next = PFN_INVALID THEN pf
                   ELSE [pf EXCEPT ![next].prev = PFN_INVALID]
       IN  /\ head' = next
           /\ pf' = [back EXCEPT ![head] = [ZeroPf EXCEPT !.refcount = 1,
                                                    !.type = PFTYPE_ALLOCATED]]
    /\ held' = held \union {head}
    /\ UNCHANGED <<tail, avail, pc, usable>>

\* With an empty list the load of the head's record faults, whatever avail
\* says: fatal() comes back if it is called at all.
PfallocEmpty ==
    /\ pc = "ready" /\ head = PFN_INVALID
    /\ Fault
    /\ UNCHANGED <<pf, head, held>>

Freed(f) == [ZeroPf EXCEPT !.prev = PFN_INVALID, !.next = head,
                           !.type = PFTYPE_AVAILABLE]

\* Mistaken variant: the old head is not told of the new one.
PffreeOneWay(f) ==
    /\ pc = "ready" /\ f \in held
    /\ pf[f].refcount = 1 /\ pf[f].type = PFTYPE_ALLOCATED
    /\ head # PFN_INVALID
    /\ pf' = [pf EXCEPT ![f] = Freed(f)]
    /\ head' = f
    /\ avail' = avail + 1
    /\ held' = held \ {f}
    /\ UNCHANGED <<tail, pc, usable>>

\* pgfree drops the only reference, and the frame goes to the list's head.
Pffree(f) ==
    /\ pc = "ready" /\ f \in held
    /\ pf[f].refcount = 1 /\ pf[f].type = PFTYPE_ALLOCATED
    /\ head # PFN_INVALID
    /\ pf' = [pf EXCEPT ![f] = Freed(f), ![head].prev = f]
    /\ head' = f
    /\ avail' = avail + 1
    /\ held' = held \ {f}
    /\ UNCHANGED <<tail, pc, usable>>

\* If the list is empty, the store into the old head's record faults before
\* the frame has become the head.
PffreeIntoEmpty(f) ==
    /\ pc = "ready" /\ f \in held
    /\ pf[f].refcount = 1 /\ pf[f].type = PFTYPE_ALLOCATED
    /\ head = PFN_INVALID
    /\ pf' = [pf EXCEPT ![f] = Freed(f)]
    /\ held' = held \ {f}
    /\ Fault
    /\ UNCHANGED head

-----------------------------------------------------------------------------
Init ==
    /\ pf = [f \in Pfn |-> ZeroPf]
    /\ head = PFN_INVALID /\ tail = PFN_INVALID
    /\ avail = 0
    /\ pc = "init"
    /\ usable = {}
    /\ held = {}

\* Bound: every release increments avail, which nothing decrements.
MayRelease == avail < Cardinality(UsableFrames) + MaxReleases

Next ==
    \/ Regions < MaxRegions /\ \E r \in NextRegions : InitRegion(r[1], r[2])
    \/ InitDone
    \/ Pfalloc \/ PfallocEmpty
    \/ MayRelease /\ \E f \in Pfn : Pffree(f)
    \/ \E f \in Pfn : PffreeIntoEmpty(f)

Spec == Init /\ [][Next]_vars

-----------------------------------------------------------------------------
(* Properties. *)

\* Every variable keeps to its type, and exactly the frames handed out are
\* marked as allocated, each with one reference.
TypeOK ==
    /\ pf \in [Pfn -> [prev : -1..Count, next : Link, refcount : 0..1, type : 0..2]]
    /\ head \in Link /\ tail \in Link
    /\ avail \in 0..(Count + MaxReleases)
    /\ pc \in {"init", "ready", "stopped"}
    /\ held \subseteq Pfn
    /\ \A f \in Pfn : /\ (f \in held) = (pf[f].type = PFTYPE_ALLOCATED)
                      /\ (f \in held) = (pf[f].refcount = 1)

\* The frames met when following the list from its head.
Walk ==
    LET after == [f \in Link |-> IF f = PFN_INVALID THEN f ELSE pf[f].next]
        w[i \in 0..Count] == IF i = 0 THEN head ELSE after[w[i - 1]]
    IN  w

Listed == {Walk[i] : i \in 0..Count} \ {PFN_INVALID}

\* The list ends, its two directions agree, and it holds exactly the frames
\* of usable memory that nobody holds.
ListExact ==
    pc # "stopped" =>
        /\ Walk[Count] = PFN_INVALID
        /\ Listed = UsableFrames \ held
        /\ Listed = {f \in Pfn : pf[f].type = PFTYPE_AVAILABLE}
        /\ \A f \in Listed :
               pf[f].prev = IF f = head THEN PFN_INVALID
                            ELSE CHOOSE g \in Listed : pf[g].next = f

\* The database is a pool of frames: none is handed out twice, and what is
\* released can be had again, up to the fault.
Pool == INSTANCE FramePool WITH Frames <- Pfn, free <- Listed

IsPool == Pool!Init /\ [][pc' # "stopped" => Pool!Next]_<<Listed, held>>

\* avail is the "available number of frames in the pfdb" (paging.c:65).
AvailCounts == pc # "stopped" => avail = Cardinality(Listed)

\* page_free: "Free one or more contiguous pages" (paging.h:132): the frame
\* released can be had again.
ReleasedIsListed ==
    [][\A f \in Pfn : f \in held /\ f \notin held' => f \in Listed']_vars
=============================================================================
