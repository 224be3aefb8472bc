------------------------------- MODULE Memory -------------------------------
(***************************************************************************)
(* The machine's memory as its start-up sees it: what the modules Loader,  *)
(* Acpi, Kmem and Startup share.                                           *)
(*                                                                         *)
(* mem is the physical memory map page by page, the strongest type listed  *)
(* for each.  That the list of regions in kernel/mem/pmap.c says the same  *)
(* after every normalization is what PhysMap establishes.                  *)
(***************************************************************************)
EXTENDS Integers, FiniteSets, FiniteSetsExt, Sequences

CONSTANTS
    PageCount,      \* pages of physical memory
    LargePages,     \* pages of a large page, which a PT describes
    HugePages,      \* pages of a huge page, which a PDT describes
    TopPages,       \* pages a PDPT describes
    ImageEnd,       \* KMEM_KERNEL_IMAGE_END
    VideoPages      \* the pages of KMEM_VIDEO

ASSUME MemoryAssumption ==
    /\ {PageCount, LargePages, HugePages, TopPages} \subseteq Nat \ {0}
    /\ HugePages % LargePages = 0 /\ TopPages % HugePages = 0
    /\ ImageEnd \in 1..PageCount /\ ImageEnd % LargePages = 0
    /\ VideoPages \subseteq 0..(ImageEnd - 1)

VARIABLES
    phase,          \* the part of the start-up that runs
    mem             \* of each page, the type of memory, 0 if nothing lists it

PMEMTYPE_NONE     == 0
PMEMTYPE_USABLE   == 1
PMEMTYPE_RESERVED == 2
PMEMTYPE_ACPI     == 3
PMEMTYPE_ACPI_NVS == 4
PMEMTYPE_BAD      == 5
PMEMTYPE_UNCACHED == 6
PMEMTYPE_UNMAPPED == 7

Pages == 0..(PageCount - 1)

\* An error stops the machine for good: the loader hangs, and until
\* interrupts_init has run there is no gate behind fatal() or a fault.
Stop == phase' = "stopped"

\* The map once the pages S are listed with type t.
Overlay(m, S, t) == [p \in Pages |-> IF p \in S THEN Max({m[p], t}) ELSE m[p]]

\* fill_gaps: what nobody listed below the last listed page is reserved.
Filled(m) ==
    [p \in Pages |->
        IF m[p] = PMEMTYPE_NONE /\ \E q \in Pages : q > p /\ m[q] # PMEMTYPE_NONE
        THEN PMEMTYPE_RESERVED ELSE m[p]]

\* pmap_add, before and after pmap_init.
list(S, t)     == mem' = Overlay(mem, S, t)
pmap_add(S, t) == mem' = Filled(Overlay(mem, S, t))

\* The region of the map that holds page p: its first page, and the page
\* beyond its last.
RegionAddr(p) ==
    Max({q \in 0..p : mem[q] = mem[p] /\ (q = 0 \/ mem[q - 1] # mem[q])})
RegionTerm(p) == Min({q \in (p + 1)..PageCount : q = PageCount \/ mem[q] # mem[p]})

\* The first pages of the usable regions.
UsableAddrs == {p \in Pages : mem[p] = PMEMTYPE_USABLE /\ RegionAddr(p) = p}

last_usable ==
    LET usable == {p \in Pages : mem[p] = PMEMTYPE_USABLE}
    IN  IF usable = {} THEN 0 ELSE Max(usable) + 1

\* The tables below the root that a walk to page p passes.
Pdpt(p) == <<"PDPT", p \div TopPages>>
Pdt(p)  == <<"PDT", p \div HugePages>>
Pt(p)   == <<"PT", p \div LargePages>>
=============================================================================
