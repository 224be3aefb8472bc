-------------------------------- MODULE Kmem --------------------------------
(***************************************************************************)
(* The kernel's page table, kernel/mem/kmem.c: kmem_init goes through the  *)
(* regions of the memory map and maps each to itself, with the largest     *)
(* pages that fit.                                                         *)
(***************************************************************************)
EXTENDS Memory

CONSTANT KernelTablePages   \* pages of the kernel page table, its root aside

ASSUME KmemAssumption == KernelTablePages \in Nat

VARIABLES
    ktables,        \* the tables allocated below the root
    leaves,         \* the entries that map a page: [addr, pages, uncached]
    addr            \* how far kmem_init has come

kmemVars == <<ktables, leaves, addr>>

Mapping == phase = "kmem" /\ addr < PageCount

\* The regions map_region leaves out, and what no region covers.
Skipped ==
    \/ mem[addr] \in {PMEMTYPE_NONE, PMEMTYPE_UNMAPPED, PMEMTYPE_BAD}
    \/ mem[addr] = PMEMTYPE_RESERVED /\ RegionAddr(addr) >= last_usable

SkipRegion ==
    /\ Mapping
    /\ Skipped
    /\ addr' = RegionTerm(addr)
    /\ UNCHANGED <<phase, mem, ktables, leaves>>

\* Mistaken variant: the rest of the region may be smaller than the page.
FitsUnbounded(n) == addr % n = 0

Fits(n) == addr % n = 0 /\ RegionTerm(addr) - addr >= n

\* get_pdflags and get_ptflags: device memory and what the firmware keeps
\* through sleep are not cached.
Uncached == mem[addr] \in {PMEMTYPE_ACPI_NVS, PMEMTYPE_UNCACHED}

\* Create a huge page if possible, else a large page if possible, else a
\* small page.
PageSize ==
    IF Fits(HugePages) THEN HugePages
    ELSE IF Fits(LargePages) THEN LargePages ELSE 1

\* The tables below the root on the way to an entry for n pages.
Way(n) ==
    {Pdpt(addr)} \union (IF n < HugePages THEN {Pdt(addr)} ELSE {})
                 \union (IF n < LargePages THEN {Pt(addr)} ELSE {})

HasTables == Cardinality(ktables \union Way(PageSize)) <= KernelTablePages

\* create_huge_page, create_large_page, create_small_page.
MapPage ==
    /\ Mapping /\ ~Skipped
    /\ HasTables
    /\ ktables' = ktables \union Way(PageSize)
    /\ leaves' = leaves \union
           {[addr |-> addr, pages |-> PageSize, uncached |-> Uncached]}
    /\ addr' = addr + PageSize
    /\ UNCHANGED <<phase, mem>>

\* alloc_page: "if (pt->vnext >= pt->vterm) fatal();"
OutOfTables ==
    /\ Mapping /\ ~Skipped
    /\ ~HasTables
    /\ Stop
    /\ UNCHANGED <<mem, ktables, leaves, addr>>

MapDone ==
    /\ phase = "kmem"
    /\ addr >= PageCount
    /\ phase' = "activate"
    /\ UNCHANGED <<mem, ktables, leaves, addr>>

kmem_init == SkipRegion \/ MapPage \/ OutOfTables \/ MapDone

KmemInit ==
    /\ ktables = {}
    /\ leaves = {}
    /\ addr = 0

\* The entries that map page p.
LeavesOf(p) == {l \in leaves : l.addr <= p /\ p < l.addr + l.pages}
=============================================================================
