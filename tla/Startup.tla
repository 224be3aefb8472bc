------------------------------- MODULE Startup -------------------------------
(***************************************************************************)
(* The machine's start, from the first loader to the pool of page frames:  *)
(* the loaders, acpi_init, pmap_init and page_init, and then the use of    *)
(* the pool.  What one part leaves in the memory map is what the next      *)
(* builds the kernel's address space and its free memory from.             *)
(***************************************************************************)
EXTENDS PageFrames, Loader, Acpi, Kmem

CONSTANT DbFrames   \* frames whose records fill a large page of the database

ASSUME StartupAssumption ==
    /\ Count = PageCount /\ PageUnits = 1
    /\ DbFrames \in Nat \ {0}

VARIABLE db         \* the pages of the page frame database

poolVars  == vars
startVars == <<phase, mem, loaderVars, acpiVars, kmemVars, db, poolVars>>

NULL == {}

-----------------------------------------------------------------------------
(* The parts that come before page_init. *)

Load ==
    /\ load
    /\ UNCHANGED <<acpiVars, kmemVars, db, poolVars>>

LaunchKernel ==
    /\ SetupPageTables
    /\ UNCHANGED <<loaderVars, kmemVars, db, poolVars>>

ReadAcpi ==
    /\ acpi_init
    /\ UNCHANGED <<loaderVars, kmemVars, db, poolVars>>

\* The regions that pmap_init adds: video memory, the kernel with its global
\* structures, and the page that null pointers point to.
pmap_init ==
    /\ phase = "pmap_init"
    /\ LET video == Overlay(mem, VideoPages, PMEMTYPE_UNCACHED)
           image == Overlay(video, 0..(ImageEnd - 1), PMEMTYPE_RESERVED)
       IN  mem' = Filled(Overlay(image, {0}, PMEMTYPE_UNMAPPED))
    /\ phase' = "page_init"
    /\ UNCHANGED <<loaderVars, acpiVars, kmemVars, db, poolVars>>

-----------------------------------------------------------------------------
(* page_init. *)

AlignUp(n, a) == ((n + a - 1) \div a) * a

\* The records of all frames below the last usable address, in large pages.
DbSize == LargePages * (AlignUp(last_usable, DbFrames) \div DbFrames)

\* The aligned pages within the usable region at a that could hold it.
Within(a) ==
    LET from == AlignUp(a, LargePages)
    IN  IF from + DbSize <= RegionTerm(a) THEN from..(from + DbSize - 1) ELSE NULL

\* reserve_region: the first usable region that is large enough.
reserve_region ==
    LET fitting == {a \in UsableAddrs : Within(a) # NULL}
    IN  IF fitting = {} THEN NULL ELSE Within(Min(fitting))

\* Mistaken variant: the region is used, but not reserved.
ReserveDbUnlisted ==
    /\ phase = "page_init"
    /\ last_usable # 0 /\ reserve_region # NULL
    /\ db' = reserve_region
    /\ phase' = "kmem"
    /\ UNCHANGED <<mem, loaderVars, acpiVars, kmemVars, poolVars>>

ReserveDb ==
    /\ phase = "page_init"
    /\ last_usable # 0 /\ reserve_region # NULL
    /\ db' = reserve_region
    /\ pmap_add(reserve_region, PMEMTYPE_RESERVED)
    /\ phase' = "kmem"
    /\ UNCHANGED <<loaderVars, acpiVars, kmemVars, poolVars>>

NoMemory ==
    /\ phase = "page_init"
    /\ last_usable = 0 \/ reserve_region = NULL
    /\ Stop
    /\ UNCHANGED <<mem, loaderVars, acpiVars, kmemVars, db, poolVars>>

BuildKernelTable ==
    /\ kmem_init
    /\ UNCHANGED <<loaderVars, acpiVars, db, poolVars>>

IsMapped(p) == LeavesOf(p) # {}

\* set_pagetable, and memzero over the database: the first access to a page
\* that the new table does not map faults.
Activate ==
    /\ phase = "activate"
    /\ phase' = IF \A p \in db \union {ImageEnd - 1} : IsMapped(p)
                THEN "frames" ELSE "stopped"
    /\ UNCHANGED <<mem, loaderVars, acpiVars, kmemVars, db, poolVars>>

\* The next usable region is chained to the list of frames, until none is left.
AddFrames ==
    /\ phase = "frames"
    /\ LET todo == {a \in UsableAddrs : a \notin usable}
       IN  IF todo # {}
           THEN InitRegion(Min(todo), RegionTerm(Min(todo))) /\ UNCHANGED phase
           ELSE InitDone /\ phase' = "ready"
    /\ UNCHANGED <<mem, loaderVars, acpiVars, kmemVars, db>>

\* pfalloc and pffree.
UsePool ==
    /\ phase = "ready"
    /\ \/ Pfalloc \/ PfallocEmpty
       \/ MayRelease /\ \E f \in Pfn : Pffree(f)
       \/ \E f \in Pfn : PffreeIntoEmpty(f)
    /\ UNCHANGED <<phase, mem, loaderVars, acpiVars, kmemVars, db>>

-----------------------------------------------------------------------------
StartInit == LoaderInit /\ AcpiInit /\ KmemInit /\ db = NULL /\ Init

StartNext ==
    \/ Load \/ LaunchKernel \/ ReadAcpi
    \/ pmap_init \/ ReserveDb \/ NoMemory
    \/ BuildKernelTable \/ Activate \/ AddFrames
    \/ UsePool

StartSpec == StartInit /\ [][StartNext]_startVars

-----------------------------------------------------------------------------
(* Properties. *)

\* Every variable keeps to its type, and the boot table to its spare pages.
StartTypeOK ==
    /\ TypeOK
    /\ mem \in [Pages -> 0..7]
    /\ zone \in 0..MaxZones /\ tries \in 0..3
    /\ {current, last} \subseteq 0..(Word - 1)
    /\ btable.used \in 0..BootSpare
    /\ acpi \subseteq Pages /\ db \subseteq Pages
    /\ Cardinality(ktables) <= KernelTablePages
    /\ addr \in 0..PageCount

\* Once the kernel counts as loaded, the image holds every sector of the
\* file named MONK.SYS, each once and in order, and could be reached.
KernelLoaded ==
    phase = "layout" =>
        /\ a20
        /\ ~file.dir /\ file.name = "MONK.SYS"
        /\ upper = [i \in 1..file.sectors |-> file.lba + i - 1]

\* The pages the kernel's table is to map.
Mappable(p) ==
    /\ mem[p] \notin {PMEMTYPE_NONE, PMEMTYPE_BAD, PMEMTYPE_UNMAPPED}
    /\ mem[p] = PMEMTYPE_RESERVED => p < last_usable

\* When the kernel's table is in use, what is mapped is mapped by exactly one
\* entry, with the caching its type needs: all usable memory, all that the
\* firmware and devices use, what is reserved below the last usable address,
\* and nothing else.  No entry is a page and a table at once.
IdentityMapped ==
    phase \in {"frames", "ready"} =>
        /\ \A p \in Pages :
               Cardinality(LeavesOf(p)) = IF Mappable(p) THEN 1 ELSE 0
        /\ \A p \in Pages : \A l \in LeavesOf(p) :
               l.uncached = (mem[p] \in {PMEMTYPE_ACPI_NVS, PMEMTYPE_UNCACHED})
        /\ \A l \in leaves :
               /\ l.pages = LargePages => Pt(l.addr) \notin ktables
               /\ l.pages = HugePages => Pdt(l.addr) \notin ktables

\* The kernel can read each ACPI table it has found, through the boot page
\* table at first and through its own from then on.
TablesReachable ==
    \A p \in acpi :
        CASE phase \in {"frames", "ready"} -> IsMapped(p)
          [] phase # "stopped" -> is_mapped(p) /\ p \notin btable.guard
          [] OTHER -> TRUE

\* No frame of the pool, free or handed out, is part of the kernel, the
\* database, an ACPI table or a device, or reported as anything but usable.
PoolIsFreeMemory ==
    \A f \in Listed \union held :
        /\ f \notin 0..(ImageEnd - 1) \union db \union acpi \union fw.apics
        /\ Len(report) <= MaxZones =>
               /\ \E i \in DOMAIN report : f \in report[i].pages
               /\ \A i \in DOMAIN report :
                      f \in report[i].pages => report[i].type = PMEMTYPE_USABLE

\* "Scan the root directory of the cdrom for a file called" MONK.SYS
\* (loader.asm:804): when the search ends, the directory has none.
SearchComplete ==
    phase = "find_kernel" /\ AtEmpty =>
        \A s \in DOMAIN disc.root : \A i \in DOMAIN disc.root[s] :
            disc.root[s][i].name # "MONK.SYS"

\* "This way, if the kernel overflows its stack, we'll get a page fault"
\* (loader.asm:1268): the guard pages stay unmapped.
GuardsKept == phase \in {"frames", "ready"} => \A p \in btable.guard : ~IsMapped(p)

\* "Create the page frame database in the newly mapped virtual memory"
\* (paging.c:136): the kernel's table maps the database.
DatabaseMapped == phase = "activate" => \A p \in db : IsMapped(p)

-----------------------------------------------------------------------------
(* What KernelLoaded and TablesReachable need of discs and firmwares. *)

\* A kernel that sector numbers of a word can count: the loader's registers
\* hold no more.
Near(e) == e.lba > 0 /\ e.lba + e.sectors <= Word

KernelsNear ==
    \A d \in Discs : \A s \in DOMAIN d.root : \A i \in DOMAIN d.root[s] :
        d.root[s][i].name = "MONK.SYS" => Near(d.root[s][i])

\* A firmware keeps no table in the pages that become guards of the kernel's
\* stacks, nor in the first page.
TablesClear == \A f \in Firmwares : TablePages(f) \intersect (GuardPages \union {0}) = {}
=============================================================================
