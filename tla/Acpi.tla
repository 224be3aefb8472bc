-------------------------------- MODULE Acpi --------------------------------
(***************************************************************************)
(* acpi_init of kernel/mem/acpi.c, and the page table it works on, which   *)
(* SetupPageTables of boot/loader.asm makes.                               *)
(*                                                                         *)
(* The firmware's tables may lie anywhere.  Each is mapped in the boot     *)
(* page table, whose spare pages are few, and listed in the memory map.    *)
(***************************************************************************)
EXTENDS Memory

CONSTANTS
    GuardPages,     \* the pages SetupPageTables makes guards of
    BootSpare,      \* pages from KMEM_BOOT_PAGETABLE_LOADED to its end
    Firmwares       \* the ACPI tables a firmware may have

VARIABLES
    btable,         \* [tables, small, guard, large, used] of the boot table
    fw,             \* the firmware's tables, NoRsdp if there are none
    tab,            \* the next table of the root to read
    acpi            \* the pages of the tables read

acpiVars == <<btable, fw, tab, acpi>>

NoRsdp  == [rsdp |-> FALSE]
NoTable == {}

ASSUME AcpiAssumption ==
    /\ BootSpare \in Nat
    /\ GuardPages \subseteq 0..(LargePages - 1)
    /\ \A f \in Firmwares : /\ f.version \in 1..3
                            /\ f.xsdt \subseteq Pages /\ f.rsdt \subseteq Pages
                            /\ f.tables \in Seq(SUBSET Pages)
                            /\ f.apics \subseteq Pages

NoTables == [tables |-> {}, small |-> {}, guard |-> {}, large |-> {}, used |-> 0]

-----------------------------------------------------------------------------
\* The first large page is mapped by small ones, some of which are made
\* guards: not present, but not zero either.  The rest of the image is mapped
\* by large pages.
SetupPageTables ==
    /\ phase = "page_tables"
    /\ phase' = "acpi"
    /\ btable' = [tables |-> {Pdpt(0), Pdt(0), Pt(0)},
                  small  |-> 0..(LargePages - 1),
                  guard  |-> GuardPages,
                  large  |-> LargePages..(ImageEnd - 1),
                  used   |-> 0]
    /\ UNCHANGED <<mem, fw, tab, acpi>>

is_mapped(p) == p \in btable.small \union btable.large

\* What create_page has to allocate for the pages S that are not mapped.
Missing(S) ==
    UNION {{Pdpt(p), Pdt(p), Pt(p)} : p \in {q \in S : ~is_mapped(q)}} \ btable.tables

\* map_range, for the table's header and then for all of it: create_page
\* takes the pages it needs from the spare ones.
map_range(S) ==
    btable' = [btable EXCEPT !.tables = @ \union Missing(S),
                             !.small  = @ \union {p \in S : ~is_mapped(p)},
                             !.used   = @ + Cardinality(Missing(S))]

HasRoom(S) == btable.used + Cardinality(Missing(S)) <= BootSpare

\* Mistaken variant: the table is mapped, but the map is not told.
MapTableUnlisted(S) ==
    /\ HasRoom(S)
    /\ map_range(S)
    /\ acpi' = acpi \union S
    /\ UNCHANGED mem

\* Mistaken variant: the spare pages are not counted.
MapTableUncounted(S) ==
    /\ map_range(S)
    /\ acpi' = acpi \union S
    /\ list(S, PMEMTYPE_ACPI)

map_table(S) ==
    /\ HasRoom(S)
    /\ map_range(S)
    /\ acpi' = acpi \union S
    /\ list(S, PMEMTYPE_ACPI)

\* alloc_page: "if (btable->next_page == btable->term_page) fatal();"
Exhausted(S) ==
    /\ ~HasRoom(S)
    /\ Stop
    /\ UNCHANGED <<mem, btable, fw, tab, acpi>>

-----------------------------------------------------------------------------
(* acpi_init. *)

\* The pages of a firmware's tables.
TablePages(f) == f.xsdt \union f.rsdt \union UNION {f.tables[i] : i \in DOMAIN f.tables}

\* A firmware has no table in memory that it reports as bad.
FindRsdp(f) ==
    /\ phase = "acpi"
    /\ \A p \in TablePages(f) : mem[p] # PMEMTYPE_BAD
    /\ fw' = f
    /\ phase' = "acpi_root"
    /\ UNCHANGED <<mem, btable, tab, acpi>>

FindNoRsdp ==
    /\ phase = "acpi"
    /\ Stop
    /\ UNCHANGED <<mem, btable, fw, tab, acpi>>

\* Since ACPI 2.0 the extended root is preferred; the plain one stands in.
Root == IF fw.version > 1 /\ fw.xsdt # NoTable THEN fw.xsdt ELSE fw.rsdt

ReadRoot ==
    /\ phase = "acpi_root"
    /\ Root # NoTable
    /\ map_table(Root)
    /\ tab' = 1
    /\ phase' = "acpi_tables"
    /\ UNCHANGED fw

NoRoot ==
    /\ phase = "acpi_root"
    /\ \/ Root = NoTable /\ Stop /\ UNCHANGED <<mem, btable, fw, tab, acpi>>
       \/ Root # NoTable /\ Exhausted(Root)

\* read_xsdt and read_rsdt: one turn of their loop.
ReadTable ==
    /\ phase = "acpi_tables"
    /\ tab <= Len(fw.tables)
    /\ map_table(fw.tables[tab])
    /\ tab' = tab + 1
    /\ UNCHANGED <<phase, fw>>

TableTooMany ==
    /\ phase = "acpi_tables"
    /\ tab <= Len(fw.tables)
    /\ Exhausted(fw.tables[tab])

\* The registers of the interrupt controllers that the MADT lists.
ReserveApics ==
    /\ phase = "acpi_tables"
    /\ tab > Len(fw.tables)
    /\ list(fw.apics, PMEMTYPE_UNCACHED)
    /\ phase' = "pmap_init"
    /\ UNCHANGED <<btable, fw, tab, acpi>>

acpi_init ==
    \/ \E f \in Firmwares : FindRsdp(f)
    \/ FindNoRsdp \/ ReadRoot \/ NoRoot \/ ReadTable \/ TableTooMany \/ ReserveApics

AcpiInit ==
    /\ btable = NoTables
    /\ fw = NoRsdp
    /\ tab = 0
    /\ acpi = {}
=============================================================================
