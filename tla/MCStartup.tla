------------------------------ MODULE MCStartup ------------------------------
(***************************************************************************)
(* A machine of 24 pages for TLC, of which 8 are the kernel's: what a disc *)
(* may hold, a firmware report and its ACPI tables say.                    *)
(***************************************************************************)
EXTENDS Startup

File(n, l, s) == [name |-> n, dir |-> FALSE, lba |-> l, sectors |-> s]
Dir(n)        == [name |-> n, dir |-> TRUE, lba |-> 20, sectors |-> 1]
Other         == File("OTHER", 22, 1)
LoaderFile    == File("LOADER.SYS", 23, 2)

Disc(v, r) == [volumes |-> v, root |-> r]
Volumes    == <<"boot", "primary", "terminator">>

\* The kernel in a second sector of the directory, behind a directory of its
\* name; a kernel that fills its chunks; an empty one.
GoodDiscs ==
    {Disc(Volumes, <<<<Dir("."), LoaderFile, Dir("MONK.SYS")>>,
                     <<File("MONK.SYS", 30, 5)>>>>),
     Disc(Volumes, <<<<File("MONK.SYS", 30, 4), LoaderFile>>>>),
     Disc(Volumes, <<<<LoaderFile, File("MONK.SYS", 59, 0)>>>>)}

\* No volume, no loader, one that is too large, no kernel or one that only
\* comes after the end of a sector.
BadDiscs ==
    {Disc(<<"boot", "terminator">>, <<>>),
     Disc(Volumes, <<<<Other>>>>),
     Disc(Volumes, <<<<Dir("."), Other, Other>>, <<LoaderFile>>>>),
     Disc(Volumes, <<<<File("LOADER.SYS", 23, 3)>>>>),
     Disc(Volumes, <<<<LoaderFile, Other, Other>>>>),
     Disc(Volumes, <<<<LoaderFile, Other>>, <<File("MONK.SYS", 30, 5)>>>>)}

AllDiscs == GoodDiscs \union BadDiscs

\* ... and a kernel far out on the disc, where sector numbers exceed a word.
FarDiscs == AllDiscs \union {Disc(Volumes, <<<<LoaderFile, File("MONK.SYS", 62, 5)>>>>)}

Zone(a, b, t) == [pages |-> a..(b - 1), type |-> t]
LowMemory     == Zone(0, 8, PMEMTYPE_USABLE)

Reportable == {PMEMTYPE_NONE, PMEMTYPE_USABLE, PMEMTYPE_RESERVED,
               PMEMTYPE_ACPI_NVS, PMEMTYPE_BAD}

\* Up to three zones above the image, in every way of cutting it, and one
\* report that is out of order, overlaps and has more zones than fit.
ThreeZones ==
    {<<LowMemory>> \o SelectSeq(<<Zone(8, c, s), Zone(c, d, t), Zone(d, 24, u)>>,
                                LAMBDA z : z.type # PMEMTYPE_NONE /\ z.pages # {}) :
        c \in {9, 10, 12, 14}, d \in {14, 16, 17, 20, 24},
        s \in Reportable, t \in Reportable, u \in Reportable}

Tangled ==
    <<Zone(9, 24, PMEMTYPE_USABLE), LowMemory, Zone(14, 16, PMEMTYPE_ACPI_NVS),
      Zone(15, 17, PMEMTYPE_USABLE), Zone(9, 11, PMEMTYPE_RESERVED)>>

AllLayouts == ThreeZones \union {Tangled, Tangled \o <<Zone(12, 13, PMEMTYPE_BAD)>>}

Firmware(v, x, r, t, a) ==
    [rsdp |-> TRUE, version |-> v, xsdt |-> x, rsdt |-> r, tables |-> t, apics |-> a]

\* Tables below and above the image, sharing pages, across large pages, and
\* more than the boot table has pages for.
AllFirmwares ==
    {Firmware(1, {}, {3}, <<{14, 15}, {3}>>, {}),
     Firmware(2, {9}, {3}, <<{9, 10}>>, {18, 19}),
     Firmware(3, {}, {18}, <<{18}, {18, 19}>>, {}),
     Firmware(2, {}, {}, <<>>, {}),
     Firmware(2, {12}, {}, <<{3}, {16}>>, {}),
     Firmware(2, {15, 16}, {}, <<>>, {})}

\* The run that passes has discs and firmwares the theorems speak of.
ASSUME HypothesesHold == TablesClear /\ (Discs = AllDiscs => KernelsNear)
=============================================================================
