------------------------------- MODULE Loader -------------------------------
(***************************************************************************)
(* The boot loaders, boot/boot.asm and boot/loader.asm, up to the page     *)
(* table: the first finds the second on the disc and loads it; the second  *)
(* opens the memory above 1 MiB, finds the kernel, copies it there chunk   *)
(* by chunk, and asks the firmware for the memory's layout.                *)
(*                                                                         *)
(* A disc has volume descriptors and a root directory of sectors, each a   *)
(* sequence of entries and, if they do not fill it, an empty record.       *)
(***************************************************************************)
EXTENDS Memory

CONSTANTS
    Discs,          \* discs the machine may start from
    SectorEntries,  \* entries that fill a sector of a directory
    LoaderMax,      \* sectors that fit the second loader's place
    BufferSectors,  \* sectors of Mem.Kernel.LoadBuffer
    Word,           \* 2^16: sector numbers are words
    MaxZones,       \* zones that fit Mem.Table
    Layouts         \* the memory layouts a firmware may report

ASSUME LoaderAssumption ==
    /\ {SectorEntries, LoaderMax, BufferSectors, Word, MaxZones} \subseteq Nat \ {0}
    /\ Layouts \subseteq Seq([pages : SUBSET Pages, type : 1..5])
    /\ \A d \in Discs : d.root \in
           Seq(Seq([name : STRING, dir : BOOLEAN, lba : Nat, sectors : Nat]))

VARIABLES
    disc,           \* the disc in the drive
    at,             \* the sector and entry looked at, or the volume
    file,           \* the directory entry found
    a20, tries,     \* whether the A20 line is on; attempts to enable it
    current, last,  \* LoadKernel.CurrentSector and LastSector
    upper,          \* the sectors copied to Mem.Kernel.Image, in order
    report, zone    \* the zones the firmware reports, and how many are read

driveVars  == <<disc, at, file>>
lineVars   == <<a20, tries>>
copyVars   == <<current, last, upper>>
zoneVars   == <<report, zone>>
loaderVars == <<driveVars, lineVars, copyVars, zoneVars>>

NoDisc == [volumes |-> <<>>, root |-> <<>>]
NoFile == [name |-> "none", dir |-> FALSE, lba |-> 0, sectors |-> 0]

-----------------------------------------------------------------------------
(* The disc. *)

\* Any read may fail, and the loaders then give up.
ReadError ==
    /\ phase \in {"volume", "find_loader", "read_loader", "find_kernel", "load_kernel"}
    /\ Stop
    /\ UNCHANGED <<mem, loaderVars>>

\* The search for the primary volume descriptor, from sector 16 on.
ReadVolume ==
    /\ phase = "volume"
    /\ LET v == at[1]
       IN  CASE v > Len(disc.volumes) \/ disc.volumes[v] = "terminator" ->
                    Stop /\ UNCHANGED at
             [] disc.volumes[v] = "primary" ->
                    phase' = "find_loader" /\ at' = <<1, 1>>
             [] OTHER -> at' = <<v + 1, 1>> /\ UNCHANGED phase
    /\ UNCHANGED <<mem, disc, file, lineVars, copyVars, zoneVars>>

Sector == IF at[1] <= Len(disc.root) THEN disc.root[at[1]] ELSE <<>>

AtRecord == at[2] <= Len(Sector)
AtEmpty  == ~AtRecord /\ Len(Sector) < SectorEntries

IsFile(name) ==
    /\ AtRecord
    /\ ~Sector[at[2]].dir
    /\ Sector[at[2]].name = name

\* One turn of the search for a file in the root directory, in both loaders:
\* an empty record ends it, a full sector is followed by the next.
ProcessDirEntry(from, name, found) ==
    /\ phase = from
    /\ CASE IsFile(name) ->
                phase' = found /\ file' = Sector[at[2]] /\ UNCHANGED at
         [] AtRecord /\ ~IsFile(name) ->
                at' = <<at[1], at[2] + 1>> /\ UNCHANGED <<phase, file>>
         [] AtEmpty -> Stop /\ UNCHANGED <<at, file>>
         [] OTHER -> at' = <<at[1] + 1, 1>> /\ UNCHANGED <<phase, file>>
    /\ UNCHANGED <<mem, disc, lineVars, copyVars, zoneVars>>

FindLoader == ProcessDirEntry("find_loader", "LOADER.SYS", "read_loader")
FindKernel == ProcessDirEntry("find_kernel", "MONK.SYS", "kernel_found")

\* The second loader is read in one go, if its place is large enough.
ReadLoader ==
    /\ phase = "read_loader"
    /\ phase' = IF file.sectors <= LoaderMax THEN "a20" ELSE "stopped"
    /\ UNCHANGED <<mem, loaderVars>>

-----------------------------------------------------------------------------
(* The processor. *)

\* Mistaken variant: the last attempt is taken to have worked.
EnableA20Untested ==
    /\ phase = "a20"
    /\ IF a20 \/ tries = 3
       THEN phase' = "cpu" /\ UNCHANGED lineVars
       ELSE tries' = tries + 1 /\ a20' \in BOOLEAN /\ UNCHANGED phase
    /\ UNCHANGED <<mem, driveVars, copyVars, zoneVars>>

\* EnableA20: the firmware, the keyboard controller and the fast gate are
\* tried in turn; any of them may work.
EnableA20 ==
    /\ phase = "a20"
    /\ CASE a20 -> phase' = "cpu" /\ UNCHANGED lineVars
         [] ~a20 /\ tries < 3 ->
                tries' = tries + 1 /\ a20' \in BOOLEAN /\ UNCHANGED phase
         [] OTHER -> Stop /\ UNCHANGED lineVars
    /\ UNCHANGED <<mem, driveVars, copyVars, zoneVars>>

\* 64-bit mode and SSE, which a processor has or has not.
CheckCpu ==
    /\ phase = "cpu"
    /\ \/ phase' = "find_kernel" /\ at' = <<1, 1>>
       \/ Stop /\ UNCHANGED at
    /\ UNCHANGED <<mem, disc, file, lineVars, copyVars, zoneVars>>

-----------------------------------------------------------------------------
(* LoadKernel. *)

StartLoading ==
    /\ phase = "kernel_found"
    /\ phase' = "load_kernel"
    /\ current' = file.lba % Word
    /\ last' = (file.lba + file.sectors) % Word
    /\ UNCHANGED <<mem, upper, driveVars, lineVars, zoneVars>>

\* The sectors that are left, as many as the buffer takes.
Chunk == Min({BufferSectors, (last - current) % Word})

\* A chunk is read in real mode and copied in protected mode.  With the A20
\* line off the copy would land 1 MiB below the image.
LoadChunk ==
    /\ phase = "load_kernel"
    /\ upper' = IF a20 THEN upper \o [i \in 1..Chunk |-> (current + i - 1) % Word]
                ELSE upper
    /\ current' = (current + Chunk) % Word
    /\ phase' = IF current' = last THEN "layout" ELSE "load_kernel"
    /\ UNCHANGED <<mem, last, driveVars, lineVars, zoneVars>>

-----------------------------------------------------------------------------
(* ReadMemLayout. *)

\* External: the layout the firmware has in store.  Nothing reads the disc or
\* the state of LoadKernel again, and the model forgets them.
ProbeMemory(r) ==
    /\ phase = "layout"
    /\ report' = r
    /\ phase' = "zones"
    /\ disc' = NoDisc /\ at' = <<1, 1>> /\ file' = NoFile
    /\ tries' = 0
    /\ current' = 0 /\ last' = 0 /\ upper' = <<>>
    /\ UNCHANGED <<mem, zone, a20>>

\* A zone is read and counted.  The firmware may mark the last one, or fail
\* the call after it; a full table ends the loop as well.
ReadZone ==
    /\ phase = "zones"
    /\ zone < Len(report)
    /\ list(report[zone + 1].pages, report[zone + 1].type)
    /\ zone' = zone + 1
    /\ \/ zone' < MaxZones /\ UNCHANGED phase
       \/ zone' \in {Len(report), MaxZones} /\ phase' = "page_tables"
    /\ UNCHANGED <<report, driveVars, lineVars, copyVars>>

NoMoreZones ==
    /\ phase = "zones"
    /\ zone = Len(report)
    /\ phase' = "page_tables"
    /\ UNCHANGED <<mem, loaderVars>>

load ==
    \/ ReadError \/ ReadVolume \/ FindLoader \/ ReadLoader
    \/ EnableA20 \/ CheckCpu \/ FindKernel \/ StartLoading \/ LoadChunk
    \/ \E r \in Layouts : ProbeMemory(r)
    \/ ReadZone \/ NoMoreZones

LoaderInit ==
    /\ phase = "volume"
    /\ mem = [p \in Pages |-> PMEMTYPE_NONE]
    /\ disc \in Discs
    /\ at = <<1, 1>>
    /\ file = NoFile
    /\ a20 \in BOOLEAN /\ tries = 0
    /\ current = 0 /\ last = 0 /\ upper = <<>>
    /\ report = <<>> /\ zone = 0
=============================================================================
