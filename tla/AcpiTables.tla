----------------------------- MODULE AcpiTables -----------------------------
(***************************************************************************)
(* Reading the ACPI tables, kernel/mem/acpi.c, for the commands apic and   *)
(* pcie of the shell.                                                      *)
(*                                                                         *)
(* The MADT's entries differ in length, and each entry holds its own: the  *)
(* table is a sequence of cells, and the cell at which an entry begins is  *)
(* its header.  The MCFG's entries are alike, so only their number counts. *)
(* A table the firmware lacks prints no entries, like an empty one.        *)
(* An action is one turn of madt_find's loop or one call of                *)
(* acpi_next_mcfg_addr, with what the command then prints.                 *)
(***************************************************************************)
EXTENDS Naturals, Sequences, SequencesExt

VARIABLES
    machine,    \* its fields madt, cells [type, length], and mcfg, a number
    walk,       \* the type of entry looked for, and the cell reached
    listed      \* the entries printed: <<type, cell>>, or the MCFG's cell

Types == 0..2   \* local APIC, I/O APIC, ISO

Start ==
    /\ walk' = [type |-> 0, at |-> 1]
    /\ listed' = <<>>

\* From the entry found last, or the first, to the next of the type.
madt_find ==
    /\ walk.at <= Len(machine.madt)
    /\ LET entry == machine.madt[walk.at]
       IN  /\ walk' = [walk EXCEPT !.at = @ + entry.length]
           /\ listed' = IF entry.type = walk.type
                        THEN Append(listed, <<walk.type, walk.at>>) ELSE listed
    /\ UNCHANGED machine

MadtEnds == walk.at > Len(machine.madt)

\* Mistaken variant: the search does not start over for the next type.
NextTypeGoesOn ==
    /\ MadtEnds
    /\ walk.type + 1 \in Types
    /\ walk' = [walk EXCEPT !.type = @ + 1]
    /\ UNCHANGED <<machine, listed>>

NextType ==
    /\ MadtEnds
    /\ walk.type + 1 \in Types
    /\ walk' = [type |-> walk.type + 1, at |-> 1]
    /\ UNCHANGED <<machine, listed>>

acpi_next_mcfg_addr ==
    /\ walk.at <= machine.mcfg
    /\ walk' = [walk EXCEPT !.at = @ + 1]
    /\ listed' = Append(listed, walk.at)
    /\ UNCHANGED machine

ApicStep == madt_find \/ NextType
ApicDone == MadtEnds /\ walk.type + 1 \notin Types

PcieDone == walk.at > machine.mcfg

-----------------------------------------------------------------------------
\* The cells at which an entry begins, those inside one being no header.
Headers == {c \in DOMAIN machine.madt : machine.madt[c].length > 0}

\* Every entry of the types the command knows is printed once, by type and in
\* the table's order.
ApicListsAll ==
    ApicDone =>
        /\ ToSet(listed) = {<<machine.madt[c].type, c>> : c \in
                                {h \in Headers : machine.madt[h].type \in Types}}
        /\ \A i, k \in DOMAIN listed : i < k =>
               \/ listed[i][1] < listed[k][1]
               \/ listed[i][1] = listed[k][1] /\ listed[i][2] < listed[k][2]

PcieListsAll == PcieDone => listed = [c \in 1..machine.mcfg |-> c]
=============================================================================
