------------------------------- MODULE MCShell -------------------------------
(***************************************************************************)
(* Constants for TLC: the keys k, c, blank, Enter, Backspace, and Tab let  *)
(* go with and without Alt; a command buffer of four bytes, and names in   *)
(* two letters, of which one begins another as pci does pcie.              *)
(***************************************************************************)
EXTENDS Shell, TLC

Down(code, ch) == [brk |-> 0, alt |-> FALSE, code |-> code, ch |-> ch]
TabUp(alt)     == [brk |-> 1, alt |-> alt, code |-> 9, ch |-> 0]

MCKeys == {Down(107, 107), Down(99, 99), Down(32, 32), Down(13, 13),
           Down(8, 8), TabUp(TRUE), TabUp(FALSE)}

Named(str, run) == [str |-> str, run |-> run]

MCCommands == {Named(<<107>>, "apic"), Named(<<99>>, "pci"),
               Named(<<99, 107>>, "pcie"), Named(<<107, 99>>, "keycode"),
               Named(<<107, 107>>, "help"), Named(<<99, 99>>, "heap")}

\* Tables: an entry's first cell holds its type and length.
Entry(type, length) ==
    [c \in 1..length |-> [type |-> type, length |-> IF c = 1 THEN length ELSE 0]]

Madts == {<<>>, Entry(0, 1) \o Entry(2, 2) \o Entry(4, 1) \o Entry(0, 1) \o Entry(1, 2),
          Entry(2, 1) \o Entry(1, 1) \o Entry(2, 1)}

\* Functions: of one function or several, or a bridge to a bus.
Function(bridge, secondary, multi) ==
    [bridge |-> bridge, secondary |-> secondary, multi |-> multi]

One       == Function(FALSE, 0, FALSE)
Many      == Function(FALSE, 0, TRUE)
Bridge(b) == Function(TRUE, b, FALSE)
Absent    == [absent |-> TRUE]

\* What each function may be: absent, a bridge to a later bus (and a function
\* after it), a function behind a first that denies having any, several host
\* controllers, one that is itself a bridge, a bus that is empty, out of reach
\* or reached twice.
MayBe ==
    <<0, 0, 0>> :> {Absent, One, Many} @@ <<0, 0, 1>> :> {Absent, One, Bridge(1)}
        @@ <<0, 1, 0>> :> {Absent, Bridge(1), Function(TRUE, 1, TRUE)}
        @@ <<0, 1, 1>> :> {One}
        @@ <<1, 0, 0>> :> {Absent, One, Function(TRUE, 2, TRUE)}
        @@ <<1, 0, 1>> :> {One} @@ <<2, 0, 0>> :> {One}

Slots == DOMAIN MayBe
Kinds == UNION {MayBe[s] : s \in Slots}

Pcis ==
    {[s \in {x \in Slots : g[x] # Absent} |-> g[s]] :
        g \in {h \in [Slots -> Kinds] : \A s \in Slots : h[s] \in MayBe[s]}}

NoPci == <<0, 0, 0>> :> One

Machine(madt, mcfg, pci) == [madt |-> madt, mcfg |-> mcfg, pci |-> pci]

MCMachines == {Machine(m, 2, NoPci) : m \in Madts}
                  \union {Machine(<<>>, 0, p) : p \in Pcis}

\* An entry of length zero; a bridge nobody has given a secondary bus yet.
EmptyEntry == {Machine(<<[type |-> 4, length |-> 0]>>, 0, NoPci)}
BridgeLoop == {Machine(<<>>, 0, NoPci @@ <<0, 1, 0>> :> Bridge(0))}

\* The machines of the run that passes are of those the theorems speak of.
ASSUME HypothesesHold == Machines = MCMachines => MadtsFormed /\ PcisFormed
=============================================================================
