--------------------------------- MODULE Pci ---------------------------------
(***************************************************************************)
(* The PCI probe, kernel/device/pci.c: every bus is searched for           *)
(* functions, and a bridge's secondary bus before the function after the   *)
(* bridge.  probe is the stack of the calls of probe_bus that have not     *)
(* returned, each with the function it has reached.                        *)
(*                                                                         *)
(* What config space holds is data of the machine: which functions answer, *)
(* which are bridges and to where, and which devices say that they have    *)
(* several functions.  An action is one call of probe_function, one        *)
(* return of probe_bus or one turn of pci_init's loop.                     *)
(***************************************************************************)
EXTENDS Naturals, Sequences, SequencesExt

CONSTANTS
    LastBus, LastDevice, LastFunction,  \* 7, 31 and 7 in the code
    StackCalls      \* bound: calls of probe_bus the kernel's stack has room for

VARIABLES
    machine,    \* its field pci: the functions that answer, [bridge, secondary, multi]
    probe,      \* of each open call of probe_bus, <<bus, device, function>>
    host,       \* the bus pci_init probes
    listed      \* the functions printed

Present(f)  == f \in DOMAIN machine.pci
IsBridge(f) == machine.pci[f].bridge

\* Where no function answers every bit reads as one.
ReadsMulti(f) == Present(f) => machine.pci[f].multi

Start ==
    /\ probe' = << <<0, 0, 0>> >>
    /\ host' = 0
    /\ listed' = <<>>

\* Mistaken variant: every device is searched for all functions.
AfterAll(f) ==
    IF f[3] = LastFunction THEN <<f[1], f[2] + 1, 0>>
    ELSE <<f[1], f[2], f[3] + 1>>

\* Functions after the first are tried only if it answers and says so.
After(f) ==
    IF f[3] = LastFunction \/ (f[3] = 0 /\ ~(Present(f) /\ ReadsMulti(f)))
    THEN <<f[1], f[2] + 1, 0>>
    ELSE <<f[1], f[2], f[3] + 1>>

Proceed(calls) ==
    probe' = Append(Front(calls), After(Last(calls)))

OnBus == probe # <<>> /\ Last(probe)[2] <= LastDevice

ProbeAbsent ==
    /\ OnBus
    /\ ~Present(Last(probe))
    /\ Proceed(probe)
    /\ UNCHANGED <<machine, host, listed>>

ProbeFunction ==
    /\ OnBus
    /\ Present(Last(probe)) /\ ~IsBridge(Last(probe))
    /\ listed' = Append(listed, Last(probe))
    /\ Proceed(probe)
    /\ UNCHANGED <<machine, host>>

\* A call the stack has no room for does not come back.
ProbeBridge ==
    /\ OnBus
    /\ Present(Last(probe)) /\ IsBridge(Last(probe))
    /\ Len(probe) < StackCalls
    /\ probe' = Append(probe, <<machine.pci[Last(probe)].secondary, 0, 0>>)
    /\ UNCHANGED <<machine, host, listed>>

BusDone ==
    /\ probe # <<>> /\ ~OnBus
    /\ IF Len(probe) = 1 THEN probe' = <<>> ELSE Proceed(Front(probe))
    /\ UNCHANGED <<machine, host, listed>>

\* With several host controllers, function b of device 0 is that of bus b.
HostBus ==
    /\ probe = <<>>
    /\ ReadsMulti(<<0, 0, 0>>) /\ host < LastBus
    /\ host' = host + 1
    /\ probe' = IF Present(<<0, 0, host'>>) THEN << <<host', 0, 0>> >> ELSE <<>>
    /\ UNCHANGED <<machine, listed>>

Step == ProbeAbsent \/ ProbeFunction \/ ProbeBridge \/ BusDone \/ HostBus

Done == probe = <<>> /\ (ReadsMulti(<<0, 0, 0>>) => host = LastBus)

-----------------------------------------------------------------------------
(* What the probe should find. *)

Answers(f) == Present(f) /\ (f[3] > 0 => Present(<<f[1], f[2], 0>>)
                                             /\ ReadsMulti(<<f[1], f[2], 0>>))

Buses == {f[1] : f \in DOMAIN machine.pci}

BridgesTo(b) ==
    {f \in DOMAIN machine.pci :
        Answers(f) /\ IsBridge(f) /\ machine.pci[f].secondary = b}

\* Function b of the host controller leads to bus b.
HostTo(b) == b > 0 /\ ReadsMulti(<<0, 0, 0>>) /\ Present(<<0, 0, b>>)

OneWayTo(b) ==
    /\ \A f, g \in BridgesTo(b) : f = g
    /\ HostTo(b) => BridgesTo(b) = {}

\* S has bus 0, the buses of the host controllers and all that lie behind.
Closed(S) ==
    \A b \in Buses : b = 0 \/ HostTo(b) \/ (\E f \in BridgesTo(b) : f[1] \in S) => b \in S

Reached == {b \in Buses : \A S \in SUBSET Buses : Closed(S) => b \in S}

\* Every function on a bus something leads to is printed, only once if no
\* bus has two ways to it, and no bus is probed inside its own probe.
FindsAll ==
    /\ Done =>
        \A f \in {g \in DOMAIN machine.pci : Answers(g) /\ ~IsBridge(g)} :
            f[1] \in Reached <=> \E i \in DOMAIN listed : listed[i] = f
    /\ (\A b \in Buses : OneWayTo(b)) =>
        \A i, k \in DOMAIN listed : listed[i] = listed[k] => i = k
    /\ \A i \in DOMAIN listed : Answers(listed[i]) /\ ~IsBridge(listed[i])
    /\ \A i, k \in DOMAIN probe : i # k => probe[i][1] # probe[k][1]
=============================================================================
