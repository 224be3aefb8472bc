-------------------------------- MODULE Shell --------------------------------
(***************************************************************************)
(* The interactive shell, kernel/shell.c, over the keyboard's queue.       *)
(*                                                                         *)
(* The shell is the main thread once the kernel has started: it halts the  *)
(* processor, and when an interrupt wakes it takes keys until there are    *)
(* none.  Keys arrive by interrupt at every moment, also between the last  *)
(* fruitless kb_getkey and the halt; the queue is the one KeyQueue         *)
(* specifies and module Keyboard implements.  The timer's tick only wakes. *)
(*                                                                         *)
(* The commands apic, pci and pcie walk data of the machine: modules       *)
(* AcpiTables and Pci.  The machine is looked at only while one runs, so   *)
(* it is chosen when the command starts and forgotten when it ends.        *)
(***************************************************************************)
EXTENDS Naturals, Sequences, SequencesExt, FiniteSets

CONSTANTS
    Keys,           \* the keys that can arrive: [brk, alt, code, ch]
    Capacity,       \* how many keys the queue holds
    CmdSize,        \* bytes of the command buffer
    Commands,       \* the command table: [str, run]
    Machines,       \* what may be found: [madt, mcfg, pci]
    LastBus, LastDevice, LastFunction, StackCalls,  \* see Pci
    NoKey, NoMachine

ASSUME ShellAssumption ==
    /\ CmdSize \in Nat \ {0}
    /\ \A c \in Commands : c.str \in Seq(Nat) \ {<<>>}
    /\ \A c, d \in Commands : c.str = d.str => c = d
    /\ LastBus \in Nat /\ LastDevice \in Nat /\ LastFunction \in Nat
    /\ LastFunction <= LastBus
    /\ StackCalls \in Nat \ {0}
    /\ \A m \in Machines :
           /\ m.madt \in Seq([type : Nat, length : Nat]) /\ m.mcfg \in Nat
           /\ \A f \in DOMAIN m.pci : m.pci[f].secondary \in Nat

VARIABLES
    queue, outcome, request, answer,   \* the keyboard, see KeyQueue
    mode,       \* the active mode: "command" or "keycode"
    pc,         \* where its run function is
    cmd,        \* the characters of cmd[0 .. cmdlen - 1]
    prompt,     \* whether the last line of the console has a prompt
    echo,       \* the characters after it
    job,        \* the command that runs
    machine, listed, walk, probe, host  \* what it works on

kbVars   == <<queue, outcome, request, answer>>
lineVars == <<cmd, prompt, echo>>
jobVars  == <<job, machine, listed, walk, probe, host>>
vars     == <<kbVars, mode, pc, lineVars, jobVars>>

KQ     == INSTANCE KeyQueue WITH CharKeys <- {k \in Keys : k.ch # 0}
PCI    == INSTANCE Pci
Tables == INSTANCE AcpiTables

KEYBRK_DOWN   == 0
KEYBRK_UP     == 1
KEY_BACKSPACE == 8
KEY_TAB       == 9
KEY_ENTER     == 13

-----------------------------------------------------------------------------
(* Interrupts, which end a halt. *)

Woken == pc' = IF pc = "halted" THEN "poll" ELSE pc

KeyInterrupt(k) ==
    /\ \/ queue' = Append(queue, k) /\ KQ!Offer
       \/ KQ!Refuse
    /\ Woken
    /\ UNCHANGED <<mode, lineVars, jobVars>>

\* Mistaken variant: the timer was never set up.
TickNever == FALSE /\ UNCHANGED vars

Tick ==
    /\ Woken
    /\ UNCHANGED <<kbVars, mode, lineVars, jobVars>>

-----------------------------------------------------------------------------
(* Waiting for keys. *)

Halt ==
    /\ pc = "halt"
    /\ pc' = "halted"
    /\ UNCHANGED <<kbVars, mode, lineVars, jobVars>>

Poll ==
    /\ pc = "poll"
    /\ KQ!Call("key")
    /\ UNCHANGED <<mode, pc, lineVars, jobVars>>

PollEmpty ==
    /\ KQ!ReportEmpty
    /\ pc' = "halt"
    /\ UNCHANGED <<mode, lineVars, jobVars>>

PollKey ==
    /\ KQ!Take
    /\ pc' = "handle"
    /\ UNCHANGED <<mode, lineVars, jobVars>>

-----------------------------------------------------------------------------
(* Command mode: what becomes of the key just taken. *)

InCommand == pc = "handle" /\ mode = "command"

Printable == answer.ch \in 32..126
Pressed(code) == ~Printable /\ answer.brk = KEYBRK_DOWN /\ answer.code = code

\* A printable character joins the command if there is still room for it and
\* for the terminating zero.
TypeChar ==
    /\ InCommand
    /\ Printable
    /\ IF Len(cmd) < CmdSize - 1
       THEN cmd' = Append(cmd, answer.ch) /\ echo' = Append(echo, answer.ch)
       ELSE UNCHANGED <<cmd, echo>>
    /\ pc' = "poll"
    /\ UNCHANGED <<kbVars, mode, prompt, jobVars>>

\* Mistaken variant: backspace erases from an empty line too, prompt included.
EraseAlways ==
    /\ InCommand
    /\ Pressed(KEY_BACKSPACE)
    /\ cmd' = IF cmd = <<>> THEN <<>> ELSE Front(cmd)
    /\ IF echo = <<>> THEN prompt' = FALSE /\ UNCHANGED echo
       ELSE echo' = Front(echo) /\ UNCHANGED prompt
    /\ pc' = "poll"
    /\ UNCHANGED <<kbVars, mode, jobVars>>

\* Backspace takes the last character off the command and off the screen.
Erase ==
    /\ InCommand
    /\ Pressed(KEY_BACKSPACE)
    /\ cmd # <<>>
    /\ cmd' = Front(cmd)
    /\ echo' = Front(echo)
    /\ pc' = "poll"
    /\ UNCHANGED <<kbVars, mode, prompt, jobVars>>

\* The command without its trailing blanks.
Stripped ==
    LET kept == {n \in 0..Len(cmd) : \A i \in (n + 1)..Len(cmd) : cmd[i] = 32}
    IN  SubSeq(cmd, 1, CHOOSE n \in kept : \A m \in kept : n <= m)

\* What the line names, "none" if it is empty or unknown.  The names differ,
\* so the order in which the table is searched does not show.  The commands
\* that print the help and test the heap are over at once here.
command_exec ==
    LET named == {c \in Commands : c.str = Stripped}
    IN  IF named = {} THEN "none" ELSE (CHOOSE c \in named : TRUE).run

Walks == {"apic", "pci", "pcie"}

EndLine ==
    /\ InCommand
    /\ Pressed(KEY_ENTER)
    /\ cmd' = <<>>
    /\ echo' = <<>>
    /\ UNCHANGED kbVars

\* Enter ends the line and executes the command.  Every command but one, an
\* empty line and an unknown name included, is followed by a new prompt.
Enter ==
    /\ EndLine
    /\ command_exec \notin Walks \union {"keycode"}
    /\ prompt' = TRUE
    /\ pc' = "poll"
    /\ UNCHANGED <<mode, jobVars>>

cmd_switch_to_keycodes ==
    /\ EndLine
    /\ command_exec = "keycode"
    /\ mode' = "keycode"
    /\ prompt' = FALSE
    /\ pc' = "halt"
    /\ UNCHANGED jobVars

EnterWalk ==
    /\ EndLine
    /\ command_exec \in Walks
    /\ job' = command_exec
    /\ machine' \in Machines
    /\ IF job' = "pci" THEN PCI!Start /\ UNCHANGED walk
       ELSE Tables!Start /\ UNCHANGED <<probe, host>>
    /\ prompt' = FALSE
    /\ pc' = "run"
    /\ UNCHANGED mode

IgnoreKey ==
    /\ InCommand
    /\ ~Printable
    /\ ~Pressed(KEY_ENTER)
    /\ ~(Pressed(KEY_BACKSPACE) /\ cmd # <<>>)
    /\ pc' = "poll"
    /\ UNCHANGED <<kbVars, mode, lineVars, jobVars>>

-----------------------------------------------------------------------------
(* A command that walks: keys arrive meanwhile, and wait. *)

NoWalk == [type |-> 0, at |-> 0]

cmd_display_pci  == job = "pci" /\ PCI!Step /\ UNCHANGED walk
cmd_display_apic == job = "apic" /\ Tables!ApicStep /\ UNCHANGED <<probe, host>>
cmd_display_pcie ==
    job = "pcie" /\ Tables!acpi_next_mcfg_addr /\ UNCHANGED <<probe, host>>

Run ==
    /\ pc = "run"
    /\ cmd_display_pci \/ cmd_display_apic \/ cmd_display_pcie
    /\ UNCHANGED <<kbVars, mode, pc, lineVars, job>>

WalkDone ==
    \/ job = "pci" /\ PCI!Done
    \/ job = "apic" /\ Tables!ApicDone
    \/ job = "pcie" /\ Tables!PcieDone

RunEnds ==
    /\ pc = "run"
    /\ WalkDone
    /\ job' = "none" /\ machine' = NoMachine /\ listed' = <<>>
    /\ walk' = NoWalk /\ probe' = <<>> /\ host' = 0
    /\ prompt' = TRUE
    /\ pc' = "poll"
    /\ UNCHANGED <<kbVars, mode, cmd, echo>>

-----------------------------------------------------------------------------
(* Keycode mode: every key is shown on a line of its own. *)

LeavesKeycode ==
    answer.brk = KEYBRK_UP /\ answer.alt /\ answer.code = KEY_TAB

\* The release of Tab with Alt held goes back to command mode, which starts
\* with a prompt; the keys behind it wait for the next interrupt.
ShowKey ==
    /\ pc = "handle"
    /\ mode = "keycode"
    /\ IF LeavesKeycode
       THEN mode' = "command" /\ prompt' = TRUE /\ pc' = "halt"
       ELSE UNCHANGED <<mode, prompt>> /\ pc' = "poll"
    /\ UNCHANGED <<kbVars, cmd, echo, jobVars>>

HandleKey ==
    \/ TypeChar \/ Erase \/ IgnoreKey \/ ShowKey
    \/ Enter \/ EnterWalk \/ cmd_switch_to_keycodes

Step == Halt \/ Poll \/ PollEmpty \/ PollKey \/ HandleKey \/ Run \/ RunEnds

-----------------------------------------------------------------------------
Init ==
    /\ KQ!Init
    /\ mode = "command"
    /\ pc = "halt"
    /\ cmd = <<>>
    /\ prompt = TRUE
    /\ echo = <<>>
    /\ job = "none" /\ machine = NoMachine /\ listed = <<>>
    /\ walk = NoWalk /\ probe = <<>> /\ host = 0

Next == (\E k \in Keys : KeyInterrupt(k)) \/ Tick \/ Step

Spec == Init /\ [][Next]_vars

\* The shell runs whenever it is not halted, and the timer ticks.
FairSpec == Spec /\ WF_vars(Step) /\ WF_vars(Tick)

-----------------------------------------------------------------------------
(* Properties. *)

\* Every variable keeps to its type; the command and the zero that ends it
\* fit the buffer.
TypeOK ==
    /\ queue \in Seq(Keys)
    /\ answer \in Keys \union {NoKey}
    /\ request \in {"none", "key"}
    /\ mode \in {"command", "keycode"}
    /\ pc \in {"halt", "halted", "poll", "handle", "run"}
    /\ Len(cmd) + 1 <= CmdSize
    /\ prompt \in BOOLEAN
    /\ job \in Walks \union {"none"} /\ (pc = "run" <=> job # "none")
    /\ machine \in Machines \union {NoMachine}
    /\ walk \in [type : 0..2, at : Nat]
    /\ Len(probe) <= StackCalls /\ host \in 0..LastBus

\* What the user sees is what will be executed: in command mode the console's
\* last line is one prompt followed by the command typed so far, also after
\* erasing, filling the buffer and coming back from keycode mode, unless a
\* command runs.
EchoMatchesCommand ==
    /\ TypeOK
    /\ mode = "command" /\ pc # "run" => prompt /\ echo = cmd

\* apic and pcie print every entry of their table, by type and in its order.
ListsAll ==
    /\ job = "apic" => Tables!ApicListsAll
    /\ job = "pcie" => Tables!PcieListsAll

\* pci prints every function that something leads to, exactly once where the
\* buses form a tree, and probes no bus inside its own probe.
FindsAll == job = "pci" => PCI!FindsAll

\* Keys that were queued are handled in the end: the processor never sleeps
\* on them for good, though one that arrives between the last fruitless
\* kb_getkey and the halt, or is left behind by a change of mode, does not
\* itself wake it, and every command comes to an end.
KeysHandled == (queue # <<>>) ~> (pc = "handle")

-----------------------------------------------------------------------------
(* What ListsAll and FindsAll need of the machine. *)

\* An entry is a header and the cells it covers, another entry follows it or
\* the table ends, and the first cell is a header: the lengths add up, and
\* none is zero.
EntriesFollow(t) ==
    /\ t # <<>> => t[1].length > 0
    /\ \A c \in DOMAIN t : t[c].length > 0 =>
           /\ c + t[c].length <= Len(t) + 1
           /\ \A d \in (c + 1)..(c + t[c].length - 1) : t[d].length = 0
           /\ c + t[c].length <= Len(t) => t[c + t[c].length].length > 0

MadtsFormed == \A m \in Machines : EntriesFollow(m.madt)

\* Functions have their numbers, and a bridge leads to a later bus than its own.
PcisFormed ==
    \A m \in Machines : \A f \in DOMAIN m.pci :
        /\ f \in Nat \X (0..LastDevice) \X (0..LastFunction)
        /\ m.pci[f].bridge => m.pci[f].secondary > f[1]
=============================================================================
