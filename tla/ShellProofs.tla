----------------------------- MODULE ShellProofs -----------------------------
(***************************************************************************)
(* Proofs about the shell: the line that is edited, the walks through the  *)
(* ACPI tables, and the probe of the PCI buses.                            *)
(***************************************************************************)
EXTENDS Shell, SequenceTheorems, TLAPS

\* A call of kb_getkey is in progress only where the shell polls.
KeyInv ==
    /\ queue \in Seq(Keys)
    /\ answer \in Keys \union {NoKey}
    /\ request \in {"none", "key"}
    /\ request # "none" => pc = "poll"

\* The command and its echo are always the same, also while the console's
\* last line is not the command's.
LineInv ==
    /\ cmd \in Seq(32..126) /\ Len(cmd) + 1 <= CmdSize
    /\ echo = cmd

PromptInv ==
    /\ mode \in {"command", "keycode"}
    /\ pc \in {"halt", "halted", "poll", "handle", "run"}
    /\ prompt \in BOOLEAN
    /\ mode = "command" /\ pc # "run" => prompt

Function == Nat \X Nat \X Nat

\* A machine is there for the command that runs.
JobInv ==
    /\ job \in Walks \union {"none"}
    /\ pc = "run" <=> job # "none"
    /\ machine \in Machines \union {NoMachine}
    /\ job # "none" => machine \in Machines
    /\ walk \in [type : 0..2, at : Nat]
    /\ job \in {"apic", "pcie"} => walk.at >= 1
    /\ probe \in Seq(Function) /\ Len(probe) <= StackCalls
    /\ host \in 0..LastBus

ShellInv == KeyInv /\ LineInv /\ PromptInv /\ JobInv

-----------------------------------------------------------------------------
(* Sequences. *)

LEMMA FrontOf ==
    ASSUME NEW S, NEW s \in Seq(S), s # <<>>
    PROVE  /\ Front(s) \in Seq(S) /\ Len(Front(s)) = Len(s) - 1
           /\ Last(s) \in S /\ Len(s) \in Nat \ {0}
  <1>1. Len(s) \in Nat \ {0}  BY EmptySeq, LenProperties
  <1>2. Front(s) = SubSeq(s, 1, Len(s) - 1) /\ Last(s) = s[Len(s)]
    BY DEF Front, Last
  <1>3. Last(s) \in S  BY <1>1, <1>2, ElementOfSeq
  <1> DEFINE n == Len(s) - 1
  <1>4. n \in Nat /\ \A i \in 1..n : s[i] \in S  BY <1>1, ElementOfSeq
  <1>5. 1 \in Int /\ n \in Int  BY <1>4
  <1> HIDE DEF n
  <1>6. /\ SubSeq(s, 1, n) \in Seq(S)
        /\ Len(SubSeq(s, 1, n)) = IF 1 <= n THEN n - 1 + 1 ELSE 0
    BY <1>4, <1>5, SubSeqProperties
  <1>7. Len(SubSeq(s, 1, n)) = n  BY <1>4, <1>6
  <1>. QED  BY <1>1, <1>2, <1>3, <1>6, <1>7 DEF n

LEMMA Sizes ==
    /\ CmdSize \in Nat \ {0} /\ StackCalls \in Nat \ {0}
    /\ LastBus \in Nat /\ LastDevice \in Nat /\ LastFunction \in Nat
    /\ \A m \in Machines :
           /\ m.madt \in Seq([type : Nat, length : Nat]) /\ m.mcfg \in Nat
           /\ \A f \in DOMAIN m.pci : m.pci[f].secondary \in Nat
  BY ShellAssumption

-----------------------------------------------------------------------------
(* The keyboard's queue. *)

LEMMA KeyStep ==
    ASSUME KeyInv, PromptInv, [Next]_vars
    PROVE  KeyInv'
  <1>1. ASSUME NEW k \in Keys, KeyInterrupt(k)
        PROVE  KeyInv'
    <2>1. pc = "poll" => pc' = "poll"  BY <1>1 DEF KeyInterrupt, Woken
    <2>2. request' = request /\ answer' = answer
      BY <1>1 DEF KeyInterrupt, KQ!Offer, KQ!Refuse
    <2>3. queue' = Append(queue, k) \/ queue' = queue
      BY <1>1 DEF KeyInterrupt, KQ!Offer, KQ!Refuse
    <2>4. queue' \in Seq(Keys)  BY <2>3 DEF KeyInv
    <2>. QED  BY <2>1, <2>2, <2>4 DEF KeyInv
  <1>2. ASSUME UNCHANGED kbVars, pc = "poll" => pc' = "poll" \/ request = "none"
        PROVE  KeyInv'
    BY <1>2 DEF KeyInv, kbVars
  <1>3. CASE Tick  BY <1>2, <1>3 DEF Tick, Woken
  <1>4. CASE Halt  BY <1>2, <1>4 DEF Halt
  <1>5. CASE Poll  BY <1>5 DEF Poll, KQ!Call, KeyInv
  <1>6. CASE PollEmpty  BY <1>6 DEF PollEmpty, KQ!ReportEmpty, KeyInv
  <1>7. CASE PollKey
    <2>1. /\ queue # <<>> /\ queue' = Tail(queue) /\ answer' = Head(queue)
          /\ request' = "none"
      BY <1>7 DEF PollKey, KQ!Take
    <2>2. Tail(queue) \in Seq(Keys) /\ Head(queue) \in Keys
      BY <2>1, HeadTailProperties DEF KeyInv
    <2>. QED  BY <2>1, <2>2 DEF KeyInv
  <1>8. CASE HandleKey
    <2>1. pc = "handle" /\ UNCHANGED kbVars
      BY <1>8 DEF HandleKey, TypeChar, Erase, IgnoreKey, ShowKey, Enter, EnterWalk,
                  cmd_switch_to_keycodes, EndLine, InCommand
    <2>. QED  BY <2>1, <1>2
  <1>9. CASE Run \/ RunEnds
    <2>1. pc = "run" /\ UNCHANGED kbVars  BY <1>9 DEF Run, RunEnds
    <2>. QED  BY <2>1, <1>2
  <1>10. CASE UNCHANGED vars  BY <1>2, <1>10 DEF vars
  <1>. QED  BY <1>1, <1>3, <1>4, <1>5, <1>6, <1>7, <1>8, <1>9, <1>10 DEF Next, Step

-----------------------------------------------------------------------------
(* The line. *)

LEMMA LineStep ==
    ASSUME LineInv, [Next]_vars
    PROVE  LineInv'
  <1>1. ASSUME UNCHANGED <<cmd, echo>>
        PROVE  LineInv'
    BY <1>1 DEF LineInv
  <1>2. CASE TypeChar
    <2>1. CASE Len(cmd) < CmdSize - 1
      <3>1. /\ cmd' = Append(cmd, answer.ch) /\ echo' = Append(echo, answer.ch)
            /\ answer.ch \in 32..126
        BY <1>2, <2>1 DEF TypeChar, Printable
      <3>2. cmd' \in Seq(32..126) /\ Len(cmd') = Len(cmd) + 1
        BY <3>1, AppendProperties DEF LineInv
      <3>3. Len(cmd) \in Nat  BY LenProperties DEF LineInv
      <3>4. Len(cmd') + 1 <= CmdSize  BY <2>1, <3>2, <3>3, Sizes
      <3>. QED  BY <3>1, <3>2, <3>4 DEF LineInv
    <2>2. CASE ~(Len(cmd) < CmdSize - 1)
      BY <1>1, <1>2, <2>2 DEF TypeChar
    <2>. QED  BY <2>1, <2>2
  <1>3. CASE Erase
    <2>1. cmd # <<>> /\ cmd' = Front(cmd) /\ echo' = Front(echo)
      BY <1>3 DEF Erase
    <2>2. /\ Front(cmd) \in Seq(32..126) /\ Len(Front(cmd)) = Len(cmd) - 1
          /\ Len(cmd) \in Nat
      BY <2>1, FrontOf DEF LineInv
    <2>3. Len(cmd') + 1 <= CmdSize  BY <2>1, <2>2, Sizes DEF LineInv
    <2>. QED  BY <2>1, <2>2, <2>3 DEF LineInv
  <1>4. CASE EndLine
    <2>1. cmd' = <<>> /\ echo' = <<>>  BY <1>4 DEF EndLine
    <2>. QED  BY <2>1, Sizes DEF LineInv
  <1>5. CASE \/ \E k \in Keys : KeyInterrupt(k)
             \/ Tick \/ Halt \/ Poll \/ PollEmpty \/ PollKey \/ IgnoreKey \/ ShowKey
             \/ Run \/ RunEnds \/ UNCHANGED vars
    BY <1>1, <1>5 DEF KeyInterrupt, Tick, Halt, Poll, PollEmpty, PollKey, IgnoreKey,
                      ShowKey, Run, RunEnds, vars, lineVars
  <1>. QED  BY <1>2, <1>3, <1>4, <1>5
            DEF Next, Step, HandleKey, Enter, EnterWalk, cmd_switch_to_keycodes

LEMMA PromptStep ==
    ASSUME PromptInv, KeyInv, [Next]_vars
    PROVE  PromptInv'
  <1>1. CASE \E k \in Keys : KeyInterrupt(k)
    <2>1. UNCHANGED <<mode, prompt>> /\ Woken  BY <1>1 DEF KeyInterrupt, lineVars
    <2>2. CASE pc = "halted"  BY <2>1, <2>2, Zenon DEF Woken, PromptInv
    <2>3. CASE pc # "halted"  BY <2>1, <2>3, Zenon DEF Woken, PromptInv
    <2>. QED  BY <2>2, <2>3
  <1>2. CASE Tick  BY <1>2, Zenon DEF Tick, Woken, PromptInv, lineVars
  <1>3. CASE Halt  BY <1>3, Zenon DEF Halt, PromptInv, lineVars
  <1>4. CASE Poll  BY <1>4, Zenon DEF Poll, PromptInv, lineVars
  <1>5. CASE PollEmpty
    <2>1. pc # "run"  BY <1>5 DEF PollEmpty, KQ!ReportEmpty, KeyInv
    <2>. QED  BY <2>1, <1>5, Zenon DEF PollEmpty, PromptInv, lineVars
  <1>6. CASE PollKey
    <2>1. pc # "run"  BY <1>6 DEF PollKey, KQ!Take, KeyInv
    <2>. QED  BY <2>1, <1>6, Zenon DEF PollKey, PromptInv, lineVars
  <1>7. CASE TypeChar  BY <1>7, Zenon DEF TypeChar, InCommand, PromptInv
  <1>8. CASE Erase  BY <1>8, Zenon DEF Erase, InCommand, PromptInv
  <1>9. CASE IgnoreKey  BY <1>9, Zenon DEF IgnoreKey, InCommand, PromptInv, lineVars
  <1>10. CASE ShowKey
    <2>1. CASE LeavesKeycode  BY <1>10, <2>1, Zenon DEF ShowKey, PromptInv
    <2>2. CASE ~LeavesKeycode  BY <1>10, <2>2, Zenon DEF ShowKey, PromptInv
    <2>. QED  BY <2>1, <2>2
  <1>11. CASE Enter  BY <1>11, Zenon DEF Enter, PromptInv
  <1>12. CASE EnterWalk  BY <1>12, Zenon DEF EnterWalk, PromptInv
  <1>13. CASE cmd_switch_to_keycodes
    BY <1>13, Zenon DEF cmd_switch_to_keycodes, PromptInv
  <1>14. CASE Run  BY <1>14, Zenon DEF Run, PromptInv, lineVars
  <1>15. CASE RunEnds  BY <1>15, Zenon DEF RunEnds, PromptInv
  <1>16. CASE UNCHANGED vars  BY <1>16, Zenon DEF vars, PromptInv, lineVars
  <1>. QED  BY <1>1, <1>2, <1>3, <1>4, <1>5, <1>6, <1>7, <1>8, <1>9, <1>10, <1>11, <1>12,
               <1>13, <1>14, <1>15, <1>16 DEF Next, Step, HandleKey

-----------------------------------------------------------------------------
(* The commands that walk. *)

LEMMA WalkTypes ==
    ASSUME JobInv, job # "none"
    PROVE  /\ machine \in Machines
           /\ machine.madt \in Seq([type : Nat, length : Nat]) /\ machine.mcfg \in Nat
           /\ \A f \in DOMAIN machine.pci : machine.pci[f].secondary \in Nat
           /\ Len(machine.madt) \in Nat
           /\ walk.at \in Nat /\ walk.type \in 0..2
           /\ \A c \in 1..Len(machine.madt) :
                  machine.madt[c].length \in Nat /\ machine.madt[c].type \in Nat
  <1>1. /\ machine \in Machines
        /\ machine.madt \in Seq([type : Nat, length : Nat]) /\ machine.mcfg \in Nat
        /\ \A f \in DOMAIN machine.pci : machine.pci[f].secondary \in Nat
    BY Sizes DEF JobInv
  <1>2. Len(machine.madt) \in Nat  BY <1>1, LenProperties
  <1>3. \A c \in 1..Len(machine.madt) : machine.madt[c] \in [type : Nat, length : Nat]
    BY <1>1, ElementOfSeq
  <1>. QED  BY <1>1, <1>2, <1>3 DEF JobInv

\* Module Pci has its own instances of these operators.
LEMMA SameFront ==
    ASSUME NEW s
    PROVE  PCI!Front(s) = Front(s) /\ PCI!Last(s) = Last(s)
  BY DEF PCI!Front, PCI!Last, Front, Last

LEMMA AfterOf ==
    ASSUME NEW f \in Function
    PROVE  PCI!After(f) \in Function
  <1>1. f[1] \in Nat /\ f[2] \in Nat /\ f[3] \in Nat  BY DEF Function
  <1>. QED  BY <1>1 DEF PCI!After, Function

LEMMA ProceedOf ==
    ASSUME NEW s \in Seq(Function), s # <<>>, PCI!Proceed(s)
    PROVE  probe' \in Seq(Function) /\ Len(probe') = Len(s)
  <1>1. /\ Front(s) \in Seq(Function) /\ Len(Front(s)) = Len(s) - 1
        /\ Last(s) \in Function /\ Len(s) \in Nat \ {0}
    BY FrontOf
  <1>2. PCI!After(Last(s)) \in Function  BY <1>1, AfterOf
  <1>3. probe' = Append(Front(s), PCI!After(Last(s)))  BY SameFront DEF PCI!Proceed
  <1>. QED  BY <1>1, <1>2, <1>3, AppendProperties

LEMMA PciTypes ==
    ASSUME JobInv, job # "none", PCI!Step
    PROVE  /\ probe' \in Seq(Function) /\ Len(probe') <= StackCalls
           /\ host' \in 0..LastBus
  <1>1. probe \in Seq(Function) /\ Len(probe) \in Nat /\ Len(probe) <= StackCalls
        /\ host \in 0..LastBus /\ StackCalls \in Nat \ {0}
    BY LenProperties, Sizes DEF JobInv
  <1>2. CASE PCI!ProbeAbsent \/ PCI!ProbeFunction
    <2>1. probe # <<>> /\ PCI!Proceed(probe) /\ host' = host
      BY <1>2 DEF PCI!ProbeAbsent, PCI!ProbeFunction, PCI!OnBus
    <2>. QED  BY <1>1, <2>1, ProceedOf
  <1>3. CASE PCI!ProbeBridge
    <2> DEFINE f == <<machine.pci[Last(probe)].secondary, 0, 0>>
    <2>1. /\ Last(probe) \in DOMAIN machine.pci /\ Len(probe) < StackCalls
          /\ probe' = Append(probe, f) /\ host' = host
      BY <1>3, SameFront DEF PCI!ProbeBridge, PCI!Present
    <2>2. f \in Function  BY <2>1, WalkTypes DEF Function
    <2> HIDE DEF f
    <2>3. probe' \in Seq(Function) /\ Len(probe') = Len(probe) + 1
      BY <1>1, <2>1, <2>2, AppendProperties
    <2>. QED  BY <1>1, <2>1, <2>3
  <1>4. CASE PCI!BusDone
    <2>1. probe # <<>> /\ host' = host  BY <1>4 DEF PCI!BusDone
    <2>2. CASE Len(probe) = 1
      <3>1. probe' = <<>>  BY <1>4, <2>2 DEF PCI!BusDone
      <3>. QED  BY <3>1, <2>1, <1>1
    <2>3. CASE Len(probe) # 1
      <3>1. PCI!Proceed(Front(probe))  BY <1>4, <2>3, SameFront DEF PCI!BusDone
      <3>2. /\ Front(probe) \in Seq(Function) /\ Len(Front(probe)) = Len(probe) - 1
            /\ Len(probe) # 0
        BY <1>1, <2>1, FrontOf
      <3>3. Front(probe) # <<>>  BY <3>2, <2>3, <1>1
      <3>. QED  BY <3>1, <3>2, <3>3, <2>1, <1>1, ProceedOf
    <2>. QED  BY <2>2, <2>3
  <1>5. CASE PCI!HostBus
    <2>1. /\ host < LastBus /\ host' = host + 1
          /\ probe' = <<>> \/ probe' = << <<host', 0, 0>> >>
      BY <1>5 DEF PCI!HostBus
    <2>2. host' \in 0..LastBus /\ host' \in Nat  BY <2>1, <1>1, Sizes
    <2>3. <<host', 0, 0>> \in Function  BY <2>2 DEF Function
    <2> DEFINE f == <<host', 0, 0>>
    <2> HIDE DEF f
    <2>4. <<f>> \in Seq(Function) /\ Len(<<f>>) = 1  BY <2>3 DEF f
    <2>5. <<>> \in Seq(Function) /\ Len(<<>>) = 0  OBVIOUS
    <2>6. probe' = <<>> \/ probe' = <<f>>  BY <2>1 DEF f
    <2>7. probe' \in Seq(Function) /\ Len(probe') \in {0, 1}  BY <2>4, <2>5, <2>6
    <2>8. Len(probe') <= StackCalls
      <3>1. \A l \in {0, 1} : l <= StackCalls  BY <1>1
      <3>. QED  BY <2>7, <3>1
    <2>. QED  BY <2>2, <2>7, <2>8
  <1>. QED  BY <1>2, <1>3, <1>4, <1>5 DEF PCI!Step

LEMMA TablesTypes ==
    ASSUME JobInv, job \in {"apic", "pcie"}, Tables!ApicStep \/ Tables!acpi_next_mcfg_addr
    PROVE  walk' \in [type : 0..2, at : Nat] /\ walk'.at >= 1
  <1>1. walk \in [type : 0..2, at : Nat]  BY DEF JobInv
  <1>2. CASE Tables!madt_find
    <2> DEFINE n == machine.madt[walk.at].length
    <2>1. /\ walk.at <= Len(machine.madt) /\ walk.at >= 1
          /\ walk' = [walk EXCEPT !.at = @ + n]
      BY <1>2 DEF Tables!madt_find, JobInv
    <2>2. walk.at \in 1..Len(machine.madt)  BY <2>1, WalkTypes
    <2>3. n \in Nat  BY <2>2, WalkTypes
    <2>. QED  BY <1>1, <2>1, <2>3
  <1>3. CASE Tables!NextType
    <2>1. walk' = [type |-> walk.type + 1, at |-> 1] /\ walk.type + 1 \in 0..2
      BY <1>3 DEF Tables!NextType, Tables!Types
    <2>. QED  BY <2>1
  <1>4. CASE Tables!acpi_next_mcfg_addr
    <2>1. walk' = [walk EXCEPT !.at = @ + 1]  BY <1>4 DEF Tables!acpi_next_mcfg_addr
    <2>. QED  BY <1>1, <2>1 DEF JobInv
  <1>. QED  BY <1>2, <1>3, <1>4 DEF Tables!ApicStep

LEMMA JobStep ==
    ASSUME JobInv, KeyInv, [Next]_vars
    PROVE  JobInv'
  <1>1. ASSUME UNCHANGED jobVars, pc' = "run" <=> pc = "run"
        PROVE  JobInv'
    BY <1>1 DEF JobInv, jobVars
  <1>2. ASSUME NEW k \in Keys, KeyInterrupt(k)
        PROVE  JobInv'
    BY <1>1, <1>2 DEF KeyInterrupt, Woken
  <1>3. CASE Tick  BY <1>1, <1>3 DEF Tick, Woken
  <1>4. CASE Halt \/ Poll  BY <1>1, <1>4 DEF Halt, Poll
  <1>5. CASE PollEmpty  BY <1>1, <1>5 DEF PollEmpty, KQ!ReportEmpty, KeyInv
  <1>6. CASE PollKey  BY <1>1, <1>6 DEF PollKey, KQ!Take, KeyInv
  <1>7. CASE \/ TypeChar \/ Erase \/ IgnoreKey \/ ShowKey \/ Enter
             \/ cmd_switch_to_keycodes
    <2>1. pc # "run" /\ pc' # "run" /\ UNCHANGED jobVars
      BY <1>7 DEF TypeChar, Erase, IgnoreKey, ShowKey, Enter, cmd_switch_to_keycodes,
                  EndLine, InCommand
    <2>. QED  BY <2>1, <1>1
  <1>8. CASE EnterWalk
    <2>1. /\ job' \in Walks /\ job' # "none" /\ machine' \in Machines /\ pc' = "run"
          /\ IF job' = "pci" THEN PCI!Start /\ UNCHANGED walk
             ELSE Tables!Start /\ UNCHANGED <<probe, host>>
      BY <1>8 DEF EnterWalk, Walks
    <2>2. CASE job' = "pci"
      <3>1. probe' = << <<0, 0, 0>> >> /\ host' = 0 /\ walk' = walk
        BY <2>1, <2>2 DEF PCI!Start
      <3>2. <<0, 0, 0>> \in Function  BY DEF Function
      <3> DEFINE f == <<0, 0, 0>>
      <3> HIDE DEF f
      <3>3. <<f>> \in Seq(Function) /\ Len(<<f>>) = 1  BY <3>2 DEF f
      <3>4. probe' \in Seq(Function) /\ Len(probe') = 1  BY <3>1, <3>3 DEF f
      <3>. QED  BY <2>1, <2>2, <3>1, <3>4, Sizes DEF JobInv
    <2>3. CASE job' # "pci"
      <3>1. walk' = [type |-> 0, at |-> 1] /\ probe' = probe /\ host' = host
        BY <2>1, <2>3 DEF Tables!Start
      <3>. QED  BY <2>1, <3>1 DEF JobInv
    <2>. QED  BY <2>2, <2>3
  <1>9. CASE Run
    <2>1. pc = "run" /\ job # "none" /\ pc' = pc /\ job' = job
      BY <1>9 DEF Run, JobInv
    <2>2. CASE cmd_display_pci
      <3>1. /\ job = "pci" /\ PCI!Step /\ walk' = walk /\ machine' = machine
        BY <2>2 DEF cmd_display_pci, PCI!Step, PCI!ProbeAbsent, PCI!ProbeFunction,
                    PCI!ProbeBridge, PCI!BusDone, PCI!HostBus
      <3>2. probe' \in Seq(Function) /\ Len(probe') <= StackCalls /\ host' \in 0..LastBus
        BY <2>1, <3>1, PciTypes
      <3>. QED  BY <2>1, <3>1, <3>2 DEF JobInv
    <2>3. CASE cmd_display_apic \/ cmd_display_pcie
      <3>1. /\ Tables!ApicStep \/ Tables!acpi_next_mcfg_addr
            /\ machine' = machine /\ probe' = probe /\ host' = host
            /\ job \in {"apic", "pcie"}
        BY <2>3 DEF cmd_display_apic, cmd_display_pcie, Tables!ApicStep,
                    Tables!madt_find, Tables!NextType, Tables!acpi_next_mcfg_addr
      <3>2. walk' \in [type : 0..2, at : Nat] /\ walk'.at >= 1
        BY <2>1, <3>1, TablesTypes
      <3>. QED  BY <2>1, <3>1, <3>2 DEF JobInv
    <2>. QED  BY <1>9, <2>2, <2>3 DEF Run
  <1>10. CASE RunEnds
    <2>1. /\ job' = "none" /\ machine' = NoMachine /\ walk' = NoWalk /\ probe' = <<>>
          /\ host' = 0 /\ pc' = "poll"
      BY <1>10 DEF RunEnds
    <2>2. NoWalk \in [type : 0..2, at : Nat]  BY DEF NoWalk
    <2>. QED  BY <2>1, <2>2, Sizes DEF JobInv
  <1>11. CASE UNCHANGED vars  BY <1>1, <1>11 DEF vars
  <1>. QED  BY <1>2, <1>3, <1>4, <1>5, <1>6, <1>7, <1>8, <1>9, <1>10, <1>11
            DEF Next, Step, HandleKey

-----------------------------------------------------------------------------
(* What apic and pcie have printed so far. *)

\* Entry c of t has been passed by the search for the types up to ty, come
\* to at.
Passed(t, c, ty, at) == t[c].type < ty \/ (t[c].type = ty /\ c < at)

\* The entries printed are those passed, in the order of the search.
PassedListed(t, ty, at, ls) ==
    /\ ls \in Seq(Nat \X Nat)
    /\ at <= Len(t) + 1
    /\ at <= Len(t) => t[at].length > 0
    /\ \A i \in 1..Len(ls) :
           LET c == ls[i][2]
           IN  /\ c \in 1..Len(t) /\ t[c].length > 0 /\ ls[i][1] = t[c].type
               /\ t[c].type \in 0..2 /\ Passed(t, c, ty, at)
    /\ \A c \in 1..Len(t) :
           t[c].length > 0 /\ t[c].type \in 0..2 /\ Passed(t, c, ty, at) =>
               \E i \in 1..Len(ls) : ls[i] = <<t[c].type, c>>
    /\ \A i, k \in 1..Len(ls) : i < k =>
           \/ ls[i][1] < ls[k][1]
           \/ ls[i][1] = ls[k][1] /\ ls[i][2] < ls[k][2]

ApicInv == PassedListed(machine.madt, walk.type, walk.at, listed)

PcieInv ==
    /\ walk.at <= machine.mcfg + 1
    /\ listed \in Seq(Nat) /\ Len(listed) = walk.at - 1
    /\ \A i \in 1..Len(listed) : listed[i] = i

WalkInv == (job = "apic" => ApicInv) /\ (job = "pcie" => PcieInv)

LEMMA MadtFindStep ==
    ASSUME JobInv, job = "apic", ApicInv, MadtsFormed, Tables!madt_find
    PROVE  ApicInv'
  <1> DEFINE t == machine.madt
             at == walk.at
             ty == walk.type
             n == t[at].length
  <1>1. /\ t \in Seq([type : Nat, length : Nat]) /\ Len(t) \in Nat
        /\ at \in 1..Len(t) /\ ty \in 0..2 /\ at \in Nat
        /\ \A c \in 1..Len(t) : t[c].length \in Nat /\ t[c].type \in Nat
        /\ EntriesFollow(t) /\ DOMAIN t = 1..Len(t)
    <2>1. at >= 1 /\ at <= Len(t)  BY DEF JobInv, Tables!madt_find
    <2>2. /\ machine \in Machines
          /\ t \in Seq([type : Nat, length : Nat]) /\ Len(t) \in Nat
          /\ at \in Nat /\ ty \in 0..2
          /\ \A c \in 1..Len(t) : t[c].length \in Nat /\ t[c].type \in Nat
      BY WalkTypes
    <2>3. EntriesFollow(t)  BY <2>2 DEF MadtsFormed
    <2>4. DOMAIN t = 1..Len(t)  BY <2>2, LenProperties
    <2>. QED  BY <2>1, <2>2, <2>3, <2>4
  <1>2. /\ walk \in [type : 0..2, at : Nat] /\ walk' = [walk EXCEPT !.at = @ + n]
        /\ machine' = machine
        /\ listed' = IF t[at].type = ty THEN Append(listed, <<ty, at>>) ELSE listed
    BY DEF Tables!madt_find, JobInv
  <1>3. walk'.at = at + n /\ walk'.type = ty /\ n \in Nat /\ machine'.madt = t
    BY <1>1, <1>2
  <1>4. /\ n > 0 /\ at + n <= Len(t) + 1
        /\ \A d \in (at + 1)..(at + n - 1) : t[d].length = 0
        /\ at + n <= Len(t) => t[at + n].length > 0
    <2>1. n > 0  BY <1>1 DEF ApicInv, PassedListed
    <2>. QED  BY <2>1, <1>1 DEF EntriesFollow
  <1>5. \A c \in 1..Len(t) : t[c].length > 0 =>
            (Passed(t, c, ty, at + n) <=> Passed(t, c, ty, at) \/ (c = at /\ t[c].type = ty))
    <2> SUFFICES ASSUME NEW c \in 1..Len(t), t[c].length > 0
                 PROVE  Passed(t, c, ty, at + n)
                            <=> Passed(t, c, ty, at) \/ (c = at /\ t[c].type = ty)
      OBVIOUS
    <2>1. c \notin (at + 1)..(at + n - 1)
      <3>1. t[c].length # 0  BY <1>1
      <3>. QED  BY <3>1, <1>4
    <2>2. c < at + n <=> c < at \/ c = at
      <3>1. c \in Nat /\ at \in Nat /\ n \in Nat /\ n > 0  BY <1>1, <1>3, <1>4, SMTT(30)
      <3> HIDE DEF at, n
      <3>. QED  BY <2>1, <3>1
    <2>. QED  BY <2>2 DEF Passed
  <1> DEFINE L == Len(listed)
             e == <<ty, at>>
  <1>6. listed \in Seq(Nat \X Nat) /\ L \in Nat
    BY LenProperties DEF ApicInv, PassedListed
  <1>7. \A i \in 1..L : listed[i] \in Nat \X Nat  BY <1>6, ElementOfSeq
  <1>8. /\ \A i \in 1..L :
               LET c == listed[i][2]
               IN  /\ c \in 1..Len(t) /\ t[c].length > 0 /\ listed[i][1] = t[c].type
                   /\ t[c].type \in 0..2 /\ Passed(t, c, ty, at)
        /\ \A c \in 1..Len(t) :
               t[c].length > 0 /\ t[c].type \in 0..2 /\ Passed(t, c, ty, at) =>
                   \E i \in 1..L : listed[i] = <<t[c].type, c>>
        /\ \A i, k \in 1..L : i < k =>
               \/ listed[i][1] < listed[k][1]
               \/ listed[i][1] = listed[k][1] /\ listed[i][2] < listed[k][2]
    BY DEF ApicInv, PassedListed
  <1>9. ASSUME NEW new, listed' = new, PassedListed(t, ty, at + n, new)
        PROVE  ApicInv'
    BY <1>3, <1>9 DEF ApicInv
  <1>10. CASE t[at].type # ty
    <2>1. listed' = listed  BY <1>2, <1>10
    <2>2. \A c \in 1..Len(t) : t[c].length > 0 =>
              (Passed(t, c, ty, at + n) <=> Passed(t, c, ty, at))
      BY <1>5, <1>10
    <2> HIDE DEF t, at, ty, n
    <2>3. PassedListed(t, ty, at + n, listed)
      BY <2>2, <1>4, <1>6, <1>8 DEF PassedListed
    <2>. QED  BY <2>1, <2>3, <1>9
  <1>11. CASE t[at].type = ty
    <2> DEFINE new == Append(listed, e)
    <2>1. /\ new \in Seq(Nat \X Nat) /\ Len(new) = L + 1 /\ new[L + 1] = e
          /\ \A i \in 1..L : new[i] = listed[i]
      <3>1. e \in Nat \X Nat  BY <1>1
      <3> HIDE DEF e
      <3>. QED  BY <3>1, <1>6, AppendProperties
    <2>2. listed' = new  BY <1>2, <1>11
    <2> HIDE DEF new
    <2>3. e[1] = ty /\ e[2] = at  OBVIOUS
    <2>4. t[at].length > 0 /\ t[at].type \in 0..2 /\ ~Passed(t, at, ty, at)
          /\ Passed(t, at, ty, at + n)
      BY <1>1, <1>3, <1>4, <1>11, SMTT(30) DEF Passed
    <2> HIDE DEF t, at, ty, n, e
    <2>5. ASSUME NEW i \in 1..Len(new)
          PROVE  LET c == new[i][2]
                 IN  /\ c \in 1..Len(t) /\ t[c].length > 0 /\ new[i][1] = t[c].type
                     /\ t[c].type \in 0..2 /\ Passed(t, c, ty, at + n)
      <3>1. CASE i = L + 1
        BY <3>1, <2>1, <2>3, <2>4, <1>1, <1>11
      <3>2. CASE i # L + 1
        <4>1. i \in 1..L  BY <3>2, <2>1, <1>6
        <4>. QED  BY <4>1, <2>1, <1>5, <1>8
      <3>. QED  BY <3>1, <3>2
    <2>6. ASSUME NEW c \in 1..Len(t),
                 t[c].length > 0, t[c].type \in 0..2, Passed(t, c, ty, at + n)
          PROVE  \E i \in 1..Len(new) : new[i] = <<t[c].type, c>>
      <3>1. CASE c = at /\ t[c].type = ty
        <4>1. L + 1 \in 1..Len(new) /\ new[L + 1] = <<t[c].type, c>>
          BY <3>1, <2>1, <1>6 DEF e
        <4>. QED  BY <4>1
      <3>2. CASE Passed(t, c, ty, at)
        <4>1. PICK i \in 1..L : listed[i] = <<t[c].type, c>>  BY <3>2, <2>6, <1>8
        <4>2. i \in 1..Len(new) /\ new[i] = listed[i]  BY <2>1, <1>6
        <4>. QED  BY <4>1, <4>2
      <3>. QED  BY <3>1, <3>2, <2>6, <1>5
    <2>7. ASSUME NEW i \in 1..Len(new), NEW k \in 1..Len(new), i < k
          PROVE  \/ new[i][1] < new[k][1]
                 \/ new[i][1] = new[k][1] /\ new[i][2] < new[k][2]
      <3>1. i \in 1..L  BY <2>1, <2>7, <1>6
      <3>2. CASE k = L + 1
        <4> DEFINE c == listed[i][2]
        <4>1. /\ c \in 1..Len(t) /\ listed[i][1] = t[c].type /\ Passed(t, c, ty, at)
              /\ new[i] = listed[i]
          BY <3>1, <1>8, <2>1
        <4>2. t[c].type < ty \/ (t[c].type = ty /\ c < at)
          BY <4>1 DEF Passed, t
        <4>. QED  BY <3>2, <4>1, <4>2, <2>1, <2>3
      <3>3. CASE k # L + 1
        <4>1. k \in 1..L  BY <3>3, <2>1, <1>6
        <4>2. new[i] = listed[i] /\ new[k] = listed[k]  BY <4>1, <3>1, <2>1
        <4>3. \/ listed[i][1] < listed[k][1]
              \/ listed[i][1] = listed[k][1] /\ listed[i][2] < listed[k][2]
          BY <4>1, <3>1, <2>7, <1>8
        <4>. QED  BY <4>2, <4>3
      <3>. QED  BY <3>2, <3>3
    <2>8. PassedListed(t, ty, at + n, new)
      BY <2>1, <2>5, <2>6, <2>7, <1>4 DEF PassedListed
    <2>. QED  BY <2>2, <2>8, <1>9
  <1>. QED  BY <1>10, <1>11

LEMMA ApicStart ==
    ASSUME MadtsFormed, machine' \in Machines, Tables!Start
    PROVE  ApicInv'
  <1> DEFINE t == machine'.madt
  <1>1. /\ t \in Seq([type : Nat, length : Nat]) /\ Len(t) \in Nat /\ EntriesFollow(t)
        /\ \A c \in 1..Len(t) : t[c].type \in Nat /\ t[c].length \in Nat
    <2>1. t \in Seq([type : Nat, length : Nat]) /\ EntriesFollow(t)
      BY Sizes DEF MadtsFormed
    <2> HIDE DEF t
    <2>2. Len(t) \in Nat  BY <2>1, LenProperties
    <2>3. ASSUME NEW c \in 1..Len(t)  PROVE  t[c] \in [type : Nat, length : Nat]
      BY <2>1, <2>3, ElementOfSeq
    <2>. QED  BY <2>1, <2>2, <2>3
  <1>2. walk'.type = 0 /\ walk'.at = 1 /\ listed' = <<>>
    BY DEF Tables!Start
  <1> HIDE DEF t
  <1>3. \A c \in 1..Len(t) : ~Passed(t, c, 0, 1)  BY <1>1 DEF Passed
  <1>4. 1 <= Len(t) => t[1].length > 0
    <2>1. 1 <= Len(t) => t # <<>>  BY <1>1
    <2>. QED  BY <2>1, <1>1 DEF EntriesFollow
  <1>5. PassedListed(t, 0, 1, <<>>)
    BY <1>1, <1>3, <1>4 DEF PassedListed
  <1>. QED  BY <1>2, <1>5 DEF ApicInv, t

LEMMA NextTypeStep ==
    ASSUME JobInv, job = "apic", ApicInv, MadtsFormed, Tables!NextType
    PROVE  ApicInv'
  <1> DEFINE t == machine.madt
             at == walk.at
             ty == walk.type
  <1>1. /\ t \in Seq([type : Nat, length : Nat]) /\ Len(t) \in Nat
        /\ ty \in 0..2 /\ at \in Nat /\ EntriesFollow(t)
        /\ \A c \in 1..Len(t) : t[c].length \in Nat /\ t[c].type \in Nat
    <2>1. /\ machine \in Machines
          /\ t \in Seq([type : Nat, length : Nat]) /\ Len(t) \in Nat
          /\ at \in Nat /\ ty \in 0..2
          /\ \A c \in 1..Len(t) : t[c].length \in Nat /\ t[c].type \in Nat
      BY WalkTypes
    <2>. QED  BY <2>1 DEF MadtsFormed
  <1>2. /\ at > Len(t) /\ walk'.type = ty + 1 /\ walk'.at = 1
        /\ machine' = machine /\ listed' = listed
    BY DEF Tables!NextType, Tables!MadtEnds
  <1>3. PassedListed(t, ty, at, listed)  BY DEF ApicInv
  <1> HIDE DEF t, at, ty
  <1>4. \A c \in 1..Len(t) : Passed(t, c, ty + 1, 1) <=> Passed(t, c, ty, at)
    BY <1>1, <1>2, SMTT(30) DEF Passed
  <1>5. 1 <= Len(t) => t[1].length > 0
    <2>1. 1 <= Len(t) => t # <<>>  BY <1>1
    <2>. QED  BY <2>1, <1>1 DEF EntriesFollow
  <1>6. PassedListed(t, ty + 1, 1, listed)
    <2>1. listed \in Seq(Nat \X Nat) /\ 1 <= Len(t) + 1  BY <1>1, <1>3 DEF PassedListed
    <2>2. \A i \in 1..Len(listed) :
              LET c == listed[i][2]
              IN  /\ c \in 1..Len(t) /\ t[c].length > 0 /\ listed[i][1] = t[c].type
                  /\ t[c].type \in 0..2 /\ Passed(t, c, ty + 1, 1)
      BY <1>3, <1>4 DEF PassedListed
    <2>3. \A c \in 1..Len(t) :
              t[c].length > 0 /\ t[c].type \in 0..2 /\ Passed(t, c, ty + 1, 1) =>
                  \E i \in 1..Len(listed) : listed[i] = <<t[c].type, c>>
      BY <1>3, <1>4 DEF PassedListed
    <2>. QED  BY <2>1, <2>2, <2>3, <1>3, <1>5 DEF PassedListed
  <1>. QED  BY <1>2, <1>6 DEF ApicInv, t

LEMMA McfgStep ==
    ASSUME JobInv, job = "pcie", PcieInv, Tables!acpi_next_mcfg_addr
    PROVE  PcieInv'
  <1>1. /\ walk.at \in Nat /\ walk.at >= 1 /\ walk \in [type : 0..2, at : Nat]
        /\ machine.mcfg \in Nat
    BY WalkTypes DEF JobInv
  <1>2. /\ walk.at <= machine.mcfg /\ walk' = [walk EXCEPT !.at = @ + 1]
        /\ listed' = Append(listed, walk.at) /\ machine' = machine
    BY DEF Tables!acpi_next_mcfg_addr
  <1>3. listed \in Seq(Nat) /\ Len(listed) = walk.at - 1 /\ Len(listed) \in Nat
        /\ \A i \in 1..Len(listed) : listed[i] = i
    BY LenProperties DEF PcieInv
  <1>4. walk'.at = walk.at + 1  BY <1>1, <1>2
  <1>5. /\ listed' \in Seq(Nat) /\ Len(listed') = Len(listed) + 1
        /\ listed'[Len(listed) + 1] = walk.at
        /\ \A i \in 1..Len(listed) : listed'[i] = listed[i]
    BY <1>1, <1>2, <1>3, AppendProperties
  <1>6. \A i \in 1..Len(listed') : listed'[i] = i
    BY <1>1, <1>3, <1>5, SMTT(30)
  <1>7. walk'.at <= machine'.mcfg + 1 /\ Len(listed') = walk'.at - 1
    BY <1>1, <1>2, <1>3, <1>4, <1>5
  <1>. QED  BY <1>5, <1>6, <1>7 DEF PcieInv

LEMMA WalkStep ==
    ASSUME JobInv, WalkInv, MadtsFormed, [Next]_vars
    PROVE  WalkInv'
  <1>1. ASSUME job' \notin {"apic", "pcie"} \/ UNCHANGED <<job, machine, walk, listed>>
        PROVE  WalkInv'
    <2>1. CASE UNCHANGED <<job, machine, walk, listed>>
      BY <2>1 DEF WalkInv, ApicInv, PcieInv
    <2>2. CASE job' \notin {"apic", "pcie"}
      BY <2>2 DEF WalkInv
    <2>. QED  BY <1>1, <2>1, <2>2
  <1>2. CASE EnterWalk
    <2>1. CASE job' = "pci"  BY <1>1, <2>1
    <2>2. CASE job' # "pci"
      <3>1. machine' \in Machines /\ Tables!Start  BY <1>2, <2>2 DEF EnterWalk
      <3>2. ApicInv'  BY <3>1, ApicStart
      <3>3. PcieInv'
        <4>1. walk'.at = 1 /\ listed' = <<>>  BY <3>1 DEF Tables!Start
        <4>2. machine'.mcfg \in Nat  BY <3>1, Sizes
        <4>. QED  BY <4>1, <4>2 DEF PcieInv
      <3>. QED  BY <3>2, <3>3 DEF WalkInv
    <2>. QED  BY <2>1, <2>2
  <1>3. CASE Run
    <2>1. job' = job  BY <1>3 DEF Run
    <2>2. CASE cmd_display_pci  BY <1>1, <2>1, <2>2 DEF cmd_display_pci
    <2>3. CASE cmd_display_apic
      <3>1. job = "apic" /\ (Tables!madt_find \/ Tables!NextType)
        BY <2>3 DEF cmd_display_apic, Tables!ApicStep
      <3>2. ApicInv'  BY <3>1, MadtFindStep, NextTypeStep DEF WalkInv
      <3>. QED  BY <3>1, <3>2, <2>1 DEF WalkInv
    <2>4. CASE cmd_display_pcie
      <3>1. job = "pcie" /\ Tables!acpi_next_mcfg_addr
        BY <2>4 DEF cmd_display_pcie
      <3>2. PcieInv'  BY <3>1, McfgStep DEF WalkInv
      <3>. QED  BY <3>1, <3>2, <2>1 DEF WalkInv
    <2>. QED  BY <1>3, <2>2, <2>3, <2>4 DEF Run
  <1>4. CASE RunEnds  BY <1>1, <1>4 DEF RunEnds
  <1>5. CASE \/ \E k \in Keys : KeyInterrupt(k)
             \/ Tick \/ Halt \/ Poll \/ PollEmpty \/ PollKey \/ TypeChar \/ Erase
             \/ IgnoreKey \/ ShowKey \/ Enter \/ cmd_switch_to_keycodes \/ UNCHANGED vars
    <2>1. UNCHANGED <<job, machine, walk, listed>>
      BY <1>5 DEF KeyInterrupt, Tick, Halt, Poll, PollEmpty, PollKey, TypeChar, Erase,
                  IgnoreKey, ShowKey, Enter, cmd_switch_to_keycodes, vars, jobVars
    <2>. QED  BY <1>1, <2>1
  <1>. QED  BY <1>2, <1>3, <1>4, <1>5 DEF Next, Step, HandleKey

LEMMA WalkLists ==
    ASSUME JobInv, WalkInv, MadtsFormed
    PROVE  ListsAll
  <1>1. ASSUME job = "apic"
        PROVE  Tables!ApicListsAll
    <2> DEFINE t == machine.madt
               ty == walk.type
               at == walk.at
    <2> SUFFICES ASSUME Tables!ApicDone
                 PROVE  /\ Tables!ToSet(listed) = {<<t[c].type, c>> : c \in
                               {h \in Tables!Headers : t[h].type \in Tables!Types}}
                        /\ \A i, k \in DOMAIN listed : i < k =>
                               \/ listed[i][1] < listed[k][1]
                               \/ listed[i][1] = listed[k][1] /\ listed[i][2] < listed[k][2]
      BY DEF Tables!ApicListsAll
    <2>1. /\ t \in Seq([type : Nat, length : Nat]) /\ Len(t) \in Nat
          /\ ty \in 0..2 /\ at \in Nat
          /\ \A c \in 1..Len(t) : t[c].length \in Nat /\ t[c].type \in Nat
      BY <1>1, WalkTypes
    <2>2. at > Len(t) /\ ty = 2
      BY <2>1 DEF Tables!ApicDone, Tables!MadtEnds, Tables!Types
    <2>3. PassedListed(t, ty, at, listed)  BY <1>1 DEF WalkInv, ApicInv
    <2>4. DOMAIN listed = 1..Len(listed) /\ DOMAIN t = 1..Len(t)
      BY <2>1, <2>3, LenProperties DEF PassedListed
    <2>5. listed \in Seq(Nat \X Nat) /\ \A i \in 1..Len(listed) : listed[i] \in Nat \X Nat
      BY <2>3, ElementOfSeq DEF PassedListed
    <2> DEFINE wanted == {h \in Tables!Headers : t[h].type \in Tables!Types}
    <2>6. \A c : c \in wanted <=> c \in 1..Len(t) /\ t[c].length > 0 /\ t[c].type \in 0..2
      BY <2>4 DEF Tables!Headers, Tables!Types
    <2> HIDE DEF t, ty, at, wanted
    <2>7. ASSUME NEW c \in wanted
          PROVE  Passed(t, c, ty, at)
      <3>1. c \in 1..Len(t) /\ t[c].type \in 0..2  BY <2>6
      <3>2. c \in Nat /\ c <= Len(t)  BY <2>1, <3>1
      <3>3. c < at  BY <2>1, <2>2, <3>2
      <3>4. t[c].type < ty \/ t[c].type = ty  BY <2>2, <3>1
      <3>. QED  BY <3>3, <3>4 DEF Passed
    <2>8. ASSUME NEW i \in 1..Len(listed)
          PROVE  listed[i] \in {<<t[c].type, c>> : c \in wanted}
      <3> DEFINE c == listed[i][2]
      <3>1. c \in wanted /\ listed[i][1] = t[c].type
        BY <2>3, <2>6 DEF PassedListed
      <3>2. listed[i] = <<listed[i][1], listed[i][2]>>  BY <2>5
      <3>. QED  BY <3>1, <3>2
    <2>9. ASSUME NEW c \in wanted
          PROVE  \E i \in 1..Len(listed) : listed[i] = <<t[c].type, c>>
      BY <2>3, <2>6, <2>7 DEF PassedListed
    <2>10. Tables!ToSet(listed) = {<<t[c].type, c>> : c \in wanted}
      BY <2>4, <2>8, <2>9 DEF Tables!ToSet
    <2>. QED  BY <2>3, <2>4, <2>10 DEF PassedListed, t, wanted
  <1>2. ASSUME job = "pcie"
        PROVE  Tables!PcieListsAll
    <2> SUFFICES ASSUME walk.at > machine.mcfg
                 PROVE  listed = [c \in 1..machine.mcfg |-> c]
      BY DEF Tables!PcieListsAll, Tables!PcieDone
    <2>1. /\ walk.at \in Nat /\ machine.mcfg \in Nat  BY <1>2, WalkTypes
    <2>2. /\ walk.at <= machine.mcfg + 1 /\ listed \in Seq(Nat)
          /\ Len(listed) = walk.at - 1 /\ \A i \in 1..Len(listed) : listed[i] = i
      BY <1>2 DEF WalkInv, PcieInv
    <2>3. Len(listed) = machine.mcfg  BY <2>1, <2>2
    <2>. QED  BY <2>2, <2>3
  <1>. QED  BY <1>1, <1>2 DEF ListsAll

-----------------------------------------------------------------------------
(* What pci has printed so far.  p is the machine's field pci, st the stack *)
(* of open calls, h the host bus, ls what is printed, and V the buses whose *)
(* probes have been started.                                                *)

Formed(p) ==
    \A f \in DOMAIN p :
        /\ f \in Nat \X (0..LastDevice) \X (0..LastFunction)
        /\ p[f].secondary \in Nat
        /\ p[f].bridge => p[f].secondary > f[1]

Multi(p, f) == f \in DOMAIN p => p[f].multi

Answering(p, f) ==
    /\ f \in DOMAIN p
    /\ f[3] > 0 => <<f[1], f[2], 0>> \in DOMAIN p /\ Multi(p, <<f[1], f[2], 0>>)

BridgeTo(p, f, b) == Answering(p, f) /\ p[f].bridge /\ p[f].secondary = b

BusesOf(p) == {f[1] : f \in DOMAIN p}

HostOf(p, b) == b > 0 /\ Multi(p, <<0, 0, 0>>) /\ <<0, 0, b>> \in DOMAIN p

OneWay(p, b) ==
    /\ \A f, g \in DOMAIN p : BridgeTo(p, f, b) /\ BridgeTo(p, g, b) => f = g
    /\ HostOf(p, b) => \A f \in DOMAIN p : ~BridgeTo(p, f, b)

OneWays(p) == \A f \in DOMAIN p : OneWay(p, f[1])

Before(f, g) == f[2] < g[2] \/ (f[2] = g[2] /\ f[3] < g[3])

\* The function a call goes on to, see Pci.
FrameAfter(p, c) ==
    IF c[3] = LastFunction \/ (c[3] = 0 /\ ~(c \in DOMAIN p /\ Multi(p, c)))
    THEN <<c[1], c[2] + 1, 0>>
    ELSE <<c[1], c[2], c[3] + 1>>

\* The last call of st goes on to its next function.
GoesOn(p, st, st2) ==
    /\ st # <<>> /\ Last(st)[2] <= LastDevice
    /\ st2 = Append(Front(st), FrameAfter(p, Last(st)))

\* f has been probed since the probe of its bus was last started; of a bridge
\* the call may still be open.
Probed(st, V, f) ==
    /\ f[1] \in V
    /\ \A k \in 1..Len(st) :
           st[k][1] = f[1] => Before(f, st[k]) \/ (f = st[k] /\ k < Len(st))

Frame(p, c) ==
    /\ c \in Nat \X (0..(LastDevice + 1)) \X (0..LastFunction)
    /\ c[3] > 0 => <<c[1], c[2], 0>> \in DOMAIN p /\ Multi(p, <<c[1], c[2], 0>>)

\* The open calls are of buses in ascending order, each but the last at a bridge.
Calls(p, st, V) ==
    /\ st \in Seq(Function)
    /\ \A k \in 1..Len(st) : Frame(p, st[k]) /\ st[k][1] \in V
    /\ \A i, k \in 1..Len(st) : i < k => st[i][1] < st[k][1]
    /\ \A k \in 1..Len(st) : k < Len(st) => st[k] \in DOMAIN p

HostsVisited(p, h, V) == 0 \in V /\ \A b \in 1..h : HostOf(p, b) => b \in V

ClosedIn(p, S) ==
    \A b \in BusesOf(p) :
        b = 0 \/ HostOf(p, b) \/ (\E f \in DOMAIN p : BridgeTo(p, f, b) /\ f[1] \in S)
            => b \in S

\* Only what something leads to is probed and printed.
Led(p, st, ls) ==
    \A S \in SUBSET BusesOf(p) : ClosedIn(p, S) =>
        /\ \A k \in 1..Len(st) : st[k][1] \in BusesOf(p) => st[k][1] \in S
        /\ \A i \in 1..Len(ls) : ls[i][1] \in S

\* What has been probed is printed, or its bus is or was.
Complete(p, st, ls, V) ==
    \A f \in DOMAIN p : Answering(p, f) /\ Probed(st, V, f) =>
        IF p[f].bridge THEN p[f].secondary \in V ELSE \E i \in 1..Len(ls) : ls[i] = f

Printed(p, ls) ==
    /\ ls \in Seq(Function)
    /\ \A i \in 1..Len(ls) : Answering(p, ls[i]) /\ ~p[ls[i]].bridge

\* Something led to each bus probed, and it has been passed.
WayIn(p, st, h, V) ==
    \A b \in BusesOf(p) \intersect V :
        \/ b = 0
        \/ \E g \in DOMAIN p : BridgeTo(p, g, b) /\ Probed(st, V, g)
        \/ HostOf(p, b) /\ b <= h

Once(p, st, h, ls, V) ==
    OneWays(p) =>
        /\ \A i \in 1..Len(ls) : Probed(st, V, ls[i])
        /\ \A i, k \in 1..Len(ls) : ls[i] = ls[k] => i = k
        /\ WayIn(p, st, h, V)

PciState(p, st, h, ls, V) ==
    /\ Calls(p, st, V)
    /\ HostsVisited(p, h, V)
    /\ Led(p, st, ls)
    /\ Complete(p, st, ls, V)
    /\ Printed(p, ls)
    /\ Once(p, st, h, ls, V)

PciInv == \E V : PciState(machine.pci, probe, host, listed, V)

LEMMA FrontElements ==
    ASSUME NEW S, NEW s \in Seq(S), s # <<>>
    PROVE  /\ Last(s) = s[Len(s)]
           /\ \A k \in 1..(Len(s) - 1) : Front(s)[k] = s[k]
  <1>1. Front(s) = SubSeq(s, 1, Len(s) - 1) /\ Last(s) = s[Len(s)]
    BY DEF Front, Last
  <1>2. Len(s) \in Nat \ {0}  BY FrontOf
  <1> DEFINE n == Len(s) - 1
  <1>3. n \in Int /\ 1 \in Int  BY <1>2
  <1>4. \A k \in 1..n : s[1 + k - 1] \in S
    BY <1>2, ElementOfSeq
  <1>5. \A i \in 1..n : s[i] \in S  BY <1>2, ElementOfSeq
  <1> HIDE DEF n
  <1>6. \A k \in 1..n : SubSeq(s, 1, n)[k] = s[1 + k - 1]
    BY <1>3, <1>5, SubSeqProperties
  <1>7. \A k \in 1..n : 1 + k - 1 = k  BY <1>3
  <1>8. \A k \in 1..n : SubSeq(s, 1, n)[k] = s[k]  BY <1>6, <1>7
  <1>. QED  BY <1>1, <1>8 DEF n

\* The functions a call passes by going on: the one it has reached, and those
\* that do not answer because the first of their device does not say so.
LEMMA FrameAfterOf ==
    ASSUME NEW p, Formed(p), NEW c, Frame(p, c), c[2] <= LastDevice
    PROVE  /\ Frame(p, FrameAfter(p, c)) /\ FrameAfter(p, c)[1] = c[1]
           /\ FrameAfter(p, c) \in Function
           /\ \A f \in DOMAIN p : Answering(p, f) /\ f[1] = c[1] =>
                  (Before(f, FrameAfter(p, c)) <=> Before(f, c) \/ f = c)
  <1> DEFINE b == c[1]
             d == c[2]
             n == c[3]
             e == FrameAfter(p, c)
  <1>1. /\ LastDevice \in Nat /\ LastFunction \in Nat  BY Sizes
  <1>2. /\ b \in Nat /\ d \in 0..LastDevice /\ n \in 0..LastFunction /\ c = <<b, d, n>>
    BY <1>1 DEF Frame
  <1> DEFINE stops == n = 0 /\ ~(c \in DOMAIN p /\ Multi(p, c))
  <1>3. CASE n = LastFunction \/ stops
    <2>1. e = <<b, d + 1, 0>>  BY <1>3 DEF FrameAfter
    <2>2. Frame(p, e) /\ e[1] = b /\ e \in Function
      BY <1>1, <1>2, <2>1 DEF Frame, Function
    <2>3. ASSUME NEW f \in DOMAIN p, Answering(p, f), f[1] = c[1]
          PROVE  Before(f, e) <=> Before(f, c) \/ f = c
      <3>1. f[2] \in Nat /\ f[3] \in 0..LastFunction /\ f = <<f[1], f[2], f[3]>>
        BY <1>1 DEF Formed
      <3>2. Before(f, e) <=> f[2] <= d  BY <1>1, <1>2, <2>1, <3>1 DEF Before
      <3>3. Before(f, c) \/ f = c <=> f[2] < d \/ (f[2] = d /\ f[3] <= n)
        BY <1>2, <2>3, <3>1 DEF Before
      <3>4. ASSUME f[2] = d
            PROVE  f[3] <= n
        <4>1. CASE n = LastFunction  BY <4>1, <3>1, <1>1
        <4>2. CASE stops
          <5>1. c = <<f[1], f[2], 0>>  BY <1>2, <2>3, <3>4, <4>2
          <5>2. ~(f[3] > 0)  BY <2>3, <4>2, <5>1 DEF Answering
          <5>. QED  BY <5>2, <3>1, <1>1, <4>2
        <4>. QED  BY <1>3, <4>1, <4>2
      <3>. QED  BY <3>1, <3>2, <3>3, <3>4, <1>2
    <2>. QED  BY <2>2, <2>3
  <1>4. CASE ~(n = LastFunction \/ stops)
    <2>1. e = <<b, d, n + 1>>  BY <1>4 DEF FrameAfter
    <2>2. n + 1 \in 0..LastFunction  BY <1>1, <1>2, <1>4
    <2>3. <<b, d, 0>> \in DOMAIN p /\ Multi(p, <<b, d, 0>>)
      <3>1. CASE n = 0  BY <1>2, <1>4, <3>1
      <3>2. CASE n # 0
        <4>1. n > 0  BY <1>1, <1>2, <3>2
        <4>. QED  BY <4>1 DEF Frame
      <3>. QED  BY <3>1, <3>2
    <2>4. Frame(p, e) /\ e[1] = b /\ e \in Function
      BY <1>1, <1>2, <2>1, <2>2, <2>3 DEF Frame, Function
    <2>5. ASSUME NEW f \in DOMAIN p, Answering(p, f), f[1] = c[1]
          PROVE  Before(f, e) <=> Before(f, c) \/ f = c
      <3>1. f[2] \in Nat /\ f[3] \in 0..LastFunction /\ f = <<f[1], f[2], f[3]>>
        BY <1>1 DEF Formed
      <3>2. Before(f, e) <=> f[2] < d \/ (f[2] = d /\ f[3] < n + 1)
        BY <2>1 DEF Before
      <3>3. Before(f, c) \/ f = c <=> f[2] < d \/ (f[2] = d /\ f[3] <= n)
        BY <1>2, <2>5, <3>1 DEF Before
      <3>. QED  BY <3>1, <3>2, <3>3, <1>1, <1>2
    <2>. QED  BY <2>4, <2>5
  <1>. QED  BY <1>3, <1>4

LEMMA CallsOf ==
    ASSUME NEW p, NEW V, NEW st, Calls(p, st, V)
    PROVE  /\ st \in Seq(Function) /\ Len(st) \in Nat
           /\ st # <<>> => Len(st) \in 1..Len(st) /\ Last(st) = st[Len(st)]
           /\ \A k \in 1..Len(st) : st[k] \in Function /\ st[k][1] \in Nat
  <1>1. st \in Seq(Function)  BY DEF Calls
  <1>2. st # <<>> => Len(st) \in Nat \ {0} /\ Last(st) = st[Len(st)]
    BY <1>1, FrontOf, FrontElements
  <1>3. Len(st) \in Nat  BY <1>1, LenProperties
  <1>4. \A k \in 1..Len(st) : st[k] \in Function  BY <1>1, ElementOfSeq
  <1>5. \A k \in 1..Len(st) : st[k][1] \in Nat  BY <1>4 DEF Function
  <1>. QED  BY <1>1, <1>2, <1>3, <1>4, <1>5

\* No bus is probed inside its own probe.
LEMMA CallsApart ==
    ASSUME NEW p, NEW V, NEW st, Calls(p, st, V), NEW i \in 1..Len(st),
           NEW k \in 1..Len(st), st[i][1] = st[k][1]
    PROVE  i = k
  <1>1. /\ Len(st) \in Nat /\ st[i][1] \in Nat /\ st[k][1] \in Nat
    BY CallsOf
  <1>2. \A x, y \in 1..Len(st) : x < y => st[x][1] < st[y][1]  BY DEF Calls
  <1>3. i \in Nat /\ k \in Nat  BY <1>1
  <1>4. CASE i < k
    <2>1. st[i][1] < st[k][1]  BY <1>2, <1>4
    <2>. QED  BY <2>1, <1>1
  <1>5. CASE k < i
    <2>1. st[k][1] < st[i][1]  BY <1>2, <1>5
    <2>. QED  BY <2>1, <1>1
  <1>. QED  BY <1>3, <1>4, <1>5

LEMMA GoOnShape ==
    ASSUME NEW p, Formed(p), NEW V, NEW st, Calls(p, st, V),
           NEW st2, GoesOn(p, st, st2)
    PROVE  /\ st2 \in Seq(Function) /\ Len(st2) = Len(st)
           /\ \A k \in 1..Len(st) : k < Len(st) => st2[k] = st[k]
           /\ st2[Len(st)] = FrameAfter(p, st[Len(st)])
           /\ \A k \in 1..Len(st) : st2[k][1] = st[k][1]
  <1> DEFINE n == Len(st)
             c == Last(st)
             e == FrameAfter(p, c)
             r == Front(st)
  <1>1. /\ st \in Seq(Function) /\ n \in Nat /\ n \in 1..n /\ c = st[n]
        /\ st # <<>> /\ c[2] <= LastDevice
    BY CallsOf DEF GoesOn
  <1>2. Frame(p, c)  BY <1>1 DEF Calls
  <1>3. e \in Function /\ e[1] = c[1]  BY <1>1, <1>2, FrameAfterOf
  <1>4. /\ r \in Seq(Function) /\ Len(r) = n - 1
        /\ \A k \in 1..(n - 1) : r[k] = st[k]
    BY <1>1, FrontOf, FrontElements
  <1>5. st2 = Append(r, e)  BY DEF GoesOn
  <1> HIDE DEF e, r, c, n
  <1>6. /\ st2 \in Seq(Function) /\ Len(st2) = Len(r) + 1
        /\ \A k \in 1..Len(r) : st2[k] = r[k]
        /\ st2[Len(r) + 1] = e
    BY <1>3, <1>4, <1>5, AppendProperties
  <1>7. Len(r) + 1 = n /\ Len(st2) = n /\ st2[n] = e  BY <1>1, <1>4, <1>6
  <1>8. \A k \in 1..n : k < n => k \in 1..(n - 1)  BY <1>1
  <1>9. \A k \in 1..n : k < n => st2[k] = st[k]  BY <1>4, <1>6, <1>8
  <1>10. \A k \in 1..n : k < n \/ k = n  BY <1>1
  <1>11. \A k \in 1..n : st2[k][1] = st[k][1]  BY <1>1, <1>3, <1>7, <1>9, <1>10
  <1>12. e = FrameAfter(p, st[n])  BY <1>1 DEF e
  <1>. QED  BY <1>6, <1>7, <1>9, <1>11, <1>12 DEF n

LEMMA GoOnCalls ==
    ASSUME NEW p, Formed(p), NEW V, NEW st, Calls(p, st, V),
           NEW st2, GoesOn(p, st, st2)
    PROVE  Calls(p, st2, V)
  <1> DEFINE n == Len(st)
  <1>1. /\ n \in Nat /\ n \in 1..n /\ Last(st) = st[n]
        /\ \A k \in 1..n : st[k][1] \in Nat
        /\ st # <<>> /\ Last(st)[2] <= LastDevice
    BY CallsOf DEF GoesOn
  <1>2. /\ st2 \in Seq(Function) /\ Len(st2) = n
        /\ \A k \in 1..n : k < n => st2[k] = st[k]
        /\ st2[n] = FrameAfter(p, st[n])
        /\ \A k \in 1..n : st2[k][1] = st[k][1]
    <2> HIDE DEF n
    <2>1. /\ st2 \in Seq(Function) /\ Len(st2) = Len(st)
          /\ \A k \in 1..Len(st) : k < Len(st) => st2[k] = st[k]
          /\ st2[Len(st)] = FrameAfter(p, st[Len(st)])
          /\ \A k \in 1..Len(st) : st2[k][1] = st[k][1]
      BY GoOnShape
    <2>. QED  BY <2>1 DEF n
  <1>3. Frame(p, st2[n])
    <2>1. Frame(p, st[n]) /\ st[n][2] <= LastDevice  BY <1>1 DEF Calls
    <2>. QED  BY <2>1, <1>2, FrameAfterOf
  <1> HIDE DEF n
  <1>4. \A k \in 1..n : Frame(p, st2[k])
    <2>1. \A k \in 1..n : k < n => Frame(p, st2[k])  BY <1>2 DEF Calls, n
    <2>2. \A k \in 1..n : k < n \/ k = n  BY <1>1
    <2>. QED  BY <2>1, <2>2, <1>3
  <1>5. \A k \in 1..n : st2[k][1] \in V  BY <1>2 DEF Calls, n
  <1>6. \A i, k \in 1..n : i < k => st2[i][1] < st2[k][1]  BY <1>2 DEF Calls, n
  <1>7. \A k \in 1..n : k < n => st2[k] \in DOMAIN p  BY <1>2 DEF Calls, n
  <1>. QED  BY <1>2, <1>4, <1>5, <1>6, <1>7 DEF Calls

LEMMA GoOnProbed ==
    ASSUME NEW p, Formed(p), NEW V, NEW st, Calls(p, st, V),
           NEW st2, GoesOn(p, st, st2),
           NEW f \in DOMAIN p, Answering(p, f)
    PROVE  Probed(st2, V, f) <=> Probed(st, V, f) \/ f = Last(st)
  <1> DEFINE n == Len(st)
             c == st[n]
             e == st2[n]
  <1>1. /\ n \in Nat /\ n \in 1..n /\ Last(st) = c
        /\ st # <<>> /\ c[2] <= LastDevice
    BY CallsOf DEF GoesOn
  <1>2. /\ Len(st2) = n
        /\ \A k \in 1..n : k < n => st2[k] = st[k]
        /\ e = FrameAfter(p, c)
        /\ \A k \in 1..n : st2[k][1] = st[k][1]
    <2>1. /\ Len(st2) = Len(st)
          /\ \A k \in 1..Len(st) : k < Len(st) => st2[k] = st[k]
          /\ st2[Len(st)] = FrameAfter(p, st[Len(st)])
          /\ \A k \in 1..Len(st) : st2[k][1] = st[k][1]
      <3> HIDE DEF n, c, e
      <3>. QED  BY GoOnShape
    <2>. QED  BY <2>1
  <1>3. c[1] \in V /\ Frame(p, c) /\ c[2] <= LastDevice  BY <1>1 DEF Calls
  <1>4. CASE f[1] = c[1]
    <2>1. f[1] \in V  BY <1>3, <1>4
    <2>2. \A k \in 1..n : st[k][1] = f[1] => k = n
      BY <1>1, <1>4, CallsApart
    <2>3. Before(f, e) <=> Before(f, c) \/ f = c
      BY <1>2, <1>3, <1>4, FrameAfterOf
    <2> HIDE DEF n, c, e
    <2>4. ~(n < n)  BY <1>1
    <2>5. st[n] = c /\ st2[n] = e /\ st2[n][1] = f[1] /\ c[1] = f[1]
      BY <1>1, <1>2, <1>4 DEF c, e
    <2>6. Probed(st2, V, f) <=> Before(f, e)
      BY <1>1, <1>2, <2>1, <2>2, <2>4, <2>5 DEF Probed
    <2>7. Probed(st, V, f) <=> Before(f, c)
      BY <1>1, <2>1, <2>2, <2>4, <2>5 DEF Probed, n
    <2>. QED  BY <2>3, <2>6, <2>7, <1>1
  <1>5. CASE f[1] # c[1]
    <2>1. f # Last(st)  BY <1>1, <1>5
    <2>2. \A k \in 1..n : st[k][1] = f[1] => st2[k] = st[k]
      <3>1. \A k \in 1..n : k < n \/ k = n  BY <1>1
      <3>. QED  BY <1>2, <1>5, <3>1
    <2> HIDE DEF n, c, e
    <2>3. Probed(st2, V, f) <=> Probed(st, V, f)
      BY <1>2, <2>2 DEF Probed, n
    <2>. QED  BY <2>1, <2>3
  <1>. QED  BY <1>4, <1>5

LEMMA ReturnShape ==
    ASSUME NEW p, NEW V, NEW st, Calls(p, st, V), st # <<>>
    PROVE  /\ Front(st) \in Seq(Function) /\ Len(Front(st)) = Len(st) - 1
           /\ Len(st) \in Nat \ {0}
           /\ \A k \in 1..Len(Front(st)) :
                  k \in 1..Len(st) /\ k < Len(st) /\ Front(st)[k] = st[k]
           /\ Front(st) # <<>> =>
                  /\ Len(Front(st)) \in 1..Len(Front(st))
                  /\ Last(Front(st)) = st[Len(Front(st))]
  <1> DEFINE n == Len(st)
             r == Front(st)
  <1>1. st \in Seq(Function)  BY CallsOf
  <1>2. /\ r \in Seq(Function) /\ Len(r) = n - 1 /\ n \in Nat \ {0}
        /\ \A k \in 1..(n - 1) : r[k] = st[k]
    BY <1>1, FrontOf, FrontElements
  <1>3. r # <<>> => Len(r) \in Nat \ {0} /\ Last(r) = r[Len(r)]
    BY <1>2, FrontOf, FrontElements
  <1> HIDE DEF n, r
  <1>4. \A k \in 1..Len(r) : k \in 1..n /\ k < n /\ r[k] = st[k]
    BY <1>2
  <1>5. r # <<>> => Len(r) \in 1..Len(r) /\ Last(r) = st[Len(r)]
    <2> SUFFICES ASSUME r # <<>>
                 PROVE  Len(r) \in 1..Len(r) /\ Last(r) = st[Len(r)]
      OBVIOUS
    <2>1. Len(r) \in 1..Len(r)  BY <1>3
    <2>. QED  BY <2>1, <1>3, <1>4
  <1>. QED  BY <1>2, <1>4, <1>5 DEF n, r

\* A call that returns leaves the call at the bridge.
LEMMA ReturnCalls ==
    ASSUME NEW p, NEW V, NEW st, Calls(p, st, V), st # <<>>
    PROVE  /\ Calls(p, Front(st), V)
           /\ Front(st) # <<>> => Last(Front(st)) \in DOMAIN p
  <1> DEFINE r == Front(st)
             n == Len(st)
  <1>1. /\ r \in Seq(Function)
        /\ \A k \in 1..Len(r) : k \in 1..n /\ k < n /\ r[k] = st[k]
        /\ r # <<>> => Len(r) \in 1..Len(r) /\ Last(r) = st[Len(r)]
    BY ReturnShape
  <1> HIDE DEF r
  <1>2. /\ \A k \in 1..n : Frame(p, st[k]) /\ st[k][1] \in V
        /\ \A i, k \in 1..n : i < k => st[i][1] < st[k][1]
        /\ \A k \in 1..n : k < n => st[k] \in DOMAIN p
    BY DEF Calls
  <1> HIDE DEF n
  <1>3. Calls(p, r, V)  BY <1>1, <1>2 DEF Calls
  <1>4. r # <<>> => Last(r) \in DOMAIN p  BY <1>1, <1>2
  <1>. QED  BY <1>3, <1>4 DEF r

LEMMA ReturnProbed ==
    ASSUME NEW p, Formed(p), NEW V, NEW st, Calls(p, st, V), st # <<>>,
           Last(st)[2] > LastDevice, NEW f \in DOMAIN p
    PROVE  Probed(st, V, f) <=>
               \/ Probed(Front(st), V, f)
               \/ Front(st) # <<>> /\ f = Last(Front(st))
  <1> DEFINE r == Front(st)
             m == Len(r)
             n == Len(st)
             opens == r # <<>> /\ f = Last(r)
  <1>1. /\ r \in Seq(Function) /\ m = n - 1 /\ n \in Nat \ {0}
        /\ \A k \in 1..m : k \in 1..n /\ k < n /\ r[k] = st[k]
        /\ r # <<>> => m \in 1..m /\ Last(r) = st[m]
    BY ReturnShape
  <1>2. Last(st) = st[n] /\ n \in 1..n  BY CallsOf
  <1>3. f[2] \in 0..LastDevice /\ LastDevice \in Nat  BY Sizes DEF Formed
  <1>4. Frame(p, st[n]) /\ st[n][2] \in Nat
    BY <1>2, <1>3 DEF Calls, Frame
  <1>5. Before(f, st[n])
    <2>1. f[2] < st[n][2]  BY <1>2, <1>3, <1>4
    <2>. QED  BY <2>1 DEF Before
  <1>6. \A k \in 1..n : k = n \/ k \in 1..m  BY <1>1
  <1>7. m \in Nat /\ ~(m < m) /\ \A k \in 1..m : k < m \/ k = m  BY <1>1
  <1>8. Probed(st, V, f) <=>
            f[1] \in V /\ \A k \in 1..m : st[k][1] = f[1] => Before(f, st[k]) \/ f = st[k]
    <2> HIDE DEF r, m, n
    <2>1. Probed(st, V, f) <=>
              f[1] \in V /\ \A k \in 1..n :
                  st[k][1] = f[1] => Before(f, st[k]) \/ (f = st[k] /\ k < n)
      BY DEF Probed, n
    <2>. QED  BY <2>1, <1>1, <1>5, <1>6
  <1>9. Probed(r, V, f) <=>
            f[1] \in V /\ \A k \in 1..m :
                st[k][1] = f[1] => Before(f, st[k]) \/ (f = st[k] /\ k < m)
    <2> HIDE DEF r, n
    <2>. QED  BY <1>1 DEF Probed
  <1>10. r = <<>> => m = 0
    <2> HIDE DEF n
    <2>. QED  OBVIOUS
  <1>11. CASE opens
    <2>1. m \in 1..m /\ m \in 1..n /\ f = st[m] /\ st[m][1] \in V
      BY <1>1, <1>11 DEF Calls
    <2>2. f[1] \in V  BY <2>1
    <2>3. \A k \in 1..m : st[k][1] = f[1] => k = m
      BY <1>1, <2>1, CallsApart
    <2> HIDE DEF r, m, n
    <2>. QED  BY <1>8, <1>11, <2>1, <2>2, <2>3 DEF r
  <1>12. CASE ~opens
    <2>1. r # <<>> => f # st[m]  BY <1>1, <1>12
    <2>2. \A k \in 1..m : f = st[k] => k < m
      <3> HIDE DEF r, n, m
      <3>. QED  BY <1>7, <1>10, <2>1
    <2> HIDE DEF m, n
    <2>3. Probed(st, V, f) <=> Probed(r, V, f)  BY <1>8, <1>9, <2>2
    <2>. QED  BY <1>12, <2>3
  <1>. QED  BY <1>11, <1>12

\* A call is opened for bus b: from a bridge, or where none is open.
Opens(p, st, b, st2) ==
    /\ b \in Nat /\ st2 = Append(st, <<b, 0, 0>>)
    /\ st # <<>> => Last(st) \in DOMAIN p /\ Last(st)[1] < b

LEMMA OpenShape ==
    ASSUME NEW p, NEW V, NEW st, Calls(p, st, V), NEW b, NEW st2, Opens(p, st, b, st2)
    PROVE  /\ st2 \in Seq(Function) /\ Len(st2) = Len(st) + 1
           /\ \A k \in 1..Len(st) : st2[k] = st[k]
           /\ st2[Len(st) + 1] = <<b, 0, 0>>
           /\ \A k \in 1..Len(st) : st[k][1] < b
  <1> DEFINE e == <<b, 0, 0>>
             n == Len(st)
  <1>1. b \in Nat /\ st2 = Append(st, e)  BY DEF Opens
  <1>2. e \in Function  BY <1>1 DEF Function
  <1>3. /\ st \in Seq(Function) /\ n \in Nat
        /\ st # <<>> => n \in 1..n /\ Last(st) = st[n]
        /\ \A k \in 1..n : st[k][1] \in Nat
    BY CallsOf
  <1> HIDE DEF e
  <1>4. /\ st2 \in Seq(Function) /\ Len(st2) = n + 1
        /\ \A k \in 1..n : st2[k] = st[k]
        /\ st2[n + 1] = e
    BY <1>1, <1>2, <1>3, AppendProperties
  <1>5. ASSUME NEW k \in 1..n
        PROVE  st[k][1] < b
    <2>1. st # <<>>
      <3>1. CASE st = <<>>
        <4>1. n = 0  BY <3>1
        <4>. QED  BY <4>1
      <3>. QED  BY <3>1
    <2>2. n \in 1..n /\ st[n][1] < b  BY <1>3, <2>1 DEF Opens
    <2>3. k < n \/ k = n  BY <1>3
    <2>4. k < n => st[k][1] < st[n][1]  BY <2>2 DEF Calls
    <2>5. st[k][1] \in Nat /\ st[n][1] \in Nat  BY <1>3, <2>2
    <2> HIDE DEF n
    <2>. QED  BY <1>1, <2>2, <2>3, <2>4, <2>5
  <1>. QED  BY <1>4, <1>5 DEF e

LEMMA OpenCalls ==
    ASSUME NEW p, NEW V, NEW st, Calls(p, st, V), NEW b, NEW st2, Opens(p, st, b, st2)
    PROVE  Calls(p, st2, V \union {b})
  <1> DEFINE n == Len(st)
             W == V \union {b}
  <1>1. /\ st2 \in Seq(Function) /\ Len(st2) = n + 1
        /\ \A k \in 1..n : st2[k] = st[k]
        /\ st2[n + 1] = <<b, 0, 0>>
        /\ \A k \in 1..n : st[k][1] < b
    BY OpenShape
  <1>2. n \in Nat /\ (st # <<>> => n \in 1..n /\ Last(st) = st[n])  BY CallsOf
  <1>3. b \in Nat /\ (st # <<>> => Last(st) \in DOMAIN p)  BY DEF Opens
  <1>4. /\ \A k \in 1..n : Frame(p, st[k]) /\ st[k][1] \in V
        /\ \A i, k \in 1..n : i < k => st[i][1] < st[k][1]
        /\ \A k \in 1..n : k < n => st[k] \in DOMAIN p
    BY DEF Calls
  <1>5. Frame(p, <<b, 0, 0>>)  BY <1>3, Sizes DEF Frame
  <1>6. \A k \in 1..(n + 1) : k = n + 1 \/ (k \in 1..n /\ k < n + 1)  BY <1>2
  <1>7. \A k \in 1..n : k < n \/ k = n  BY <1>2
  <1>8. n \in 1..n => st[n] \in DOMAIN p
    <2>1. CASE st = <<>>
      <3>1. n = 0  BY <2>1
      <3>. QED  BY <3>1
    <2>2. CASE st # <<>>  BY <1>2, <1>3, <2>2
    <2>. QED  BY <2>1, <2>2
  <1> HIDE DEF n
  <1>9. \A k \in 1..(n + 1) : Frame(p, st2[k]) /\ st2[k][1] \in W
    BY <1>1, <1>4, <1>5, <1>6
  <1>10. \A i, k \in 1..(n + 1) : i < k => st2[i][1] < st2[k][1]
    <2> TAKE i, k \in 1..(n + 1)
    <2> HAVE i < k
    <2>1. i \in 1..n  BY <1>2
    <2>2. CASE k = n + 1  BY <1>1, <2>1, <2>2
    <2>3. CASE k \in 1..n  BY <1>1, <1>4, <2>1, <2>3
    <2>. QED  BY <1>6, <2>2, <2>3
  <1>11. \A k \in 1..(n + 1) : k < n + 1 => st2[k] \in DOMAIN p
    <2> TAKE k \in 1..(n + 1)
    <2> HAVE k < n + 1
    <2>1. k \in 1..n  BY <1>2
    <2>. QED  BY <1>1, <1>4, <1>7, <1>8, <2>1
  <1> HIDE DEF W
  <1>12. Calls(p, st2, W)  BY <1>1, <1>9, <1>10, <1>11 DEF Calls
  <1>. QED  BY <1>12 DEF W

LEMMA OpenProbed ==
    ASSUME NEW p, Formed(p), NEW V, NEW st, Calls(p, st, V), NEW b, NEW st2,
           Opens(p, st, b, st2), NEW f \in DOMAIN p
    PROVE  Probed(st2, V \union {b}, f) <=>
               f[1] # b /\ (Probed(st, V, f) \/ (st # <<>> /\ f = Last(st)))
  <1> DEFINE n == Len(st)
             c == st[n]
             top == st # <<>> /\ f = Last(st)
             W == V \union {b}
  <1>1. /\ Len(st2) = n + 1
        /\ \A k \in 1..n : st2[k] = st[k]
        /\ st2[n + 1] = <<b, 0, 0>>
        /\ \A k \in 1..n : st[k][1] < b
    BY OpenShape
  <1>2. n \in Nat /\ (st # <<>> => n \in 1..n /\ Last(st) = c)  BY CallsOf
  <1>3. \A k \in 1..(n + 1) : k = n + 1 \/ k \in 1..n  BY <1>2
  <1>4. \A k \in 1..n : k < n \/ k = n  BY <1>2
  <1>5. \A k \in 1..n : k \in 1..(n + 1) /\ k < n + 1  BY <1>2
  <1>6. ~(n + 1 < n + 1) /\ ~(n < n) /\ n + 1 \in 1..(n + 1)  BY <1>2
  <1>7. ~Before(f, <<b, 0, 0>>)
    <2>1. f[2] \in Nat /\ f[3] \in Nat  BY Sizes DEF Formed
    <2>. QED  BY <2>1 DEF Before
  <1> HIDE DEF n
  <1>8. Probed(st2, W, f) <=>
            f[1] \in W /\ \A k \in 1..(n + 1) :
                st2[k][1] = f[1] => Before(f, st2[k]) \/ (f = st2[k] /\ k < n + 1)
    BY <1>1 DEF Probed
  <1>9. Probed(st, V, f) <=>
            f[1] \in V /\ \A k \in 1..n :
                st[k][1] = f[1] => Before(f, st[k]) \/ (f = st[k] /\ k < n)
    BY DEF Probed, n
  <1>10. CASE f[1] = b
    <2>1. st2[n + 1][1] = f[1]  BY <1>1, <1>10
    <2>2. ~Probed(st2, W, f)
      <3> SUFFICES ASSUME Probed(st2, W, f)  PROVE FALSE
        OBVIOUS
      <3>1. Before(f, st2[n + 1]) \/ (f = st2[n + 1] /\ n + 1 < n + 1)
        BY <1>6, <1>8, <2>1
      <3>. QED  BY <1>1, <1>6, <1>7, <3>1
    <2>. QED  BY <1>10, <2>2
  <1>11. CASE f[1] # b
    <2>1. st2[n + 1][1] # f[1]  BY <1>1, <1>11
    <2>2. Probed(st2, W, f) <=>
              f[1] \in V /\ \A k \in 1..n : st[k][1] = f[1] => Before(f, st[k]) \/ f = st[k]
      BY <1>1, <1>3, <1>5, <1>8, <1>11, <2>1
    <2>3. CASE top
      <3>1. n \in 1..n /\ f = st[n] /\ st[n][1] \in V  BY <1>2, <2>3 DEF Calls, n
      <3>2. f[1] \in V  BY <3>1
      <3>3. \A k \in 1..n : st[k][1] = f[1] => k = n  BY <3>1, CallsApart DEF n
      <3>4. Probed(st2, W, f)  BY <2>2, <3>1, <3>2, <3>3
      <3>. QED  BY <1>11, <2>3, <3>4
    <2>4. CASE ~top
      <3>1. \A k \in 1..n : f = st[k] => k < n
        <4>1. st = <<>> => n = 0  BY DEF n
        <4>2. st # <<>> => f # st[n]  BY <1>2, <2>4
        <4>. QED  BY <1>4, <4>1, <4>2
      <3>2. Probed(st2, W, f) <=> Probed(st, V, f)  BY <1>9, <2>2, <3>1
      <3>. QED  BY <1>11, <2>4, <3>2
    <2>. QED  BY <2>3, <2>4
  <1>. QED  BY <1>10, <1>11

\* A step that prints nothing.
Keeps(p, st, h, V, st2, h2, W) ==
    /\ V \subseteq W /\ h \in Nat /\ h2 \in Nat /\ h <= h2
    /\ \A f \in DOMAIN p : Answering(p, f) /\ Probed(st2, W, f) =>
           Probed(st, V, f) \/ (p[f].bridge /\ p[f].secondary \in W)
    /\ OneWays(p) =>
        /\ \A f \in DOMAIN p : Answering(p, f) /\ Probed(st, V, f) => Probed(st2, W, f)
        /\ \A b \in BusesOf(p) \intersect W :
               \/ b \in V
               \/ \E g \in DOMAIN p : BridgeTo(p, g, b) /\ Probed(st2, W, g)
               \/ HostOf(p, b) /\ b <= h2

LEMMA BusesAreNat ==
    ASSUME NEW p, Formed(p), NEW b \in BusesOf(p)
    PROVE  b \in Nat
  <1>1. PICK f \in DOMAIN p : b = f[1]  BY DEF BusesOf
  <1>. QED  BY <1>1 DEF Formed

LEMMA KeepsState ==
    ASSUME NEW p, Formed(p), NEW V, NEW st, NEW h, NEW ls, PciState(p, st, h, ls, V),
           NEW W, NEW st2, NEW h2, Keeps(p, st, h, V, st2, h2, W),
           Calls(p, st2, W), HostsVisited(p, h2, W), Led(p, st2, ls)
    PROVE  PciState(p, st2, h2, ls, W)
  <1>1. Complete(p, st, ls, V) /\ Printed(p, ls) /\ Once(p, st, h, ls, V)
    BY DEF PciState
  <1>2. Complete(p, st2, ls, W)
    <2> SUFFICES ASSUME NEW f \in DOMAIN p, Answering(p, f), Probed(st2, W, f)
                 PROVE  IF p[f].bridge THEN p[f].secondary \in W
                        ELSE \E i \in 1..Len(ls) : ls[i] = f
      BY DEF Complete
    <2>1. CASE Probed(st, V, f)
      <3>1. V \subseteq W  BY DEF Keeps
      <3>2. IF p[f].bridge THEN p[f].secondary \in V
            ELSE \E i \in 1..Len(ls) : ls[i] = f
        BY <1>1, <2>1 DEF Complete
      <3>. QED  BY <3>1, <3>2
    <2>2. CASE ~Probed(st, V, f)  BY <2>2 DEF Keeps
    <2>. QED  BY <2>1, <2>2
  <1>3. ASSUME OneWays(p)
        PROVE  /\ \A i \in 1..Len(ls) : Probed(st2, W, ls[i])
               /\ \A i, k \in 1..Len(ls) : ls[i] = ls[k] => i = k
               /\ WayIn(p, st2, h2, W)
    <2>1. /\ \A i \in 1..Len(ls) : Probed(st, V, ls[i])
          /\ \A i, k \in 1..Len(ls) : ls[i] = ls[k] => i = k
          /\ WayIn(p, st, h, V)
      BY <1>1, <1>3 DEF Once
    <2>2. \A f \in DOMAIN p : Answering(p, f) /\ Probed(st, V, f) => Probed(st2, W, f)
      BY <1>3 DEF Keeps
    <2>3. \A i \in 1..Len(ls) : ls[i] \in DOMAIN p /\ Answering(p, ls[i])
      BY <1>1 DEF Printed, Answering
    <2>4. \A i \in 1..Len(ls) : Probed(st2, W, ls[i])  BY <2>1, <2>2, <2>3
    <2>5. ASSUME NEW b \in BusesOf(p) \intersect W
          PROVE  \/ b = 0
                 \/ \E g \in DOMAIN p : BridgeTo(p, g, b) /\ Probed(st2, W, g)
                 \/ HostOf(p, b) /\ b <= h2
      <3>1. CASE b \in V
        <4>1. \/ b = 0
              \/ \E g \in DOMAIN p : BridgeTo(p, g, b) /\ Probed(st, V, g)
              \/ HostOf(p, b) /\ b <= h
          BY <2>1, <3>1 DEF WayIn
        <4>2. CASE \E g \in DOMAIN p : BridgeTo(p, g, b) /\ Probed(st, V, g)
          BY <2>2, <4>2 DEF BridgeTo
        <4>3. CASE HostOf(p, b) /\ b <= h
          <5>1. b \in Nat  BY BusesAreNat
          <5>2. h \in Nat /\ h2 \in Nat /\ h <= h2  BY DEF Keeps
          <5>3. b <= h2  BY <4>3, <5>1, <5>2
          <5>. QED  BY <4>3, <5>3
        <4>. QED  BY <4>1, <4>2, <4>3
      <3>2. CASE b \notin V  BY <1>3, <3>2 DEF Keeps
      <3>. QED  BY <3>1, <3>2
    <2>6. WayIn(p, st2, h2, W)  BY <2>5 DEF WayIn
    <2>. QED  BY <2>1, <2>4, <2>6
  <1>4. Once(p, st2, h2, ls, W)  BY <1>3 DEF Once
  <1>. QED  BY <1>1, <1>2, <1>4 DEF PciState

\* Calls for no other buses than before.
Within(st2, st) == \A k \in 1..Len(st2) : \E i \in 1..Len(st) : st2[k][1] = st[i][1]

LEMMA WithinLed ==
    ASSUME NEW p, NEW st, NEW ls, Led(p, st, ls), NEW st2, Within(st2, st)
    PROVE  Led(p, st2, ls)
  BY DEF Led, Within

\* A function that does not answer, and a call that returns.
LEMMA SameState ==
    ASSUME NEW p, Formed(p), NEW V, NEW st, NEW h \in Nat, NEW ls,
           PciState(p, st, h, ls, V),
           NEW st2, Calls(p, st2, V), Within(st2, st),
           \A f \in DOMAIN p : Answering(p, f) => (Probed(st2, V, f) <=> Probed(st, V, f))
    PROVE  PciState(p, st2, h, ls, V)
  <1>1. Keeps(p, st, h, V, st2, h, V)  BY DEF Keeps
  <1>2. HostsVisited(p, h, V) /\ Led(p, st, ls)  BY DEF PciState
  <1>3. Led(p, st2, ls)  BY <1>2, WithinLed
  <1>. QED  BY <1>1, <1>2, <1>3, KeepsState

LEMMA GoOnWithin ==
    ASSUME NEW p, Formed(p), NEW V, NEW st, Calls(p, st, V), NEW st2, GoesOn(p, st, st2)
    PROVE  Within(st2, st)
  <1>1. Len(st2) = Len(st) /\ \A k \in 1..Len(st) : st2[k][1] = st[k][1]
    BY GoOnShape
  <1>. QED  BY <1>1 DEF Within

LEMMA AbsentState ==
    ASSUME NEW p, Formed(p), NEW V, NEW st, NEW h \in Nat, NEW ls,
           PciState(p, st, h, ls, V), NEW st2, GoesOn(p, st, st2), Last(st) \notin DOMAIN p
    PROVE  PciState(p, st2, h, ls, V)
  <1>1. Calls(p, st, V)  BY DEF PciState
  <1>2. Calls(p, st2, V) /\ Within(st2, st)  BY <1>1, GoOnCalls, GoOnWithin
  <1>3. ASSUME NEW f \in DOMAIN p, Answering(p, f)
        PROVE  Probed(st2, V, f) <=> Probed(st, V, f)
    BY <1>1, <1>3, GoOnProbed
  <1>. QED  BY <1>2, <1>3, SameState

LEMMA ReturnState ==
    ASSUME NEW p, Formed(p), NEW V, NEW st, NEW h \in Nat, NEW ls,
           PciState(p, st, h, ls, V), st # <<>>, Last(st)[2] > LastDevice,
           NEW st2,
           IF Front(st) = <<>> THEN st2 = <<>> ELSE GoesOn(p, Front(st), st2)
    PROVE  PciState(p, st2, h, ls, V)
  <1> DEFINE r == Front(st)
  <1>1. Calls(p, st, V)  BY DEF PciState
  <1>2. Calls(p, r, V)  BY <1>1, ReturnCalls
  <1>3. Within(r, st)
    <2>1. \A k \in 1..Len(r) : k \in 1..Len(st) /\ r[k] = st[k]
      BY <1>1, ReturnShape
    <2>. QED  BY <2>1 DEF Within
  <1>4. \A f \in DOMAIN p :
            Probed(st, V, f) <=> Probed(r, V, f) \/ (r # <<>> /\ f = Last(r))
    BY <1>1, ReturnProbed
  <1> HIDE DEF r
  <1>5. CASE r = <<>>
    <2>1. st2 = r  BY <1>5 DEF r
    <2>2. \A f \in DOMAIN p : Probed(st2, V, f) <=> Probed(st, V, f)
      BY <1>4, <1>5, <2>1
    <2>. QED  BY <1>2, <1>3, <2>1, <2>2, SameState
  <1>6. CASE r # <<>>
    <2>1. GoesOn(p, r, st2)  BY <1>6 DEF r
    <2>2. Calls(p, st2, V) /\ Within(st2, r)  BY <1>2, <2>1, GoOnCalls, GoOnWithin
    <2>3. Within(st2, st)  BY <1>3, <2>2 DEF Within
    <2>4. ASSUME NEW f \in DOMAIN p, Answering(p, f)
          PROVE  Probed(st2, V, f) <=> Probed(st, V, f)
      BY <1>2, <1>4, <1>6, <2>1, <2>4, GoOnProbed
    <2>. QED  BY <2>2, <2>3, <2>4, SameState
  <1>. QED  BY <1>5, <1>6

\* The function a call has reached.
LEMMA Reaches ==
    ASSUME NEW p, Formed(p), NEW V, NEW st, Calls(p, st, V), st # <<>>,
           Last(st) \in DOMAIN p
    PROVE  /\ Answering(p, Last(st)) /\ ~Probed(st, V, Last(st))
           /\ Last(st)[1] \in V /\ Last(st)[1] \in BusesOf(p) /\ Last(st)[1] \in Nat
           /\ Len(st) \in 1..Len(st) /\ st[Len(st)] = Last(st)
           /\ Last(st) \in Function
  <1> DEFINE c == Last(st)
             n == Len(st)
  <1>1. n \in Nat /\ n \in 1..n /\ c = st[n] /\ c[1] \in Nat /\ c \in Function
    BY CallsOf
  <1>2. Frame(p, c) /\ c[1] \in V  BY <1>1 DEF Calls
  <1>3. Answering(p, c)  BY <1>2 DEF Frame, Answering
  <1>4. c[1] \in BusesOf(p)  BY DEF BusesOf
  <1>5. ~Before(c, c)
    <2>1. c[2] \in Nat /\ c[3] \in Nat  BY Sizes DEF Formed
    <2>. QED  BY <2>1 DEF Before
  <1> HIDE DEF c, n
  <1>6. ~(n < n)  BY <1>1
  <1>7. ~Probed(st, V, c)
    <2> SUFFICES ASSUME Probed(st, V, c)  PROVE FALSE
      OBVIOUS
    <2>1. Before(c, st[n]) \/ (c = st[n] /\ n < n)
      BY <1>1 DEF Probed, n
    <2>. QED  BY <2>1, <1>1, <1>5, <1>6
  <1>. QED  BY <1>1, <1>2, <1>3, <1>4, <1>7 DEF c, n

\* A function that is printed.
LEMMA PrintState ==
    ASSUME NEW p, Formed(p), NEW V, NEW st, NEW h \in Nat, NEW ls,
           PciState(p, st, h, ls, V), NEW st2, GoesOn(p, st, st2),
           Last(st) \in DOMAIN p, ~p[Last(st)].bridge,
           NEW ls2, ls2 = Append(ls, Last(st))
    PROVE  PciState(p, st2, h, ls2, V)
  <1> DEFINE c == Last(st)
             m == Len(ls)
  <1>1. /\ Calls(p, st, V) /\ HostsVisited(p, h, V) /\ Led(p, st, ls)
        /\ Complete(p, st, ls, V) /\ Printed(p, ls) /\ Once(p, st, h, ls, V)
    BY DEF PciState
  <1>2. Calls(p, st2, V) /\ Within(st2, st)  BY <1>1, GoOnCalls, GoOnWithin
  <1>3. /\ Answering(p, c) /\ ~Probed(st, V, c) /\ c[1] \in BusesOf(p)
        /\ Len(st) \in 1..Len(st) /\ st[Len(st)] = c /\ c \in Function
    <2>1. st # <<>>  BY DEF GoesOn
    <2>. QED  BY <1>1, <2>1, Reaches
  <1>4. \A f \in DOMAIN p : Answering(p, f) => (Probed(st2, V, f) <=> Probed(st, V, f) \/ f = c)
    BY <1>1, GoOnProbed
  <1>5. c \in DOMAIN p /\ ~p[c].bridge /\ ls2 = Append(ls, c)  OBVIOUS
  <1>6. ls \in Seq(Function) /\ m \in Nat  BY <1>1, LenProperties DEF Printed
  <1> HIDE DEF c
  <1>7. /\ ls2 \in Seq(Function) /\ Len(ls2) = m + 1
        /\ \A i \in 1..m : ls2[i] = ls[i]
        /\ ls2[m + 1] = c
    BY <1>3, <1>5, <1>6, AppendProperties
  <1>8. /\ \A i \in 1..(m + 1) : i = m + 1 \/ i \in 1..m
        /\ \A i \in 1..m : i \in 1..(m + 1)
        /\ m + 1 \in 1..(m + 1)
    BY <1>6
  <1>9. Led(p, st2, ls2)
    <2> SUFFICES ASSUME NEW S \in SUBSET BusesOf(p), ClosedIn(p, S)
                 PROVE  \A i \in 1..Len(ls2) : ls2[i][1] \in S
      BY <1>1, <1>2, WithinLed DEF Led
    <2>1. /\ \A k \in 1..Len(st) : st[k][1] \in BusesOf(p) => st[k][1] \in S
          /\ \A i \in 1..m : ls[i][1] \in S
      BY <1>1 DEF Led
    <2>2. c[1] \in S  BY <1>3, <2>1
    <2> HIDE DEF m
    <2>. QED  BY <1>7, <1>8, <2>1, <2>2
  <1> HIDE DEF m
  <1>10. Complete(p, st2, ls2, V)
    <2> SUFFICES ASSUME NEW f \in DOMAIN p, Answering(p, f), Probed(st2, V, f)
                 PROVE  IF p[f].bridge THEN p[f].secondary \in V
                        ELSE \E i \in 1..Len(ls2) : ls2[i] = f
      BY DEF Complete
    <2>1. CASE f = c  BY <2>1, <1>5, <1>7, <1>8
    <2>2. CASE f # c
      <3>1. Probed(st, V, f)  BY <1>4, <2>2
      <3>2. IF p[f].bridge THEN p[f].secondary \in V ELSE \E i \in 1..m : ls[i] = f
        BY <1>1, <3>1 DEF Complete, m
      <3>3. ASSUME NEW i \in 1..m, ls[i] = f
            PROVE  \E x \in 1..Len(ls2) : ls2[x] = f
        BY <3>3, <1>7, <1>8
      <3>. QED  BY <3>2, <3>3
    <2>. QED  BY <2>1, <2>2
  <1>11. Printed(p, ls2)
    <2>1. \A i \in 1..m : Answering(p, ls[i]) /\ ~p[ls[i]].bridge
      BY <1>1 DEF Printed, m
    <2>. QED  BY <1>3, <1>5, <1>7, <1>8, <2>1 DEF Printed
  <1>12. ASSUME OneWays(p)
         PROVE  /\ \A i \in 1..Len(ls2) : Probed(st2, V, ls2[i])
                /\ \A i, k \in 1..Len(ls2) : ls2[i] = ls2[k] => i = k
                /\ WayIn(p, st2, h, V)
    <2>1. /\ \A i \in 1..m : Probed(st, V, ls[i])
          /\ \A i, k \in 1..m : ls[i] = ls[k] => i = k
          /\ WayIn(p, st, h, V)
      BY <1>1, <1>12 DEF Once, m
    <2>2. \A i \in 1..m : ls[i] \in DOMAIN p /\ Answering(p, ls[i])
      BY <1>1 DEF Printed, Answering, m
    <2>3. \A i \in 1..m : Probed(st2, V, ls[i]) /\ ls[i] # c
      BY <1>3, <1>4, <2>1, <2>2
    <2>4. Probed(st2, V, c)  BY <1>3, <1>4, <1>5
    <2>5. \A i \in 1..Len(ls2) : Probed(st2, V, ls2[i])
      BY <1>7, <1>8, <2>3, <2>4
    <2>6. \A i, k \in 1..Len(ls2) : ls2[i] = ls2[k] => i = k
      <3> TAKE i, k \in 1..Len(ls2)
      <3> HAVE ls2[i] = ls2[k]
      <3>1. (i = m + 1 \/ i \in 1..m) /\ (k = m + 1 \/ k \in 1..m)  BY <1>7, <1>8
      <3>. QED  BY <1>7, <2>1, <2>3, <3>1
    <2>7. WayIn(p, st2, h, V)
      <3>1. \A g \in DOMAIN p : \A b : BridgeTo(p, g, b) /\ Probed(st, V, g) =>
                Probed(st2, V, g)
        BY <1>4 DEF BridgeTo
      <3>. QED  BY <2>1, <3>1 DEF WayIn
    <2>. QED  BY <2>5, <2>6, <2>7
  <1>13. Once(p, st2, h, ls2, V)  BY <1>12 DEF Once
  <1>. QED  BY <1>1, <1>2, <1>9, <1>10, <1>11, <1>13 DEF PciState

LEMMA OpenLed ==
    ASSUME NEW p, NEW V, NEW st, Calls(p, st, V), NEW b, NEW st2, Opens(p, st, b, st2),
           NEW ls, Led(p, st, ls),
           \A S \in SUBSET BusesOf(p) :
               ClosedIn(p, S) /\ b \in BusesOf(p)
                   /\ (\A k \in 1..Len(st) : st[k][1] \in BusesOf(p) => st[k][1] \in S)
               => b \in S
    PROVE  Led(p, st2, ls)
  <1> SUFFICES ASSUME NEW S \in SUBSET BusesOf(p), ClosedIn(p, S), NEW k \in 1..Len(st2),
                      st2[k][1] \in BusesOf(p)
               PROVE  st2[k][1] \in S
    BY DEF Led
  <1> DEFINE n == Len(st)
  <1>1. /\ Len(st2) = n + 1
        /\ \A i \in 1..n : st2[i] = st[i]
        /\ st2[n + 1] = <<b, 0, 0>>
    BY OpenShape
  <1>2. \A i \in 1..n : st[i][1] \in BusesOf(p) => st[i][1] \in S  BY DEF Led
  <1>3. n \in Nat  BY CallsOf
  <1>4. k = n + 1 \/ k \in 1..n  BY <1>1, <1>3
  <1>5. CASE k \in 1..n  BY <1>1, <1>2, <1>5
  <1>6. CASE k = n + 1
    <2>1. st2[k][1] = b  BY <1>1, <1>6
    <2>. QED  BY <1>2, <2>1
  <1>. QED  BY <1>4, <1>5, <1>6

\* A bridge: its secondary bus has not been probed before, if nothing else
\* leads there.
LEMMA BridgeState ==
    ASSUME NEW p, Formed(p), NEW V, NEW st, NEW h \in Nat, NEW ls,
           PciState(p, st, h, ls, V), st # <<>>, Last(st) \in DOMAIN p,
           p[Last(st)].bridge,
           NEW st2, st2 = Append(st, <<p[Last(st)].secondary, 0, 0>>)
    PROVE  \E W : PciState(p, st2, h, ls, W)
  <1> DEFINE c == Last(st)
             b == p[c].secondary
             W == V \union {b}
  <1>1. /\ Calls(p, st, V) /\ HostsVisited(p, h, V) /\ Led(p, st, ls)
        /\ Once(p, st, h, ls, V)
    BY DEF PciState
  <1>2. /\ Answering(p, c) /\ ~Probed(st, V, c)
        /\ c[1] \in V /\ c[1] \in BusesOf(p) /\ c[1] \in Nat
        /\ Len(st) \in 1..Len(st) /\ st[Len(st)] = c
    BY <1>1, Reaches
  <1>3. b \in Nat /\ b > c[1] /\ c \in DOMAIN p  BY DEF Formed
  <1>4. Opens(p, st, b, st2)  BY <1>2, <1>3 DEF Opens
  <1>5. BridgeTo(p, c, b)  BY <1>2 DEF BridgeTo
  <1> HIDE DEF b, c
  <1>6. Calls(p, st2, W)  BY <1>1, <1>4, OpenCalls
  <1>7. \A f \in DOMAIN p : Probed(st2, W, f) <=>
            f[1] # b /\ (Probed(st, V, f) \/ (st # <<>> /\ f = Last(st)))
    BY <1>1, <1>4, OpenProbed
  <1>8. \A f \in DOMAIN p : Probed(st2, W, f) <=> f[1] # b /\ (Probed(st, V, f) \/ f = c)
    BY <1>7 DEF c
  <1>9. HostsVisited(p, h, W)  BY <1>1 DEF HostsVisited
  <1>10. Led(p, st2, ls)
    <2>1. ASSUME NEW S \in SUBSET BusesOf(p), ClosedIn(p, S), b \in BusesOf(p),
                 \A k \in 1..Len(st) : st[k][1] \in BusesOf(p) => st[k][1] \in S
          PROVE  b \in S
      <3>1. c[1] \in S  BY <1>2, <2>1
      <3>. QED  BY <1>3, <1>5, <2>1, <3>1 DEF ClosedIn
    <2>. QED  BY <1>1, <1>4, <2>1, OpenLed
  <1>11. Keeps(p, st, h, V, st2, h, W)
    <2>1. \A f \in DOMAIN p : Answering(p, f) /\ Probed(st2, W, f) =>
              Probed(st, V, f) \/ (p[f].bridge /\ p[f].secondary \in W)
      BY <1>5, <1>8 DEF BridgeTo
    <2>2. ASSUME OneWays(p)
          PROVE  b \in BusesOf(p) => b \notin V
      <3> SUFFICES ASSUME b \in BusesOf(p), b \in V  PROVE FALSE
        OBVIOUS
      <3>1. WayIn(p, st, h, V)  BY <1>1, <2>2 DEF Once
      <3>2. OneWay(p, b)  BY <2>2 DEF OneWays, BusesOf
      <3>3. b # 0  BY <1>2, <1>3
      <3>4. CASE \E g \in DOMAIN p : BridgeTo(p, g, b) /\ Probed(st, V, g)
        BY <1>2, <1>3, <1>5, <3>2, <3>4 DEF OneWay
      <3>5. CASE HostOf(p, b)  BY <1>3, <1>5, <3>2, <3>5 DEF OneWay
      <3>. QED  BY <3>1, <3>3, <3>4, <3>5 DEF WayIn
    <2>3. ASSUME OneWays(p), NEW f \in DOMAIN p, Probed(st, V, f)
          PROVE  Probed(st2, W, f)
      <3>1. f[1] \in V /\ f[1] \in BusesOf(p)  BY <2>3 DEF Probed, BusesOf
      <3>2. f[1] # b  BY <2>2, <2>3, <3>1
      <3>. QED  BY <1>8, <2>3, <3>2
    <2>4. Probed(st2, W, c)
      <3>1. c[1] # b  BY <1>2, <1>3
      <3>. QED  BY <1>3, <1>8, <3>1
    <2>5. \A x \in W : x \in V \/ x = b  OBVIOUS
    <2>6. V \subseteq W /\ h <= h  OBVIOUS
    <2> HIDE DEF W
    <2>. QED  BY <1>3, <1>5, <2>1, <2>3, <2>4, <2>5, <2>6 DEF Keeps
  <1> HIDE DEF W
  <1>12. PciState(p, st2, h, ls, W)
    BY <1>6, <1>9, <1>10, <1>11, KeepsState
  <1>. QED  BY <1>12

\* The next host controller, whose bus no bridge leads to.
LEMMA HostState ==
    ASSUME NEW p, Formed(p), NEW V, NEW h \in Nat, NEW ls, PciState(p, <<>>, h, ls, V),
           HostOf(p, h + 1)
    PROVE  \E W : PciState(p, << <<h + 1, 0, 0>> >>, h + 1, ls, W)
  <1> DEFINE b == h + 1
             st == <<>>
             st2 == << <<b, 0, 0>> >>
             W == V \union {b}
  <1>1. /\ Calls(p, st, V) /\ HostsVisited(p, h, V) /\ Led(p, st, ls)
        /\ Once(p, st, h, ls, V)
    BY DEF PciState
  <1>2. b \in Nat /\ h \in Nat /\ h <= b /\ ~(b <= h) /\ b # 0  OBVIOUS
  <1>3. st2 = Append(st, <<b, 0, 0>>)  OBVIOUS
  <1>4. HostOf(p, b)  OBVIOUS
  <1>5. \A x \in 1..b : x \in 1..h \/ x = b  BY <1>2
  <1>6. Opens(p, st, b, st2)  BY <1>2, <1>3 DEF Opens
  <1>7. \A f \in DOMAIN p : ~(st # <<>> /\ f = Last(st))  OBVIOUS
  <1> HIDE DEF b, st, st2
  <1>8. Calls(p, st2, W)  BY <1>1, <1>6, OpenCalls
  <1>9. \A f \in DOMAIN p : Probed(st2, W, f) <=>
            f[1] # b /\ (Probed(st, V, f) \/ (st # <<>> /\ f = Last(st)))
    BY <1>1, <1>6, OpenProbed
  <1>10. \A f \in DOMAIN p : Probed(st2, W, f) <=> f[1] # b /\ Probed(st, V, f)
    BY <1>7, <1>9
  <1>11. HostsVisited(p, b, W)  BY <1>1, <1>5 DEF HostsVisited
  <1>12. Led(p, st2, ls)
    <2>1. ASSUME NEW S \in SUBSET BusesOf(p), ClosedIn(p, S), b \in BusesOf(p)
          PROVE  b \in S
      BY <1>4, <2>1 DEF ClosedIn
    <2>. QED  BY <1>1, <1>6, <2>1, OpenLed
  <1>13. Keeps(p, st, h, V, st2, b, W)
    <2>1. ASSUME OneWays(p)
          PROVE  b \in BusesOf(p) => b \notin V
      <3> SUFFICES ASSUME b \in BusesOf(p), b \in V  PROVE FALSE
        OBVIOUS
      <3>1. WayIn(p, st, h, V)  BY <1>1, <2>1 DEF Once
      <3>2. OneWay(p, b)  BY <2>1 DEF OneWays, BusesOf
      <3>. QED  BY <1>2, <1>4, <3>1, <3>2 DEF OneWay, WayIn
    <2>2. ASSUME OneWays(p), NEW f \in DOMAIN p, Probed(st, V, f)
          PROVE  Probed(st2, W, f)
      <3>1. f[1] \in V /\ f[1] \in BusesOf(p)  BY <2>2 DEF Probed, BusesOf
      <3>2. f[1] # b  BY <2>1, <2>2, <3>1
      <3>. QED  BY <1>10, <2>2, <3>2
    <2>3. \A x \in W : x \in V \/ x = b  OBVIOUS
    <2>4. V \subseteq W /\ b <= b  BY <1>2
    <2> HIDE DEF W
    <2>. QED  BY <1>2, <1>4, <1>10, <2>2, <2>3, <2>4 DEF Keeps
  <1> HIDE DEF W
  <1>14. PciState(p, st2, b, ls, W)
    <2>1. PciState(p, st, h, ls, V)  BY DEF st
    <2>. QED  BY <1>8, <1>11, <1>12, <1>13, <2>1, KeepsState
  <1>. QED  BY <1>14 DEF st2, b

LEMMA NoHostState ==
    ASSUME NEW p, Formed(p), NEW V, NEW h \in Nat, NEW ls, PciState(p, <<>>, h, ls, V),
           ~HostOf(p, h + 1)
    PROVE  PciState(p, <<>>, h + 1, ls, V)
  <1> DEFINE b == h + 1
             st == <<>>
  <1>1. Calls(p, st, V) /\ HostsVisited(p, h, V) /\ Led(p, st, ls)
    BY DEF PciState
  <1>2. b \in Nat /\ h \in Nat /\ h <= b /\ ~HostOf(p, b)  OBVIOUS
  <1>3. \A x \in 1..b : x \in 1..h \/ x = b  BY <1>2
  <1>4. PciState(p, st, h, ls, V)  OBVIOUS
  <1> HIDE DEF b, st
  <1>5. HostsVisited(p, b, V)  BY <1>1, <1>2, <1>3 DEF HostsVisited
  <1>6. Keeps(p, st, h, V, st, b, V)  BY <1>2 DEF Keeps
  <1>7. PciState(p, st, b, ls, V)  BY <1>1, <1>4, <1>5, <1>6, KeepsState
  <1>. QED  BY <1>7 DEF b, st

LEMMA StartState ==
    ASSUME NEW p, Formed(p)
    PROVE  PciState(p, << <<0, 0, 0>> >>, 0, <<>>, {0})
  <1> DEFINE e == <<0, 0, 0>>
             st == <<e>>
             V == {0}
  <1>1. /\ e \in Function /\ e[1] = 0 /\ Frame(p, e)  BY Sizes DEF Frame, Function
  <1>2. \A f \in DOMAIN p : ~Before(f, e)
    <2> TAKE f \in DOMAIN p
    <2>1. f[2] \in Nat /\ f[3] \in Nat  BY Sizes DEF Formed
    <2>. QED  BY <2>1 DEF Before
  <1> HIDE DEF e
  <1>4. /\ st \in Seq(Function) /\ Len(st) = 1 /\ st[1] = e
        /\ \A k \in 1..Len(st) : k = 1
    BY <1>1
  <1> HIDE DEF st
  <1>5. Calls(p, st, V)  BY <1>1, <1>4 DEF Calls
  <1>6. HostsVisited(p, 0, V)  BY DEF HostsVisited
  <1>7. <<>> \in Seq(Function) /\ Len(<<>>) = 0 /\ 1..0 = {}  OBVIOUS
  <1>8. Led(p, st, <<>>)  BY <1>1, <1>4, <1>7 DEF Led, ClosedIn
  <1>9. ASSUME NEW f \in DOMAIN p, Probed(st, V, f)
        PROVE  FALSE
    <2>1. f[1] = 0 /\ st[1][1] = f[1] /\ 1 \in 1..Len(st) /\ ~(1 < Len(st))
      BY <1>1, <1>4, <1>9 DEF Probed
    <2>2. Before(f, e)  BY <1>4, <1>9, <2>1 DEF Probed
    <2>. QED  BY <1>2, <2>2
  <1>10. Complete(p, st, <<>>, V)  BY <1>9 DEF Complete
  <1>11. Printed(p, <<>>)  BY <1>7 DEF Printed
  <1>12. WayIn(p, st, 0, V)  BY DEF WayIn
  <1>13. Once(p, st, 0, <<>>, V)  BY <1>7, <1>12 DEF Once
  <1>14. PciState(p, st, 0, <<>>, V)
    BY <1>5, <1>6, <1>8, <1>10, <1>11, <1>13 DEF PciState
  <1>. QED  BY <1>14 DEF st, e

LedTo(p, b) == \A S \in SUBSET BusesOf(p) : ClosedIn(p, S) => b \in S

Shown(p, f) == f \in DOMAIN p /\ Answering(p, f) /\ ~p[f].bridge

AllDone(p, st, h) == st = <<>> /\ (Multi(p, <<0, 0, 0>>) => h = LastBus)

\* When no call is open and the last host controller has been tried, the buses
\* probed are those that something leads to.
LEMMA DoneState ==
    ASSUME NEW p, Formed(p), NEW V, NEW st, NEW h \in Nat, NEW ls,
           PciState(p, st, h, ls, V), AllDone(p, st, h),
           NEW f, Shown(p, f)
    PROVE  LedTo(p, f[1]) <=> \E i \in 1..Len(ls) : ls[i] = f
  <1>1. /\ HostsVisited(p, h, V) /\ Led(p, <<>>, ls) /\ Complete(p, <<>>, ls, V)
    BY DEF PciState, AllDone
  <1> f \in DOMAIN p /\ Answering(p, f) /\ ~p[f].bridge  BY DEF Shown
  <1>2. \A g : Probed(<<>>, V, g) <=> g[1] \in V
    <2>1. Len(<<>>) = 0 /\ 1..0 = {}  OBVIOUS
    <2>. QED  BY <2>1 DEF Probed
  <1>3. ASSUME NEW i \in 1..Len(ls), ls[i] = f
        PROVE  LedTo(p, f[1])
    BY <1>1, <1>3 DEF Led, LedTo
  <1> DEFINE T == BusesOf(p) \intersect V
  <1>4. ClosedIn(p, T)
    <2> SUFFICES ASSUME NEW b \in BusesOf(p),
                        \/ b = 0 \/ HostOf(p, b)
                        \/ \E g \in DOMAIN p : BridgeTo(p, g, b) /\ g[1] \in T
                 PROVE  b \in V
      BY DEF ClosedIn
    <2>1. CASE b = 0  BY <1>1, <2>1 DEF HostsVisited
    <2>2. CASE HostOf(p, b)
      <3>1. b > 0 /\ Multi(p, <<0, 0, 0>>) /\ <<0, 0, b>> \in DOMAIN p
        BY <2>2 DEF HostOf
      <3>2. b \in 0..LastFunction /\ LastFunction \in Nat /\ LastBus \in Nat
            /\ LastFunction <= LastBus
        BY <3>1, ShellAssumption DEF Formed
      <3>3. b \in 1..h  BY <3>1, <3>2 DEF AllDone
      <3>. QED  BY <1>1, <2>2, <3>3 DEF HostsVisited
    <2>3. CASE \E g \in DOMAIN p : BridgeTo(p, g, b) /\ g[1] \in T
      <3>1. PICK g \in DOMAIN p : BridgeTo(p, g, b) /\ g[1] \in V  BY <2>3
      <3>2. Answering(p, g) /\ Probed(<<>>, V, g)  BY <1>2, <3>1 DEF BridgeTo
      <3>. QED  BY <1>1, <3>1, <3>2 DEF Complete, BridgeTo
    <2>. QED  BY <2>1, <2>2, <2>3
  <1>5. ASSUME LedTo(p, f[1])
        PROVE  \E i \in 1..Len(ls) : ls[i] = f
    <2>1. T \in SUBSET BusesOf(p)  OBVIOUS
    <2>2. f[1] \in V  BY <1>4, <1>5, <2>1 DEF LedTo
    <2>. QED  BY <1>1, <1>2, <2>2 DEF Complete
  <1>. QED  BY <1>3, <1>5

\* Module Pci's terms.
LEMMA PciTerms ==
    /\ \A f : PCI!Present(f) <=> f \in DOMAIN machine.pci
    /\ \A f : PCI!ReadsMulti(f) <=> Multi(machine.pci, f)
    /\ \A f : PCI!Answers(f) <=> Answering(machine.pci, f)
    /\ PCI!Buses = BusesOf(machine.pci)
    /\ \A f, b : f \in PCI!BridgesTo(b) <=>
           f \in DOMAIN machine.pci /\ BridgeTo(machine.pci, f, b)
    /\ \A b : PCI!HostTo(b) <=> HostOf(machine.pci, b)
    /\ \A c : PCI!After(c) = FrameAfter(machine.pci, c)
  <1>1. \A f : PCI!Present(f) <=> f \in DOMAIN machine.pci  BY DEF PCI!Present
  <1>2. \A f : PCI!ReadsMulti(f) <=> Multi(machine.pci, f)
    BY DEF PCI!Present, PCI!ReadsMulti, Multi
  <1>3. \A f : PCI!Answers(f) <=> Answering(machine.pci, f)
    BY <1>1, <1>2 DEF PCI!Answers, Answering
  <1>4. PCI!Buses = BusesOf(machine.pci)  BY DEF PCI!Buses, BusesOf
  <1>5. \A f, b : f \in PCI!BridgesTo(b) <=>
            f \in DOMAIN machine.pci /\ BridgeTo(machine.pci, f, b)
    BY <1>3 DEF PCI!BridgesTo, PCI!IsBridge, BridgeTo
  <1>6. \A b : PCI!HostTo(b) <=> HostOf(machine.pci, b)
    BY <1>1, <1>2 DEF PCI!HostTo, HostOf
  <1>7. \A c : PCI!After(c) = FrameAfter(machine.pci, c)
    BY <1>1, <1>2 DEF PCI!After, FrameAfter
  <1>. QED  BY <1>1, <1>2, <1>3, <1>4, <1>5, <1>6, <1>7

LEMMA ProceedGoesOn ==
    ASSUME NEW s, s # <<>>, Last(s)[2] <= LastDevice, PCI!Proceed(s)
    PROVE  GoesOn(machine.pci, s, probe')
  <1>1. probe' = Append(Front(s), FrameAfter(machine.pci, Last(s)))
    BY PciTerms, SameFront DEF PCI!Proceed
  <1>. QED  BY <1>1 DEF GoesOn

LEMMA MachineFormed ==
    ASSUME PcisFormed, JobInv, job # "none"
    PROVE  Formed(machine.pci)
  <1>1. machine \in Machines
        /\ \A f \in DOMAIN machine.pci : machine.pci[f].secondary \in Nat
    BY WalkTypes
  <1>. QED  BY <1>1 DEF PcisFormed, Formed

LEMMA PciStep ==
    ASSUME PcisFormed, JobInv, job # "none", PciInv, PCI!Step
    PROVE  PciInv'
  <1> DEFINE p == machine.pci
  <1>1. machine' = machine
    BY DEF PCI!Step, PCI!ProbeAbsent, PCI!ProbeFunction, PCI!ProbeBridge, PCI!BusDone,
           PCI!HostBus
  <1>2. PICK V : PciState(p, probe, host, listed, V)  BY DEF PciInv
  <1>3. Formed(p)  BY MachineFormed
  <1>4. Calls(p, probe, V)  BY <1>2 DEF PciState
  <1>5. host \in Nat /\ LastDevice \in Nat  BY Sizes DEF JobInv
  <1>6. SUFFICES \E W : PciState(p, probe', host', listed', W)
    BY <1>1 DEF PciInv
  <1>7. PCI!Last(probe) = Last(probe) /\ PCI!Front(probe) = Front(probe)  BY SameFront
  <1>8. CASE PCI!ProbeAbsent
    <2>1. /\ probe # <<>> /\ Last(probe)[2] <= LastDevice /\ Last(probe) \notin DOMAIN p
          /\ PCI!Proceed(probe) /\ host' = host /\ listed' = listed
      BY <1>7, <1>8, PciTerms DEF PCI!ProbeAbsent, PCI!OnBus
    <2>2. GoesOn(p, probe, probe')  BY <2>1, ProceedGoesOn
    <2> HIDE DEF p
    <2>3. PciState(p, probe', host, listed, V)
      BY <1>2, <1>3, <1>5, <2>1, <2>2, AbsentState
    <2>. QED  BY <2>1, <2>3
  <1>9. CASE PCI!ProbeFunction
    <2>1. /\ probe # <<>> /\ Last(probe)[2] <= LastDevice /\ Last(probe) \in DOMAIN p
          /\ ~p[Last(probe)].bridge /\ listed' = Append(listed, Last(probe))
          /\ PCI!Proceed(probe) /\ host' = host
      BY <1>7, <1>9, PciTerms DEF PCI!ProbeFunction, PCI!OnBus, PCI!IsBridge
    <2>2. GoesOn(p, probe, probe')  BY <2>1, ProceedGoesOn
    <2> HIDE DEF p
    <2>3. PciState(p, probe', host, listed', V)
      BY <1>2, <1>3, <1>5, <2>1, <2>2, PrintState
    <2>. QED  BY <2>1, <2>3
  <1>10. CASE PCI!ProbeBridge
    <2>1. /\ probe # <<>> /\ Last(probe) \in DOMAIN p /\ p[Last(probe)].bridge
          /\ probe' = Append(probe, <<p[Last(probe)].secondary, 0, 0>>)
          /\ host' = host /\ listed' = listed
      BY <1>7, <1>10, PciTerms DEF PCI!ProbeBridge, PCI!OnBus, PCI!IsBridge
    <2> HIDE DEF p
    <2>2. \E W : PciState(p, probe', host, listed, W)
      BY <1>2, <1>3, <1>5, <2>1, BridgeState
    <2>. QED  BY <2>1, <2>2
  <1>11. CASE PCI!BusDone
    <2>1. /\ probe # <<>> /\ ~(Last(probe)[2] <= LastDevice)
          /\ IF Len(probe) = 1 THEN probe' = <<>> ELSE PCI!Proceed(Front(probe))
          /\ host' = host /\ listed' = listed
      BY <1>7, <1>11 DEF PCI!BusDone, PCI!OnBus
    <2>2. Last(probe)[2] > LastDevice
      <3>1. Last(probe) \in Function  BY <1>4, <2>1, CallsOf
      <3>. QED  BY <1>5, <2>1, <3>1 DEF Function
    <2> DEFINE r == Front(probe)
    <2>3. /\ r \in Seq(Function) /\ Len(r) = Len(probe) - 1 /\ Len(probe) \in Nat \ {0}
          /\ r # <<>> => Last(r) \in DOMAIN p
      BY <1>4, <2>1, ReturnShape, ReturnCalls
    <2> HIDE DEF r
    <2>4. IF r = <<>> THEN probe' = <<>> ELSE GoesOn(p, r, probe')
      <3>1. CASE r = <<>>
        <4>1. Len(r) = 0  BY <3>1
        <4>2. Len(probe) = 1  BY <2>3, <4>1
        <4>. QED  BY <2>1, <3>1, <4>2
      <3>2. CASE r # <<>>
        <4>1. Len(r) # 0  BY <2>3, <3>2, EmptySeq
        <4>2. Len(probe) # 1  BY <2>3, <4>1
        <4>3. PCI!Proceed(r)  BY <2>1, <4>2 DEF r
        <4>4. Last(r)[2] <= LastDevice
          <5>1. Last(r) \in DOMAIN p  BY <2>3, <3>2
          <5>2. Last(r)[2] \in 0..LastDevice  BY <1>3, <5>1 DEF Formed
          <5>. QED  BY <1>5, <5>2
        <4>. QED  BY <3>2, <4>3, <4>4, ProceedGoesOn
      <3>. QED  BY <3>1, <3>2
    <2> HIDE DEF p
    <2>5. IF Front(probe) = <<>> THEN probe' = <<>> ELSE GoesOn(p, Front(probe), probe')
      BY <2>4 DEF r
    <2>6. PciState(p, probe', host, listed, V)
      BY <1>2, <1>3, <1>5, <2>1, <2>2, <2>5, ReturnState
    <2>. QED  BY <2>1, <2>6
  <1>12. CASE PCI!HostBus
    <2>1. /\ probe = <<>> /\ Multi(p, <<0, 0, 0>>) /\ host' = host + 1
          /\ probe' = IF <<0, 0, host'>> \in DOMAIN p THEN << <<host', 0, 0>> >> ELSE <<>>
          /\ listed' = listed
      BY <1>12, PciTerms DEF PCI!HostBus
    <2>2. HostOf(p, host + 1) <=> <<0, 0, host + 1>> \in DOMAIN p
      BY <1>5, <2>1 DEF HostOf
    <2> HIDE DEF p
    <2>3. PciState(p, <<>>, host, listed, V)  BY <1>2, <2>1
    <2>4. CASE HostOf(p, host + 1)
      <3>1. \E W : PciState(p, << <<host + 1, 0, 0>> >>, host + 1, listed, W)
        BY <1>3, <1>5, <2>3, <2>4, HostState
      <3>2. probe' = << <<host + 1, 0, 0>> >>  BY <2>1, <2>2, <2>4
      <3>. QED  BY <2>1, <3>1, <3>2
    <2>5. CASE ~HostOf(p, host + 1)
      <3>1. PciState(p, <<>>, host + 1, listed, V)
        BY <1>3, <1>5, <2>3, <2>5, NoHostState
      <3>2. probe' = <<>>  BY <2>1, <2>2, <2>5
      <3>. QED  BY <2>1, <3>1, <3>2
    <2>. QED  BY <2>4, <2>5
  <1>. QED  BY <1>8, <1>9, <1>10, <1>11, <1>12 DEF PCI!Step

FindInv == job = "pci" => PciInv

LEMMA FindStep ==
    ASSUME PcisFormed, JobInv, KeyInv, FindInv, [Next]_vars
    PROVE  FindInv'
  <1>1. ASSUME UNCHANGED <<job, machine, probe, host, listed>>
        PROVE  FindInv'
    BY <1>1 DEF FindInv, PciInv
  <1>2. CASE EnterWalk
    <2> SUFFICES ASSUME job' = "pci"  PROVE PciInv'
      BY DEF FindInv
    <2>1. /\ machine' \in Machines
          /\ probe' = << <<0, 0, 0>> >> /\ host' = 0 /\ listed' = <<>>
      BY <1>2 DEF EnterWalk, PCI!Start
    <2>2. Formed(machine'.pci)  BY <2>1, Sizes DEF PcisFormed, Formed
    <2> DEFINE p == machine'.pci
    <2> HIDE DEF p
    <2>3. PciState(p, << <<0, 0, 0>> >>, 0, <<>>, {0})  BY <2>2, StartState DEF p
    <2>. QED  BY <2>1, <2>3 DEF PciInv, p
  <1>3. CASE Run
    <2>1. job' = job  BY <1>3 DEF Run
    <2>2. CASE cmd_display_pci
      <3>1. job = "pci" /\ PCI!Step  BY <2>2 DEF cmd_display_pci
      <3>2. PciInv'  BY <3>1, PciStep DEF FindInv
      <3>. QED  BY <3>2 DEF FindInv
    <2>3. CASE cmd_display_apic \/ cmd_display_pcie
      <3>1. job' # "pci"  BY <2>1, <2>3 DEF cmd_display_apic, cmd_display_pcie
      <3>. QED  BY <3>1 DEF FindInv
    <2>. QED  BY <1>3, <2>2, <2>3 DEF Run
  <1>4. CASE RunEnds  BY <1>4 DEF RunEnds, FindInv
  <1>5. CASE \/ \E k \in Keys : KeyInterrupt(k)
             \/ Tick \/ Halt \/ Poll \/ PollEmpty \/ PollKey \/ TypeChar \/ Erase
             \/ IgnoreKey \/ ShowKey \/ Enter \/ cmd_switch_to_keycodes \/ UNCHANGED vars
    <2>1. UNCHANGED <<job, machine, probe, host, listed>>
      BY <1>5 DEF KeyInterrupt, Tick, Halt, Poll, PollEmpty, PollKey, TypeChar, Erase,
                  IgnoreKey, ShowKey, Enter, cmd_switch_to_keycodes, vars, jobVars
    <2>. QED  BY <1>1, <2>1
  <1>. QED  BY <1>2, <1>3, <1>4, <1>5 DEF Next, Step, HandleKey

LEMMA StateFinds ==
    ASSUME PcisFormed, JobInv, job # "none", PciInv
    PROVE  PCI!FindsAll
  <1> DEFINE p == machine.pci
             st == probe
             ls == listed
  <1>1. PICK V : PciState(p, st, host, ls, V)  BY DEF PciInv
  <1>2. Formed(p)  BY MachineFormed
  <1>3. Calls(p, st, V) /\ Printed(p, ls) /\ Once(p, st, host, ls, V)
    BY <1>1 DEF PciState
  <1>4. DOMAIN ls = 1..Len(ls) /\ DOMAIN st = 1..Len(st)
    <2>1. ls \in Seq(Function) /\ st \in Seq(Function)  BY <1>3 DEF Printed, Calls
    <2> HIDE DEF ls, st
    <2>. QED  BY <2>1, LenProperties
  <1>5. host \in Nat  BY Sizes DEF JobInv
  <1>6. ASSUME PCI!Done, NEW f \in DOMAIN p, PCI!Answers(f), ~PCI!IsBridge(f)
        PROVE  f[1] \in PCI!Reached <=> \E i \in DOMAIN ls : ls[i] = f
    <2>1. AllDone(p, st, host)
      BY <1>6, PciTerms DEF PCI!Done, AllDone
    <2>2. Shown(p, f)  BY <1>6, PciTerms DEF PCI!IsBridge, Shown
    <2>3. f[1] \in BusesOf(p)  BY DEF BusesOf
    <2>4. \A S : PCI!Closed(S) <=> ClosedIn(p, S)
      <3>1. \A b, S : (\E g \in PCI!BridgesTo(b) : g[1] \in S) <=>
                (\E g \in DOMAIN p : BridgeTo(p, g, b) /\ g[1] \in S)
        BY PciTerms
      <3>2. /\ PCI!Buses = BusesOf(p)
            /\ \A b : PCI!HostTo(b) <=> HostOf(p, b)
        BY PciTerms
      <3> HIDE DEF p
      <3>. QED  BY <3>1, <3>2 DEF PCI!Closed, ClosedIn
    <2>5. f[1] \in PCI!Reached <=> LedTo(p, f[1])
      BY <2>3, <2>4, PciTerms DEF PCI!Reached, LedTo
    <2> HIDE DEF p, ls, st
    <2>6. LedTo(p, f[1]) <=> \E i \in 1..Len(ls) : ls[i] = f
      BY <1>1, <1>2, <1>5, <2>1, <2>2, DoneState
    <2>. QED  BY <1>4, <2>5, <2>6
  <1>7. ASSUME \A b \in PCI!Buses : PCI!OneWayTo(b)
        PROVE  \A i, k \in DOMAIN ls : ls[i] = ls[k] => i = k
    <2>1. ASSUME NEW b, PCI!OneWayTo(b)
          PROVE  OneWay(p, b)
      BY <2>1, PciTerms DEF PCI!OneWayTo, OneWay
    <2>2. OneWays(p)
      <3> SUFFICES ASSUME NEW f \in DOMAIN p  PROVE OneWay(p, f[1])
        BY DEF OneWays
      <3>1. f[1] \in PCI!Buses  BY PciTerms DEF BusesOf
      <3>. QED  BY <1>7, <2>1, <3>1
    <2>. QED  BY <1>3, <1>4, <2>2 DEF Once
  <1>8. \A i \in DOMAIN ls : PCI!Answers(ls[i]) /\ ~PCI!IsBridge(ls[i])
    BY <1>3, <1>4, PciTerms DEF Printed, PCI!IsBridge
  <1>9. \A i, k \in DOMAIN st : i # k => st[i][1] # st[k][1]
    BY <1>3, <1>4, CallsApart
  <1>. QED  BY <1>6, <1>7, <1>8, <1>9 DEF PCI!FindsAll

-----------------------------------------------------------------------------
(* The theorems. *)

LEMMA ShellStart ==
    ASSUME Init
    PROVE  ShellInv /\ WalkInv
  <1>1. KeyInv  BY DEF Init, KQ!Init, KeyInv
  <1>2. LineInv  BY Sizes DEF Init, LineInv
  <1>3. PromptInv  BY Zenon DEF Init, PromptInv
  <1>4. JobInv /\ job = "none"
    <2>1. NoWalk \in [type : 0..2, at : Nat]  BY DEF NoWalk
    <2>2. <<>> \in Seq(Function) /\ Len(<<>>) = 0  OBVIOUS
    <2>. QED  BY <2>1, <2>2, Sizes DEF Init, JobInv
  <1>. QED  BY <1>1, <1>2, <1>3, <1>4 DEF ShellInv, WalkInv

LEMMA ShellStep == ShellInv /\ [Next]_vars => ShellInv'
  BY KeyStep, LineStep, PromptStep, JobStep DEF ShellInv

LEMMA ShellInvariant == Spec => []ShellInv
  BY ShellStart, ShellStep, PTL DEF Spec

LEMMA ShellTypes == ShellInv => EchoMatchesCommand
  <1> SUFFICES ASSUME ShellInv  PROVE EchoMatchesCommand
    OBVIOUS
  <1>1. KeyInv /\ LineInv /\ PromptInv /\ JobInv  BY DEF ShellInv
  <1>2. TypeOK
    <2>1. prompt \in BOOLEAN  BY <1>1 DEF PromptInv
    <2>. QED  BY <1>1, <2>1 DEF KeyInv, LineInv, PromptInv, JobInv, TypeOK
  <1>3. mode = "command" /\ pc # "run" => prompt  BY <1>1, Zenon DEF PromptInv
  <1>4. echo = cmd  BY <1>1 DEF LineInv
  <1>. QED  BY <1>2, <1>3, <1>4, Zenon DEF EchoMatchesCommand

\* What the user sees is what Enter will execute, for every size of the
\* command buffer, whatever is typed, in whichever mode and while whatever
\* command runs.
THEOREM EchoCorrect == Spec => []EchoMatchesCommand
  BY ShellInvariant, ShellTypes, PTL

\* apic and pcie print every entry of every table whose entries' lengths add
\* up: the walk never steps into an entry, past the end or over a type.
THEOREM ListsCorrect ==
    ASSUME MadtsFormed
    PROVE  Spec => []ListsAll
  <1>1. Init => ShellInv /\ WalkInv  BY ShellStart
  <1>2. (ShellInv /\ WalkInv) /\ [Next]_vars => (ShellInv /\ WalkInv)'
    BY ShellStep, WalkStep DEF ShellInv
  <1>3. ShellInv /\ WalkInv => ListsAll
    BY WalkLists DEF ShellInv
  <1>. QED  BY <1>1, <1>2, <1>3, PTL DEF Spec

\* pci prints every function that answers on a bus that bus 0 or a host
\* controller leads to, and nothing else; it prints nothing twice where every
\* bus has at most one way to it; and it probes no bus inside its own probe.
\* Of the machine it asks that bridges lead to later buses than their own.
THEOREM FindsCorrect ==
    ASSUME PcisFormed
    PROVE  Spec => []FindsAll
  <1>1. Init => ShellInv /\ FindInv
    <2>1. Init => FindInv  BY DEF Init, FindInv
    <2>. QED  BY <2>1, ShellStart
  <1>2. (ShellInv /\ FindInv) /\ [Next]_vars => (ShellInv /\ FindInv)'
    BY ShellStep, FindStep DEF ShellInv
  <1>3. ShellInv /\ FindInv => FindsAll
    BY StateFinds DEF ShellInv, FindInv, FindsAll
  <1>. QED  BY <1>1, <1>2, <1>3, PTL DEF Spec
=============================================================================
