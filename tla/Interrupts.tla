----------------------------- MODULE Interrupts -----------------------------
(***************************************************************************)
(* Interrupt dispatch: kernel/interrupt/interrupt.asm, exception.c and the *)
(* two handlers of kernel/device, over the 8259 interrupt controllers.     *)
(*                                                                         *)
(* The controllers latch requests and deliver the most urgent one that is  *)
(* unmasked and more urgent than all those in service.  The processor      *)
(* pushes a frame; the thunk and the dispatcher look the handler up in the *)
(* kernel's table and call it; the handler acknowledges (EOI) and returns. *)
(* Vectors above 31 go through trap gates, which leave interrupts on, so   *)
(* handlers nest.  Only the code of the topmost frame runs, and the main   *)
(* thread runs when there is none.                                         *)
(***************************************************************************)
EXTENDS Integers, Sequences, FiniteSets

CONSTANTS
    Vectors,        \* the interrupt vectors of interest
    EnableIrqs,     \* IRQs the main thread may pass to irq_enable
    DisableIrqs,    \* ... and to irq_disable
    NullVectors,    \* vectors whose handler it may set to null
    MaxDepth        \* bound: frames nested on the stack

ASSUME VectorsAssumption == Vectors \subseteq 0..255 /\ {32, 33, 255} \subseteq Vectors
ASSUME IrqsAssumption == EnableIrqs \subseteq 0..15 /\ DisableIrqs \subseteq 0..15
ASSUME NullAssumption == NullVectors \subseteq Vectors
ASSUME DepthAssumption == MaxDepth \in Nat

VARIABLES
    isr_table,   \* the handler of each vector
    mask,        \* IRQs masked at the two controllers
    requested,   \* IRQs latched and not yet delivered
    inService,   \* IRQs of the first controller delivered and not acknowledged
    stack,       \* the frames of the handlers running, the innermost last
    intFlag,     \* the main thread's interrupt flag
    pc,          \* what the main thread does
    kbdFull      \* the keyboard controller holds a byte nobody has read

picVars  == <<mask, requested, inService>>
vars     == <<isr_table, picVars, stack, intFlag, pc, kbdFull>>

Null    == "null"
Handler == {"isr_timer", "isr_keyboard", "isr_fatal", "isr_breakpoint"}

IRQ_TIMER    == 0
IRQ_KEYBOARD == 1
Irq          == 0..15
MasterIrq    == 0..7
VectorOf(irq) == 32 + irq

Lowest(S) == CHOOSE i \in S : \A j \in S : i <= j

-----------------------------------------------------------------------------
(* Dispatch. *)

\* The thunk pushes its vector as a sign-extended byte, so the table index of
\* a vector above 127 is negative and lands in the descriptor table just
\* below: on the first half of a descriptor, which is no code address, or on
\* the second, which is zero.
LookUp(vector) ==
    LET index == IF vector < 128 THEN vector ELSE vector - 256
    IN  IF index >= 0 THEN isr_table[index]
        ELSE IF index % 2 = 0 THEN "garbage" ELSE Null

\* Exceptions use interrupt gates, which turn interrupts off.
GateKeepsFlag(vector) == vector > 31

\* Mistaken variant: the timer's handler, which does nothing, sends no EOI.
FirstStepTimerSilent(handler) ==
    CASE handler = "isr_keyboard" -> "read"
      [] handler = "isr_fatal"    -> "hang"
      [] OTHER                    -> "return"

\* Where a handler starts; isr_fatal prints and then halts for good with
\* interrupts off, and so does, through a fault, a jump to garbage.
FirstStep(handler) ==
    CASE handler = "isr_keyboard" -> "read"
      [] handler = "isr_timer"    -> "eoi"
      [] handler = "isr_fatal"    -> "hang"
      [] handler = "garbage"      -> "hang"
      [] OTHER                    -> "return"

Running == stack # <<>>
Top     == stack[Len(stack)]

\* Whether the code that runs now can be interrupted.
InterruptsOn == IF Running THEN Top.on ELSE intFlag

Frame(vector) ==
    [vector  |-> vector,
     handler |-> LookUp(vector),
     at      |-> FirstStep(LookUp(vector)),
     on      |-> InterruptsOn /\ GateKeepsFlag(vector)
                     /\ FirstStep(LookUp(vector)) # "hang"]

SetTop(at) == stack' = [stack EXCEPT ![Len(stack)].at = at]

-----------------------------------------------------------------------------
(* The devices and the controllers. *)

\* The timer's ticks are not counted: one that comes while another waits
\* changes nothing.
RaiseTimer ==
    /\ IRQ_TIMER \notin requested
    /\ requested' = requested \union {IRQ_TIMER}
    /\ UNCHANGED <<isr_table, mask, inService, stack, intFlag, pc, kbdFull>>

\* The keyboard controller asks once per byte and sends the next one only
\* after the last one was read.
RaiseKeyboard ==
    /\ ~kbdFull
    /\ kbdFull' = TRUE
    /\ requested' = requested \union {IRQ_KEYBOARD}
    /\ UNCHANGED <<isr_table, mask, inService, stack, intFlag, pc>>

\* Unmasked requests more urgent than everything in service.
Deliverable ==
    {i \in (requested \ mask) \intersect MasterIrq : \A j \in inService : i < j}

\* Delivery also ends a halt.
Deliver(i) ==
    /\ InterruptsOn
    /\ Len(stack) < MaxDepth
    /\ i \in Deliverable
    /\ i = Lowest(Deliverable)
    /\ requested' = requested \ {i}
    /\ inService' = inService \union {i}
    /\ stack' = Append(stack, Frame(VectorOf(i)))
    /\ pc' = IF pc = "halted" THEN "run" ELSE pc
    /\ UNCHANGED <<isr_table, mask, intFlag, kbdFull>>

-----------------------------------------------------------------------------
(* The handlers. *)

\* isr_keyboard reads the scan code, which lets the controller send the next.
ReadScanCode ==
    /\ Running
    /\ Top.at = "read"
    /\ kbdFull' = FALSE
    /\ SetTop("addkey")
    /\ UNCHANGED <<isr_table, picVars, intFlag, pc>>

\* Mistaken variant: a handler that returns without acknowledging.
AddKeyNoEoi ==
    /\ Running
    /\ Top.at = "addkey"
    /\ SetTop("return")
    /\ UNCHANGED <<isr_table, picVars, intFlag, pc, kbdFull>>

AddKey ==
    /\ Running
    /\ Top.at = "addkey"
    /\ SetTop("eoi")
    /\ UNCHANGED <<isr_table, picVars, intFlag, pc, kbdFull>>

\* A non-specific end of interrupt: the controller drops the most urgent of
\* the requests in service, whoever sent it.
Eoi ==
    /\ Running
    /\ Top.at = "eoi"
    /\ inService' = IF inService = {} THEN {} ELSE inService \ {Lowest(inService)}
    /\ SetTop("return")
    /\ UNCHANGED <<isr_table, mask, requested, intFlag, pc, kbdFull>>

Return ==
    /\ Running
    /\ Top.at = "return"
    /\ stack' = SubSeq(stack, 1, Len(stack) - 1)
    /\ UNCHANGED <<isr_table, picVars, intFlag, pc, kbdFull>>

HandlerStep == ReadScanCode \/ AddKey \/ Eoi \/ Return

-----------------------------------------------------------------------------
(* The main thread. *)

MainRuns == ~Running /\ pc = "run"

\* The slave's branch enables IRQ 2 by a recursive call, which leaves 2 in
\* the register that held the IRQ; 8 is then subtracted from that.
irq_enable(irq) ==
    IF irq < 8
    THEN mask \ {irq}
    ELSE LET cl == (2 - 8) % 256
         IN  mask \ ({2} \union {i \in 8..15 : i - 8 = cl % 32})

irq_disable(irq) == mask \union {irq}

\* The order of kmain: interrupts are off until enable_interrupts.  The first
\* word sent to the controllers clears what they had latched.
InterruptsInit ==
    /\ pc = "boot"
    /\ mask' = Irq
    /\ requested' = {}
    /\ inService' = {}
    /\ pc' = "exceptions"
    /\ UNCHANGED <<isr_table, stack, intFlag, kbdFull>>

ExceptionsInit ==
    /\ pc = "exceptions"
    /\ isr_table' = [v \in Vectors |->
                        IF v = 3 THEN "isr_breakpoint"
                        ELSE IF v < 32 \/ v = 255 THEN "isr_fatal"
                        ELSE isr_table[v]]
    /\ pc' = "kb"
    /\ UNCHANGED <<picVars, stack, intFlag, kbdFull>>

\* Mistaken variant: the interrupt is enabled and the handler forgotten.
KbInitNoHandler ==
    /\ pc = "kb"
    /\ mask' = irq_enable(IRQ_KEYBOARD)
    /\ pc' = "timer"
    /\ UNCHANGED <<isr_table, requested, inService, stack, intFlag, kbdFull>>

KbInit ==
    /\ pc = "kb"
    /\ isr_table' = [isr_table EXCEPT ![VectorOf(IRQ_KEYBOARD)] = "isr_keyboard"]
    /\ mask' = irq_enable(IRQ_KEYBOARD)
    /\ pc' = "timer"
    /\ UNCHANGED <<requested, inService, stack, intFlag, kbdFull>>

TimerInit ==
    /\ pc = "timer"
    /\ isr_table' = [isr_table EXCEPT ![VectorOf(IRQ_TIMER)] = "isr_timer"]
    /\ mask' = irq_enable(IRQ_TIMER)
    /\ pc' = "run"
    /\ UNCHANGED <<requested, inService, stack, intFlag, kbdFull>>

Boot == InterruptsInit \/ ExceptionsInit \/ KbInit \/ TimerInit

EnableInterrupts ==
    /\ MainRuns
    /\ intFlag' = TRUE
    /\ UNCHANGED <<isr_table, picVars, stack, pc, kbdFull>>

DisableInterrupts ==
    /\ MainRuns
    /\ intFlag' = FALSE
    /\ UNCHANGED <<isr_table, picVars, stack, pc, kbdFull>>

EnableIrq(irq) ==
    /\ MainRuns
    /\ mask' = irq_enable(irq)
    /\ UNCHANGED <<isr_table, requested, inService, stack, intFlag, pc, kbdFull>>

DisableIrq(irq) ==
    /\ MainRuns
    /\ mask' = irq_disable(irq)
    /\ UNCHANGED <<isr_table, requested, inService, stack, intFlag, pc, kbdFull>>

\* isr_set turns interrupts off while it stores the handler.
IsrSetNull(v) ==
    /\ MainRuns
    /\ isr_table' = [isr_table EXCEPT ![v] = Null]
    /\ UNCHANGED <<picVars, stack, intFlag, pc, kbdFull>>

Halt ==
    /\ MainRuns
    /\ intFlag
    /\ pc' = "halted"
    /\ UNCHANGED <<isr_table, picVars, stack, intFlag, kbdFull>>

\* A software interrupt, fatal() or a breakpoint, or a processor exception.
SoftwareInterrupt(v) ==
    /\ MainRuns
    /\ v < 32 \/ v = 255
    /\ Len(stack) < MaxDepth
    /\ stack' = Append(stack, Frame(v))
    /\ pc' = IF v = 255 THEN "fatal" ELSE "run"
    /\ UNCHANGED <<isr_table, picVars, intFlag, kbdFull>>

\* The main thread gets on after a call of fatal() that came back.
FatalReturns ==
    /\ ~Running
    /\ pc = "fatal"
    /\ pc' = "run"
    /\ UNCHANGED <<isr_table, picVars, stack, intFlag, kbdFull>>

Main ==
    \/ Boot
    \/ EnableInterrupts \/ DisableInterrupts \/ Halt
    \/ \E irq \in EnableIrqs : EnableIrq(irq)
    \/ \E irq \in DisableIrqs : DisableIrq(irq)
    \/ \E v \in NullVectors : IsrSetNull(v)
    \/ \E v \in Vectors : SoftwareInterrupt(v)
    \/ FatalReturns

-----------------------------------------------------------------------------
\* The loader hands over with interrupts off at the processor.
Init ==
    /\ isr_table = [v \in Vectors |-> Null]
    /\ mask = {}
    /\ requested = {}
    /\ inService = {}
    /\ stack = <<>>
    /\ intFlag = FALSE
    /\ pc = "boot"
    /\ kbdFull = FALSE

DeliverAny == \E i \in {IRQ_TIMER, IRQ_KEYBOARD} : Deliver(i)

Next == RaiseTimer \/ RaiseKeyboard \/ DeliverAny \/ HandlerStep \/ Main

Spec == Init /\ [][Next]_vars

\* Handlers end, the timer ticks, and a request that is deliverable again and
\* again is delivered.
FairSpec ==
    /\ Spec
    /\ WF_vars(HandlerStep)
    /\ WF_vars(RaiseTimer)
    /\ SF_vars(Deliver(IRQ_TIMER))
    /\ SF_vars(Deliver(IRQ_KEYBOARD))

-----------------------------------------------------------------------------
(* Properties. *)

At == {"read", "addkey", "eoi", "return", "hang"}

\* The handler meant for a vector.
HandlerFor(v) ==
    CASE v = 3                     -> "isr_breakpoint"
      [] v = VectorOf(IRQ_TIMER)   -> "isr_timer"
      [] v = VectorOf(IRQ_KEYBOARD) -> "isr_keyboard"
      [] OTHER                     -> "isr_fatal"

\* Every variable keeps to its type, and no vector gets another's handler.
TypeOK ==
    /\ isr_table \in [Vectors -> Handler \union {Null}]
    /\ \A v \in Vectors : isr_table[v] \in {HandlerFor(v), Null}
    /\ mask \subseteq Irq
    /\ requested \subseteq Irq
    /\ inService \subseteq MasterIrq
    /\ stack \in Seq([vector : Vectors, at : At, on : BOOLEAN,
                      handler : Handler \union {Null, "garbage"}])
    /\ Len(stack) <= MaxDepth
    /\ intFlag \in BOOLEAN
    /\ pc \in {"boot", "exceptions", "kb", "timer", "run", "halted", "fatal"}
    /\ kbdFull \in BOOLEAN

\* The frames whose handler has still to send its EOI.
Open == {d \in 1..Len(stack) : stack[d].at \in {"read", "addkey", "eoi"}}

\* The controller has in service exactly the interrupts whose handlers are
\* still to acknowledge, and these are nested from less to more urgent: so
\* the non-specific EOI always ends the interrupt of the handler sending it,
\* and "the ISR function calling addkey can never be interrupted by anything
\* that touches the buffer" (keyboard.c:140-142).
PicMatchesStack ==
    /\ TypeOK
    /\ inService = {stack[d].vector - 32 : d \in Open}
    /\ \A d, e \in Open : d < e => stack[e].vector < stack[d].vector

Hung == \E d \in 1..Len(stack) : stack[d].at = "hang"

\* A byte waits in the keyboard controller and no interrupt announces it any
\* more: no other will come until somebody reads it.
Stuck ==
    /\ kbdFull
    /\ IRQ_KEYBOARD \notin requested
    /\ \A d \in 1..Len(stack) : stack[d].at # "read"

\* Only the set-up of the controllers, which forgets a request made before
\* it, can leave a byte unannounced; masking, nesting and halting never do.
AnnouncedUnlessBoot == [][Stuck' /\ ~Stuck => InterruptsInit]_vars

\* From some time on the handlers are faster than the timer.
SlowTicks == <>[][RaiseTimer => ~Running]_vars

\* As long as the keyboard is enabled its bytes keep being read, unless one
\* was left unannounced at boot.
KeyboardServed ==
    <>[](intFlag /\ IRQ_KEYBOARD \notin mask /\ ~Hung) /\ SlowTicks
        => []<>(~kbdFull \/ Stuck)

\* A halted main thread is woken again, by the timer if by nothing else.
HaltEnds == (pc = "halted" /\ IRQ_TIMER \notin mask) ~> (pc # "halted")

\* "Raise a fatal interrupt that hangs the system" (cpu.h:199): the main
\* thread never resumes after fatal().
FatalHangs == pc = "fatal" => Running

\* "Tell the PIC to enable a hardware interrupt", 0-15 (interrupt.h:91-94).
EnableUnmasks ==
    [][\A irq \in EnableIrqs : EnableIrq(irq) => irq \notin mask']_vars
=============================================================================
