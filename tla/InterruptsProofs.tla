--------------------------- MODULE InterruptsProofs ---------------------------
(***************************************************************************)
(* For every set of vectors, every depth of nesting and whatever the main  *)
(* thread enables, disables and sets to null, as long as it leaves the two *)
(* devices their handlers: the controller's register and the stack agree,  *)
(* and no byte of the keyboard is left unannounced after the set-up.       *)
(***************************************************************************)
EXTENDS Interrupts, SequenceTheorems, TLAPS

USE VectorsAssumption, IrqsAssumption, NullAssumption, DepthAssumption

\* The timer and the keyboard keep their handlers.
DevicesServed == NullVectors \intersect {VectorOf(IRQ_TIMER), VectorOf(IRQ_KEYBOARD)} = {}

Booting == pc \in {"boot", "exceptions", "kb", "timer"}

\* Until kmain has gone through its set-up no handler runs and none can; from
\* then on both devices have theirs.
BootInv ==
    /\ Booting => stack = <<>> /\ intFlag = FALSE
    /\ ~Booting => isr_table[VectorOf(IRQ_TIMER)] = "isr_timer"
    /\ ~Booting \/ pc = "timer" => isr_table[VectorOf(IRQ_KEYBOARD)] = "isr_keyboard"

IInv == PicMatchesStack /\ BootInv

StackFrame == [vector : Vectors, at : At, on : BOOLEAN,
               handler : Handler \union {Null, "garbage"}]

OpenAt == {"read", "addkey", "eoi"}

-----------------------------------------------------------------------------
(* Frames. *)

LEMMA StackFrames ==
    ASSUME TypeOK
    PROVE  /\ stack \in Seq(StackFrame) /\ Len(stack) \in Nat
           /\ Open \subseteq 1..Len(stack)
           /\ \A d \in 1..Len(stack) : stack[d] \in StackFrame /\ stack[d].vector \in Int
           /\ Running => Len(stack) # 0 /\ Top \in StackFrame
  <1>1. stack \in Seq(StackFrame) /\ Len(stack) \in Nat
    BY DEF TypeOK, StackFrame
  <1>2. \A d \in 1..Len(stack) : stack[d] \in StackFrame
    BY <1>1, ElementOfSeq
  <1>3. \A fr \in StackFrame : fr.vector \in Int
    <2>1. \A v \in Vectors : v \in Int
      OBVIOUS
    <2> QED
      BY <2>1, Zenon DEF StackFrame
  <1>4. Running => Len(stack) # 0
    BY <1>1, EmptySeq DEF Running
  <1> QED
    BY <1>1, <1>2, <1>3, <1>4 DEF Open, Top

LEMMA FrameType ==
    ASSUME TypeOK, NEW v \in Vectors
    PROVE  /\ Frame(v) \in StackFrame
           /\ Frame(v).vector = v
           /\ Frame(v).at = FirstStep(LookUp(v))
  <1>1. LookUp(v) \in Handler \union {Null, "garbage"}
    <2>1. CASE v < 128
      BY <2>1 DEF LookUp, TypeOK
    <2>2. CASE v >= 128
      BY <2>2 DEF LookUp
    <2> QED
      BY <2>1, <2>2
  <1>2. FirstStep(LookUp(v)) \in At
    BY <1>1 DEF FirstStep, At, Handler
  <1>3. InterruptsOn \in BOOLEAN
    <2>1. CASE Running
      <3>1. Top.on \in BOOLEAN
        BY <2>1, StackFrames DEF StackFrame
      <3> QED
        BY <2>1, <3>1 DEF InterruptsOn
    <2>2. CASE ~Running
      BY <2>2 DEF InterruptsOn, TypeOK
    <2> QED
      BY <2>1, <2>2
  <1> QED
    BY <1>1, <1>2, <1>3 DEF Frame, StackFrame

\* What is dispatched for software interrupts and exceptions acknowledges
\* nothing.
LEMMA SoftwareFrame ==
    ASSUME TypeOK, NEW v \in Vectors, v < 32 \/ v = 255
    PROVE  Frame(v).at \in {"return", "hang"}
  <1>1. CASE v < 32
    <2>1. HandlerFor(v) \in {"isr_breakpoint", "isr_fatal"}
      <3>1. v # VectorOf(IRQ_TIMER) /\ v # VectorOf(IRQ_KEYBOARD)
        BY <1>1 DEF VectorOf, IRQ_TIMER, IRQ_KEYBOARD
      <3> QED
        BY <3>1 DEF HandlerFor
    <2>2. LookUp(v) \in {"isr_breakpoint", "isr_fatal", Null}
      BY <1>1, <2>1 DEF LookUp, TypeOK
    <2> QED
      BY <2>2, FrameType DEF FirstStep, Null
  <1>2. CASE v = 255
    <2>1. LookUp(v) = Null
      BY <1>2 DEF LookUp
    <2> QED
      BY <2>1, FrameType DEF FirstStep, Null
  <1> QED
    BY <1>1, <1>2

\* The devices' handlers start with something to acknowledge.
LEMMA DeviceFrame ==
    ASSUME TypeOK, BootInv, ~Booting
    PROVE  /\ Frame(VectorOf(IRQ_TIMER)).at = "eoi"
           /\ Frame(VectorOf(IRQ_KEYBOARD)).at = "read"
  <1>1. {VectorOf(IRQ_TIMER), VectorOf(IRQ_KEYBOARD)} \subseteq Vectors
    BY DEF VectorOf, IRQ_TIMER, IRQ_KEYBOARD
  <1>2. /\ LookUp(VectorOf(IRQ_TIMER)) = "isr_timer"
        /\ LookUp(VectorOf(IRQ_KEYBOARD)) = "isr_keyboard"
    BY DEF LookUp, BootInv, VectorOf, IRQ_TIMER, IRQ_KEYBOARD
  <1> QED
    BY <1>1, <1>2, FrameType DEF FirstStep

-----------------------------------------------------------------------------
(* The stack: what pushing, changing and popping its top frame do to Open. *)

LEMMA Pushed ==
    ASSUME TypeOK, NEW fr \in StackFrame, stack' = Append(stack, fr)
    PROVE  /\ stack' \in Seq(StackFrame)
           /\ Len(stack') = Len(stack) + 1
           /\ \A d \in 1..Len(stack) : stack'[d] = stack[d]
           /\ stack'[Len(stack) + 1] = fr
           /\ Open' = Open \union (IF fr.at \in OpenAt THEN {Len(stack) + 1} ELSE {})
  <1>1. stack \in Seq(StackFrame)
    BY DEF TypeOK, StackFrame
  <1>2. /\ stack' \in Seq(StackFrame)
        /\ Len(stack') = Len(stack) + 1
        /\ \A d \in 1..Len(stack) : stack'[d] = stack[d]
        /\ stack'[Len(stack) + 1] = fr
    BY <1>1, AppendProperties
  <1>3. Len(stack) \in Nat
    BY <1>1
  <1> QED
    BY <1>2, <1>3 DEF Open, OpenAt

LEMMA TopSet ==
    ASSUME TypeOK, Running, NEW at \in At, SetTop(at)
    PROVE  /\ stack' \in Seq(StackFrame)
           /\ Len(stack') = Len(stack) /\ Len(stack) # 0
           /\ \A d \in 1..Len(stack) : /\ stack'[d].vector = stack[d].vector
                                       /\ d # Len(stack) => stack'[d] = stack[d]
           /\ stack'[Len(stack)].at = at
           /\ Open' = (Open \ {Len(stack)})
                          \union (IF at \in OpenAt THEN {Len(stack)} ELSE {})
  <1> DEFINE n == Len(stack)
             fr == [Top EXCEPT !.at = at]
  <1>1. stack \in Seq(StackFrame) /\ n \in Nat \ {0} /\ Top \in StackFrame
    BY StackFrames
  <1>2. fr \in StackFrame /\ fr.at = at /\ fr.vector = Top.vector
    BY <1>1 DEF StackFrame
  <1>3. stack' = [stack EXCEPT ![n] = fr]
    BY DEF SetTop, Top
  <1> HIDE DEF fr
  <1>4. /\ stack' \in Seq(StackFrame)
        /\ Len(stack') = n
        /\ \A d \in 1..n : stack'[d] = IF d = n THEN fr ELSE stack[d]
    BY <1>1, <1>2, <1>3, ExceptSeq
  <1>5. \A d \in 1..n : /\ stack'[d].vector = stack[d].vector
                        /\ d # n => stack'[d] = stack[d]
    BY <1>2, <1>4 DEF Top
  <1> QED
    BY <1>1, <1>2, <1>4, <1>5 DEF Open, OpenAt

LEMMA Popped ==
    ASSUME TypeOK, Running, stack' = SubSeq(stack, 1, Len(stack) - 1)
    PROVE  /\ stack' \in Seq(StackFrame)
           /\ Len(stack') = Len(stack) - 1 /\ Len(stack) # 0
           /\ \A d \in 1..(Len(stack) - 1) : stack'[d] = stack[d]
           /\ Open' = Open \ {Len(stack)}
  <1>1. stack \in Seq(StackFrame)
    BY StackFrames
  <1>2. Len(stack) \in Nat \ {0}
    BY StackFrames
  <1> DEFINE n == Len(stack) - 1
  <1>3. n \in Nat /\ \A d \in 1..n : stack[d] \in StackFrame
    BY <1>2, StackFrames
  <1> HIDE DEF n
  <1>4. /\ stack' \in Seq(StackFrame)
        /\ Len(stack') = IF 1 <= n THEN n - 1 + 1 ELSE 0
        /\ \A d \in 1..(n - 1 + 1) : stack'[d] = stack[1 + d - 1]
    BY <1>3, SubSeqProperties DEF n
  <1>5. /\ Len(stack') = n
        /\ \A d \in 1..n : stack'[d] = stack[d]
    <2>1. n - 1 + 1 = n /\ \A d \in 1..n : 1 + d - 1 = d
      BY <1>3
    <2>2. Len(stack') = n
      BY <1>3, <1>4
    <2> QED
      BY <1>4, <2>1, <2>2
  <1> QED
    BY <1>2, <1>3, <1>4, <1>5 DEF Open, n

\* While the stack and the register stay, so does what relates them.
LEMMA PicSame ==
    ASSUME PicMatchesStack, UNCHANGED <<stack, inService>>
    PROVE  /\ inService' = {stack'[d].vector - 32 : d \in Open'}
           /\ \A d, e \in Open' : d < e => stack'[e].vector < stack'[d].vector
  BY DEF PicMatchesStack, Open

-----------------------------------------------------------------------------
(* The devices and the controllers. *)

LEMMA RaiseIInv == IInv /\ (RaiseTimer \/ RaiseKeyboard) => IInv'
  <1> SUFFICES ASSUME IInv, RaiseTimer \/ RaiseKeyboard PROVE IInv'
    OBVIOUS
  <1>1. TypeOK'
    <2>1. requested' \subseteq Irq
      <3>1. IRQ_TIMER \in Irq /\ IRQ_KEYBOARD \in Irq
        BY DEF Irq, IRQ_TIMER, IRQ_KEYBOARD
      <3> QED
        BY <3>1, Zenon DEF IInv, PicMatchesStack, TypeOK, RaiseTimer, RaiseKeyboard
    <2>2. kbdFull' \in BOOLEAN
      BY Zenon DEF IInv, PicMatchesStack, TypeOK, RaiseTimer, RaiseKeyboard
    <2>3. UNCHANGED <<isr_table, mask, inService, stack, intFlag, pc>>
      BY DEF RaiseTimer, RaiseKeyboard
    <2> QED
      BY <2>1, <2>2, <2>3, Zenon DEF IInv, PicMatchesStack, TypeOK
  <1>2. BootInv'
    BY DEF IInv, BootInv, Booting, RaiseTimer, RaiseKeyboard
  <1> QED
    BY <1>1, <1>2, PicSame DEF IInv, PicMatchesStack, RaiseTimer, RaiseKeyboard

\* A more urgent interrupt comes on top of those in service.
LEMMA DeliverIInv ==
    ASSUME IInv, NEW i \in {IRQ_TIMER, IRQ_KEYBOARD}, Deliver(i)
    PROVE  IInv'
  <1> DEFINE fr == Frame(VectorOf(i))
  <1>1. VectorOf(i) \in Vectors /\ i \in MasterIrq
    BY DEF VectorOf, IRQ_TIMER, IRQ_KEYBOARD, MasterIrq
  <1>2. ~Booting
    BY DEF IInv, BootInv, Deliver, InterruptsOn, Running
  <1>3. fr \in StackFrame /\ fr.vector = VectorOf(i) /\ fr.at \in OpenAt
    BY <1>1, <1>2, FrameType, DeviceFrame DEF IInv, PicMatchesStack, OpenAt
  <1>4. stack' = Append(stack, fr)
    BY DEF Deliver
  <1> HIDE DEF fr
  <1>5. /\ stack' \in Seq(StackFrame)
        /\ Len(stack') = Len(stack) + 1
        /\ \A d \in 1..Len(stack) : stack'[d] = stack[d]
        /\ stack'[Len(stack) + 1] = fr
        /\ Open' = Open \union {Len(stack) + 1}
    BY <1>3, <1>4, Pushed DEF IInv, PicMatchesStack
  <1>6. Len(stack) \in Nat /\ Open \subseteq 1..Len(stack)
    BY DEF IInv, PicMatchesStack, TypeOK, Open
  <1>7. TypeOK'
    <2>1. Len(stack') <= MaxDepth
      BY <1>5, <1>6 DEF Deliver
    <2> QED
      BY <1>1, <1>5, <2>1 DEF IInv, PicMatchesStack, TypeOK, Deliver, StackFrame
  <1>8. inService' = {stack'[d].vector - 32 : d \in Open'}
    <2>1. inService' = inService \union {i}
      BY DEF Deliver
    <2>2. stack'[Len(stack) + 1].vector - 32 = i
      BY <1>3, <1>5 DEF VectorOf, IRQ_TIMER, IRQ_KEYBOARD
    <2>3. inService = {stack'[d].vector - 32 : d \in Open}
      BY <1>5, <1>6, SMTT(30) DEF IInv, PicMatchesStack
    <2> QED
      BY <1>5, <2>1, <2>2, <2>3
  <1>9. ASSUME NEW d \in Open', NEW e \in Open', d < e
        PROVE  stack'[e].vector < stack'[d].vector
    <2>1. d \in Open
      BY <1>5, <1>6, <1>9
    <2>2. CASE e \in Open
      BY <1>5, <1>6, <1>9, <2>1, <2>2 DEF IInv, PicMatchesStack
    <2>3. CASE e = Len(stack) + 1
      <3>1. stack[d].vector - 32 \in inService
        BY <2>1 DEF IInv, PicMatchesStack
      <3>2. i < stack[d].vector - 32
        BY <3>1 DEF Deliver, Deliverable
      <3>3. stack[d].vector \in Int
        BY <1>6, <2>1, StackFrames DEF IInv, PicMatchesStack
      <3> QED
        BY <1>3, <1>5, <1>6, <2>1, <2>3, <3>2, <3>3, SMTT(30)
        DEF VectorOf, IRQ_TIMER, IRQ_KEYBOARD
    <2> QED
      BY <1>5, <2>2, <2>3
  <1>10. BootInv'
    BY <1>2 DEF IInv, BootInv, Booting, Deliver
  <1> QED
    BY <1>7, <1>8, <1>9, <1>10 DEF IInv, PicMatchesStack

-----------------------------------------------------------------------------
(* The handlers. *)

\* The frame on top is the most urgent of those to be acknowledged.
LEMMA TopIsLowest ==
    ASSUME IInv, Running, Top.at = "eoi"
    PROVE  /\ inService # {}
           /\ Lowest(inService) = Top.vector - 32
           /\ \A d \in Open : d # Len(stack) => stack[d].vector > Top.vector
  <1>1. Len(stack) \in Nat \ {0}
    BY StackFrames DEF IInv, PicMatchesStack
  <1>2. Len(stack) \in Open /\ Open \subseteq 1..Len(stack)
    BY <1>1 DEF Open, Top
  <1>3. \A d \in Open : stack[d].vector \in Int
    BY <1>2, StackFrames DEF IInv, PicMatchesStack
  <1>4. \A d \in Open : d # Len(stack) => stack[d].vector > Top.vector
    BY <1>1, <1>2, <1>3 DEF IInv, PicMatchesStack, Top
  <1>5. inService = {stack[d].vector - 32 : d \in Open}
    BY DEF IInv, PicMatchesStack
  <1>6. /\ Top.vector - 32 \in inService
        /\ \A j \in inService : Top.vector - 32 <= j
    BY <1>2, <1>3, <1>4, <1>5, SMTT(30) DEF Top
  <1>7. \A m \in inService : m \in Int
    BY <1>3, <1>5
  <1>8. ASSUME NEW m \in inService, \A j \in inService : m <= j
        PROVE  m = Top.vector - 32
    <2>1. m <= Top.vector - 32 /\ Top.vector - 32 <= m
      BY <1>6, <1>8
    <2> QED
      BY <1>6, <1>7, <2>1
  <1> QED
    BY <1>4, <1>6, <1>8 DEF Lowest

LEMMA HandlerIInv == IInv /\ HandlerStep => IInv'
  <1> SUFFICES ASSUME IInv, HandlerStep PROVE IInv'
    OBVIOUS
  <1> USE DEF IInv
  <1>1. /\ TypeOK /\ Len(stack) \in Nat
        /\ Open \subseteq 1..Len(stack)
        /\ \A d \in 1..Len(stack) : stack[d].vector \in Int
    BY StackFrames DEF PicMatchesStack
  <1>2. BootInv'
    <2>1. ~Booting
      BY DEF BootInv, HandlerStep, ReadScanCode, AddKey, Eoi, Return, Running
    <2> QED
      BY <2>1 DEF BootInv, Booting, HandlerStep, ReadScanCode, AddKey, Eoi, Return
  <1>3. CASE ReadScanCode \/ AddKey
    <2>1. PICK at \in {"addkey", "eoi"} : SetTop(at)
      BY <1>3 DEF ReadScanCode, AddKey
    <2>2. Running /\ Top.at \in OpenAt /\ inService' = inService
      BY <1>3 DEF ReadScanCode, AddKey, OpenAt, picVars
    <2>3. at \in At /\ at \in OpenAt
      BY DEF At, OpenAt
    <2>4. /\ stack' \in Seq(StackFrame)
          /\ Len(stack') = Len(stack) /\ Len(stack) # 0
          /\ \A d \in 1..Len(stack) : stack'[d].vector = stack[d].vector
          /\ Open' = (Open \ {Len(stack)}) \union {Len(stack)}
      BY <1>1, <2>1, <2>2, <2>3, TopSet
    <2>5. Open' = Open
      BY <1>1, <2>2, <2>4 DEF Open, OpenAt, Top
    <2>6. TypeOK'
      BY <1>1, <1>3, <2>4, ZenonT(60) DEF TypeOK, StackFrame, ReadScanCode, AddKey, picVars
    <2>7. inService' = {stack'[d].vector - 32 : d \in Open'}
      BY <1>1, <2>2, <2>4, <2>5, ZenonT(60) DEF PicMatchesStack
    <2>8. \A d, e \in Open' : d < e => stack'[e].vector < stack'[d].vector
      BY <1>1, <2>4, <2>5 DEF PicMatchesStack
    <2> QED
      BY <1>2, <2>6, <2>7, <2>8 DEF PicMatchesStack
  <1>4. CASE Eoi
    <2>1. Running /\ SetTop("return") /\ Top.at = "eoi"
      BY <1>4 DEF Eoi
    <2>2. /\ stack' \in Seq(StackFrame)
          /\ Len(stack') = Len(stack) /\ Len(stack) # 0
          /\ \A d \in 1..Len(stack) : stack'[d].vector = stack[d].vector
          /\ Open' = Open \ {Len(stack)}
      BY <1>1, <2>1, TopSet DEF At, OpenAt
    <2>3. inService' = inService \ {Top.vector - 32}
      BY <1>4, <2>1, TopIsLowest DEF Eoi
    <2>4. TypeOK'
      BY <1>1, <1>4, <2>2, <2>3 DEF TypeOK, StackFrame, Eoi
    <2>5. \A d \in Open : d # Len(stack) => stack[d].vector # Top.vector
      <3>1. \A d \in Open : d # Len(stack) => stack[d].vector > Top.vector
        BY <2>1, TopIsLowest
      <3> QED
        BY <1>1, <2>2, <3>1 DEF Top
    <2>6. Len(stack) \in Open
      BY <1>1, <2>1, <2>2 DEF Open, Top
    <2>7. inService' = {stack'[d].vector - 32 : d \in Open'}
      <3>2. {stack'[d].vector - 32 : d \in Open'}
                = {stack[d].vector - 32 : d \in Open \ {Len(stack)}}
        BY <1>1, <2>2, SMTT(30)
      <3>3. inService = {stack[d].vector - 32 : d \in Open}
        BY DEF PicMatchesStack
      <3>4. \A d \in Open \ {Len(stack)} : stack[d].vector - 32 # Top.vector - 32
        BY <1>1, <2>2, <2>5, SMTT(30) DEF Top
      <3> QED
        BY <2>3, <3>2, <3>3, <3>4, ZenonT(60) DEF Top
    <2>8. \A d, e \in Open' : d < e => stack'[e].vector < stack'[d].vector
      BY <1>1, <2>2 DEF PicMatchesStack
    <2> QED
      BY <1>2, <2>4, <2>7, <2>8 DEF PicMatchesStack
  <1>5. CASE Return
    <2>1. Running /\ Top.at = "return" /\ inService' = inService
      BY <1>5 DEF Return, picVars
    <2>2. /\ stack' \in Seq(StackFrame)
          /\ Len(stack') = Len(stack) - 1 /\ Len(stack) # 0
          /\ \A d \in 1..(Len(stack) - 1) : stack'[d] = stack[d]
          /\ Open' = Open \ {Len(stack)}
      BY <1>1, <1>5, Popped DEF Return
    <2>3. Open' = Open /\ Open \subseteq 1..(Len(stack) - 1)
      BY <1>1, <2>1, <2>2 DEF Open, Top
    <2>4. TypeOK'
      BY <1>1, <1>5, <2>2 DEF TypeOK, StackFrame, Return, picVars
    <2>5. inService' = {stack'[d].vector - 32 : d \in Open'}
      BY <2>1, <2>2, <2>3, SMTT(30) DEF PicMatchesStack
    <2>6. \A d, e \in Open' : d < e => stack'[e].vector < stack'[d].vector
      BY <2>2, <2>3 DEF PicMatchesStack
    <2> QED
      BY <1>2, <2>4, <2>5, <2>6 DEF PicMatchesStack
  <1> QED
    BY <1>3, <1>4, <1>5 DEF HandlerStep

-----------------------------------------------------------------------------
(* The main thread. *)

\* The steps of the set-up.
LEMMA BootIInv == IInv /\ Boot => IInv'
  <1> SUFFICES ASSUME IInv, Boot PROVE IInv'
    OBVIOUS
  <1> USE DEF IInv
  <1>1. Booting /\ stack = <<>> /\ stack' = stack /\ inService' = inService
    <2>1. Booting /\ stack' = stack /\ inService' \in {inService, {}}
      BY DEF Boot, InterruptsInit, ExceptionsInit, KbInit, TimerInit, Booting, picVars
    <2>2. stack = <<>>
      BY <2>1, Zenon DEF BootInv
    <2>3. inService = {}
      BY <2>2 DEF PicMatchesStack, Open
    <2> QED
      BY <2>1, <2>2, <2>3
  <1>2. /\ \A v \in Vectors : isr_table'[v] \in {HandlerFor(v), Null}
        /\ isr_table' \in [Vectors -> Handler \union {Null}]
    <2>1. CASE ExceptionsInit
      BY <2>1 DEF ExceptionsInit, PicMatchesStack, TypeOK, HandlerFor, Handler,
                  VectorOf, IRQ_TIMER, IRQ_KEYBOARD
    <2>2. CASE KbInit
      BY <2>2 DEF KbInit, PicMatchesStack, TypeOK, HandlerFor, Handler,
                  VectorOf, IRQ_TIMER, IRQ_KEYBOARD
    <2>3. CASE TimerInit
      BY <2>3 DEF TimerInit, PicMatchesStack, TypeOK, HandlerFor, Handler,
                  VectorOf, IRQ_TIMER, IRQ_KEYBOARD
    <2>4. CASE InterruptsInit
      BY <2>4 DEF InterruptsInit, PicMatchesStack, TypeOK
    <2> QED
      BY <2>1, <2>2, <2>3, <2>4 DEF Boot
  <1>3. mask' \subseteq Irq /\ requested' \subseteq Irq
    BY DEF Boot, InterruptsInit, ExceptionsInit, KbInit, TimerInit, picVars, irq_enable,
           IRQ_TIMER, IRQ_KEYBOARD, PicMatchesStack, TypeOK
  <1>4. UNCHANGED <<intFlag, kbdFull>>
        /\ pc' \in {"exceptions", "kb", "timer", "run"}
    BY DEF Boot, InterruptsInit, ExceptionsInit, KbInit, TimerInit
  <1>5. TypeOK'
    BY <1>1, <1>2, <1>3, <1>4, Zenon DEF PicMatchesStack, TypeOK
  <1>6. BootInv'
    <2>1. VectorOf(IRQ_TIMER) \in Vectors /\ VectorOf(IRQ_KEYBOARD) \in Vectors
          /\ VectorOf(IRQ_TIMER) # VectorOf(IRQ_KEYBOARD)
      BY DEF VectorOf, IRQ_TIMER, IRQ_KEYBOARD
    <2>2. isr_table \in [Vectors -> Handler \union {Null}]
      BY DEF PicMatchesStack, TypeOK
    <2>3. CASE InterruptsInit \/ ExceptionsInit
      BY <1>1, <2>3 DEF InterruptsInit, ExceptionsInit, BootInv, Booting
    <2>4. CASE KbInit \/ TimerInit
      BY <1>1, <2>1, <2>2, <2>4, ZenonT(60) DEF KbInit, TimerInit, BootInv, Booting
    <2> QED
      BY <2>3, <2>4 DEF Boot
  <1> QED
    BY <1>1, <1>5, <1>6, PicSame DEF PicMatchesStack

\* A software interrupt or an exception adds a frame that owes no EOI.
LEMMA SoftwareIInv ==
    ASSUME IInv, NEW v \in Vectors, SoftwareInterrupt(v)
    PROVE  IInv'
  <1> USE DEF IInv
  <1> DEFINE fr == Frame(v)
  <1>1. fr \in StackFrame /\ fr.at \notin OpenAt
    BY FrameType, SoftwareFrame DEF PicMatchesStack, SoftwareInterrupt, OpenAt
  <1>2. stack' = Append(stack, fr) /\ inService' = inService
    BY DEF SoftwareInterrupt, picVars
  <1> HIDE DEF fr
  <1>3. /\ stack' \in Seq(StackFrame)
        /\ Len(stack') = Len(stack) + 1
        /\ \A d \in 1..Len(stack) : stack'[d] = stack[d]
        /\ Open' = Open
    BY <1>1, <1>2, Pushed, ZenonT(60) DEF PicMatchesStack
  <1>4. Len(stack) \in Nat /\ Open \subseteq 1..Len(stack)
    BY StackFrames DEF PicMatchesStack
  <1>5. TypeOK'
    <2>1. Len(stack') <= MaxDepth
      BY <1>3, <1>4 DEF SoftwareInterrupt
    <2>2. pc' \in {"run", "fatal"}
      BY DEF SoftwareInterrupt
    <2> QED
      BY <1>3, <2>1, <2>2, Zenon DEF PicMatchesStack, TypeOK, SoftwareInterrupt, StackFrame,
         picVars
  <1>6. inService' = {stack'[d].vector - 32 : d \in Open'}
    BY <1>2, <1>3, <1>4 DEF PicMatchesStack
  <1>7. \A d, e \in Open' : d < e => stack'[e].vector < stack'[d].vector
    BY <1>3, <1>4 DEF PicMatchesStack
  <1>8. BootInv'
    BY DEF BootInv, Booting, SoftwareInterrupt, MainRuns
  <1> QED
    BY <1>5, <1>6, <1>7, <1>8 DEF PicMatchesStack

\* What else the main thread does leaves the stack and the register alone.
LEMMA MainIInv ==
    ASSUME DevicesServed, IInv, Main
    PROVE  IInv'
  <1> USE DEF IInv
  <1>1. CASE EnableInterrupts \/ DisableInterrupts
    <2>1. /\ intFlag' \in BOOLEAN /\ ~Booting /\ ~Booting'
          /\ UNCHANGED <<isr_table, mask, requested, inService, stack, pc, kbdFull>>
      BY <1>1 DEF EnableInterrupts, DisableInterrupts, MainRuns, Booting, picVars
    <2>2. TypeOK'
      BY <2>1, Zenon DEF PicMatchesStack, TypeOK
    <2> QED
      BY <2>1, <2>2, PicSame DEF PicMatchesStack, BootInv
  <1>2. CASE \/ \E irq \in EnableIrqs : EnableIrq(irq)
             \/ \E irq \in DisableIrqs : DisableIrq(irq)
    <2>1. /\ mask' \subseteq Irq /\ ~Booting /\ ~Booting'
          /\ UNCHANGED <<isr_table, requested, inService, stack, intFlag, pc, kbdFull>>
      <3>1. /\ ~Booting /\ ~Booting'
            /\ UNCHANGED <<isr_table, requested, inService, stack, intFlag, pc, kbdFull>>
        BY <1>2 DEF EnableIrq, DisableIrq, MainRuns, Booting
      <3>2. mask \subseteq Irq
        BY DEF PicMatchesStack, TypeOK
      <3>3. \A irq \in EnableIrqs : irq_enable(irq) \subseteq Irq
        BY <3>2 DEF irq_enable
      <3>4. \A irq \in DisableIrqs : irq_disable(irq) \subseteq Irq
        BY <3>2 DEF irq_disable, Irq
      <3>5. mask' \subseteq Irq
        BY <1>2, <3>3, <3>4 DEF EnableIrq, DisableIrq
      <3> QED
        BY <3>1, <3>5
    <2>2. TypeOK'
      BY <2>1, Zenon DEF PicMatchesStack, TypeOK
    <2> QED
      BY <2>1, <2>2, PicSame DEF PicMatchesStack, BootInv
  <1>3. ASSUME NEW v \in NullVectors, IsrSetNull(v) PROVE IInv'
    <2>1. /\ ~Booting /\ ~Booting'
          /\ isr_table' = [isr_table EXCEPT ![v] = Null]
          /\ UNCHANGED <<mask, requested, inService, stack, intFlag, pc, kbdFull>>
      BY <1>3 DEF IsrSetNull, MainRuns, Booting, picVars
    <2>2. /\ isr_table' \in [Vectors -> Handler \union {Null}]
          /\ \A u \in Vectors : isr_table'[u] \in {HandlerFor(u), Null}
      BY <2>1 DEF PicMatchesStack, TypeOK
    <2>3. TypeOK'
      BY <2>1, <2>2, Zenon DEF PicMatchesStack, TypeOK
    <2>4. BootInv'
      BY <2>1 DEF BootInv, DevicesServed, PicMatchesStack, TypeOK
    <2> QED
      BY <2>1, <2>3, <2>4, PicSame DEF PicMatchesStack
  <1>4. CASE Halt \/ FatalReturns
    <2>1. /\ pc' \in {"halted", "run"} /\ ~Booting /\ ~Booting'
          /\ UNCHANGED <<isr_table, mask, requested, inService, stack, intFlag, kbdFull>>
      BY <1>4 DEF Halt, FatalReturns, MainRuns, Booting, picVars
    <2>2. TypeOK'
      BY <2>1, Zenon DEF PicMatchesStack, TypeOK
    <2> QED
      BY <2>1, <2>2, PicSame DEF PicMatchesStack, BootInv
  <1> QED
    BY <1>1, <1>2, <1>3, <1>4, BootIInv, SoftwareIInv DEF Main

-----------------------------------------------------------------------------
(* The theorems. *)

LEMMA InitIInv == Init => IInv
  <1> SUFFICES ASSUME Init PROVE IInv
    OBVIOUS
  <1>1. stack \in Seq(StackFrame) /\ Len(stack) = 0 /\ Open = {}
    BY DEF Init, Open
  <1>2. TypeOK
    <2>1. /\ isr_table \in [Vectors -> Handler \union {Null}]
          /\ \A v \in Vectors : isr_table[v] \in {HandlerFor(v), Null}
      BY DEF Init
    <2>2. Len(stack) <= MaxDepth
      BY <1>1
    <2> QED
      BY <1>1, <2>1, <2>2, Zenon DEF Init, TypeOK, StackFrame
  <1>3. inService = {stack[d].vector - 32 : d \in Open}
    BY <1>1 DEF Init
  <1> QED
    BY <1>1, <1>2, <1>3 DEF IInv, PicMatchesStack, BootInv, Booting, Init

LEMMA NextIInv == DevicesServed /\ IInv /\ [Next]_vars => IInv'
  <1>1. IInv /\ UNCHANGED vars => IInv'
    <2> SUFFICES ASSUME IInv, UNCHANGED vars PROVE IInv'
      OBVIOUS
    <2>1. TypeOK' /\ BootInv'
      BY DEF IInv, PicMatchesStack, TypeOK, BootInv, Booting, vars, picVars
    <2> QED
      BY <2>1, PicSame DEF IInv, PicMatchesStack, vars, picVars
  <1> QED
    BY <1>1, RaiseIInv, DeliverIInv, HandlerIInv, MainIInv DEF Next, DeliverAny

\* The controller has in service exactly the interrupts whose handlers are
\* still to acknowledge, nested from less to more urgent, however deep they
\* nest, whatever is masked and whichever other handlers are taken away.
THEOREM PicCorrect ==
    ASSUME DevicesServed
    PROVE  Spec => []PicMatchesStack
  <1>1. IInv => PicMatchesStack
    BY DEF IInv
  <1>2. IInv /\ [Next]_vars => IInv'
    BY NextIInv
  <1> QED
    BY <1>1, <1>2, InitIInv, PTL DEF Spec

\* A byte is left unannounced by one step at most, the set-up of the
\* controllers: every delivery starts a handler that will read.
LEMMA StepAnnounces ==
    ASSUME IInv, Next, Stuck', ~Stuck
    PROVE  InterruptsInit
  <1> SUFFICES ASSUME ~InterruptsInit PROVE FALSE
    OBVIOUS
  <1> DEFINE Reading == \E d \in 1..Len(stack) : stack[d].at = "read"
  <1>1. /\ kbdFull' /\ IRQ_KEYBOARD \notin requested' /\ ~Reading'
        /\ kbdFull => IRQ_KEYBOARD \in requested \/ Reading
    BY DEF Stuck
  <1>2. TypeOK /\ Len(stack) \in Nat
    BY StackFrames DEF IInv, PicMatchesStack
  <1> HIDE DEF Reading
  <1>3. CASE RaiseTimer \/ RaiseKeyboard
    BY <1>1, <1>3 DEF RaiseTimer, RaiseKeyboard, Reading
  <1>4. ASSUME NEW i \in {IRQ_TIMER, IRQ_KEYBOARD}, Deliver(i) PROVE FALSE
    <2>1. VectorOf(i) \in Vectors
      BY DEF VectorOf, IRQ_TIMER, IRQ_KEYBOARD
    <2>2. ~Booting
      BY <1>4 DEF IInv, BootInv, Deliver, InterruptsOn, Running
    <2>3. /\ \A d \in 1..Len(stack) : stack'[d] = stack[d]
          /\ stack'[Len(stack) + 1] = Frame(VectorOf(i))
          /\ Len(stack') = Len(stack) + 1
      BY <1>2, <1>4, <2>1, FrameType, Pushed DEF Deliver
    <2>4. Reading => Reading'
      BY <1>2, <2>3 DEF Reading
    <2>5. i = IRQ_KEYBOARD => Reading'
      BY <1>2, <2>2, <2>3, DeviceFrame DEF Reading, IInv
    <2>6. requested' = requested \ {i} /\ kbdFull' = kbdFull
      BY <1>4 DEF Deliver
    <2> QED
      BY <1>1, <2>4, <2>5, <2>6
  <1>5. CASE ReadScanCode
    BY <1>1, <1>5 DEF ReadScanCode
  <1>6. ASSUME NEW at \in {"eoi", "return"}, Running, Top.at # "read", SetTop(at),
               UNCHANGED <<requested, kbdFull>>
        PROVE  FALSE
    <2>1. /\ Len(stack') = Len(stack)
          /\ \A d \in 1..Len(stack) : d # Len(stack) => stack'[d] = stack[d]
      BY <1>2, <1>6, TopSet DEF At
    <2>2. Reading => Reading'
      BY <1>2, <1>6, <2>1 DEF Reading, Top
    <2> QED
      BY <1>1, <1>6, <2>2
  <1>7. CASE AddKey
    BY <1>6, <1>7 DEF AddKey, picVars
  <1>8. CASE Eoi
    BY <1>6, <1>8 DEF Eoi
  <1>9. CASE Return
    <2>1. Running /\ Top.at = "return" /\ UNCHANGED <<requested, kbdFull>>
      BY <1>9 DEF Return, picVars
    <2>2. /\ Len(stack') = Len(stack) - 1
          /\ \A d \in 1..(Len(stack) - 1) : stack'[d] = stack[d]
      BY <1>2, <1>9, Popped DEF Return
    <2>3. Reading => Reading'
      BY <1>2, <2>1, <2>2 DEF Reading, Top
    <2> QED
      BY <1>1, <2>1, <2>3
  <1>10. ASSUME NEW v \in Vectors, SoftwareInterrupt(v) PROVE FALSE
    <2>1. /\ \A d \in 1..Len(stack) : stack'[d] = stack[d]
          /\ Len(stack') = Len(stack) + 1
      BY <1>2, <1>10, FrameType, Pushed DEF SoftwareInterrupt
    <2>2. Reading => Reading'
      BY <1>2, <2>1 DEF Reading
    <2> QED
      BY <1>1, <1>10, <2>2 DEF SoftwareInterrupt, picVars
  <1>11. ASSUME UNCHANGED <<requested, stack, kbdFull>> PROVE FALSE
    BY <1>1, <1>11 DEF Reading
  <1> QED
    BY <1>3, <1>4, <1>5, <1>7, <1>8, <1>9, <1>10, <1>11
    DEF Next, DeliverAny, HandlerStep, Main, Boot, ExceptionsInit, KbInit, TimerInit,
        EnableInterrupts, DisableInterrupts, Halt, EnableIrq, DisableIrq, IsrSetNull,
        FatalReturns, picVars

\* Only the set-up of the controllers can leave a byte of the keyboard
\* unannounced; masking, nesting and halting never do.
THEOREM BytesAnnounced ==
    ASSUME DevicesServed
    PROVE  Spec => AnnouncedUnlessBoot
  <1>1. IInv /\ [Next]_vars => IInv'
    BY NextIInv
  <1>2. IInv /\ [Next]_vars => [Stuck' /\ ~Stuck => InterruptsInit]_vars
    BY StepAnnounces
  <1> QED
    BY <1>1, <1>2, InitIInv, PTL DEF Spec, AnnouncedUnlessBoot
===============================================================================
