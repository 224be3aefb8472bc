--------------------------- MODULE KeyboardProofs ---------------------------
(***************************************************************************)
(* For every buffer size, keyboard and set of layouts: the driver's state  *)
(* keeps to its type, the occupied slots of the ring are where the two     *)
(* sides believe they are, and the driver implements the bounded queue.    *)
(***************************************************************************)
EXTENDS Keyboard, SequenceTheorems, TLAPS

USE BufsizAssumption

\* An advanced index is a slot again.
LEMMA WrapSlot == \A i \in 0..(2 * MAX_BUFSIZ - 1) : Wrap(i) \in Slot
  BY DEF Wrap, Slot

LEMMA KeyCodes ==
    ASSUME NEW sc \in ScanCode, TypeOK
    PROVE  /\ ukeycode(sc) \in KeyCode
           /\ keycode(sc) \in KeyCode
  BY LayoutAssumption DEF TypeOK, ukeycode, keycode

LEMMA CharType ==
    ASSUME NEW kc \in KeyCode, NEW ukc \in KeyCode, NEW m
    PROVE  Char(kc, ukc, m) \in KeyCode
  BY DEF Char, KeyCode, IsLetter

\* What a run of the interrupt routine may do to the driver: leave the buffer
\* alone, refuse a key because it is full, or append one key.
Appends(k) ==
    /\ buf_size < MAX_BUFSIZ
    /\ buf' = [buf EXCEPT ![buf_tail] = k]
    /\ buf_tail' = Wrap(buf_tail + 1)
    /\ buf_size' = buf_size + 1
    /\ outcome' = "stored"

Refuses ==
    /\ buf_size = MAX_BUFSIZ
    /\ outcome' = "refused"
    /\ UNCHANGED <<buf, buf_tail, buf_size>>

LEMMA AddKeyEffect ==
    ASSUME TypeOK,
           NEW brk \in {KEYBRK_DOWN, KEYBRK_UP}, NEW m \in SUBSET MetaFlag,
           NEW code \in KeyCode, NEW ch \in KeyCode,
           addkey(brk, m, code, ch)
    PROVE  /\ meta' \in SUBSET MetaFlag
           /\ Refuses \/ \E k \in Key : Appends(k)
  <1>1. meta' \in SUBSET MetaFlag
    BY DEF addkey
  <1>2. CASE buf_size = MAX_BUFSIZ
    BY <1>1, <1>2 DEF addkey, refuse, Refuses
  <1>3. CASE buf_size # MAX_BUFSIZ
    <2> DEFINE k == [brk |-> brk, meta |-> m, code |-> code, ch |-> ch]
    <2>1. k \in Key
      BY DEF Key
    <2>2. Appends(k)
      BY <1>3 DEF addkey, store, Appends, TypeOK
    <2> QED
      BY <1>1, <2>1, <2>2
  <1> QED
    BY <1>2, <1>3

LEMMA IsrEffect ==
    ASSUME TypeOK, NEW sc \in ScanCode, NEW keyup \in BOOLEAN,
           isr_keyboard(sc, keyup)
    PROVE  /\ meta' \in SUBSET MetaFlag
           /\ UNCHANGED keyVars \/ Refuses \/ \E k \in Key : Appends(k)
  <1>1. CASE ScanEscape(sc)
    BY <1>1 DEF ScanEscape, TypeOK, MetaFlag
  <1>2. CASE KeyUp(sc)
    <2> DEFINE released == meta \ FlagsOf(keycode(sc), HoldFlag)
               m == toggle(released, FlagsOf(keycode(sc), LockFlag))
    <2>1. m \in SUBSET MetaFlag
      BY DEF TypeOK, FlagsOf, toggle, MetaFlag
    <2>2. addkey(KEYBRK_UP, m, ukeycode(sc), 0)
      BY <1>2 DEF KeyUp
    <2>3. ukeycode(sc) \in KeyCode /\ 0 \in KeyCode
      BY KeyCodes DEF KeyCode
    <2> HIDE DEF m
    <2> QED
      BY <2>1, <2>2, <2>3, AddKeyEffect
  <1>3. CASE KeyDown(sc)
    <2> DEFINE m == meta \union FlagsOf(keycode(sc), HoldFlag)
               ch == Char(keycode(sc), ukeycode(sc), m)
    <2>1. m \in SUBSET MetaFlag
      BY DEF TypeOK, FlagsOf, MetaFlag
    <2>2. addkey(KEYBRK_DOWN, m, ukeycode(sc), ch)
      BY <1>3 DEF KeyDown
    <2>3. ukeycode(sc) \in KeyCode /\ ch \in KeyCode
      BY KeyCodes, CharType
    <2> HIDE DEF m, ch
    <2> QED
      BY <2>1, <2>2, <2>3, AddKeyEffect
  <1> QED
    BY <1>1, <1>2, <1>3 DEF isr_keyboard

\* What one interrupt changes, seen from the main thread.
LEMMA InterruptEffect ==
    ASSUME TypeOK, Interrupt
    PROVE  /\ meta' \in SUBSET MetaFlag
           /\ held' \in SUBSET PhysKeys
           /\ wire' \in SUBSET [key : PhysKeys, up : BOOLEAN]
           /\ UNCHANGED mainVars
           /\ UNCHANGED keyVars \/ Refuses \/ \E k \in Key : Appends(k)
  <1> PICK k \in PhysKeys, up \in BOOLEAN : PrefixByte(k, up) \/ CodeByte(k, up)
    BY DEF Interrupt
  <1>1. PREFIX \in ScanCode /\ k.code \in ScanCode
    BY PhysKeysAssumption DEF PREFIX, ScanCode
  <1>2. CASE PrefixByte(k, up)
    <2>1. isr_keyboard(PREFIX, TRUE)
      BY <1>2 DEF PrefixByte
    <2>2. /\ meta' \in SUBSET MetaFlag
          /\ UNCHANGED keyVars \/ Refuses \/ \E key \in Key : Appends(key)
      BY <1>1, <2>1, IsrEffect
    <2> QED
      BY <1>2, <2>2 DEF PrefixByte, TypeOK
  <1>3. CASE CodeByte(k, up)
    BY <1>1, <1>3, IsrEffect DEF CodeByte, TypeOK
  <1> QED
    BY <1>2, <1>3

-----------------------------------------------------------------------------
IInv == TypeOK /\ RingInv

LEMMA InitIInv == Init => IInv
  <1> SUFFICES ASSUME Init PROVE IInv
    OBVIOUS
  <1>1. ZeroKey \in Key
    BY DEF ZeroKey, Key, KeyCode
  <1>2. TypeOK
    <2>1. layout \in [shifted : Layouts, unshifted : Layouts]
      BY LayoutAssumption DEF Init
    <2> QED
      BY <1>1, <2>1 DEF Init, TypeOK, Slot
  <1>3. RingInv
    BY DEF Init, RingInv, First, Wrap
  <1> QED
    BY <1>2, <1>3 DEF IInv

\* The occupied slots grow at buf_tail only, which is never the slot a call
\* is reading.
LEMMA InterruptIInv == IInv /\ Interrupt => IInv'
  <1> SUFFICES ASSUME TypeOK, RingInv, Interrupt PROVE IInv'
    BY DEF IInv
  <1>1. /\ meta' \in SUBSET MetaFlag
        /\ held' \in SUBSET PhysKeys
        /\ wire' \in SUBSET [key : PhysKeys, up : BOOLEAN]
        /\ UNCHANGED mainVars
    BY InterruptEffect
  <1>2. First' = First /\ First \in Slot
    BY <1>1 DEF First, mainVars, TypeOK, Slot
  <1>3. CASE UNCHANGED keyVars
    <2>1. TypeOK'
      BY <1>1, <1>3 DEF TypeOK, mainVars, keyVars
    <2>2. RingInv'
      BY <1>1, <1>2, <1>3 DEF RingInv, mainVars, keyVars
    <2> QED
      BY <2>1, <2>2 DEF IInv
  <1>4. CASE Refuses
    <2>1. TypeOK'
      BY <1>1, <1>4 DEF TypeOK, mainVars, Refuses
    <2>2. RingInv'
      BY <1>1, <1>2, <1>4 DEF RingInv, mainVars, Refuses
    <2> QED
      BY <2>1, <2>2 DEF IInv
  <1>5. CASE \E k \in Key : Appends(k)
    <2> PICK k \in Key : Appends(k)
      BY <1>5
    <2>1. buf_tail' \in Slot /\ buf_size' \in 0..MAX_BUFSIZ
      BY DEF Appends, TypeOK, Slot, Wrap
    <2>2. TypeOK'
      BY <1>1, <2>1 DEF TypeOK, mainVars, Appends
    <2>3. buf_tail' = Wrap(First' + buf_size')
      BY <1>2 DEF Appends, TypeOK, RingInv, Slot, Wrap
    <2>4. buf_tail # First \/ buf_size = 0
      BY <1>2 DEF Appends, TypeOK, RingInv, Slot, Wrap
    <2>5. pc' = "release" => got' = buf'[First']
      BY <1>1, <1>2, <2>4 DEF Appends, TypeOK, RingInv, mainVars, Slot
    <2>6. pc' \in {"pull", "release"} => buf_size' > 0
      BY DEF Appends, TypeOK
    <2>7. op' = "none" <=> pc' \in {"idle", "copy"}
      BY <1>1 DEF RingInv, mainVars
    <2> QED
      BY <2>2, <2>3, <2>5, <2>6, <2>7 DEF IInv, RingInv
  <1> QED
    BY <1>3, <1>4, <1>5, InterruptEffect

\* The main thread's own steps.
LEMMA MainIInv ==
    ASSUME IInv,
           \/ \E o \in {"key", "char"} : Call(o)
           \/ \E l \in Layouts : CopyShifted(l)
           \/ Step
    PROVE  IInv'
  <1> USE DEF IInv, isrVars, keyVars
  <1>1. ASSUME NEW o \in {"key", "char"}, Call(o) PROVE IInv'
    BY <1>1 DEF Call, TypeOK, RingInv, First
  <1>2. ASSUME NEW l \in Layouts, CopyShifted(l) PROVE IInv'
    <2>1. layout' \in [shifted : Layouts, unshifted : Layouts]
      BY <1>2 DEF CopyShifted, TypeOK
    <2> QED
      BY <1>2, <2>1 DEF CopyShifted, TypeOK, RingInv, First
  <1>3. CASE CopyUnshifted
    <2>1. layout' \in [shifted : Layouts, unshifted : Layouts]
      BY <1>3 DEF CopyUnshifted, TypeOK
    <2> QED
      BY <1>3, <2>1 DEF CopyUnshifted, TypeOK, RingInv, First
  <1>4. CASE CheckEmpty
    BY <1>4 DEF CheckEmpty, TypeOK, RingInv, First
  <1>5. CASE CheckNonEmpty
    BY <1>5 DEF CheckNonEmpty, TypeOK, RingInv, First
  <1>6. CASE Pull
    <2>1. buf_head' \in Slot /\ got' \in Key
      BY <1>6 DEF Pull, TypeOK, Wrap, Slot
    <2>2. First' = First
      BY <1>6 DEF Pull, First, TypeOK, Wrap, Slot
    <2>3. First = buf_head
      BY <1>6 DEF Pull, First
    <2> QED
      BY <1>6, <2>1, <2>2, <2>3 DEF Pull, TypeOK, RingInv
  <1>7. CASE Release
    <2>1. ZeroKey \in Key
      BY DEF ZeroKey, Key, KeyCode
    <2>2. buf_size' \in 0..MAX_BUFSIZ
      BY <1>7 DEF Release, TypeOK, RingInv
    <2>3. TypeOK'
      BY <1>7, <2>1, <2>2 DEF Release, TypeOK
    <2>4. First' = buf_head
      BY <1>7 DEF Release, First
    <2>5. buf_tail' = Wrap(First' + buf_size')
      BY <1>7, <2>4 DEF Release, RingInv, TypeOK, First, Wrap, Slot
    <2>6. op' = "none" <=> pc' \in {"idle", "copy"}
      BY <1>7 DEF Release, RingInv
    <2>7. pc' \notin {"pull", "release"}
      BY <1>7 DEF Release
    <2> QED
      BY <2>3, <2>5, <2>6, <2>7 DEF RingInv
  <1> QED
    BY <1>1, <1>2, <1>3, <1>4, <1>5, <1>6, <1>7 DEF Step

LEMMA NextIInv == IInv /\ [Next]_vars => IInv'
  <1>1. IInv /\ UNCHANGED vars => IInv'
    BY DEF IInv, TypeOK, RingInv, First, vars
  <1> QED
    BY <1>1, InterruptIInv, MainIInv DEF Next

\* The type invariant, for every buffer size.
THEOREM TypeCorrect == Spec => []TypeOK
  <1>1. IInv => TypeOK
    BY DEF IInv
  <1> QED
    BY <1>1, InitIInv, NextIInv, PTL DEF Spec

\* The ring's indices and count agree however interrupts fall between the
\* steps of kb_getkey and kb_getchar, for every buffer size.
THEOREM RingCorrect == Spec => []RingInv
  <1>1. IInv => RingInv
    BY DEF IInv
  <1> QED
    BY <1>1, InitIInv, NextIInv, PTL DEF Spec

-----------------------------------------------------------------------------
(* The refinement of KeyQueue. *)

LEMMA FirstSlot == TypeOK => First \in Slot
  BY DEF TypeOK, First, Slot

QueueFacts ==
    /\ queue \in Seq(Key)
    /\ Len(queue) = buf_size
    /\ \A i \in 1..buf_size : queue[i] = buf[Wrap(First + (i - 1))]

LEMMA QueueType == TypeOK => QueueFacts
  <1> SUFFICES ASSUME TypeOK PROVE QueueFacts
    OBVIOUS
  <1>1. ASSUME NEW i \in 1..buf_size
        PROVE  buf[Wrap(First + (i - 1))] \in Key
    <2>1. Wrap(First + (i - 1)) \in Slot
      BY FirstSlot DEF TypeOK, Slot, Wrap
    <2> QED
      BY <2>1 DEF TypeOK
  <1>2. buf_size \in Nat
    BY DEF TypeOK
  <1> QED
    BY <1>1, <1>2 DEF queue, QueueFacts

LEMMA QueueTypeNext == TypeOK' => QueueFacts'
  BY QueueType, PTL

\* A queue is empty exactly when the count says so, and its head is the
\* oldest slot.
LEMMA QueueHead ==
    ASSUME TypeOK
    PROVE  /\ (queue = <<>>) <=> (buf_size = 0)
           /\ buf_size > 0 => Head(queue) = buf[First]
  <1>1. (queue = <<>>) <=> (buf_size = 0)
    BY QueueType DEF QueueFacts, TypeOK
  <1>2. ASSUME buf_size > 0 PROVE Head(queue) = buf[First]
    <2>1. Head(queue) = queue[1]
      BY <1>1, <1>2, QueueType DEF QueueFacts
    <2>2. queue[1] = buf[Wrap(First + 0)]
      BY <1>2, QueueType DEF QueueFacts, TypeOK
    <2>3. Wrap(First + 0) = First
      BY FirstSlot DEF Wrap, Slot
    <2> QED
      BY <2>1, <2>2, <2>3
  <1> QED
    BY <1>1, <1>2

\* While the oldest slot, the count and the slots stay, so does the queue.
LEMMA QueueSame ==
    ASSUME First' = First, UNCHANGED <<buf, buf_size>>
    PROVE  queue' = queue
  BY DEF queue, Wrap

LEMMA QueueAppends ==
    ASSUME IInv, IInv', First' = First, NEW k \in Key, Appends(k)
    PROVE  queue' = Append(queue, k)
  <1> USE DEF IInv
  <1>1. /\ queue \in Seq(Key)
        /\ Len(queue) = buf_size
        /\ \A i \in 1..buf_size : queue[i] = buf[Wrap(First + (i - 1))]
    BY QueueType DEF QueueFacts
  <1>2. /\ queue' \in Seq(Key)
        /\ Len(queue') = buf_size'
        /\ \A i \in 1..buf_size' : queue'[i] = buf'[Wrap(First + (i - 1))]
    BY QueueTypeNext DEF QueueFacts
  <1>3. buf_size' = buf_size + 1 /\ buf_size \in Nat
    BY DEF Appends, TypeOK
  <1>4. ASSUME NEW i \in 1..buf_size
        PROVE  queue'[i] = queue[i]
    <2>1. Wrap(First + (i - 1)) # buf_tail /\ Wrap(First + (i - 1)) \in Slot
      <3>1. First \in 0..(MAX_BUFSIZ - 1) /\ buf_tail = Wrap(First + buf_size)
        BY FirstSlot DEF RingInv, Slot
      <3>2. buf_size < MAX_BUFSIZ /\ i \in 1..buf_size
        BY DEF Appends
      <3> QED
        BY <1>3, <3>1, <3>2 DEF Wrap, Slot
    <2> QED
      BY <1>1, <1>2, <1>3, <2>1, SMTT(30) DEF Appends, TypeOK
  <1>5. queue'[buf_size + 1] = k
    <2>1. Wrap(First + buf_size) = buf_tail
      BY DEF RingInv
    <2>2. queue'[buf_size + 1] = buf'[Wrap(First + ((buf_size + 1) - 1))]
      BY <1>2, <1>3
    <2>3. (buf_size + 1) - 1 = buf_size
      BY <1>3
    <2> QED
      BY <2>1, <2>2, <2>3 DEF Appends, TypeOK
  <1>6. /\ Append(queue, k) \in Seq(Key)
        /\ Len(Append(queue, k)) = buf_size + 1
        /\ \A i \in 1..buf_size : Append(queue, k)[i] = queue[i]
        /\ Append(queue, k)[buf_size + 1] = k
    BY <1>1, AppendProperties
  <1>7. \A i \in 1..(buf_size + 1) : queue'[i] = Append(queue, k)[i]
    BY <1>3, <1>4, <1>5, <1>6
  <1> QED
    BY <1>2, <1>3, <1>6, <1>7, SeqEqual

LEMMA QueueRelease ==
    ASSUME IInv, IInv', Release
    PROVE  /\ queue # <<>>
           /\ Head(queue) = got
           /\ queue' = Tail(queue)
  <1> USE DEF IInv
  <1>1. /\ queue \in Seq(Key)
        /\ Len(queue) = buf_size
        /\ \A i \in 1..buf_size : queue[i] = buf[Wrap(First + (i - 1))]
    BY QueueType DEF QueueFacts
  <1>2. /\ queue' \in Seq(Key)
        /\ Len(queue') = buf_size'
        /\ \A i \in 1..buf_size' : queue'[i] = buf'[Wrap(First' + (i - 1))]
    BY QueueTypeNext DEF QueueFacts
  <1>3. buf_size > 0 /\ got = buf[First] /\ buf_size \in 0..MAX_BUFSIZ
    BY DEF Release, RingInv, TypeOK
  <1>4. queue # <<>> /\ Head(queue) = got
    BY <1>3, QueueHead
  <1>5. /\ Tail(queue) \in Seq(Key)
        /\ Len(Tail(queue)) = buf_size - 1
        /\ \A i \in 1..Len(Tail(queue)) : Tail(queue)[i] = queue[i + 1]
    BY <1>1, <1>4, HeadTailProperties
  <1>6. buf_size' = buf_size - 1 /\ buf' = buf /\ First' = Wrap(First + 1)
    BY DEF Release, First, Wrap, TypeOK, Slot
  <1>7. ASSUME NEW i \in 1..(buf_size - 1)
        PROVE  queue'[i] = Tail(queue)[i]
    <2>1. Wrap(First' + (i - 1)) = Wrap(First + ((i + 1) - 1))
      BY <1>3, <1>6, FirstSlot DEF Wrap, Slot
    <2>2. i \in 1..buf_size' /\ i + 1 \in 1..buf_size
      BY <1>3, <1>6
    <2>3. queue'[i] = buf[Wrap(First' + (i - 1))]
      BY <1>2, <1>6, <2>2
    <2>4. queue[i + 1] = buf[Wrap(First + ((i + 1) - 1))]
      BY <1>1, <2>2
    <2> QED
      BY <1>5, <2>1, <2>3, <2>4
  <1> QED
    BY <1>2, <1>4, <1>5, <1>6, <1>7, SeqEqual

LEMMA InitRefines == Init => KQ!Init
  BY QueueHead, InitIInv DEF IInv, Init, KQ!Init

LEMMA InterruptRefines ==
    ASSUME IInv, IInv', Interrupt
    PROVE  KQ!Offer \/ KQ!Refuse \/ UNCHANGED KQ!vars
  <1>1. /\ UNCHANGED mainVars
        /\ UNCHANGED keyVars \/ Refuses \/ \E k \in Key : Appends(k)
    BY InterruptEffect DEF IInv
  <1>2. First' = First
    BY <1>1 DEF First, mainVars
  <1>3. CASE UNCHANGED keyVars
    BY <1>1, <1>2, <1>3, QueueSame DEF mainVars, keyVars, KQ!vars
  <1>4. CASE Refuses
    <2>1. Len(queue) = MAX_BUFSIZ
      BY <1>4, QueueType DEF QueueFacts, Refuses, IInv
    <2> QED
      BY <1>1, <1>2, <1>4, <2>1, QueueSame DEF Refuses, mainVars, KQ!Refuse
  <1>5. CASE \E k \in Key : Appends(k)
    <2> PICK k \in Key : Appends(k)
      BY <1>5
    <2>1. queue' = Append(queue, k)
      BY <1>2, QueueAppends
    <2>2. queue \in Seq(Key) /\ Len(queue) = buf_size /\ buf_size < MAX_BUFSIZ
      BY QueueType DEF QueueFacts, IInv, Appends
    <2>3. /\ Len(queue') = Len(queue) + 1
          /\ queue'[Len(queue) + 1] = k
      BY <2>1, <2>2, AppendProperties
    <2> QED
      BY <1>1, <2>1, <2>2, <2>3 DEF KQ!Offer, Appends, mainVars
  <1> QED
    BY <1>1, <1>3, <1>4, <1>5

LEMMA MainRefines ==
    ASSUME IInv, IInv',
           \/ \E o \in {"key", "char"} : Call(o)
           \/ \E l \in Layouts : CopyShifted(l)
           \/ Step
    PROVE  [KQ!Next]_(KQ!vars)
  <1> USE DEF isrVars, keyVars
  <1>1. ASSUME NEW o \in {"key", "char"}, Call(o) PROVE KQ!Call(o)
    <2>1. First' = First
      BY <1>1 DEF Call, First
    <2> QED
      BY <1>1, <2>1, QueueSame DEF Call, KQ!Call, RingInv, IInv
  <1>2. ASSUME NEW l \in Layouts, CopyShifted(l) PROVE UNCHANGED KQ!vars
    <2>1. First' = First
      BY <1>2 DEF CopyShifted, First
    <2> QED
      BY <1>2, <2>1, QueueSame DEF CopyShifted, KQ!vars
  <1>3. ASSUME CopyUnshifted PROVE UNCHANGED KQ!vars
    <2>1. First' = First
      BY <1>3 DEF CopyUnshifted, First
    <2> QED
      BY <1>3, <2>1, QueueSame DEF CopyUnshifted, KQ!vars
  <1>4. ASSUME CheckEmpty PROVE KQ!ReportEmpty
    <2>1. First' = First
      BY <1>4 DEF CheckEmpty, First
    <2>2. queue = <<>>
      BY <1>4, QueueHead DEF CheckEmpty, IInv
    <2> QED
      BY <1>4, <2>1, <2>2, QueueSame DEF CheckEmpty, KQ!ReportEmpty, RingInv, IInv
  <1>5. ASSUME CheckNonEmpty PROVE UNCHANGED KQ!vars
    <2>1. First' = First
      BY <1>5 DEF CheckNonEmpty, First
    <2> QED
      BY <1>5, <2>1, QueueSame DEF CheckNonEmpty, KQ!vars
  <1>6. ASSUME Pull PROVE UNCHANGED KQ!vars
    <2>1. First' = First
      BY <1>6 DEF Pull, First, IInv, TypeOK, Wrap, Slot
    <2> QED
      BY <1>6, <2>1, QueueSame DEF Pull, KQ!vars
  <1>7. ASSUME Release PROVE KQ!Take \/ KQ!Skip
    <2>1. queue # <<>> /\ Head(queue) = got /\ queue' = Tail(queue)
      BY <1>7, QueueRelease
    <2>2. op \in {"key", "char"} /\ got \in Key
      BY <1>7 DEF Release, IInv, TypeOK, RingInv
    <2>3. CASE op = "key" \/ got.ch # 0
      BY <1>7, <2>1, <2>2, <2>3 DEF Release, KQ!Take
    <2>4. CASE ~(op = "key" \/ got.ch # 0)
      BY <1>7, <2>1, <2>2, <2>4 DEF Release, KQ!Skip
    <2> QED
      BY <2>3, <2>4
  <1> QED
    BY <1>1, <1>2, <1>3, <1>4, <1>5, <1>6, <1>7 DEF Step, KQ!Next

LEMMA NextRefines == IInv /\ IInv' /\ [Next]_vars => [KQ!Next]_(KQ!vars)
  <1>1. IInv /\ UNCHANGED vars => UNCHANGED KQ!vars
    BY QueueSame DEF vars, First, KQ!vars
  <1> QED
    BY <1>1, InterruptRefines, MainRefines DEF Next, KQ!Next

\* The ring buffer with its interrupt routine implements the bounded queue,
\* for every buffer size, keyboard and layout.
THEOREM QueueImplemented == Spec => IsKeyQueue
  <1>1. Spec => []IInv
    BY InitIInv, NextIInv, PTL DEF Spec
  <1> QED
    BY <1>1, InitRefines, NextRefines, PTL DEF Spec, IsKeyQueue, KQ!Spec

-----------------------------------------------------------------------------
(* The flags, the keys and the wire. *)

LEMMA KeycodeOfLayout ==
    ASSUME TypeOK, NEW sc \in ScanCode
    PROVE  /\ \E l \in Layouts : keycode(sc) \in LayoutCodes(l, sc)
           /\ \E l \in Layouts : ukeycode(sc) = Unshifted[l][sc]
  BY DEF TypeOK, keycode, ukeycode, LayoutCodes

\* A byte of the keyboard: the prefix sets the escape flag and nothing else; a
\* code clears it and leaves of the hold flags those the key does not stand
\* for, setting or clearing the one it does.
LEMMA ByteFlags ==
    ASSUME TypeOK, LayoutsAgree, NEW k \in PhysKeys, NEW up \in BOOLEAN
    PROVE  /\ PrefixByte(k, up) => meta' = meta \union {"ESCAPED"}
           /\ CodeByte(k, up) =>
                  /\ "ESCAPED" \notin meta'
                  /\ \A f \in HoldFlag :
                         f \in meta' <=>
                             IF Unshifted[DefaultLayout][k.code] = KeyOfFlag(f)
                             THEN ~up ELSE f \in meta
  <1>1. k.code \in ScanCode /\ PREFIX \in ScanCode
    BY PhysKeysAssumption DEF PREFIX, ScanCode
  <1>2. ukeycode(PREFIX) = KEY_SCANESC /\ ukeycode(k.code) # KEY_SCANESC
    BY <1>1, KeycodeOfLayout DEF LayoutsAgree
  <1>3. \A f \in HoldFlag :
            f \in FlagsOf(keycode(k.code), HoldFlag)
                <=> Unshifted[DefaultLayout][k.code] = KeyOfFlag(f)
    BY <1>1, KeycodeOfLayout DEF LayoutsAgree, FlagsOf
  <1>4. ASSUME PrefixByte(k, up) PROVE meta' = meta \union {"ESCAPED"}
    BY <1>2, <1>4 DEF PrefixByte, isr_keyboard, ScanEscape, KeyUp
  <1>5. ASSUME CodeByte(k, up)
        PROVE  /\ "ESCAPED" \notin meta'
               /\ \A f \in HoldFlag :
                      f \in meta' <=>
                          IF Unshifted[DefaultLayout][k.code] = KeyOfFlag(f)
                          THEN ~up ELSE f \in meta
    <2> DEFINE H == FlagsOf(keycode(k.code), HoldFlag)
               L == FlagsOf(keycode(k.code), LockFlag)
    <2>1. L \intersect HoldFlag = {} /\ "ESCAPED" \notin HoldFlag
      BY DEF FlagsOf, LockFlag, HoldFlag
    <2>2. up => meta' = toggle(meta \ H, L) \ {"ESCAPED"}
      BY <1>2, <1>5 DEF CodeByte, isr_keyboard, ScanEscape, KeyUp, addkey
    <2>3. ~up => meta' = (meta \union H) \ {"ESCAPED"}
      BY <1>2, <1>5 DEF CodeByte, isr_keyboard, ScanEscape, KeyDown, addkey
    <2>4. \A f \in HoldFlag :
              f \in H <=> Unshifted[DefaultLayout][k.code] = KeyOfFlag(f)
      BY <1>3
    <2> HIDE DEF H, L
    <2> QED
      BY <2>1, <2>2, <2>3, <2>4 DEF toggle
  <1> QED
    BY <1>4, <1>5

\* The keys and the wire change with the interrupts only, and so do the flags.
LEMMA FlagsStep ==
    ASSUME TypeOK, OneKeyPerModifier, LayoutsAgree, FlagsTrackWire, [Next]_vars
    PROVE  FlagsTrackWire'
  <1>1. CASE UNCHANGED isrVars
    BY <1>1 DEF isrVars, FlagsTrackWire, ModifiersTrackKeys, EscapeMatchesWire
  <1>2. CASE Interrupt
    <2> PICK k \in PhysKeys, up \in BOOLEAN : PrefixByte(k, up) \/ CodeByte(k, up)
      BY <1>2 DEF Interrupt
    <2>1. CASE PrefixByte(k, up)
      <3>1. meta' = meta \union {"ESCAPED"} /\ held' = held /\ wire' # {}
        BY <2>1, ByteFlags DEF PrefixByte
      <3>2. "ESCAPED" \notin HoldFlag
        BY DEF HoldFlag
      <3> QED
        BY <3>1, <3>2 DEF FlagsTrackWire, ModifiersTrackKeys, EscapeMatchesWire
    <2>2. CASE CodeByte(k, up)
      <3>1. EscapeMatchesWire'
        BY <2>2, ByteFlags DEF CodeByte, EscapeMatchesWire
      <3>2. held' = IF up THEN held \ {k} ELSE held \union {k}
        BY <2>2 DEF CodeByte
      <3>3. ASSUME NEW f \in HoldFlag
            PROVE  f \in meta' <=>
                       \E j \in held' : Unshifted[DefaultLayout][j.code] = KeyOfFlag(f)
        <4>1. f \in meta' <=> IF Unshifted[DefaultLayout][k.code] = KeyOfFlag(f)
                              THEN ~up ELSE f \in meta
          BY <2>2, ByteFlags
        <4>2. f \in meta <=>
                  \E j \in held : Unshifted[DefaultLayout][j.code] = KeyOfFlag(f)
          BY DEF FlagsTrackWire, ModifiersTrackKeys
        <4>3. held \subseteq PhysKeys
          BY DEF TypeOK
        <4>4. CASE Unshifted[DefaultLayout][k.code] = KeyOfFlag(f)
          BY <3>2, <4>1, <4>3, <4>4 DEF OneKeyPerModifier
        <4>5. CASE Unshifted[DefaultLayout][k.code] # KeyOfFlag(f)
          BY <3>2, <4>1, <4>2, <4>5
        <4> QED
          BY <4>4, <4>5
      <3> QED
        BY <3>1, <3>3 DEF FlagsTrackWire, ModifiersTrackKeys
    <2> QED
      BY <2>1, <2>2
  <1>3. ~Interrupt => UNCHANGED isrVars
    BY DEF Next, Step, Call, CopyShifted, CopyUnshifted, CheckEmpty, CheckNonEmpty,
           Pull, Release, vars, isrVars
  <1> QED
    BY <1>1, <1>2, <1>3

\* The flags follow the keys held and the bytes on the wire, whatever became
\* of the key events, for every buffer size and every keyboard and layouts on
\* which a modifier is one key.
THEOREM FlagsCorrect ==
    ASSUME OneKeyPerModifier, LayoutsAgree
    PROVE  Spec => []FlagsTrackWire
  <1>1. Init => FlagsTrackWire
    BY DEF Init, FlagsTrackWire, ModifiersTrackKeys, EscapeMatchesWire
  <1>2. TypeOK /\ FlagsTrackWire /\ [Next]_vars => FlagsTrackWire'
    BY FlagsStep
  <1> QED
    BY <1>1, <1>2, TypeCorrect, PTL DEF Spec

-----------------------------------------------------------------------------
(* The characters. *)

\* What CharMatchesFlags says of one key.
CharOfKey(k) ==
    k.brk = KEYBRK_DOWN /\ IsLetter(k.code) =>
        k.ch = IF "ALT" \in k.meta THEN 0
               ELSE IF "CTRL" \in k.meta THEN k.code - 96
               ELSE IF ("SHIFT" \in k.meta) # ("CAPSLOCK" \in k.meta)
               THEN k.code - 32 ELSE k.code

CharInv == \A s \in Slot : CharOfKey(buf[s])

LEMMA CharInvImplies == TypeOK /\ CharInv => CharMatchesFlags
  <1> SUFFICES ASSUME TypeOK, CharInv, NEW i \in 1..buf_size
               PROVE  CharOfKey(queue[i])
    BY DEF CharMatchesFlags, CharOfKey
  <1>1. Wrap(First + (i - 1)) \in Slot
    BY FirstSlot DEF TypeOK, Slot, Wrap
  <1> QED
    BY <1>1, QueueType DEF CharInv, QueueFacts

\* The character of a letter going down: its modifiers are the flags as they
\* were, because a letter is no modifier.
LEMMA LetterChar ==
    ASSUME TypeOK, LettersPaired, NEW sc \in ScanCode, IsLetter(ukeycode(sc)),
           NEW m, m = meta \union FlagsOf(keycode(sc), HoldFlag)
    PROVE  Char(keycode(sc), ukeycode(sc), m) =
               IF "ALT" \in m THEN 0
               ELSE IF "CTRL" \in m THEN ukeycode(sc) - 96
               ELSE IF ("SHIFT" \in m) # ("CAPSLOCK" \in m)
               THEN ukeycode(sc) - 32 ELSE ukeycode(sc)
  <1>1. ukeycode(sc) \in 97..122
    BY DEF IsLetter
  <1>2. keycode(sc) = IF ("SHIFT" \in meta) # ("CAPSLOCK" \in meta)
                      THEN ukeycode(sc) - 32 ELSE ukeycode(sc)
    BY DEF keycode, shifted, ukeycode, LettersPaired, TypeOK
  <1>3. keycode(sc) < 128
    BY <1>1, <1>2
  <1>4. m = meta
    BY <1>3 DEF FlagsOf, HoldFlag, KeyOfFlag, KEY_SHIFT, KEY_CTRL, KEY_ALT
  <1>5. m \intersect {"CTRL", "ALT"} = {} <=> "ALT" \notin m /\ "CTRL" \notin m
    OBVIOUS
  <1>6. m \intersect {"CTRL", "ALT"} = {"CTRL"} <=> "ALT" \notin m /\ "CTRL" \in m
    OBVIOUS
  <1> QED
    BY <1>2, <1>3, <1>4, <1>5, <1>6 DEF Char

LEMMA CharStore ==
    ASSUME TypeOK, LettersPaired, CharInv, NEW sc \in ScanCode, NEW keyup \in BOOLEAN,
           isr_keyboard(sc, keyup)
    PROVE  CharInv'
  <1>1. CASE UNCHANGED buf
    BY <1>1 DEF CharInv
  <1>2. ASSUME NEW k, CharOfKey(k), buf' = [buf EXCEPT ![buf_tail] = k]
        PROVE  CharInv'
    BY <1>2 DEF CharInv, TypeOK
  <1>3. CASE KeyUp(sc)
    <2>1. \/ UNCHANGED buf
          \/ \E m : buf' = [buf EXCEPT ![buf_tail] =
                               [brk |-> KEYBRK_UP, meta |-> m,
                                code |-> ukeycode(sc), ch |-> 0]]
      BY <1>3 DEF KeyUp, addkey, refuse, store
    <2>2. \A m : CharOfKey([brk |-> KEYBRK_UP, meta |-> m,
                            code |-> ukeycode(sc), ch |-> 0])
      BY DEF CharOfKey, KEYBRK_UP, KEYBRK_DOWN
    <2> QED
      BY <1>1, <1>2, <2>1, <2>2
  <1>4. CASE KeyDown(sc)
    <2> DEFINE m == meta \union FlagsOf(keycode(sc), HoldFlag)
               k == [brk |-> KEYBRK_DOWN, meta |-> m, code |-> ukeycode(sc),
                     ch |-> Char(keycode(sc), ukeycode(sc), m)]
    <2>1. UNCHANGED buf \/ buf' = [buf EXCEPT ![buf_tail] = k]
      BY <1>4 DEF KeyDown, addkey, refuse, store
    <2>2. CharOfKey(k)
      <3>1. /\ k.meta = m /\ k.code = ukeycode(sc)
            /\ k.ch = Char(keycode(sc), ukeycode(sc), m)
        OBVIOUS
      <3> HIDE DEF k, m
      <3> QED
        BY <3>1, LetterChar DEF CharOfKey, m
    <2> QED
      BY <1>1, <1>2, <2>1, <2>2
  <1> QED
    BY <1>1, <1>3, <1>4 DEF isr_keyboard, ScanEscape, keyVars

LEMMA CharStep ==
    ASSUME TypeOK, LettersPaired, CharInv, [Next]_vars
    PROVE  CharInv'
  <1>1. CASE UNCHANGED buf
    BY <1>1 DEF CharInv
  <1>2. CASE Interrupt
    <2> PICK k \in PhysKeys, up \in BOOLEAN : PrefixByte(k, up) \/ CodeByte(k, up)
      BY <1>2 DEF Interrupt
    <2>1. PREFIX \in ScanCode /\ k.code \in ScanCode
      BY PhysKeysAssumption DEF PREFIX, ScanCode
    <2> QED
      BY <2>1, CharStore DEF PrefixByte, CodeByte
  <1>3. ~Interrupt => UNCHANGED buf
    BY DEF Next, Step, Call, CopyShifted, CopyUnshifted, CheckEmpty, CheckNonEmpty,
           Pull, Release, vars, keyVars
  <1> QED
    BY <1>1, <1>2, <1>3

\* In every unread key the character agrees with the flags stored beside it,
\* however flags and layout change between the keys.
THEOREM CharsCorrect ==
    ASSUME LettersPaired
    PROVE  Spec => []CharMatchesFlags
  <1>1. Init => CharInv
    BY DEF Init, CharInv, CharOfKey, ZeroKey, IsLetter
  <1>2. TypeOK /\ CharInv /\ [Next]_vars => CharInv'
    BY CharStep
  <1> QED
    BY <1>1, <1>2, CharInvImplies, TypeCorrect, PTL DEF Spec
=============================================================================
