------------------------------ MODULE Keyboard ------------------------------
(***************************************************************************)
(* The keyboard driver, kernel/device/keyboard.c.                          *)
(*                                                                         *)
(* Two parties share the driver's state.  The interrupt service routine    *)
(* isr_keyboard runs to completion between any two instructions of the     *)
(* main thread, so each of its runs is one action; the keys of a physical  *)
(* keyboard, held down and released in any order, decide which scan code   *)
(* it reads.  The main thread calls kb_getkey, kb_getchar and kb_setlayout *)
(* and is interrupted inside them: a call is a sequence of actions, cut    *)
(* where the code touches a variable the interrupt routine also touches.   *)
(*                                                                         *)
(* The last five variables are not in the code.  They record what the      *)
(* caller was answered, what became of the last key, and what the person   *)
(* at the keyboard is doing.                                               *)
(***************************************************************************)
EXTENDS Naturals, Sequences, Ps2Layout

CONSTANTS
    MAX_BUFSIZ,      \* slots of the key buffer
    PhysKeys,        \* the keyboard: [esc, code], esc when 0xe0 comes first
    Layouts,         \* names of the keyboard layouts
    DefaultLayout,   \* the one kb_init installs
    Shifted,         \* what the layouts hold: [Layouts -> [ScanCode -> ...]]
    Unshifted,
    NoKey            \* the answer for "no key"

ASSUME BufsizAssumption == MAX_BUFSIZ \in Nat \ {0}

ASSUME LayoutAssumption ==
    /\ DefaultLayout \in Layouts
    /\ Shifted \in [Layouts -> [ScanCode -> KeyCode]]
    /\ Unshifted \in [Layouts -> [ScanCode -> KeyCode]]

ASSUME PhysKeysAssumption == PhysKeys \subseteq [esc : BOOLEAN, code : ScanCode]

VARIABLES
    layout,     \* which layout each of the two tables currently holds
    meta,       \* the flags of state.meta that are set
    buf_head,   \* slot of the oldest key
    buf_tail,   \* next slot to fill
    buf_size,   \* number of keys in the buffer
    buf,        \* the slots
    pc,         \* where the main thread is
    op,         \* the call it is in: "key" or "char"
    got,        \* the key its call has read
    answer,     \* what its last call returned
    outcome,    \* whether the last key was stored, since one was last taken
    held,       \* the physical keys held down
    wire        \* the key whose prefix byte was sent and whose code was not

keyVars  == <<buf_tail, buf_size, buf, outcome>>
mainVars == <<layout, buf_head, pc, op, got, answer>>
isrVars  == <<meta, held, wire>>
vars     == <<layout, meta, buf_head, buf_tail, buf_size, buf, pc, op, got,
              answer, outcome, held, wire>>

HoldFlag == {"SHIFT", "CTRL", "ALT"}
LockFlag == {"CAPSLOCK", "NUMLOCK", "SCRLOCK"}
MetaFlag == HoldFlag \union LockFlag \union {"ESCAPED"}

KEYBRK_DOWN == 0
KEYBRK_UP   == 1

Key == [brk : {KEYBRK_DOWN, KEYBRK_UP}, meta : SUBSET MetaFlag,
        code : KeyCode, ch : KeyCode]

ZeroKey == [brk |-> KEYBRK_DOWN, meta |-> {}, code |-> 0, ch |-> 0]

Slot == 0..(MAX_BUFSIZ - 1)

\* An index that has run to the end of the buffer starts over.
Wrap(i) == IF i >= MAX_BUFSIZ THEN i - MAX_BUFSIZ ELSE i

-----------------------------------------------------------------------------
(* The interrupt service routine. *)

KeyOfFlag(f) ==
    CASE f = "SHIFT"    -> KEY_SHIFT
      [] f = "CTRL"     -> KEY_CTRL
      [] f = "ALT"      -> KEY_ALT
      [] f = "CAPSLOCK" -> KEY_CAPSLOCK
      [] f = "NUMLOCK"  -> KEY_NUMLOCK
      [] f = "SCRLOCK"  -> KEY_SCRLOCK

\* The flags of F that the key code kc stands for: one or none.
FlagsOf(kc, F) == {f \in F : KeyOfFlag(f) = kc}

toggle(m, F) == (m \ F) \union (F \ m)

IsLetter(kc) == kc \in 97..122

ukeycode(sc) == Unshifted[layout.unshifted][sc]

\* Mistaken variant: caps lock never applied.
shiftedNoCaps(sc) == "SHIFT" \in meta

\* Caps lock inverts shift for the letters only.
shifted(sc) ==
    ("SHIFT" \in meta) # ("CAPSLOCK" \in meta /\ IsLetter(ukeycode(sc)))

keycode(sc) ==
    IF shifted(sc) THEN Shifted[layout.shifted][sc] ELSE ukeycode(sc)

\* The character of a key going down while the flags m are set.
Char(kc, ukc, m) ==
    LET mods == m \intersect {"CTRL", "ALT"}
    IN  CASE kc < 128 /\ mods = {}                       -> kc
          [] kc < 128 /\ mods = {"CTRL"} /\ IsLetter(ukc) -> ukc - 96
          [] OTHER                                        -> 0

\* Storing one key at the tail.
store(key) ==
    /\ buf' = [buf EXCEPT ![buf_tail] = key]
    /\ buf_tail' = Wrap(buf_tail + 1)
    /\ buf_size' = buf_size + 1
    /\ outcome' = "stored"

refuse ==
    /\ outcome' = "refused"
    /\ UNCHANGED <<buf, buf_tail, buf_size>>

\* Mistaken variants: no test for a full buffer; an early return that undoes
\* the flag update.
addkeyNoTest(brk, m, code, ch) ==
    /\ meta' = m \ {"ESCAPED"}
    /\ store([brk |-> brk, meta |-> m, code |-> code, ch |-> ch])

addkeyLosesFlags(brk, m, code, ch) ==
    IF buf_size = MAX_BUFSIZ
    THEN meta' = meta \ {"ESCAPED"} /\ refuse
    ELSE addkeyNoTest(brk, m, code, ch)

\* The key carries the flags m as they were when its scan code was read; the
\* driver forgets the escape prefix whether or not the key finds room.
addkey(brk, m, code, ch) ==
    /\ meta' = m \ {"ESCAPED"}
    /\ IF buf_size = MAX_BUFSIZ
       THEN refuse
       ELSE store([brk |-> brk, meta |-> m, code |-> code, ch |-> ch])

ScanEscape(sc) ==
    /\ ukeycode(sc) = KEY_SCANESC
    /\ meta' = meta \union {"ESCAPED"}
    /\ UNCHANGED keyVars

KeyUp(sc) ==
    /\ ukeycode(sc) # KEY_SCANESC
    /\ LET released == meta \ FlagsOf(keycode(sc), HoldFlag)
           m == toggle(released, FlagsOf(keycode(sc), LockFlag))
       IN  addkey(KEYBRK_UP, m, ukeycode(sc), 0)

KeyDown(sc) ==
    /\ ukeycode(sc) # KEY_SCANESC
    /\ LET m == meta \union FlagsOf(keycode(sc), HoldFlag)
       IN  addkey(KEYBRK_DOWN, m, ukeycode(sc),
                  Char(keycode(sc), ukeycode(sc), m))

isr_keyboard(sc, keyup) ==
    \/ ScanEscape(sc)
    \/ keyup /\ KeyUp(sc)
    \/ ~keyup /\ KeyDown(sc)

-----------------------------------------------------------------------------
(* The keyboard: which scan code comes next.  A key repeats while held. *)

PREFIX == 96    \* 0xe0 without its break bit

PrefixByte(k, up) ==
    /\ k.esc
    /\ wire = {}
    /\ up => k \in held
    /\ wire' = {[key |-> k, up |-> up]}
    /\ isr_keyboard(PREFIX, TRUE)
    /\ UNCHANGED <<held, mainVars>>

CodeByte(k, up) ==
    /\ wire = IF k.esc THEN {[key |-> k, up |-> up]} ELSE {}
    /\ up => k \in held
    /\ wire' = {}
    /\ held' = IF up THEN held \ {k} ELSE held \union {k}
    /\ isr_keyboard(k.code, up)
    /\ UNCHANGED mainVars

Interrupt ==
    \E k \in PhysKeys, up \in BOOLEAN : PrefixByte(k, up) \/ CodeByte(k, up)

-----------------------------------------------------------------------------
(* The main thread. *)

Call(o) ==
    /\ pc = "idle"
    /\ pc' = "check"
    /\ op' = o
    /\ UNCHANGED <<layout, buf_head, got, answer, isrVars, keyVars>>

\* Mistaken variants: emptiness read off the two indices, which are also equal
\* when the buffer is full; a call that waits for a key instead.
CheckEmptyByIndices ==
    /\ pc = "check"
    /\ buf_head = buf_tail
    /\ pc' = "idle"
    /\ op' = "none"
    /\ answer' = NoKey
    /\ UNCHANGED <<layout, buf_head, got, isrVars, keyVars>>

CheckEmptyWaits ==
    /\ pc = "check"
    /\ buf_size = 0
    /\ answer' = NoKey
    /\ UNCHANGED <<layout, buf_head, pc, op, got, isrVars, keyVars>>

\* The compare-and-swap finds no key: the call is over.
CheckEmpty ==
    /\ pc = "check"
    /\ buf_size = 0
    /\ pc' = "idle"
    /\ op' = "none"
    /\ answer' = NoKey
    /\ UNCHANGED <<layout, buf_head, got, isrVars, keyVars>>

\* Mistaken variant: no test at all.
CheckNonEmptyNoTest ==
    /\ pc = "check"
    /\ pc' = "pull"
    /\ UNCHANGED <<layout, buf_head, op, got, answer, isrVars, keyVars>>

CheckNonEmpty ==
    /\ pc = "check"
    /\ buf_size # 0
    /\ pc' = "pull"
    /\ UNCHANGED <<layout, buf_head, op, got, answer, isrVars, keyVars>>

Pull ==
    /\ pc = "pull"
    /\ got' = buf[buf_head]
    /\ buf_head' = Wrap(buf_head + 1)
    /\ pc' = "release"
    /\ UNCHANGED <<layout, op, answer, isrVars, keyVars>>

\* The slot is given back; kb_getchar goes round again if the key has no
\* character.
Release ==
    /\ pc = "release"
    /\ buf_size' = buf_size - 1
    /\ outcome' = "none"
    /\ got' = ZeroKey
    /\ IF op = "key" \/ got.ch # 0
       THEN pc' = "idle" /\ op' = "none" /\ answer' = got
       ELSE pc' = "check" /\ UNCHANGED <<op, answer>>
    /\ UNCHANGED <<layout, buf_head, buf_tail, buf, isrVars>>

\* kb_setlayout copies the two tables one after the other.
CopyShifted(l) ==
    /\ pc = "idle"
    /\ pc' = "copy"
    /\ layout' = [layout EXCEPT !.shifted = l]
    /\ UNCHANGED <<buf_head, op, got, answer, isrVars, keyVars>>

CopyUnshifted ==
    /\ pc = "copy"
    /\ pc' = "idle"
    /\ layout' = [layout EXCEPT !.unshifted = layout.shifted]
    /\ UNCHANGED <<buf_head, op, got, answer, isrVars, keyVars>>

Step == CheckEmpty \/ CheckNonEmpty \/ Pull \/ Release \/ CopyUnshifted

-----------------------------------------------------------------------------
(* kb_init runs before the keyboard interrupt is enabled. *)
Init ==
    /\ layout = [shifted |-> DefaultLayout, unshifted |-> DefaultLayout]
    /\ meta = {}
    /\ buf_head = 0
    /\ buf_tail = 0
    /\ buf_size = 0
    /\ buf = [s \in Slot |-> ZeroKey]
    /\ pc = "idle"
    /\ op = "none"
    /\ got = ZeroKey
    /\ answer = NoKey
    /\ outcome = "none"
    /\ held = {}
    /\ wire = {}

Next ==
    \/ Interrupt
    \/ \E o \in {"key", "char"} : Call(o)
    \/ \E l \in Layouts : CopyShifted(l)
    \/ Step

Spec == Init /\ [][Next]_vars

\* An interrupt handler ends, so the main thread always gets on with a call.
FairSpec == Spec /\ WF_vars(Step)

-----------------------------------------------------------------------------
(* Properties. *)

\* Every variable keeps to its type: indices and the count stay in range.
TypeOK ==
    /\ layout \in [shifted : Layouts, unshifted : Layouts]
    /\ meta \in SUBSET MetaFlag
    /\ buf_head \in Slot
    /\ buf_tail \in Slot
    /\ buf_size \in 0..MAX_BUFSIZ
    /\ buf \in [Slot -> Key]
    /\ pc \in {"idle", "check", "pull", "release", "copy"}
    /\ op \in {"none", "key", "char"}
    /\ got \in Key
    /\ answer \in Key \union {NoKey}
    /\ outcome \in {"none", "stored", "refused"}
    /\ held \in SUBSET PhysKeys
    /\ wire \in SUBSET [key : PhysKeys, up : BOOLEAN]

\* The slot of the oldest key not yet given back: while a call sits between
\* advancing buf_head and decrementing buf_size it is the slot before it.
First ==
    IF pc # "release" THEN buf_head
    ELSE IF buf_head = 0 THEN MAX_BUFSIZ - 1 ELSE buf_head - 1

\* The occupied slots run from First up to buf_tail whatever the interrupt
\* routine does between the caller's steps: a call that passed the empty
\* check has a key to read, and the key it read is still in its slot.
RingInv ==
    /\ buf_tail = Wrap(First + buf_size)
    /\ pc \in {"pull", "release"} => buf_size > 0
    /\ pc = "release" => got = buf[First]
    /\ op = "none" <=> pc \in {"idle", "copy"}

queue == [i \in 1..buf_size |-> buf[Wrap(First + (i - 1))]]

KQ == INSTANCE KeyQueue WITH
          Keys     <- Key,
          CharKeys <- {k \in Key : k.ch # 0},
          Capacity <- MAX_BUFSIZ,
          request  <- op

\* The ring buffer with its interrupt routine is the bounded queue of
\* KeyQueue: keys come out in the order they were typed, none is lost,
\* duplicated or overwritten, and only a key that finds all slots taken is
\* refused.
IsKeyQueue == KQ!Spec

\* "Set while the shift key is pressed" (keyboard.h:23-25), and the same for
\* ctrl and alt, even when the key events themselves found no room.
ModifiersTrackKeys ==
    \A f \in HoldFlag :
        f \in meta <=> \E k \in held :
                           Unshifted[DefaultLayout][k.code] = KeyOfFlag(f)

\* The escape flag is pending exactly between a prefix byte and the code it
\* belongs to: it never leaks into the next key, even if that one is refused.
EscapeMatchesWire == "ESCAPED" \in meta <=> wire # {}

\* The driver's flags say what the wire and the keys say, whatever became of
\* the key events: the flags of the held keys and the pending escape.
FlagsTrackWire == ModifiersTrackKeys /\ EscapeMatchesWire

\* In every unread key the character agrees with the flags stored beside it:
\* a letter is a control character if ctrl is down, none if alt is, and else
\* a capital iff exactly one of shift and caps lock applies.
CharMatchesFlags ==
    \A i \in 1..buf_size :
        LET k == queue[i]
        IN  k.brk = KEYBRK_DOWN /\ IsLetter(k.code) =>
                k.ch = IF "ALT" \in k.meta THEN 0
                       ELSE IF "CTRL" \in k.meta THEN k.code - 96
                       ELSE IF ("SHIFT" \in k.meta) # ("CAPSLOCK" \in k.meta)
                       THEN k.code - 32 ELSE k.code

\* The calls return: kb_getchar, which goes round for keys without a character,
\* unless such keys keep coming for ever.
GetCharReturns == <>[][~Interrupt]_vars => []<>(op = "none")

-----------------------------------------------------------------------------
(* What FlagsTrackWire and CharMatchesFlags need of keyboard and layouts. *)

LayoutCodes(l, sc) == {Shifted[l][sc], Unshifted[l][sc]}

\* Each modifier is one key; of two that share a flag the driver takes the
\* release of either for the release of both.
OneKeyPerModifier ==
    \A j, k \in PhysKeys : \A f \in HoldFlag :
        /\ Unshifted[DefaultLayout][j.code] = KeyOfFlag(f)
        /\ Unshifted[DefaultLayout][k.code] = KeyOfFlag(f)
        => j = k

\* The layouts agree about which keys are the modifiers, and 0xe0 is the prefix
\* and no key's own code.
LayoutsAgree ==
    \A l \in Layouts :
        /\ \A k \in PhysKeys : \A f \in HoldFlag : \A c \in LayoutCodes(l, k.code) :
               c = KeyOfFlag(f) <=> Unshifted[DefaultLayout][k.code] = KeyOfFlag(f)
        /\ \A k \in PhysKeys : Unshifted[l][k.code] # KEY_SCANESC
        /\ Unshifted[l][PREFIX] = KEY_SCANESC

\* The letters have their capitals on the same keys, in each layout and from
\* one layout to the other: what a call of kb_setlayout needs, which an
\* interrupt may find between the two tables.
LettersPaired ==
    \A l, m \in Layouts : \A sc \in ScanCode :
        IsLetter(Unshifted[l][sc]) => Shifted[m][sc] = Unshifted[l][sc] - 32
=============================================================================
