# Verification of MonkOS

MonkOS is a 64-bit kernel for PC hardware: a boot loader, a kernel in C and
assembly with a memory manager, interrupt dispatch, a few drivers and an
interactive shell. This directory holds TLA+ models of them, TLC
configurations that check them on small instances, and TLAPS proofs. Paths in
this file are relative to the repository's root; `interrupt.asm` and the like
stand for the files of the tables below.

There is one processor and one thread of control, `kmain` and then `kshell`.
What makes the code hard is not parallelism but

- interrupt handlers, which run between any two instructions of the thread and,
  above vector 31, of one another;
- hardware with a memory of its own: the interrupt controllers' request and
  service registers, the keyboard's one byte buffer, the display's registers;
- a start in which each part builds on what the one before left in memory, and
  an error can only stop the machine;
- data structures that are rewritten in place and whose damage shows only
  several calls later: the heap, the list of page frames, page tables, the
  memory map, the log's two queues, the consoles' virtual buffers.

## 1. Inventory

| component | code | state | operations | correct when |
|---|---|---|---|---|
| keyboard driver | `kernel/device/keyboard.c` | ring of keys, modifier flags, layout | `isr_keyboard`; `kb_getkey`, `kb_getchar`, `kb_setlayout`, `kb_init` | no key is lost, doubled or overwritten except by refusal of a new one; flags follow the physical keys; calls return |
| interrupt dispatch | `kernel/interrupt/*`, `kernel/device/timer.c`, `x86/cpu_inl.h` | handler table, controllers' masks and registers, the stack of frames | dispatch, `isr_set`, `irq_enable`, `irq_disable`, the handlers, `halt`, `fatal` | an end of interrupt ends the sender's interrupt; no device is left waiting for ever; `fatal` does not return |
| shell | `kernel/shell.c` | mode, command line | the two modes' loops, the line editor, the table of commands | what is on the screen is what runs; queued keys are handled; a command lists all there is |
| virtual consoles | `kernel/device/tty.c` | video memory, a record per console, the display's start and cursor | print, clear, activate, colors, set position | a console shows what a terminal would; the display follows the active one |
| kernel log | `kernel/debug/log.c` | a queue of records, a queue of characters, callbacks | `log`, `logf`, add and remove a callback | the latest messages are there with their texts; callbacks registered are called |
| physical memory map | `kernel/mem/pmap.c` | sorted list of regions | `pmap_init`, `pmap_add` | no gaps, no overlaps, the stronger type wins |
| page frame database | `kernel/mem/paging.c` | a record per frame, a list through them | `page_init`, `pfalloc`, `pffree` | the list is the frames nobody holds, and they are free memory |
| page tables | `kernel/mem/paging.c` | trees of frames, the active one | create, destroy, map, unmap, activate | pages reach the frames they were given; no frame in use is free; the processor keeps no translation of the past |
| heap | `kernel/mem/heap.c` | blocks with headers and footers, list of free ones | `heap_create`, `heap_alloc`, `heap_free`, `heap_destroy` | blocks tile the heap, the list is the free blocks, user data is intact |
| kernel page table | `kernel/mem/kmem.c` | the kernel's table | `kmem_init` | every address of the map is mapped to itself, once, with the caching its type needs |
| ACPI | `kernel/mem/acpi.c` | pointers to the tables, the loader's page table | `acpi_init`, iterators | every table is mapped before it is read, and stays so; iterators end |
| PCI | `kernel/device/pci.c` | none of the kernel's | `pci_init` | the probe ends, every function is visited |
| C library | `libc/` | the caller's buffers | `qsort`, `vsnprintf`, string functions | a sort ends and stays in its array; formatted text is what C says, its length too; copies hit what they should and nothing else |
| debug dumps | `kernel/debug/dump.c` | the caller's buffer | format registers and memory | what is stored is the dump's beginning, in whole pieces |
| system calls | `kernel/syscall/syscall.c` | three processor registers | `syscall_init` | written once; the handler is empty |
| processor access | `kernel/x86/*` | – | ports, flags, cpuid | single instructions |
| boot loader | `boot/*.asm`, `kernel/start.asm` | the sector counters, the A20 line, the memory map, the boot page table | finds and loads the second loader and the kernel, collects the memory map | the image is the kernel's file; errors stop the machine |
| build, docs | `Makefile`, `scripts/`, `docs/` | – | – | – |

How they interact. `kmain` (main.c) calls `acpi_init`, `pmap_init`,
`page_init` (which calls `kmem_init`), `interrupts_init`, `exceptions_init`,
`tty_init`, `kb_init`, `timer_init`, `syscall_init`, turns interrupts on and
enters `kshell`. ACPI adds regions to the physical map, the map feeds the frame
database and the kernel's page table, page tables take frames from the
database, the heap takes pages from a page table. The keyboard's handler runs
out of the dispatcher and fills the ring that the shell empties; the shell
prints to console 0. Hardware interrupts do not touch the memory manager, the
consoles or the log, so in those a call can be one step.

The hazards this code has are listed, each at its line, in `PROJECT.json`.

## 2. Plan

Order of the modules, the most important behaviour first:

1. `KeyQueue`, `Keyboard` (the one structure shared with an interrupt routine),
   with the proof that the ring is a queue — done.
2. `Interrupts` (nesting, acknowledgement, boot order), `Shell` over
   `KeyQueue` — done.
3. `PhysMap`; `FramePool`, `PageFrames`, `Paging` over `FramePool`; `Heap` — done.
4. `Terminal`, `Tty`; `Log` — done.
5. `Startup`, composed of `Loader`, `Acpi`, `Kmem` and `PageFrames` over the
   shared `Memory` — done.
6. `Qsort` inside `PhysMap`; the commands that walk data, `Pci` and
   `AcpiTables`, inside `Shell`; activation of page tables and the processor's
   translations in `Paging`; `Format`, `Dump` and `Cstring` — done.
7. The proofs of section 6: `KeyboardProofs`, `InterruptsProofs`,
   `ShellProofs`, `TtyProofs`, `LogProofs`, `PhysMapProofs`, `MemProofs`
   (`Paging` and `Heap`), `StartupProofs` (which has `PageFrames`' too) — done.
8. What is left to prove: see the end of section 6.

Abstract specifications: `KeyQueue` (implemented by `Keyboard`, used by
`Shell`), `FramePool` (implemented by `PageFrames` as `Startup` uses it, used
by `Paging`), `Terminal` (implemented by `Tty`). All three refinements are
checked by TLC and proved.

## 3. The modules

Each module's definitions are mapped to source lines in `PROJECT.json`.
Definitions under the words "Mistaken variant" are not part of a model: each is
a wrong version of the definition after it, and shows that a property would
notice that mistake.

**KeyQueue** is what the keyboard promises: a bounded queue in which a new key
is refused only when it is full, `kb_getkey` takes the oldest key, and
`kb_getchar` passes over keys without a character.

**Keyboard** is the driver. `buf_head`, `buf_tail`, `buf_size`, `buf`, `meta`
and `layout` are the fields of `state`. A run of `isr_keyboard` is one action
(`Interrupt`), because nothing else that touches the state can run during it —
that is what `PicMatchesStack` of `Interrupts` establishes. A call of the main
thread is cut into the steps between which an interrupt can make a difference:
the test of `buf_size` by compare-and-swap (`CheckEmpty`, `CheckNonEmpty`),
reading the slot and advancing `buf_head` (`Pull`; the slot at the head is not
touched by the routine, so the two need not be cut), and the decrement of
`buf_size` (`Release`). `held` and `wire` are the person at the keyboard: which
keys are down, and whether a prefix byte is on its way to being completed. The
scan map, from `Ps2Layout`, is the driver's own.

**Interrupts** has the two 8259 controllers (`mask`, `requested`, `inService`),
the table `isr_table`, the `stack` of frames of the handlers running, and the
main thread's `pc` through the boot sequence and then at will: it enables and
disables interrupts and IRQs, sets handlers to null, halts, and raises software
interrupts. `LookUp` is the table access with the vector sign-extended as the
thunk pushes it. A handler is the sequence read – addkey – eoi – return
(keyboard) or eoi – return (timer), and any unmasked, more urgent interrupt can
be delivered between its steps.

**Shell** runs over `KeyQueue` (its keyboard variables are that module's, its
interrupts `Offer` and `Refuse`), and has the halt, the poll loop, the line
editor, both modes and the table of commands. `echo` is what the user sees after
the prompt. The commands `apic`, `pcie` and `pci` go through data of the machine,
a step at a time, while keys arrive: **AcpiTables** has `madt_find` with the
iterators over the MADT, and the one over the MCFG; **Pci** the recursive probe,
with the open calls of `probe_bus` as a stack. The machine's data is chosen when a
command starts, and forgotten when it ends, because nothing else reads it.

**Heap** has memory as words and applies every store of the code in its order,
so overlapping fields overwrite each other as in the program. `Follow` and
`Precede` are the two halves of every change of the list. The client fills
what it is given with a value that is never a header's. Its `HeapInit`, `HeapNext`
and `HeapSpec` have names of their own, because `MemProofs` extends it together
with `Paging`.

**PhysMap** has one action per turn of a loop of `normalize`. `wanted` records
what the list said of each address when the normalization began. Its sorts are
those of **Qsort**, the library's function, exchange by exchange, with the ranges
still to be sorted as a stack.

**PageFrames** has the frames' records with their links; a load or store at
`pf[PFN_INVALID]` stops the system, which is what the processor makes of it.
**FramePool** is the pool it is to be, and **Paging** builds trees out of
that pool. Mapping a page may make tables, which are mapped in turn: `add_pte`
calls itself. Each of these calls is an action. `todo` is the stack of tables
that the calls under way have still to map: `page_alloc` fills it, `add_table`
makes the call for the first and puts the tables this adds in front, and
`next_table` is the return, which moves `vnext` on. Until the stack is empty
(`Quiet`) no other operation starts. `active` is the table in CR3 and `tlb` what
the processor remembers of it: an access may put any translation there, loading
CR3 empties it, and `invalidate_page` drops one. Freeing pages of the active table
invalidates each; destroying a table invalidates only the region of tables
(paging.c:391-397), so that the caller must have activated another, as the shell's
heap test does.

**Startup** is the machine's start, in the order of the code, each phase an
action or several of the module of its part:
**Loader** reads the disc (a sequence of volume descriptors and a root directory
of sectors), tries to enable A20, checks the processor, copies the kernel in
chunks counted by words, and reads the zones that the firmware reports.
**Acpi** has the boot page table (which pages are mapped, by which tables, how
many spare pages are used), the mapping of each firmware table in it and what
the map is told. **Kmem** goes through the regions of the map and adds an entry
per page to `leaves`. `Startup` itself has `pmap_init`, the reservation of the
database, the switch to the new table, and then hands the usable regions to
`PageFrames`. **Memory** is what they share: `phase`, and the memory map as a
function from pages to types, which is what a normalized list of regions says;
that the code's list says it is what `PhysMap`'s run and theorems show.
Before `interrupts_init` there is no handler behind a fault or behind `fatal()`:
either stops the machine (`Stop`). The model makes these simplifications, each
of which restricts what the environment does: zones begin and end at page
edges; the kernel's file fits its image; a firmware does not keep its tables in
memory it reports as bad; zones have the types 1 to 5. `ProbeMemory` also
forgets the state of the disc and of `LoadKernel`, which nothing reads again.

**Tty** has the video memory with the consoles' records and the controller's
two registers; **Terminal** is a screen that scrolls.

**Log** has both circular queues with the eviction in both directions, and the
callback table. `history` is what was logged: of each message the level, the
length and how many characters had been logged with it, which is what its text
consists of.

**MCText** makes one call of a function that writes text or memory.
**Format** is `vsnprintf`: each turn of its parser is an action, and what a
conversion puts out is computed as `addint` and `addstring` do, integers cut to
their length and extended, digits counted and generated. Characters are model
strings of length one, and integers have up to seven bits instead of 64, which
keeps their arithmetic modulo a power of two. What ISO C says (`Rendered`) is
written separately, from numbers and not from bits. **Dump** is `dump_memory`,
a piece of a line at a time; a cell of the buffer holds which part of the dump it
shows. **Cstring** has `memmove`, `strlcpy` and `strlcat`, a byte at a time.

## 4. The runs

| run | question | bounds | states |
|---|---|---|---|
| `keyboard` | is the ring a queue, do flags follow the keys and characters the flags, and do calls return, with the interrupt routine between any two steps? | 1 slot, so that most keys are refused; a letter, Shift, Caps Lock, and Right Ctrl, which has a prefix byte | 1,811,848 |
| `interrupts` | nesting, acknowledgement, boot, halt | vectors 3, 14, 32, 33, 255; 5 frames | 14,574 |
| `interrupts_fatal` | does `fatal()` hang? (no) | 3 frames | – |
| `shell` | is the echo the command, do `apic`, `pcie` and `pci` list everything once, are queued keys handled? | 7 keys, queue of 2, command buffer of 4 bytes, 6 commands; 3 MADTs, 3 buses of 2 devices with 2 functions | 239,994 |
| `heap` | are blocks, list and data consistent? | 3 pages of 192 bytes, requests of 24, 40, 150 | 6,475 |
| `heap_free_any` | is the preceding block found? (no) | 2 pages | – |
| `physmap` | is the map exact after each normalization, and does each sort end inside its array? | 5 addresses, 3 reported regions of 3 types, `pmap_init`'s own 3, one `pmap_add` | 1,031,697 |
| `startup` | from disc to pool: is the kernel loaded, is the kernel's table right, is the pool free memory, and is it a pool? | 24 pages, 9 discs, 1,851 memory layouts, 6 firmwares, 2 frames given back | 104,160 |
| `paging` | do pages reach their frames, also through the processor's eyes? | 19 frames, 4 entries a table, 4 client pages | 201,492 |
| `tty` | is console 0 a terminal? | 2 by 2 screen, 2 consoles, 2 colors | 108,096 |
| `log` | does the log hold the latest messages? | 4 records, 8 characters, texts of 1, 2, 5, 6 messages, 2 callbacks | 53,525 |
| `text` | is formatted text what C says, a dump its beginning, a copy exact? | buffers of 0, 1, 4 and 40 characters (16 sizes for dumps); integers of 3 to 7 bits; regions in 6 bytes | 185,793 |

Why the bounds are enough for the cases that matter:

- `keyboard`: a buffer of one slot makes refusal the normal case and has head
  and tail equal both when full and when empty; the flags do not depend on the
  contents of the buffer. All of it but liveness is proved for every size
  (section 6). Two keys for one modifier are left out, see section 5.
- `interrupts`: keyboard and timer can be nested with a second timer between
  the first's EOI and its return, and a second keyboard likewise; five frames
  hold these with a software interrupt beneath. `MaxDepth` bounds a real
  hazard: the code has no limit (an interrupt may follow every EOI before the
  handler has returned).
- `shell`: the command that switches modes has two letters, so with four bytes
  it fits with a blank behind it and the buffer also fills. One name begins
  another, as `pci` does `pcie`. The MADTs have entries of every type the command
  knows and one it does not, and none at all; the buses have bridges below
  bridges, several host controllers, one of which may itself be a bridge, functions
  behind a first one that denies having any, and a bus reached twice.
- `heap`: 24 and 40 leave remainders that split and ones that do not, 150 does
  not fit one page beside other blocks and makes the heap grow, into the last
  free block and beside an allocated one, and three pages are used up. The
  client frees only the block at the heap's start and leaves no remainder of
  eight bytes, because of the two disagreements of section 5: with either the
  heap is damaged. For blocks that are freed in other places only the refuting
  runs speak. Section 6 has the same three properties for every size of page,
  heap and request.
- `physmap`: three arbitrary regions with the kernel's three reach all cases of
  the comment in `collapse_overlaps`, splits that move behind other regions
  included. Empty regions are reported at address 0, where the sweep meets them
  first; elsewhere see section 5. Addresses count pages. The lists that are sorted
  have up to seven elements, with equal keys, in order and out of it.
- `startup`: a large page is 4 pages, a huge one 8 and a PDPT spans 16, so 24
  pages have mappings of every size, aligned and not, under two PDPTs. The layouts cut the memory above the image in up to three zones in all
  ways, with and without holes, and one is out of order and overlaps itself.
  `BootSpare` = 4 is enough for some firmwares and not for others. The usable
  regions are up to three, so the chain of frames is hooked together twice, and
  with two releases frames come back between others.
  `Word` is 64 where the code has 2^16; discs whose sector numbers reach it are
  left to `StartupClaims`.
- `paging`: the tables are mapped in pages 64 to 83, one for every frame there
  could be and one over. The client's pages 84 and 87 share all tables, 88 all but
  the last level, and 96 shares fewer still; the pool is larger than one tree and
  smaller than two, so frames are used again with what was left in them. A call
  of `page_alloc` finds at least `MaxGrowth` frames, enough for all the calls it
  leads to, and each of those at least the `MaxStep` it may take: so none is
  left in the middle for want of frames.
- `tty`: a buffer of four rows of two columns wraps after every second scroll. Two
  consoles allow switching; only the first is printed to, as in the kernel.
- `text`: the sizes cut a text before, inside and behind a conversion, and hold
  it whole; zero and one are the sizes without room. The numbers are zero,
  both sides of the sign of `int` and `long`, and some that are negative, the least
  one of `char` among them, only when cut to a shorter length. For dumps each size falls inside
  or at the edge of a piece of the first or second line; 640 bytes is the
  exception handler's buffer. The regions of `memmove` overlap in both directions
  by every amount.
- `log`: a text of five characters evicts up to three short ones, four short ones
  evict by record, and 5 + 2 + 1 fills the buffer exactly.

`CHECK_DEADLOCK FALSE` is given where the system or the model really stops:
after `fatal` or an exception every handler is hung (`interrupts`); the bound
on added regions is used up (`physmap`); an error of the start or a fault stops
the machine (`startup`); the roots of destroyed page tables are never returned, so the
pool runs dry (`paging`); the bound on messages is reached (`log`); a call of a
library function returns (`text`). The
refuting configurations of these modules give it for the same reasons.

### Fairness

- `Keyboard`: weak fairness of `Step`, the steps of a call in progress. A
  handler ends, so the thread goes on. That keys keep arriving for ever is not
  excluded: `GetCharReturns` has the premise that at some time they stop,
  because a `kb_getchar` that meets only keys without a character does go round
  for ever.
- `Interrupts`: weak fairness of the handlers' steps, since the topmost code
  runs; weak fairness of the timer, a free running oscillator; strong fairness of the
  delivery of each of the two interrupts, because the processor takes a pending
  interrupt when interrupts are on, and those go on and off as handlers come and go.
  `KeyboardServed` has the premise that handlers are from some time on faster
  than the timer: a timer that ticks during every handler would starve the
  keyboard, which is less urgent.
- `Shell`: weak fairness of its own steps and of the timer's tick. Without the
  tick `KeysHandled` fails: a key that arrives between the last fruitless
  `kb_getkey` and `hlt` has spent its interrupt already.
- `PhysMap`: weak fairness of the loops of one call.

The main thread of `Interrupts` is under no fairness: it may halt or stay
anywhere.

## 5. Disagreements between the code and its comments

Two are runs that must find a violation:

| run | what the repository says | what the code does |
|---|---|---|
| `interrupts_fatal` | "Raise a fatal interrupt that hangs the system." (cpu.h:199) | the thunk pushes vector 255 as a signed byte (interrupt.asm:129), the dispatcher reads before the table, finds zero, and `fatal()` returns |
| `heap_free_any` | "Check the preceding block adjacent to 'b'. If it's free, return a pointer to it." (heap.c:111-112) | the address is counted from the footer and not from the block (heap.c:122): eight bytes too low, and what is read there as flags always says free |

The shell's own heap test (`cmd_test_heap`, shell.c:184-203) frees blocks in an
order that meets the second.

The others have a configuration beside the runs, which TLC is expected to refute:
`tlc -workers 1 -continue -config <cfg> <module>`, where the module is the one the
name begins with, or its MC module where there is one (`MCKeyboard`, `MCShell`,
`MCPhysMap`, `MCStartup`, `MCText`). With `-continue` each of several
properties is reported. Where the table says "with", it is a run's own
configuration with the lines given. The passing runs stay on this side of each of
them.

| configuration | property | what the repository says | what the code does |
|---|---|---|---|
| KeyboardClaims | CharMatchesFlags | "Install a new keyboard layout." (keyboard.h:120) | `kb_setlayout` copies two tables with interrupts on (keyboard.c:290): a key pressed between the copies gets its letter from one layout, its capital from the other |
| KeyboardClaims | ModifiersTrackKeys | "Set while the shift key is pressed." (keyboard.h:23) | both shift keys share the flag; releasing one clears it (keyboard.c:201) |
| InterruptsClaims | KeyboardServed | "To disable an ISR, set its handler to null." (interrupt.h:81) | a null handler sends no EOI (interrupt.asm:183), which blocks less urgent interrupts for good |
| InterruptsClaims | EnableUnmasks | "Tell the PIC to enable a hardware interrupt" (interrupt.h:91) | for 8-15 the recursive call leaves 2 in `cl` (interrupt.asm:508); another line is unmasked |
| Heap with `TinyBlocks = TRUE`, `MaxPages = 2`, `Requests = {8, 24, 88}` | FooterIsSize | "size of the preceding block" (heap.c:50) | a remainder of eight bytes is split off (heap.c:259), its `prev` pointer overwrites the footer |
| PhysMap with `Bytes = 6`, `MaxAdds = 0`, `EmptyAt = {0, 1, 2, 3, 4, 5}` | OverlapsGone | "Find all overlapping memory regions … and collapse or reorganize them" (pmap.c:88-89) | an empty region between two hides their overlap (pmap.c:99) |
| StartupClaims | KernelLoaded | "until the kernel is fully copied into upper memory" (loader.asm:964-965) | sector numbers are words (loader.asm:1004-1007): a kernel beyond sector 65535 is read from elsewhere |
| StartupClaims | SearchComplete | "Scan the root directory of the cdrom for a file called" MONK.SYS (loader.asm:804) | the padding at the end of a full sector ends the search (loader.asm:841-846) |
| StartupClaims | GuardsKept | "This way, if the kernel overflows its stack, we'll get a page fault" (loader.asm:1268) | `kmem_init` maps the whole image, the guard pages included (kmem.c:203) |
| StartupClaims | DatabaseMapped | "Create the page frame database in the newly mapped virtual memory" (paging.c:136) | a database at the end of the last usable region is reserved memory beyond `last_usable`, which is not mapped (kmem.c:154) |
| PageFramesClaims | AvailCounts | "available number of frames in the pfdb" (paging.c:65) | `pfalloc` does not decrement it (paging.c:179) |
| PageFramesClaims | ReleasedIsListed | "Free one or more contiguous pages" (paging.h:132) | with an empty list the old head's record is at `PFN_INVALID` (paging.c:215) |
| PageFramesClaims | ListExact | regions are rounded to pages (paging.c:144-145) | the first frame is rounded down, so part of it is not usable (paging.c:154) |
| PagingClaims | TablesAreMapped | "If adding the new entry required the page table to grow, make sure to add the page table's new pages as well" (paging.c:328-329) | the recursive call uses the same `vnext` before it moves on (paging.c:331): one table's mapping replaces another's |
| PagingClaims | DestroyReturnsAll | "Recursively destroy all pages starting from the PML4 table" (paging.c:388) | no entry maps the root, which is never returned |
| Tty with `Users = {0, 1}` | ShowsTerminals | a console's rows "shifted copy of the screen" (tty.c:301-302) | the first screen's copy goes one screen before the console's memory, into the console before it (tty.c:306) |
| Tty with `SPECIFICATION SetPosSpec`, `MAX_TTYS = 1` | CopyIsReady | "When we reach the end of the virtual buffer, we'll have another shifted copy of the screen ready to display" (tty.c:301-302) | `tty_setpos` changes rows without a copy (tty.c:202) |
| LogClaims | OffsetsInBuffer | "offset of message in context::mbuf" (log.c:31) | a text that ends at the buffer's end leaves the next offset one past it (log.c:130) |
| LogClaims | RemovedIsSilent | "Remove a callback handler for log messages." (log.h:50) | the later entries move down but the count stays (log.c:180), so the last is called still |
| PagingClaims | NoStaleTranslation | "Invalidate the page containing a virtual address." (cpu.h:163), as the out-of-line version does (cpu.asm:183-186) | the inlined one names the variable that holds the address (cpu_inl.h:123-131), so it is that variable's page which is dropped |
| Shell with `Machines <- EmptyEntry` | KeysHandled | a command returns to the prompt (shell.c:259-263) | an entry of length zero is found for ever (acpi.c:391); with `Machines <- BridgeLoop`, a bridge whose secondary bus is not set leads back to bus 0 and the recursion does not end (pci.c:90) |
| TextClaims | StaysInBuffer | "Maximum number of characters in the the buffer, including space for a null terminator" (stdio.h:23-24) | if the text is longer, the zero goes before the pointer, which is behind the buffer (vsnprintf.c:557) |
| TextClaims | EndsInBuffer | "The resulting null-terminated string" (dump.h:58-59) | likewise at `b[bufsize - 1]` with `b` already at the end (dump.c:158) |
| TextClaims | ReturnsFullLength | "The number of characters that would have been written to the buffer if n had been sufficiently large" (dump.h:64-65) | the loop ends with the buffer (dump.c:58) |

## 6. What is proved

Eight modules hold theorems, all of them checked by TLAPS for every value of the
constants that the models' own assumptions allow. A theorem that needs more than
those assumptions says so in its `ASSUME`, by name. The passing run's constants
satisfy it: TLC evaluates that where it takes a calculation (`HypothesesHold` in
`MCKeyboard`, `MCShell` and `MCStartup`); for `DevicesServed`, `Aligned`,
`EmptyAt`, `Users`, `Inlined`, `FreeAny` and `TinyBlocks` it shows in the
configuration. Each such hypothesis leaves out a
disagreement of section 5, where the property is false.

| theorem | of | property | needs |
|---|---|---|---|
| `TypeCorrect`, `RingCorrect` | Keyboard | `TypeOK`, `RingInv` | – |
| `QueueImplemented` | Keyboard | `IsKeyQueue`: the ring is the queue | – |
| `FlagsCorrect` | Keyboard | `FlagsTrackWire` | `OneKeyPerModifier`, `LayoutsAgree` |
| `CharsCorrect` | Keyboard | `CharMatchesFlags` | `LettersPaired` |
| `PicCorrect`, `BytesAnnounced` | Interrupts | `PicMatchesStack`, `AnnouncedUnlessBoot` | `DevicesServed` |
| `EchoCorrect` | Shell | `EchoMatchesCommand` | – |
| `ListsCorrect` | Shell | `ListsAll` | `MadtsFormed` |
| `FindsCorrect` | Shell | `FindsAll` | `PcisFormed` |
| `SweepCorrect`, `StrongestCorrect`, `ExactCorrect`, `ScansCorrect` | PhysMap | `SweepInOrder`, `StrongestTypeWins`, `MapExact`, `ScansStop` | `EmptyAt \subseteq {0}` |
| `ApartCorrect` | PhysMap | `OverlapsGone`, false without it | `EmptyAt \subseteq {0}` |
| `DisplayCorrect` | Tty | `DisplayFollows` | – |
| `TerminalsCorrect` | Tty | `ShowsTerminals`: consoles are terminals | `Users \subseteq {0}` |
| `LogCorrect`, `RoomCorrect`, `CallbacksCorrect` | Log | `HoldsMostRecent`, `GivesUpForRoom`, `NobodyMissed` | – |
| `TreeCorrect`, `DestroyCorrect` | Paging | `TreeSound`, `DestroyReturnsPages` | – |
| `TranslationCorrect` | Paging | `NoStaleTranslation` | `~Inlined` |
| `TiledAlways`, `FreeListAlways`, `LiveDataAlways` | Heap | `HeapTiled`, `FreeListExact`, `LiveDataIntact` | `~FreeAny`, `~TinyBlocks` |
| `ListCorrect`, `TypeCorrect` | PageFrames | `ListExact`, its types | `Aligned` |
| `PoolCorrect` | PageFrames | `IsPool`: the list is the pool | `Aligned` |
| `StartListCorrect`, `StartPoolCorrect` | Startup | `ListExact`, `IsPool` on the start-up's regions | – |
| `FreeMemoryCorrect` | Startup | `PoolIsFreeMemory` | – |
| `IdentityCorrect` | Startup | `IdentityMapped` | – |
| `KernelCorrect` | Startup | `KernelLoaded` | `KernelsNear` |
| `ReachableCorrect` | Startup | `TablesReachable` | `TablesClear` |
| `StartTypeCorrect` | Startup | `StartTypeOK` | – |

**Keyboard.** `TypeOK` alone is not inductive: `Release` decrements `buf_size`,
which stays in range only if a call past the test still has its key. The
inductive invariant is `TypeOK /\ RingInv`. `RingInv` counts the
occupied slots from `First`, which is `buf_head` except while a call is between
advancing it and giving the slot back; then it is the slot before. Seen so, the
interrupt routine only ever writes to the slot after the last one occupied
(`IsrEffect`, `InterruptEffect`), and `Release` removes exactly the slot at
`First`. The lemma `WrapSlot` and those on `queue` (`QueueAppends`,
`QueueRelease`, `QueueSame`) translate steps of the ring into `Append`, `Tail`
and stuttering of the sequence, and `InterruptRefines` and `MainRefines` map
each action to one of `KeyQueue` or to a stutter: `Pull` is a stutter, `Release`
is `Take` or `Skip`.
`FlagsCorrect` needs that no two keys share a modifier's flag
(`OneKeyPerModifier`) and that the layouts agree on which keys are modifiers
(`LayoutsAgree`): the flag follows the last of its keys that moved. For
`CharsCorrect` each slot of the buffer is right (`CharInv`), whichever layouts the
two tables hold at the time, if every layout has its letters' capitals on the same
keys, and every other layout too (`LettersPaired`).

**Interrupts.** `IInv` is `PicMatchesStack` with `BootInv`: before `kmain` has
gone through its set-up no handler runs and none can, and afterwards both devices
have theirs. Without the second part a null handler could be on the stack with its
interrupt in service for good. `DevicesServed` says that nobody sets the timer's or
the keyboard's handler to null; see section 5 for what happens otherwise. A
handler's last step removes the top frame, so that the frames above
an open one never outlive it; that is the step case with the most work.

**Shell.** `ShellInv` has four parts: the queue's types (`KeyInv`), the line
(`LineInv`: what is echoed is the command, and it fits), the prompt
(`PromptInv`: there is one except while a command walks or in keycode mode) and
the walk's types (`JobInv`). For `ListsCorrect` the walk's invariant says of every
cell whether the walk has passed it, and that the printed entries are exactly the
headers passed, in order (`ApicInv`). `MadtsFormed` is that the lengths in a table
add up and none is zero. For `FindsCorrect` the invariant (`PciState`) speaks of the
buses whose probes have been started, which the program does not keep: a function on one of
them that the open calls have passed (`Probed`) is printed or, if it is a bridge,
its bus is among them too (`Complete`), and only buses that something leads to are
(`Led`). So when no call is open they are the least set closed under the ways
in, and that is `Reached`. Nothing is printed twice because each bus but the first
has a way in that has been passed (`WayIn`): a second start of its probe needs
a second way. `PcisFormed` is that a bridge leads to a later bus than its own, so the
buses of the open calls ascend; with `BridgeLoop` of section 5 they do not.
`LastFunction <= LastBus`, an assumption of the module, is needed too: `pci_init`
looks for the host controllers by the number of their bus, and one whose number is
past the last bus would be missed.

**PhysMap.** `MapInv` is one invariant for the sort and the loops behind it.
`SortInv` is about the stack of ranges: two elements are in order already or in
one range together (`SortedApart`), what the scans have passed is on its side of
the pivot, and an element that stops each of them is still ahead (`Scanned`).
The second is why neither scan needs a bound: at first the pivot's own place
stops both, later the pair exchanged last. When the last range is gone the list
is in order. `LoopInv` then says of `collapse_overlaps` that the regions behind
`curr` are not empty and end before all that follow (`Clear`) and that those ahead
are in order (`InOrder`); `SweepTurn` shows for each of the seven cases that it
keeps both and the strongest type at every address (`Swept`). For the cases that move a
region, `ResortInOrder` is the lemma: in a list in order but for one
element, `resort` puts that one where it belongs. `FillTurn` and `JoinKeeps` do the
same for the other two loops. An empty region is first where the loop looks at it
only if nothing can sort before it, hence `EmptyAt \subseteq {0}`; section 5 has
the counterexample with one elsewhere.

**Tty.** `Placed` ties a console's scroll position to its cursor: the window
begins `ybuf - y` rows into the buffer, and only with the cursor on the bottom row
can it have wrapped. `DisplayCorrect` follows from that and from what the start and
cursor registers hold. For the refinement the wrap must be shown to be invisible:
the window jumps back a screen. `RefInv` therefore adds `Copies`, that each row
left in the buffer's second screen has its copy one screen up, so that the rows
in front of the cursor read the same from both places. `LineFeedDown` and
`LineFeedScroll` preserve it, the second although it clears one row too many; the
row after the bottom one is never one that is shown or copied before it is written
again. A row of the first screen has its copy above the console's memory; for the
first console nothing is there, hence `Users \subseteq {0}`, and nothing in the kernel
prints to another.

**Log.** `BuffersInv` locates every record still held and every one of its
characters: the record of message `First + i` is `i` slots after `rtail`
(`Records`), and character `p` of all those ever logged is at
`(mhead + p - EndOf(First)) % MBUFSIZE` (`Texts`). Evicting moves `First`, and the
two counts with it. `CallbacksInv` is that every registered handler has a
place below `callbacks_size`.

**Paging.** That a page's walk ends at its frame is not inductive: the next entry
written might be one of its tables'. What makes the tree safe is its shape, and
`IInv` describes that. `Depths` are the sets of tables at each depth below the
root, and `Sound` says of them that no frame is at two depths or below two
entries (`Apart`, `OneParent`), that only the root's first entry is the kernel's
(`SystemAt`), that a last entry leads to a frame of the client's, no frame twice, or
to a table of the tree (`LeavesAre`, `OneLeaf`), and that all of them are held
(`Owned`). `PagesAre` is that each page's walk ends where `pages` says, and
`Counted` that the tables still to be mapped are the tree's, each once, and
`vnext` is `Vroot + 1` and the number of those mapped before. From the last
follows that the region of the tables suffices (`RegionSuffices`), so `vnext` is
never a client's page and mapping a table never replaces a client's entry; it
may replace a table's, see section 5, and nothing here claims otherwise. Writing
happens in three ways, each a lemma: `Grow` adds one empty table below an entry
that was absent, `Descent` is up to three of those on the way down, `Stored`
writes one last entry. `AllocTree`, `AddTree`, `NextTree`, `FreeTree` and
`CreateTree` put them together for the operations. `PagingAssumption` is used
in full: the kernel's first entry is out of the region's and the client's way,
and the region has a page for each frame, because behind a full one `fatal()`
comes back and tables would be mapped over whatever follows.

**Heap.** The three properties are defined by walking through memory, so none is
inductive, and the invariant does without the walk: `HeapIInv` (`Kept`) says that
there is a set of blocks `B` that is `Proper`, and that the client holds the
allocated ones (`Holding`). `Proper` is that each block is well formed and ends
where another begins or the heap ends (`Tiles`), that no two free ones touch
(`Merged`), and that every link leads to the nearest free block on its side
(`ListedBut`). `BlocksMet` shows that walking meets exactly `B`: `WalkEnds` is an
induction over the steps of the walk, made by well-founded induction on sets
(`UpTo`), because no two steps can be less than 48 bytes apart; `NextFree`,
`PrevFree` and `FindIs` are the three searches.

Every operation replaces the blocks between two addresses by others, of which at
most one is free: `Spliced` says what memory must look like afterwards, and
`Splice`, with `SpliceTiles`, `SpliceMerged`, `SpliceListed` and `SpliceHolding`,
that the heap is then in order and the client's other blocks untouched. What is
left for each operation is to show that it splices: `TakeHands` and `SplitHands` for
`heap_alloc`, `GrowNew` and `GrowLast` for `grow_heap` (after which the list's
head may not be told yet: `Ordered` is `Proper` but for what follows one block),
`MergeNextFrees` and `MergeNoneFrees` for `heap_free`. `FillKeeps` is the client's
part: writing into a block it holds disturbs no header, footer or link.

The two hypotheses are the two disagreements of section 5. A block of eight
bytes, left over or asked for, has no room for its links once it is free; that is
where `SplitHands` and `FreedSplices` would fail. If other
blocks than the first are freed, `prev_fblock_adj` reads eight bytes too low and
takes what precedes for free; the lemmas on `MergeNext` and `MergeNone` hold of
any block, so it is that one read alone which confines the theorems to the
first.

**PageFrames.** `IInv` says that there are a length and a sequence of frames that
the links follow forwards and backwards (`ListInv`), without a frame twice, and that its
frames are exactly the usable ones that nobody holds. `RegionIInv` chains a
region behind it, `PfallocIInv` takes the first frame and `PffreeIInv` puts one in
front. After a fault (`pc = "stopped"`) only the types remain, as in the code.
`Aligned` is that regions begin and end at page edges.

**Startup.** `CoreInv` has the memory map (`MapInv`: what was reported, listed
or taken is still there, since `Overlay` only raises types), the pool (`PoolInv`, over
the database's `IInv`; the regions of the start-up are whole pages, so
`Aligned` is not needed) and the kernel's table (`TableInv`). The lemmas on the
table come first: `KmemInv` says that the entries made so far cover
exactly the mappable pages below `addr`, each once and with its caching, and that
each has the tables above it (`TablesNeeded`); a large or huge page is only used
where all of it is in the region, so entries never overlap. `KernelCorrect`
adds `LoadTyped` and `LoadCopied`: the sectors copied are the first of the file,
in order, and the chunk counter in words does not wrap if the last sector's number is a word
(`KernelsNear`). `ReachableCorrect` adds `AcpiInv`: what has been read is
mapped in the boot table and is no bad memory; in the kernel's table everything
but the first page then is. `TablesClear` keeps a firmware's tables out of the
guard pages and the first page.

### What is only model-checked

- Liveness: every property under fairness (`GetCharReturns`, `KeyboardServed`,
  `HaltEnds`, `KeysHandled`, `NormalizeEnds`), and what would need `ENABLED`.
- `Paging`: that `MaxGrowth` frames are enough for every call `page_alloc` leads
  to. In the run's instance they are: `add_table` is never short of `MaxStep`.
- `MCText` (`Format`, `Dump`, `Cstring`): what a conversion puts out is an
  induction over its digits.

## 7. What is not modelled

- Of the library, `strlen` and `strcmp`, which are pure loops, and the fills
  (`memset`, `memsetd`, `memzero`), which are one string instruction each.
- Conversions of `vsnprintf` on which it and ISO C differ, and which the kernel
  does not use: the 0 flag with a precision or a string, + and blank with an
  unsigned conversion, # with zero, and a value and a precision both of zero.
  `MCText` leaves them out.
- How often a function is printed whose bus has two ways to it (two bridges, or a
  bridge and a host controller): such a bus is probed twice, and `FindsAll` counts
  functions only where no bus has two ways in.
- The stack switch of double faults, NMI and machine checks, the register save
  area, the divisor of the timer.
- The help the shell prints, and its order. The heap test is one step of the
  shell, whose state it leaves alone; the calls it makes are modelled in `Heap`
  and `Paging`.
- Formatting inside the log and the consoles: texts there are given.
- Of the boot loaders: messages, the wiping of buffers, the task state segment,
  the descriptor tables, and the caching of video memory in the boot page table.
  The table of zones has a fixed size that `pmap.c` does not know of; `PhysMap`
  has no bound there.
- System calls: three registers are written and the handler is empty.
