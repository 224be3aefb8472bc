-------------------------------- MODULE Heap --------------------------------
(***************************************************************************)
(* The heap, kernel/mem/heap.c.                                            *)
(*                                                                         *)
(* mem is the heap's memory, one value per eight-byte word, addressed in   *)
(* bytes from the heap's start.  It begins with struct heap; the blocks    *)
(* follow one another to the end of the last page:                         *)
(*                                                                         *)
(*     size  flags  payload ...................  size     (allocated)      *)
(*     size  flags  next_fblock  prev_fblock ..  size     (free)           *)
(*                                                                         *)
(* A size counts the payload.  The heap belongs to one thread and no       *)
(* interrupt routine uses it, so a call is one action; the code's stores   *)
(* are made in mem in their order (EXCEPT makes its changes one after the  *)
(* other), so that fields which overlap overwrite one another as they do   *)
(* in the program.                                                         *)
(***************************************************************************)
EXTENDS Integers

CONSTANTS
    PAGE_SIZE,      \* bytes of a page
    ALLOC_PAGES,    \* pages the heap starts with, and grows by at least
    MaxPages,       \* the maxpages given to heap_create
    Requests,       \* the sizes asked for
    TinyBlocks,     \* whether the client lets blocks of eight bytes be free
    FreeAny         \* whether it frees other blocks than the first

ASSUME HeapAssumption ==
    /\ ALLOC_PAGES \in Nat \ {0}
    /\ MaxPages \in Nat \ {0}
    /\ PAGE_SIZE \in Nat /\ PAGE_SIZE % 16 = 0
    /\ 96 <= PAGE_SIZE     \* struct heap and a block, with its links when free
    /\ Requests \subseteq Nat
    /\ TinyBlocks \in BOOLEAN /\ FreeAny \in BOOLEAN

VARIABLES
    mem,        \* the heap's words
    live        \* what the client holds: [ptr, size], size as it asked

heapVars == <<mem, live>>

NULL == 0

Greater(a, b) == IF a > b THEN a ELSE b
Least(S)      == CHOOSE x \in S : \A y \in S : x <= y
div_up(n, d)  == (n + d - 1) \div d

maxpages == Greater(ALLOC_PAGES, MaxPages)
Words    == {8 * i : i \in 0..((maxpages * PAGE_SIZE) \div 8 - 1)}

\* Bound: no heap here has more blocks than 32-byte slots.
MaxBlocks == (maxpages * PAGE_SIZE) \div 32 + 1

HEADER   == 16    \* sizeof(block_header_t)
FOOTER   == 8     \* sizeof(block_footer_t)
OVERHEAD == HEADER + FOOTER

\* Addresses of the fields of struct heap that calls change, and the first
\* block, which follows the struct.
PagesField  == 16
FirstField  == 32
FirstBlock  == 48

Term(m)       == m[PagesField] * PAGE_SIZE
total_bytes(m, b) == m[b] + OVERHEAD
flags(b)      == b + 8
next(b)       == b + 16
prev(b)       == b + 24
footer(b, n)  == b + HEADER + n
IsFree(m, b)  == m[flags(b)] % 2 = 0

\* The least value from n on that leaves the rest r when divided by 16.
round16(n, r) == ((n - r + 31) \div 16) * 16 + r - 16

-----------------------------------------------------------------------------
(* Finding the neighbours of a block. *)

next_fblock_adj(m, b) ==
    LET n == b + total_bytes(m, b)
    IN  IF n >= Term(m) \/ ~IsFree(m, n) THEN NULL ELSE n

\* The block's start is counted back from the footer of the one before it,
\* not from its own header.
prev_fblock_adj(m, b) ==
    LET f == b - FOOTER
        p == f - total_bytes(m, f)
    IN  IF b = FirstBlock \/ ~IsFree(m, p) THEN NULL ELSE p

\* The addresses met when walking forwards from block b.
Walk(m, b) ==
    LET w[i \in 0..MaxBlocks] ==
            IF i = 0 THEN b
            ELSE LET a == w[i - 1]
                 IN  IF a >= Term(m) THEN a ELSE a + total_bytes(m, a)
    IN  w

next_fblock(m, b) ==
    LET w == Walk(m, b)
        i == Least({j \in 1..MaxBlocks : w[j] >= Term(m) \/ IsFree(m, w[j])})
    IN  IF w[i] >= Term(m) THEN NULL ELSE w[i]

\* The addresses met when walking backwards, by the footers.
WalkBack(m, b) ==
    LET w[i \in 0..MaxBlocks] ==
            IF i = 0 THEN b
            ELSE LET a == w[i - 1]
                 IN  IF a = FirstBlock THEN a ELSE a - total_bytes(m, a - FOOTER)
    IN  w

prev_fblock(m, b) ==
    LET w == WalkBack(m, b)
        i == Least({j \in 1..MaxBlocks :
                       w[j - 1] = FirstBlock \/ IsFree(m, w[j])})
    IN  IF w[i - 1] = FirstBlock THEN NULL ELSE w[i]

-----------------------------------------------------------------------------
(* The list of free blocks. *)

\* In m, block b comes after block p, or first in the list (NULL).
Follow(m, p, b) == [m EXCEPT ![IF p = NULL THEN FirstField ELSE next(p)] = b]

\* In m, block b, or none (NULL), comes before block n, if there is one.
Precede(m, b, n) == IF n = NULL THEN m ELSE [m EXCEPT ![prev(n)] = b]

\* Mistaken variant: the list is kept in one direction only.
LinkForward(m, p, b, n) == Follow(m, p, b)

\* Block b is put between its neighbours p and n.
Link(m, p, b, n) == Precede(Follow(m, p, b), b, n)

-----------------------------------------------------------------------------
(* Allocation. *)

\* How many pages the heap grows by for a block of n bytes; 0 if it cannot.
GrowPages(m, n) ==
    LET need  == n + OVERHEAD
        pages == Greater(ALLOC_PAGES, div_up(need, PAGE_SIZE))
        left  == maxpages - m[PagesField]
    IN  IF pages <= left THEN pages
        ELSE IF left * PAGE_SIZE < need THEN 0 ELSE left

\* Growing leaves a free block at the end of the heap: a new one, or the old
\* last block if that was free.  The free block before a new one is not told
\* of it here.
grow_heap(m, n) ==
    LET pages == GrowPages(m, n)
        vnext == Term(m)
        lf    == vnext - FOOTER
        lh    == lf - (m[lf] + HEADER)
        grown == [m EXCEPT ![PagesField] = @ + pages]
        size  == pages * PAGE_SIZE - OVERHEAD
        before == prev_fblock(m, vnext)
        merged == m[lh] + pages * PAGE_SIZE
        new    == [grown EXCEPT ![vnext] = size, ![flags(vnext)] = 0,
                                ![next(vnext)] = NULL, ![prev(vnext)] = before]
        listed == IF before = NULL THEN Follow(new, NULL, vnext) ELSE new
    IN  IF pages = 0 THEN [mem |-> m, fh |-> NULL]
        ELSE IF ~IsFree(m, lh)
        THEN [fh  |-> vnext,
              mem |-> [listed EXCEPT ![footer(vnext, size)] = size]]
        ELSE [fh  |-> lh,
              mem |-> [grown EXCEPT ![lh] = merged,
                                    ![footer(lh, merged)] = merged]]

\* The first free block of the list that is large enough, or a grown one.
find_fblock(m, n) ==
    LET at[i \in 0..MaxBlocks] ==
            IF i = 0 THEN m[FirstField]
            ELSE LET b == at[i - 1]
                 IN  IF b = NULL THEN NULL ELSE m[next(b)]
        i == Least({j \in 0..MaxBlocks : at[j] = NULL \/ m[at[j]] >= n})
    IN  IF at[i] # NULL THEN [mem |-> m, fh |-> at[i]] ELSE grow_heap(m, n)

\* The whole free block is handed out if what would be left over could not
\* hold a block.
FillsBlock(fsize, n) == fsize - n < 8 + HEADER + FOOTER

\* Mistaken variant: the next free block is not told of its new neighbour.
TakeForward(m, b) ==
    Follow([m EXCEPT ![flags(b)] = 1], m[prev(b)], m[next(b)])

\* The block leaves the list with its size unchanged.
Take(m, b) ==
    LET p == m[prev(b)]
        n == m[next(b)]
    IN  Precede(Follow([m EXCEPT ![flags(b)] = 1], p, n), p, n)

\* Mistaken variant: the allocated half gets no footer.
SplitNoFooter(m, b, size) ==
    LET p  == m[prev(b)]
        n  == m[next(b)]
        fb == b + size + OVERHEAD
        fs == m[b] - size - OVERHEAD
    IN  Link([m EXCEPT ![b] = size, ![flags(b)] = 1,
                       ![fb] = fs, ![flags(fb)] = 0, ![footer(fb, fs)] = fs,
                       ![prev(fb)] = p, ![next(fb)] = n], p, fb, n)

\* The block's first part is handed out, the rest takes its place.
Split(m, b, size) ==
    LET p  == m[prev(b)]
        n  == m[next(b)]
        fb == b + size + OVERHEAD
        fs == m[b] - size - OVERHEAD
    IN  Link([m EXCEPT ![b] = size, ![flags(b)] = 1, ![footer(b, size)] = size,
                       ![fb] = fs, ![flags(fb)] = 0, ![footer(fb, fs)] = fs,
                       ![prev(fb)] = p, ![next(fb)] = n], p, fb, n)

\* heap_alloc: the memory after it and the pointer it returns.
heap_alloc(m, request) ==
    LET size  == round16(request, 16 - FOOTER)
        found == find_fblock(m, size)
        b     == found.fh
    IN  IF b = NULL THEN [mem |-> m, ptr |-> NULL]
        ELSE [ptr |-> b + HEADER,
              mem |-> IF FillsBlock(found.mem[b], size)
                      THEN Take(found.mem, b)
                      ELSE Split(found.mem, b, size)]

-----------------------------------------------------------------------------
(* Deallocation. *)

MergeThree(m, h, p, n) ==
    LET size == m[p] + m[h] + 2 * OVERHEAD + m[n]
        nn   == m[next(n)]
    IN  [Precede([m EXCEPT ![p] = size, ![next(p)] = nn], p, nn)
             EXCEPT ![footer(p, size)] = size]

MergePrev(m, h, p) ==
    LET size == m[p] + total_bytes(m, h)
    IN  [m EXCEPT ![p] = size, ![footer(p, size)] = size]

MergeNext(m, h, n) ==
    LET size == m[h] + total_bytes(m, n)
        np   == m[prev(n)]
        nn   == m[next(n)]
    IN  [Link([m EXCEPT ![h] = size, ![flags(h)] = 0,
                        ![prev(h)] = np, ![next(h)] = nn], np, h, nn)
             EXCEPT ![footer(h, size)] = size]

\* Between two allocated blocks the freed one becomes a free block of its
\* own; its place in the list is found by walking to the next free block.
MergeNone(m, h) ==
    LET n == next_fblock(m, h)
        p == IF n = NULL THEN prev_fblock(m, h) ELSE m[prev(n)]
    IN  Link([m EXCEPT ![flags(h)] = 0, ![next(h)] = n, ![prev(h)] = p], p, h, n)

heap_free(m, ptr) ==
    LET h == ptr - HEADER
        p == prev_fblock_adj(m, h)
        n == next_fblock_adj(m, h)
    IN  CASE p # NULL /\ n # NULL -> MergeThree(m, h, p, n)
          [] p # NULL /\ n = NULL -> MergePrev(m, h, p)
          [] p = NULL /\ n # NULL -> MergeNext(m, h, n)
          [] OTHER                -> MergeNone(m, h)

-----------------------------------------------------------------------------
(* heap_create, and the client. *)

UserData == 7

\* The client fills what it is given.
Fill(m, ptr, size) ==
    [a \in DOMAIN m |-> IF a \in ptr..(ptr + size - 1) THEN UserData ELSE m[a]]

HeapInit ==
    LET size == ALLOC_PAGES * PAGE_SIZE - FirstBlock - OVERHEAD
        zero == [a \in Words |-> 0]
    IN  /\ mem = [zero EXCEPT ![PagesField] = ALLOC_PAGES,
                              ![FirstField] = FirstBlock, ![FirstBlock] = size,
                              ![footer(FirstBlock, size)] = size]
        /\ live = {}

\* What is left of the block that would serve the request.
Remainder(request) ==
    LET size  == round16(request, 16 - FOOTER)
        found == find_fblock(mem, size)
    IN  IF found.fh = NULL THEN 0 ELSE found.mem[found.fh] - size

Alloc(request) ==
    LET after == heap_alloc(mem, request)
    IN  /\ TinyBlocks \/ (Remainder(request) # 8 + OVERHEAD /\ request > 8)
        /\ after.ptr # NULL
        /\ mem' = Fill(after.mem, after.ptr, request)
        /\ live' = live \union {[ptr |-> after.ptr, size |-> request]}

\* NULL comes back when no free block is large enough and the heap cannot
\* grow: nothing has changed.
AllocFails(request) ==
    /\ heap_alloc(mem, request).ptr = NULL
    /\ UNCHANGED heapVars

Free(l) ==
    /\ FreeAny \/ l.ptr = FirstBlock + HEADER
    /\ mem' = heap_free(mem, l.ptr)
    /\ live' = live \ {l}

HeapNext ==
    \/ \E request \in Requests : Alloc(request) \/ AllocFails(request)
    \/ \E l \in live : Free(l)

HeapSpec == HeapInit /\ [][HeapNext]_heapVars

-----------------------------------------------------------------------------
(* Properties. *)

\* The starts of the blocks, walking from the first by their sizes.
Blocks ==
    LET w == Walk(mem, FirstBlock)
    IN  {w[i] : i \in 0..MaxBlocks} \ {Term(mem)}

FreeBlocks == {b \in Blocks : IsFree(mem, b)}

\* Every word holds a number, the heap keeps to its pages, and "all returned
\* pointers will remain aligned on 16-byte boundaries" (heap.c:241-242).
HeapTypeOK ==
    /\ mem \in [Words -> Int]
    /\ mem[PagesField] \in ALLOC_PAGES..maxpages
    /\ \A l \in live : l.size \in Requests /\ l.ptr % 16 = 0

\* The blocks tile the heap: they end exactly where its last page ends, both
\* ends of each give the same size, and no two free ones are adjacent.
HeapTiled ==
    LET w == Walk(mem, FirstBlock)
    IN  /\ HeapTypeOK
        /\ \E i \in 0..MaxBlocks : w[i] = Term(mem)
        /\ \A b \in Blocks :
               /\ mem[b] % 16 = 8 /\ mem[b] > 0
               /\ mem[footer(b, mem[b])] = mem[b]
        /\ \A b \in FreeBlocks : b + total_bytes(mem, b) \notin FreeBlocks

\* The list of free blocks, in both directions, is the free blocks of the
\* heap in the order of their addresses.
FreeListExact ==
    LET After(b)  == {f \in FreeBlocks : f > b}
        Before(b) == {f \in FreeBlocks : f < b}
        first(S)  == IF S = {} THEN NULL ELSE Least(S)
        last(S)   == IF S = {} THEN NULL ELSE CHOOSE x \in S : \A y \in S : y <= x
    IN  /\ mem[FirstField] = first(FreeBlocks)
        /\ \A b \in FreeBlocks : /\ mem[next(b)] = first(After(b))
                                 /\ mem[prev(b)] = last(Before(b))

\* What the client holds is what the heap believes allocated, every block is
\* as large as was asked for, and no call writes into it.
LiveDataIntact ==
    /\ {l.ptr - HEADER : l \in live} = Blocks \ FreeBlocks
    /\ \A l \in live :
           /\ l.size <= mem[l.ptr - HEADER]
           /\ \A a \in Words :
                  a \in l.ptr..(l.ptr + l.size - 1) => mem[a] = UserData

\* "Check the preceding block adjacent to 'b'. If it's free, return a pointer
\* to it." (heap.c:111-112)
PrevAdjIsFree ==
    \A l \in live :
        prev_fblock_adj(mem, l.ptr - HEADER) \in FreeBlocks \union {NULL}

\* A footer holds the "size of the preceding block" (heap.c:50).
FooterIsSize ==
    \A b \in Blocks : mem[footer(b, mem[b])] = mem[b]
=============================================================================
