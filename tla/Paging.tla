------------------------------- MODULE Paging -------------------------------
(***************************************************************************)
(* Page tables, kernel/mem/paging.c, over the pool of page frames that     *)
(* FramePool specifies and PageFrames implements.                          *)
(*                                                                         *)
(* A page table is a tree of frames four levels deep.  The kernel reaches  *)
(* every frame through its identity mapping; besides, the frames of the    *)
(* tree are themselves mapped in a region of the address space the tree    *)
(* describes, and that is how pagetable_destroy is to find them.           *)
(*                                                                         *)
(* One thread uses the module and no interrupt routine does, so a call is  *)
(* one action; but add_pte calls itself for the tables it had to make, and *)
(* each of these calls is an action of its own.  Virtual addresses count   *)
(* pages.                                                                  *)
(*                                                                         *)
(* The processor keeps translations it has used until the page is          *)
(* invalidated or the table changes.  Which of several it keeps makes no   *)
(* difference to each of them, so the model has one, of any page.          *)
(***************************************************************************)
EXTENDS Integers, Sequences, FiniteSets

CONSTANTS
    Frames,         \* the page frames, positive numbers
    E,              \* entries of a table
    Vroot, Vterm,   \* the region where tables are mapped
    ClientPages,    \* the virtual pages the client uses (in the configurations, four
                    \* entries a table: the second of the root covers 64 to 127)
    Inlined         \* whether the build uses cpu_inl.h instead of cpu.asm

\* Neither the region nor the client is where the first entry of the root, the
\* kernel's, leads ("a system page table should never be modified",
\* paging.c:303).  And the region has room for all the frames there are: when a
\* smaller one is full, fatal() comes back and the tables are mapped behind it.
ASSUME PagingAssumption ==
    /\ Frames \subseteq Nat \ {0} /\ IsFiniteSet(Frames)
    /\ E \in Nat \ {0, 1}
    /\ Vroot \in Nat /\ Vterm \in Nat
    /\ E * E * E <= Vroot /\ Vroot + Cardinality(Frames) <= Vterm
    /\ Vterm <= E * E * E * E
    /\ ClientPages \subseteq (E * E * E)..(E * E * E * E - 1)
    /\ ClientPages \intersect Vroot..(Vterm - 1) = {}
    /\ Inlined \in BOOLEAN

VARIABLES
    free, held,     \* the pool
    tab,            \* what each frame holds, read as a table
    pt,             \* the page table: [proot, vnext], proot 0 if none
    pages,          \* of each page the client has, the frame it was given
    todo,           \* the tables that the calls of add_pte under way have still
                    \* to map, the innermost call's first, and whether the call
                    \* that maps it was made
    active,         \* whether the processor uses it, or else the kernel's
    tlb             \* the translation of a client's page the processor keeps

vars == <<free, held, tab, pt, pages, todo, active, tlb>>

Pool == INSTANCE FramePool

Index  == 0..(E - 1)
ABSENT == 0
SYSTEM == -1    \* an entry of the kernel's page table
None   == [page |-> 0, frame |-> 0]

\* Bounds: page_alloc finds at least MaxGrowth frames in the pool, the most it
\* takes with the calls it leads to in the configurations, and one call of
\* add_pte MaxStep, the most that it takes itself.  What happens in an empty
\* pool is PageFrames' subject.
MaxGrowth == 10
MaxStep   == 3

PML4E(v) == v \div (E * E * E)
PDPTE(v) == (v \div (E * E)) % E
PDE(v)   == (v \div E) % E
PTE(v)   == v % E

ZeroPage == [i \in Index |-> ABSENT]

-----------------------------------------------------------------------------
(* Operators on the state s = [tab, free, held]. *)

\* A frame of the pool; which one makes no difference.
pfalloc(S) == CHOOSE f \in S : TRUE

\* Mistaken variant: the page keeps what its last user wrote.
pgallocUnzeroed(s) ==
    LET f == pfalloc(s.free)
    IN  [tab |-> s.tab, free |-> s.free \ {f}, held |-> s.held \union {f}]

\* A frame from the pool, zeroed.
pgalloc(s) ==
    LET f == pfalloc(s.free)
    IN  [tab |-> [s.tab EXCEPT ![f] = ZeroPage],
         free |-> s.free \ {f}, held |-> s.held \union {f}]

\* Entry i of table t leads to frame f.
Enter(s, t, i, f) == [s EXCEPT !.tab = [s.tab EXCEPT ![t][i] = f]]

\* The table that entry i of table t leads to is made if it is missing; its
\* frame joins the added ones.
Step(w, i) ==
    LET f == pfalloc(w.s.free)
    IN  IF w.s.tab[w.t][i] # ABSENT
        THEN [s |-> w.s, t |-> w.s.tab[w.t][i], added |-> w.added]
        ELSE [s |-> Enter(pgalloc(w.s), w.t, i, f), t |-> f,
              added |-> Append(w.added, f)]

Descend(s, root, v) ==
    Step(Step(Step([s |-> s, t |-> root, added |-> <<>>], PML4E(v)),
              PDPTE(v)), PDE(v))

\* Map page v to frame f: the state, and the tables that had to be made.
\* The test against vterm calls fatal(), which comes back, so it changes
\* nothing.
add_pte(s, root, v, f) ==
    LET w == Descend(s, root, v)
    IN  [s |-> Enter(w.s, w.t, PTE(v), f), added |-> w.added]

Leaf(t, root, v) == t[t[t[t[root][PML4E(v)]][PDPTE(v)]][PDE(v)]][PTE(v)]

\* The frames of the tables below a root, system tables apart.
Below(t, S)   == {t[f][i] : f \in S, i \in Index} \ {ABSENT, SYSTEM}
Tables(t, root) ==
    LET pdpts == Below(t, {root})
        pdts  == Below(t, pdpts)
    IN  [pdpts |-> pdpts, pdts |-> pdts, ptts |-> Below(t, pdts)]

\* Mistaken variant: the last entry of a page table is forgotten.
LeavesShort(t, root) ==
    {t[f][i] : f \in Tables(t, root).ptts, i \in 0..(E - 2)} \ {ABSENT}

\* What pgfree_recurse meets at level 1.
Leaves(t, root) ==
    {t[f][i] : f \in Tables(t, root).ptts, i \in Index} \ {ABSENT}

-----------------------------------------------------------------------------
(* The processor's translations. *)

\* Loading the page table register drops those of pages that are not global,
\* as none of a client's is.
set_pagetable == tlb' = None

\* Mistaken variant: the instruction is left out.
invalidate_pageNever(v) == tlb

\* The inline version names the memory that holds the address, which is on
\* the kernel's stack, in place of the address itself.
invalidate_page(v) == IF tlb.page = v /\ ~Inlined THEN None ELSE tlb

-----------------------------------------------------------------------------
State == [tab |-> tab, free |-> free, held |-> held]

Created == pt.proot # 0

\* No call is under way.
Quiet == todo = <<>>

\* The added tables of a call, none of them mapped.
Added(added) == [k \in 1..Len(added) |-> [frame |-> added[k], called |-> FALSE]]

Becomes(s) == tab' = s.tab /\ free' = s.free /\ held' = s.held

\* The root is a frame of its own; it holds the kernel's entries.
pagetable_create ==
    /\ ~Created
    /\ free # {}
    /\ LET f == pfalloc(free)
           s == pgalloc(State)
       IN  /\ Pool!Take(f)
           /\ tab' = [s.tab EXCEPT ![f][0] = SYSTEM]
           /\ pt' = [proot |-> f, vnext |-> Vroot + 1]
    /\ UNCHANGED <<pages, todo, active, tlb>>

pagetable_activate ==
    /\ Created /\ Quiet
    /\ active' = ~active
    /\ set_pagetable
    /\ UNCHANGED <<free, held, tab, pt, pages, todo>>

page_alloc(v) ==
    /\ Created /\ Quiet
    /\ v \notin DOMAIN pages
    /\ Cardinality(free) >= MaxGrowth
    /\ LET f == pfalloc(free)
           w == add_pte(pgalloc(State), pt.proot, v, f)
       IN  /\ Becomes(w.s)
           /\ pages' = [p \in DOMAIN pages \union {v} |->
                            IF p = v THEN f ELSE pages[p]]
           /\ todo' = Added(w.added)
    /\ UNCHANGED <<pt, active, tlb>>

\* The loop over the added tables calls add_pte for the next one, at vnext.
\* What that call adds comes first.
add_table ==
    /\ ~Quiet /\ ~Head(todo).called
    /\ Cardinality(free) >= MaxStep
    /\ LET w == add_pte(State, pt.proot, pt.vnext, Head(todo).frame)
       IN  /\ Becomes(w.s)
           /\ todo' = Added(w.added) \o [todo EXCEPT ![1].called = TRUE]
    /\ UNCHANGED <<pt, pages, active, tlb>>

\* vnext moves on after the call, which may itself have used it.
next_table ==
    /\ ~Quiet /\ Head(todo).called
    /\ pt' = [pt EXCEPT !.vnext = @ + 1]
    /\ todo' = Tail(todo)
    /\ UNCHANGED <<free, held, tab, pages, active, tlb>>

\* The client uses a page through a table that is active.
Access(v) ==
    /\ active /\ Quiet
    /\ v \in DOMAIN pages
    /\ tlb' = [page |-> v, frame |-> Leaf(tab, pt.proot, v)]
    /\ UNCHANGED <<free, held, tab, pt, pages, todo, active>>

\* remove_pte clears the entry, and pgfree returns the frame it held.  The
\* processor is told if it uses the table.
page_free(v) ==
    /\ Created /\ Quiet
    /\ v \in DOMAIN pages
    /\ LET t == tab
           p == pt.proot
           ptt == t[t[t[p][PML4E(v)]][PDPTE(v)]][PDE(v)]
       IN  /\ Pool!GiveBack(t[ptt][PTE(v)])
           /\ tab' = [tab EXCEPT ![ptt][PTE(v)] = ABSENT]
    /\ tlb' = IF active THEN invalidate_page(v) ELSE tlb
    /\ pages' = [p \in DOMAIN pages \ {v} |-> pages[p]]
    /\ UNCHANGED <<pt, todo, active>>

\* All frames mapped by the tree go back, its own by way of their mappings.
\* The callers activate the kernel's table before, as nothing else would make
\* the processor forget the client's pages.
pagetable_destroy ==
    /\ Created /\ Quiet
    /\ ~active
    /\ LET freed == Leaves(tab, pt.proot) \intersect held
       IN  /\ free' = free \union freed
           /\ held' = held \ freed
    /\ pt' = [proot |-> 0, vnext |-> 0]
    /\ pages' = <<>>
    /\ UNCHANGED <<tab, todo, active, tlb>>

Init ==
    /\ free = Frames
    /\ held = {}
    /\ tab = [f \in Frames |-> ZeroPage]
    /\ pt = [proot |-> 0, vnext |-> 0]
    /\ pages = <<>>
    /\ todo = <<>>
    /\ active = FALSE
    /\ tlb = None

Next ==
    \/ pagetable_create \/ pagetable_activate \/ pagetable_destroy
    \/ add_table \/ next_table
    \/ \E v \in ClientPages : page_alloc(v) \/ Access(v) \/ page_free(v)

Spec == Init /\ [][Next]_vars

-----------------------------------------------------------------------------
(* Properties. *)

\* Every variable keeps to its type; a frame is free or held; and the tables
\* are mapped below vterm, the "boundary of pages used to store the table"
\* (paging.h:71).
TypeOK ==
    /\ free \union held = Frames /\ free \intersect held = {}
    /\ tab \in [Frames -> [Index -> Frames \union {ABSENT, SYSTEM}]]
    /\ pt.proot \in Frames \union {0} /\ pt.vnext \in 0..Vterm
    /\ DOMAIN pages \subseteq ClientPages
    /\ todo \in Seq([frame : Frames, called : BOOLEAN])
    /\ active => Created

\* Every page the client has is mapped, still to the frame it was given, and
\* to no other page's: growing the tree, mapping its tables and reusing
\* frames of earlier trees never lead an address astray.
PagesTranslate ==
    Created => /\ \A v \in DOMAIN pages : Leaf(tab, pt.proot, v) = pages[v]
              /\ \A v, u \in DOMAIN pages : pages[v] = pages[u] => v = u

\* No frame that the tree uses or maps is in the pool.
NothingInUseIsFree ==
    Created =>
        LET ts == Tables(tab, pt.proot)
        IN  ({pt.proot} \union ts.pdpts \union ts.pdts \union ts.ptts
                \union Leaves(tab, pt.proot)) \subseteq held

\* The client's tree is sound: it translates as the client was told, and no
\* frame in it can be given to somebody else.
TreeSound == TypeOK /\ PagesTranslate /\ NothingInUseIsFree

\* "Invalidate the page containing a virtual address" (cpu.h:163): the
\* processor keeps no translation but the current one of a page the client
\* has, so no access reaches a frame that was given to somebody else.
NoStaleTranslation ==
    tlb # None =>
        active /\ tlb.page \in DOMAIN pages /\ tlb.frame = pages[tlb.page]

\* Destroying a page table returns the pages the client has not returned.
DestroyReturnsPages ==
    [][pagetable_destroy => \A v \in DOMAIN pages : pages[v] \in free']_vars

\* "If adding the new entry required the page table to grow, make sure to add
\* the page table's new pages as well" (paging.c:328-329).
TablesAreMapped ==
    Created /\ Quiet =>
        LET ts == Tables(tab, pt.proot)
        IN  (ts.pdpts \union ts.pdts \union ts.ptts) \subseteq Leaves(tab, pt.proot)

\* "Recursively destroy all pages starting from the PML4 table"
\* (paging.c:388): none is left behind.
DestroyReturnsAll == [][pagetable_destroy => held' = {}]_vars
=============================================================================
