----------------------------- MODULE StartupProofs -----------------------------
(***************************************************************************)
(* The page frame database and the start-up.                               *)
(*                                                                         *)
(* The database, for every number of frames, size of a page and sequence   *)
(* of calls, with regions that begin and end at a page's edge: the list    *)
(* holds exactly the frames that are free, and the database is a pool of   *)
(* frames.  The start-up, which chains its own regions, uses the lemmas    *)
(* about the actions.                                                      *)
(*                                                                         *)
(* The start-up, for every size of memory, disc, memory layout and set of  *)
(* ACPI tables: what its run checks on a small machine.                    *)
(***************************************************************************)
EXTENDS Startup, FiniteSetTheorems, SequenceTheorems, WellFoundedInduction, TLAPS

Rec == [prev : -1..Count, next : Link, refcount : 0..1, type : 0..2]

\* A frame is marked as allocated, with one reference, while somebody has it.
FramesTyped ==
    /\ pf \in [Pfn -> Rec]
    /\ head \in Link /\ tail \in Link
    /\ pc \in {"init", "ready", "stopped"}
    /\ held \subseteq Pfn
    /\ \A f \in Pfn : /\ f \in held <=> pf[f].type = PFTYPE_ALLOCATED
                      /\ f \in held <=> pf[f].refcount = 1

PageOf(f) == (f * PageUnits)..((f + 1) * PageUnits - 1)

\* The regions traversed consist of whole pages.
UsableWhole ==
    /\ usable \subseteq 0..(Count * PageUnits - 1)
    /\ \A u \in usable : PageOf(u \div PageUnits) \subseteq usable

\* s is the list: n frames, each once, between its head and the end.
IsList(n, s) ==
    /\ n \in 0..Count /\ s \in [0..n -> Link]
    /\ s[0] = head /\ s[n] = PFN_INVALID
    /\ \A i \in 0..(n - 1) :
           /\ s[i] \in Pfn
           /\ pf[s[i]].next = s[i + 1]
           /\ pf[s[i]].prev = IF i = 0 THEN PFN_INVALID ELSE s[i - 1]
    /\ \A i, j \in 0..(n - 1) : s[i] = s[j] => i = j

Frames(n, s) == {s[i] : i \in 0..(n - 1)}

\* The list is of the frames that are free; while regions are traversed, its
\* end is known.
ListInv(n, s) ==
    /\ IsList(n, s)
    /\ Frames(n, s) = {f \in Pfn : pf[f].type = PFTYPE_AVAILABLE}
    /\ Frames(n, s) = UsableFrames \ held
    /\ held \subseteq UsableFrames
    /\ pc = "init" => /\ held = {}
                      /\ tail = IF n = 0 THEN PFN_INVALID ELSE s[n - 1]

AvailBounded == avail \in Nat /\ avail <= Cardinality(UsableFrames) + MaxReleases

IInv ==
    /\ FramesTyped /\ UsableWhole /\ AvailBounded
    /\ pc # "stopped" => \E n, s : ListInv(n, s)

-----------------------------------------------------------------------------
(* Naturals. *)

LEMMA LeastNat ==
    ASSUME NEW S, S \subseteq Nat, S # {}
    PROVE  \E m \in S : \A k \in S : m <= k
  <1>1. PICK m \in S : \A k \in S : ~ (<<k, m>> \in OpToRel(<, Nat))
    BY NatLessThanWellFounded, WFMin
  <1>2. \A k \in S : ~ (k < m)
    BY <1>1 DEF OpToRel
  <1> QED
    BY <1>2

LEMMA PageFacts ==
    /\ \A u \in Nat : u \div PageUnits \in Nat /\ u \in PageOf(u \div PageUnits)
    /\ \A u \in Nat : u % PageUnits = 0 => u = (u \div PageUnits) * PageUnits
    /\ \A f \in Nat : (f * PageUnits) \div PageUnits = f /\ f * PageUnits \in PageOf(f)
    /\ \A f, g \in Nat : f <= g => f * PageUnits <= g * PageUnits
    /\ \A f, u \in Nat : u \in PageOf(f) => u \div PageUnits = f
  <1> USE PageFramesAssumption
  <1>1. \A f \in Nat : (f + 1) * PageUnits = f * PageUnits + PageUnits
    OBVIOUS
  <1>2. \A u \in Nat : u \div PageUnits \in Nat
    OBVIOUS
  <1>3. \A u \in Nat : (u \div PageUnits) * PageUnits <= u
                       /\ u < (u \div PageUnits) * PageUnits + PageUnits
    OBVIOUS
  <1>4. \A u \in Nat : u % PageUnits = 0 => u = (u \div PageUnits) * PageUnits
    OBVIOUS
  <1>5. \A f \in Nat : (f * PageUnits) \div PageUnits = f
    OBVIOUS
  <1>6. \A f, g \in Nat : f <= g => f * PageUnits <= g * PageUnits
    OBVIOUS
  <1>7. \A f, g, u \in Nat : f * PageUnits <= u /\ u < f * PageUnits + PageUnits
                             /\ g * PageUnits <= u /\ u < g * PageUnits + PageUnits
                             => f = g
    OBVIOUS
  <1>8. \A f \in Nat : f * PageUnits \in Nat
    OBVIOUS
  <1>9. \A u \in Nat : u \in PageOf(u \div PageUnits)
    BY <1>1, <1>2, <1>3, <1>8 DEF PageOf
  <1>10. \A f, u \in Nat : u \in PageOf(f) =>
             f * PageUnits <= u /\ u < f * PageUnits + PageUnits
    BY <1>1, <1>8 DEF PageOf
  <1>11. \A f \in Nat : f * PageUnits \in PageOf(f)
    BY <1>1, <1>8 DEF PageOf
  <1> QED
    BY <1>2, <1>3, <1>4, <1>5, <1>6, <1>7, <1>9, <1>10, <1>11, ZenonT(120)

-----------------------------------------------------------------------------
(* The walk. *)

\* Following next from the head meets the list's frames and then stays at its
\* end.
LEMMA WalkIsList ==
    ASSUME NEW n, NEW s, IsList(n, s), FramesTyped
    PROVE  \A i \in 0..Count : Walk[i] = IF i <= n THEN s[i] ELSE PFN_INVALID
  <1> USE PageFramesAssumption
  <1> DEFINE after == [f \in Link |-> IF f = PFN_INVALID THEN f ELSE pf[f].next]
             Rule(w) == w = [i \in 0..Count |-> IF i = 0 THEN head ELSE after[w[i - 1]]]
             full == [i \in 0..Count |-> IF i <= n THEN s[i] ELSE PFN_INVALID]
  <1>1. Walk = CHOOSE w : Rule(w)
    BY DEF Walk
  <1>2. Rule(full)
    <2>1. ASSUME NEW i \in 0..Count
          PROVE  full[i] = IF i = 0 THEN head ELSE after[full[i - 1]]
      <3>1. CASE i = 0
        BY <3>1 DEF IsList
      <3>2. CASE i # 0 /\ i <= n
        <4>1. i - 1 \in 0..(n - 1) /\ i - 1 \in 0..Count
          BY <3>2 DEF IsList
        <4>2. full[i - 1] = s[i - 1] /\ s[i - 1] \in Pfn /\ pf[s[i - 1]].next = s[i]
          BY <4>1 DEF IsList
        <4>3. after[s[i - 1]] = s[i]
          BY <4>2 DEF Pfn, Link, PFN_INVALID
        <4> QED
          BY <3>2, <4>2, <4>3
      <3>3. CASE i # 0 /\ ~(i <= n)
        <4>1. i - 1 \in 0..Count /\ full[i - 1] = PFN_INVALID
          BY <3>3 DEF IsList
        <4>2. after[PFN_INVALID] = PFN_INVALID
          BY DEF Link, PFN_INVALID
        <4> QED
          BY <3>3, <4>1, <4>2
      <3> QED
        BY <3>1, <3>2, <3>3
    <2> HIDE DEF after
    <2> QED
      BY <2>1
  <1>3. Rule(Walk)
    <2> HIDE DEF Rule
    <2> QED
      BY <1>1, <1>2
  <1>4. \A i \in 0..Count : Walk[i] = IF i = 0 THEN head ELSE after[Walk[i - 1]]
    <2> HIDE DEF after
    <2> QED
      BY <1>3
  <1>5. \A i \in 0..Count : full[i] = IF i = 0 THEN head ELSE after[full[i - 1]]
    <2> DEFINE g == full
    <2>1. Rule(g)
      BY <1>2
    <2> HIDE DEF after, g
    <2>2. \A i \in 0..Count : g[i] = IF i = 0 THEN head ELSE after[g[i - 1]]
      BY <2>1
    <2> QED
      BY <2>2 DEF g
  <1> HIDE DEF after
  <1>6. \A i \in 0..Count : Walk[i] = full[i]
    <2> DEFINE T == {i \in 0..Count : Walk[i] # full[i]}
    <2> SUFFICES ASSUME T # {} PROVE FALSE
      OBVIOUS
    <2>1. PICK m \in T : \A k \in T : m <= k
      <3>1. T \subseteq Nat
        OBVIOUS
      <3> HIDE DEF T
      <3> QED
        BY <3>1, LeastNat
    <2> HIDE DEF full
    <2>2. m # 0
      BY <1>4, <1>5
    <2>3. m - 1 \in 0..Count /\ m - 1 \notin T
      BY <2>1, <2>2
    <2> QED
      BY <1>4, <1>5, <2>2, <2>3
  <1> QED
    BY <1>6

LEMMA ListedIsFrames ==
    ASSUME NEW n, NEW s, IsList(n, s), FramesTyped
    PROVE  Walk[Count] = PFN_INVALID /\ Listed = Frames(n, s)
  <1> USE PageFramesAssumption
  <1>1. \A i \in 0..Count : Walk[i] = IF i <= n THEN s[i] ELSE PFN_INVALID
    BY WalkIsList
  <1>2. n \in 0..Count /\ s[n] = PFN_INVALID /\ \A i \in 0..(n - 1) : s[i] \in Pfn
    BY DEF IsList
  <1>3. Walk[Count] = PFN_INVALID
    BY <1>1, <1>2
  <1>4. Frames(n, s) \subseteq Listed
    BY <1>1, <1>2 DEF Listed, Frames, Pfn, PFN_INVALID
  <1>5. Listed \subseteq Frames(n, s)
    BY <1>1, <1>2 DEF Listed, Frames
  <1> QED
    BY <1>3, <1>4, <1>5

LEMMA IInvImpliesListExact == IInv => ListExact
  <1> SUFFICES ASSUME IInv, pc # "stopped" PROVE ListExact
    BY DEF ListExact
  <1> PICK n, s : ListInv(n, s)
    BY DEF IInv
  <1>1. FramesTyped /\ IsList(n, s)
    BY DEF IInv, ListInv
  <1>2. Walk[Count] = PFN_INVALID /\ Listed = Frames(n, s)
    BY <1>1, ListedIsFrames
  <1>3. ASSUME NEW f \in Listed
        PROVE  pf[f].prev = IF f = head THEN PFN_INVALID
                            ELSE CHOOSE g \in Listed : pf[g].next = f
    <2> PICK i \in 0..(n - 1) : f = s[i]
      BY <1>2 DEF Frames
    <2>1. n \in Nat /\ s[0] = head /\ s[n] = PFN_INVALID
      BY <1>1 DEF IsList
    <2>2. CASE i = 0
      BY <1>1, <2>1, <2>2 DEF IsList
    <2>3. CASE i # 0
      <3>1. i - 1 \in 0..(n - 1) /\ 0 \in 0..(n - 1) /\ i - 1 + 1 = i
        BY <2>1, <2>3
      <3>2. f # head /\ pf[f].prev = s[i - 1]
        BY <1>1, <2>1, <2>3, <3>1 DEF IsList
      <3>3. s[i - 1] \in Listed /\ pf[s[i - 1]].next = f
        BY <1>1, <1>2, <3>1 DEF IsList, Frames
      <3>4. ASSUME NEW g \in Listed, pf[g].next = f PROVE g = s[i - 1]
        <4> PICK j \in 0..(n - 1) : g = s[j]
          BY <1>2 DEF Frames
        <4>1. s[j + 1] = s[i] /\ j + 1 \in 0..n
          BY <1>1, <2>1, <3>4 DEF IsList
        <4>2. j + 1 # n
          BY <1>1, <2>1, <4>1 DEF IsList, Pfn, PFN_INVALID
        <4>3. j + 1 = i
          BY <1>1, <2>1, <4>1, <4>2 DEF IsList
        <4> QED
          BY <4>3
      <3> QED
        BY <3>2, <3>3, <3>4
    <2> QED
      BY <2>2, <2>3
  <1> QED
    BY <1>2, <1>3 DEF ListExact, ListInv

-----------------------------------------------------------------------------
(* The regions. *)

LEMMA ListShort ==
    ASSUME NEW n \in Nat, NEW s, \A i \in 0..(n - 1) : s[i] \in Pfn,
           \A i, j \in 0..(n - 1) : s[i] = s[j] => i = j
    PROVE  n <= Count
  <1> DEFINE f == [i \in 0..(n - 1) |-> s[i]]
  <1>1. f \in Injection(0..(n - 1), Pfn)
    BY DEF Injection, IsInjective
  <1>2. IsFiniteSet(Pfn) /\ Cardinality(Pfn) = Count
    BY FS_Interval, PageFramesAssumption DEF Pfn
  <1>3. Cardinality(0..(n - 1)) = n
    BY FS_Interval
  <1> HIDE DEF f
  <1>4. Cardinality(0..(n - 1)) <= Cardinality(Pfn)
    BY <1>1, <1>2, FS_Injection
  <1> QED
    BY <1>2, <1>3, <1>4

\* A region of whole pages beside those that were traversed.
NewRegion(a, b) ==
    /\ a \in Nat /\ b \in Nat /\ a < b /\ b <= Count * PageUnits
    /\ a % PageUnits = 0 /\ b % PageUnits = 0
    /\ \A u \in a..(b - 1) : u \notin usable

LEMMA RegionFrames ==
    ASSUME UsableWhole, NEW a, NEW b, NewRegion(a, b), usable' = usable \union a..(b - 1)
    PROVE  /\ pfn0(a) \in Pfn /\ pfnN(b) - 1 \in Pfn /\ pfn0(a) <= pfnN(b) - 1
           /\ UsableFrames' = UsableFrames \union pfn0(a)..(pfnN(b) - 1)
           /\ UsableFrames \intersect pfn0(a)..(pfnN(b) - 1) = {}
           /\ UsableWhole'
  <1> USE PageFramesAssumption
  <1> DEFINE k == pfn0(a)
             m == pfnN(b)
  <1>1. k \in Nat /\ m \in Nat /\ a = k * PageUnits /\ b = m * PageUnits
    BY PageFacts DEF NewRegion, pfn0, pfnN
  <1> HIDE DEF k, m
  <1>2. k < m /\ m <= Count
    <2>1. ~(m <= k) /\ (Count <= m => Count * PageUnits <= m * PageUnits)
      BY <1>1, PageFacts DEF NewRegion
    <2>2. ~(Count + 1 <= m)
      <3>1. (Count + 1) * PageUnits = Count * PageUnits + PageUnits
        OBVIOUS
      <3>2. Count + 1 <= m => (Count + 1) * PageUnits <= m * PageUnits
        BY <1>1, PageFacts
      <3>3. Count * PageUnits \in Nat /\ m * PageUnits \in Nat
        BY <1>1
      <3> QED
        BY <1>1, <3>1, <3>2, <3>3 DEF NewRegion
    <2> QED
      BY <1>1, <2>1, <2>2
  <1>3. a \in Nat /\ b \in Nat /\ Count * PageUnits \in Nat /\ b <= Count * PageUnits
    BY DEF NewRegion
  <1>4. \A f \in Pfn : f \in k..(m - 1) <=> f * PageUnits \in a..(b - 1)
    <2> SUFFICES ASSUME NEW f \in Pfn
                 PROVE  f \in k..(m - 1) <=> f * PageUnits \in a..(b - 1)
      OBVIOUS
    <2>1. f \in Nat /\ f + 1 \in Nat /\ f * PageUnits \in Nat
      BY DEF Pfn
    <2>2. (f + 1) * PageUnits = f * PageUnits + PageUnits
      BY <2>1
    <2>3. /\ k <= f => k * PageUnits <= f * PageUnits
          /\ f + 1 <= k => (f + 1) * PageUnits <= k * PageUnits
          /\ m <= f => m * PageUnits <= f * PageUnits
          /\ f + 1 <= m => (f + 1) * PageUnits <= m * PageUnits
      BY <1>1, <2>1, PageFacts
    <2> QED
      BY <1>1, <1>3, <2>1, <2>2, <2>3
  <1>5. \A f \in k..(m - 1) : PageOf(f) \subseteq a..(b - 1)
    <2> SUFFICES ASSUME NEW f \in k..(m - 1), NEW u \in PageOf(f)
                 PROVE  u \in a..(b - 1)
      OBVIOUS
    <2>1. k * PageUnits <= f * PageUnits /\ (f + 1) * PageUnits <= m * PageUnits
      BY <1>1, PageFacts, SMTT(30)
    <2>2. f * PageUnits \in Nat /\ (f + 1) * PageUnits \in Nat
      BY <1>1
    <2> QED
      BY <1>1, <1>3, <2>1, <2>2 DEF PageOf
  <1>6. \A f \in Pfn : f \in Nat /\ f * PageUnits \in PageOf(f)
                       /\ (f * PageUnits) \div PageUnits = f
    BY PageFacts DEF Pfn
  <1>7. \A f \in Pfn : f \in UsableFrames <=> f * PageUnits \in usable
    <2> SUFFICES ASSUME NEW f \in Pfn
                 PROVE  PageOf(f) \subseteq usable <=> f * PageUnits \in usable
      BY DEF UsableFrames, PageOf
    <2> QED
      BY <1>6 DEF UsableWhole
  <1>8. UsableWhole'
    <2>1. usable' \subseteq 0..(Count * PageUnits - 1)
      BY <1>3 DEF UsableWhole
    <2>2. ASSUME NEW u \in usable' PROVE PageOf(u \div PageUnits) \subseteq usable'
      <3>1. CASE u \in usable
        BY <3>1 DEF UsableWhole
      <3>2. CASE u \in a..(b - 1)
        <4> DEFINE f == u \div PageUnits
        <4>1. u \in Nat /\ f \in Nat /\ u \in PageOf(f)
          <5>1. u \in Nat
            BY <1>3, <3>2
          <5> QED
            BY <5>1, PageFacts
        <4> HIDE DEF f
        <4>2. f * PageUnits <= u /\ u < (f + 1) * PageUnits
          BY <4>1 DEF PageOf
        <4>3. f \in k..(m - 1)
          <5>1. f + 1 <= k => (f + 1) * PageUnits <= k * PageUnits
            BY <1>1, <4>1, PageFacts
          <5>2. m <= f => m * PageUnits <= f * PageUnits
            BY <1>1, <4>1, PageFacts
          <5>3. f * PageUnits \in Nat /\ (f + 1) * PageUnits \in Nat
            BY <4>1
          <5> QED
            BY <1>1, <1>3, <3>2, <4>1, <4>2, <5>1, <5>2, <5>3
        <4> QED
          BY <1>5, <4>3 DEF f
      <3> QED
        BY <3>1, <3>2
    <2> QED
      BY <2>1, <2>2 DEF UsableWhole, PageOf
  <1>9. \A f \in Pfn : f \in UsableFrames' <=> f * PageUnits \in usable'
    <2> SUFFICES ASSUME NEW f \in Pfn
                 PROVE  PageOf(f) \subseteq usable' <=> f * PageUnits \in usable'
      BY DEF UsableFrames, PageOf
    <2> QED
      BY <1>6, <1>8 DEF UsableWhole, PageOf
  <1>10. k \in Pfn /\ m - 1 \in Pfn /\ k <= m - 1
    BY <1>1, <1>2 DEF Pfn
  <1>11. UsableFrames \subseteq Pfn /\ UsableFrames' \subseteq Pfn /\ k..(m - 1) \subseteq Pfn
    BY <1>1, <1>2 DEF UsableFrames, Pfn
  <1>12. \A f \in Pfn : f \in UsableFrames' <=> f \in UsableFrames \/ f \in k..(m - 1)
    BY <1>4, <1>7, <1>9
  <1>13. \A f \in Pfn : ~(f \in UsableFrames /\ f \in k..(m - 1))
    BY <1>4, <1>7 DEF NewRegion
  <1> QED
    BY <1>8, <1>10, <1>11, <1>12, <1>13 DEF k, m

\* The records of the region's frames, and of the list's old end.
LEMMA ChainRecords ==
    ASSUME FramesTyped, NEW a, NEW b, pfn0(a) \in Pfn, pfnN(b) - 1 \in Pfn,
           pfn0(a) <= pfnN(b) - 1, NEW f \in Pfn
    PROVE  LET first == pfn0(a)
               stop  == pfnN(b) - 1
           IN  /\ Chain(a, b) \in [Pfn -> Rec]
               /\ f \in first..stop =>
                      /\ Chain(a, b)[f].type = PFTYPE_AVAILABLE
                      /\ Chain(a, b)[f].refcount = 0
                      /\ f # tail => Chain(a, b)[f].prev = IF f = first THEN tail ELSE f - 1
                      /\ f # tail => Chain(a, b)[f].next = IF f = stop THEN PFN_INVALID
                                                           ELSE f + 1
               /\ f \notin first..stop =>
                      Chain(a, b)[f] = IF f = tail THEN [pf[f] EXCEPT !.next = first]
                                       ELSE pf[f]
  <1> USE PageFramesAssumption
  <1> DEFINE first == pfn0(a)
             stop  == pfnN(b) - 1
             fresh(g) == [ZeroPf EXCEPT !.prev = g - 1, !.next = g + 1,
                                        !.type = PFTYPE_AVAILABLE]
             chain == [g \in Pfn |-> IF g \in first..stop THEN fresh(g) ELSE pf[g]]
             hooked == IF tail = PFN_INVALID THEN chain
                       ELSE [chain EXCEPT ![tail].next = first]
             front == [hooked EXCEPT ![first].prev = tail]
             done  == [front EXCEPT ![stop].next = PFN_INVALID]
  <1>1. Chain(a, b) = done
    BY DEF Chain
  <1>2. first \in Pfn /\ stop \in Pfn /\ first <= stop /\ first..stop \subseteq Pfn
    BY DEF Pfn
  <1> HIDE DEF first, stop
  <1>3. /\ tail \in Pfn \union {PFN_INVALID} /\ PFN_INVALID \notin Pfn
        /\ pf \in [Pfn -> Rec] /\ PFN_INVALID \in Link /\ Pfn \subseteq Link
        /\ \A g \in Link : g \in -1..Count
    BY DEF FramesTyped, Pfn, Link, PFN_INVALID
  <1>4. /\ \A g \in first..stop : fresh(g) \in Rec
        /\ \A g \in Int : fresh(g).prev = g - 1 /\ fresh(g).next = g + 1
                         /\ fresh(g).type = PFTYPE_AVAILABLE /\ fresh(g).refcount = 0
    <2>1. \A g \in first..stop : g - 1 \in -1..Count /\ g + 1 \in Link
      BY <1>2 DEF Pfn, Link
    <2>2. ASSUME NEW g \in first..stop PROVE fresh(g) \in Rec
      <3>1. g - 1 \in -1..Count /\ g + 1 \in Link
        BY <2>1, <2>2
      <3>2. 0 \in 0..1 /\ PFTYPE_AVAILABLE \in 0..2
        BY DEF PFTYPE_AVAILABLE
      <3> QED
        BY <3>1, <3>2 DEF ZeroPf, Rec
    <2>3. \A g \in Int : /\ fresh(g).prev = g - 1 /\ fresh(g).next = g + 1
                         /\ fresh(g).type = PFTYPE_AVAILABLE /\ fresh(g).refcount = 0
      BY DEF ZeroPf
    <2> HIDE DEF fresh
    <2> QED
      BY <2>2, <2>3
  <1> HIDE DEF fresh
  <1>5. chain \in [Pfn -> Rec]
    BY <1>3, <1>4
  <1>6. /\ hooked \in [Pfn -> Rec]
        /\ \A g \in Pfn : hooked[g] = IF g = tail THEN [chain[g] EXCEPT !.next = first]
                                      ELSE chain[g]
    <2> HIDE DEF chain
    <2>1. CASE tail = PFN_INVALID
      BY <1>3, <1>5, <2>1
    <2>2. CASE tail # PFN_INVALID
      <3>1. tail \in Pfn /\ first \in Link /\ hooked = [chain EXCEPT ![tail].next = first]
        BY <1>2, <1>3, <2>2
      <3>2. [chain[tail] EXCEPT !.next = first] \in Rec
        BY <1>5, <3>1 DEF Rec
      <3> HIDE DEF hooked
      <3> QED
        BY <1>5, <3>1, <3>2
    <2> QED
      BY <2>1, <2>2
  <1>7. /\ front \in [Pfn -> Rec]
        /\ \A g \in Pfn : front[g] = IF g = first THEN [hooked[g] EXCEPT !.prev = tail]
                                     ELSE hooked[g]
    <2>1. [hooked[first] EXCEPT !.prev = tail] \in Rec
      <3>1. hooked[first] \in Rec /\ tail \in -1..Count
        BY <1>2, <1>3, <1>6
      <3> HIDE DEF hooked
      <3> QED
        BY <3>1, SMTT(30) DEF Rec
    <2> HIDE DEF hooked
    <2>2. front = [hooked EXCEPT ![first] = [hooked[first] EXCEPT !.prev = tail]]
      BY <1>2, <1>6
    <2> HIDE DEF front
    <2> QED
      BY <1>2, <1>6, <2>1, <2>2, SMTT(30)
  <1>8. /\ done \in [Pfn -> Rec]
        /\ \A g \in Pfn : done[g] = IF g = stop THEN [front[g] EXCEPT !.next = PFN_INVALID]
                                    ELSE front[g]
    <2>1. [front[stop] EXCEPT !.next = PFN_INVALID] \in Rec
      <3>1. front[stop] \in Rec /\ PFN_INVALID \in Link
        BY <1>2, <1>3, <1>7
      <3> HIDE DEF front
      <3> QED
        BY <3>1, SMTT(30) DEF Rec
    <2> HIDE DEF front
    <2>2. done = [front EXCEPT ![stop] = [front[stop] EXCEPT !.next = PFN_INVALID]]
      BY <1>2, <1>7
    <2> HIDE DEF done
    <2> QED
      BY <1>2, <1>7, <2>1, <2>2, SMTT(30)
  <1>10. chain[f] = IF f \in first..stop THEN fresh(f) ELSE pf[f]
    OBVIOUS
  <1> HIDE DEF chain, hooked, front, done
  <1>11. f \in first..stop =>
            /\ done[f].type = PFTYPE_AVAILABLE
            /\ done[f].refcount = 0
            /\ f # tail => done[f].prev = IF f = first THEN tail ELSE f - 1
            /\ f # tail => done[f].next = IF f = stop THEN PFN_INVALID ELSE f + 1
    <2> SUFFICES ASSUME f \in first..stop
                 PROVE  /\ done[f].type = PFTYPE_AVAILABLE
                        /\ done[f].refcount = 0
                        /\ f # tail => done[f].prev = IF f = first THEN tail ELSE f - 1
                        /\ f # tail => done[f].next = IF f = stop THEN PFN_INVALID ELSE f + 1
      OBVIOUS
    <2>1. chain[f] \in Rec /\ hooked[f] \in Rec /\ front[f] \in Rec
      BY <1>5, <1>6, <1>7
    <2>2. /\ chain[f].prev = f - 1 /\ chain[f].next = f + 1
          /\ chain[f].type = PFTYPE_AVAILABLE /\ chain[f].refcount = 0
      BY <1>4, <1>10
    <2>3. /\ hooked[f].prev = f - 1
          /\ f # tail => hooked[f].next = f + 1
          /\ hooked[f].type = PFTYPE_AVAILABLE /\ hooked[f].refcount = 0
      BY <1>6, <2>1, <2>2 DEF Rec
    <2>4. /\ front[f].prev = IF f = first THEN tail ELSE f - 1
          /\ f # tail => front[f].next = f + 1
          /\ front[f].type = PFTYPE_AVAILABLE /\ front[f].refcount = 0
      <3>1. CASE f = first
        BY <1>7, <2>1, <2>3, <3>1 DEF Rec
      <3>2. CASE f # first
        BY <1>7, <2>3, <3>2
      <3> QED
        BY <3>1, <3>2
    <2> QED
      BY <1>8, <2>1, <2>4 DEF Rec
  <1>12. f \notin first..stop =>
            done[f] = IF f = tail THEN [pf[f] EXCEPT !.next = first] ELSE pf[f]
    <2>1. first \in first..stop /\ stop \in first..stop
      BY <1>2 DEF Pfn
    <2> QED
      BY <1>6, <1>7, <1>8, <1>10, <2>1
  <1> QED
    BY <1>1, <1>8, <1>11, <1>12 DEF first, stop

\* A region's frames follow the list's.
LEMMA RegionIInv ==
    ASSUME IInv, NEW a, NEW b, NewRegion(a, b), InitRegion(a, b)
    PROVE  /\ IInv'
           /\ UsableFrames \subseteq UsableFrames'
           /\ held = {} /\ held' = {}
  <1> USE PageFramesAssumption
  <1> DEFINE first == pfn0(a)
             stop  == pfnN(b) - 1
             k     == stop - first + 1
  <1> PICK n, s : ListInv(n, s)
    BY DEF IInv, InitRegion
  <1>1. FramesTyped /\ UsableWhole /\ AvailBounded
    BY DEF IInv
  <1>2. /\ pc = "init" /\ pf' = Chain(a, b) /\ tail' = stop
        /\ head' = IF tail = PFN_INVALID THEN first ELSE head
        /\ avail' = avail + (pfnN(b) - first)
        /\ usable' = usable \union a..(b - 1)
        /\ pc' = pc /\ held' = held
    BY DEF InitRegion
  <1>3. /\ first \in Pfn /\ stop \in Pfn /\ first <= stop
        /\ UsableFrames' = UsableFrames \union first..stop
        /\ UsableFrames \intersect first..stop = {}
        /\ UsableWhole'
    BY <1>1, <1>2, RegionFrames
  <1>4. pfnN(b) - first = k
    BY <1>3 DEF pfnN, pfn0, NewRegion
  <1> HIDE DEF first, stop
  <1>5. first \in Nat /\ stop \in Nat /\ k \in Nat /\ first + k - 1 = stop /\ k # 0
    BY <1>3 DEF Pfn
  <1> HIDE DEF k
  <1>6. held = {} /\ tail = IF n = 0 THEN PFN_INVALID ELSE s[n - 1]
    BY <1>2 DEF ListInv
  <1>7. /\ n \in 0..Count /\ s \in [0..n -> Link]
        /\ s[0] = head /\ s[n] = PFN_INVALID
        /\ \A i \in 0..(n - 1) :
               /\ s[i] \in Pfn
               /\ pf[s[i]].next = s[i + 1]
               /\ pf[s[i]].prev = IF i = 0 THEN PFN_INVALID ELSE s[i - 1]
        /\ \A i, j \in 0..(n - 1) : s[i] = s[j] => i = j
    BY DEF ListInv, IsList
  <1>8. /\ \A i \in 0..(n - 1) : s[i] \in UsableFrames /\ s[i] \notin first..stop
        /\ tail \notin first..stop
    <2>1. Frames(n, s) = UsableFrames
      BY <1>6 DEF ListInv
    <2>2. \A i \in 0..(n - 1) : s[i] \in UsableFrames
      BY <2>1 DEF Frames
    <2>3. PFN_INVALID \notin first..stop
      BY <1>3 DEF Pfn, PFN_INVALID
    <2>4. n # 0 => n - 1 \in 0..(n - 1)
      BY <1>7
    <2> QED
      BY <1>3, <1>6, <2>2, <2>3, <2>4
  <1>9. /\ pf' \in [Pfn -> Rec]
        /\ \A f \in Pfn :
              /\ f \in first..stop =>
                     /\ pf'[f].type = PFTYPE_AVAILABLE /\ pf'[f].refcount = 0
                     /\ pf'[f].prev = IF f = first THEN tail ELSE f - 1
                     /\ pf'[f].next = IF f = stop THEN PFN_INVALID ELSE f + 1
              /\ f \notin first..stop =>
                     pf'[f] = IF f = tail THEN [pf[f] EXCEPT !.next = first] ELSE pf[f]
    <2>1. \A f \in Pfn :
              /\ Chain(a, b) \in [Pfn -> Rec]
              /\ f \in first..stop =>
                     /\ Chain(a, b)[f].type = PFTYPE_AVAILABLE
                     /\ Chain(a, b)[f].refcount = 0
                     /\ f # tail => Chain(a, b)[f].prev = IF f = first THEN tail ELSE f - 1
                     /\ f # tail => Chain(a, b)[f].next = IF f = stop THEN PFN_INVALID
                                                          ELSE f + 1
              /\ f \notin first..stop =>
                     Chain(a, b)[f] = IF f = tail THEN [pf[f] EXCEPT !.next = first]
                                      ELSE pf[f]
      BY <1>1, <1>3, ChainRecords DEF first, stop
    <2> QED
      BY <1>2, <1>3, <1>8, <2>1
  <1>10. \A f \in Pfn : f \notin first..stop =>
             /\ pf'[f].type = pf[f].type /\ pf'[f].refcount = pf[f].refcount
             /\ pf'[f].prev = pf[f].prev
             /\ pf'[f].next = IF f = tail THEN first ELSE pf[f].next
    <2>1. \A f \in Pfn : pf[f] \in Rec
      BY <1>1 DEF FramesTyped
    <2> QED
      BY <1>9, <2>1 DEF Rec
  <1> DEFINE N == n + k
             S == [i \in 0..N |-> IF i < n THEN s[i]
                                  ELSE IF i < N THEN first + (i - n) ELSE PFN_INVALID]
  <1>11. /\ n \in Nat /\ N \in Nat /\ N > n
         /\ \A i \in 0..(N - 1) : i < n => i \in 0..(n - 1)
         /\ \A i \in 0..(N - 1) : ~(i < n) => first + (i - n) \in first..stop
    BY <1>5, <1>7
  <1>12. \A i \in 0..(N - 1) :
             /\ i \in 0..N /\ i + 1 \in 0..N /\ i \in Nat
             /\ S[i] \in Pfn
             /\ S[i] = IF i < n THEN s[i] ELSE first + (i - n)
             /\ S[i] \in first..stop <=> ~(i < n)
             /\ S[i + 1] = IF i + 1 < n THEN s[i + 1]
                           ELSE IF i + 1 < N THEN first + ((i + 1) - n) ELSE PFN_INVALID
    <2> SUFFICES ASSUME NEW i \in 0..(N - 1)
                 PROVE  /\ i \in 0..N /\ i + 1 \in 0..N /\ i \in Nat
                        /\ S[i] \in Pfn
                        /\ S[i] = IF i < n THEN s[i] ELSE first + (i - n)
                        /\ S[i] \in first..stop <=> ~(i < n)
                        /\ S[i + 1] = IF i + 1 < n THEN s[i + 1]
                                      ELSE IF i + 1 < N THEN first + ((i + 1) - n)
                                      ELSE PFN_INVALID
      OBVIOUS
    <2>1. i \in 0..N /\ i + 1 \in 0..N /\ i \in Nat /\ i < N
      BY <1>11
    <2>2. S[i] = IF i < n THEN s[i] ELSE first + (i - n)
      BY <2>1
    <2> HIDE DEF N
    <2>3. S[i + 1] = IF i + 1 < n THEN s[i + 1]
                     ELSE IF i + 1 < N THEN first + ((i + 1) - n) ELSE PFN_INVALID
      <3>1. \A j \in 0..N : S[j] = IF j < n THEN s[j]
                                  ELSE IF j < N THEN first + (j - n) ELSE PFN_INVALID
        OBVIOUS
      <3> HIDE DEF S
      <3> QED
        BY <2>1, <3>1
    <2>4. first..stop \subseteq Pfn
      BY <1>3 DEF Pfn
    <2> HIDE DEF S, N
    <2> QED
      BY <1>7, <1>8, <1>11, <2>1, <2>2, <2>3, <2>4
  <1>13. S[0] = head' /\ S[N] = PFN_INVALID
    <2>1. S[N] = PFN_INVALID
      BY <1>11
    <2>2. CASE n = 0
      <3>1. S[0] = first
        BY <1>5, <1>11, <2>2
      <3> QED
        BY <1>2, <1>6, <2>1, <2>2, <3>1
    <2>3. CASE n # 0
      <3>1. S[0] = s[0] /\ n - 1 \in 0..(n - 1)
        BY <1>11, <2>3
      <3>2. tail # PFN_INVALID
        BY <1>6, <1>7, <2>3, <3>1 DEF Pfn, PFN_INVALID
      <3> QED
        BY <1>2, <1>7, <2>1, <3>1, <3>2
    <2> QED
      BY <2>2, <2>3
  <1>14. S \in [0..N -> Link]
    <2>1. \A i \in 0..N : i = N \/ i \in 0..(N - 1)
      BY <1>11
    <2>2. \A i \in 0..N : S[i] \in Link
      <3>1. Pfn \subseteq Link /\ PFN_INVALID \in Link
        BY DEF Pfn, Link, PFN_INVALID
      <3> HIDE DEF S, N
      <3> QED
        BY <1>12, <1>13, <2>1, <3>1
    <2> QED
      BY <2>2
  <1> HIDE DEF S
  <1>15. \A i, j \in 0..(N - 1) : S[i] = S[j] => i = j
    <2> SUFFICES ASSUME NEW i \in 0..(N - 1), NEW j \in 0..(N - 1), S[i] = S[j]
                 PROVE  i = j
      OBVIOUS
    <2>1. i < n <=> j < n
      BY <1>12
    <2>2. CASE i < n
      BY <1>7, <1>11, <1>12, <2>1, <2>2
    <2>3. CASE ~(i < n)
      BY <1>5, <1>11, <1>12, <2>1, <2>3
    <2> QED
      BY <2>2, <2>3
  <1>16. N <= Count
    <2> HIDE DEF N
    <2> QED
      BY <1>11, <1>12, <1>15, ListShort
  <1>17. \A i \in 0..(N - 1) :
             /\ pf'[S[i]].next = S[i + 1]
             /\ pf'[S[i]].prev = IF i = 0 THEN PFN_INVALID ELSE S[i - 1]
    <2> SUFFICES ASSUME NEW i \in 0..(N - 1)
                 PROVE  /\ pf'[S[i]].next = S[i + 1]
                        /\ pf'[S[i]].prev = IF i = 0 THEN PFN_INVALID ELSE S[i - 1]
      OBVIOUS
    <2>1. i # 0 => i - 1 \in 0..(N - 1) /\ i - 1 + 1 = i
      BY <1>11
    <2>2. CASE i < n
      <3>1. i \in 0..(n - 1) /\ S[i] = s[i] /\ s[i] \in Pfn /\ s[i] \notin first..stop
        BY <1>7, <1>8, <1>11, <1>12, <2>2
      <3>2. n - 1 \in 0..(n - 1) /\ tail = s[n - 1] /\ (s[i] = tail <=> i = n - 1)
        BY <1>6, <1>7, <2>2, <3>1
      <3>3. i # 0 => S[i - 1] = s[i - 1]
        BY <1>11, <1>12, <2>1, <2>2
      <3>4. pf'[s[i]].prev = IF i = 0 THEN PFN_INVALID ELSE S[i - 1]
        BY <1>7, <1>10, <3>1, <3>3
      <3>5. CASE i = n - 1
        <4>1. S[i + 1] = first
          BY <1>5, <1>11, <1>12, <3>5
        <4> QED
          BY <1>10, <3>1, <3>2, <3>4, <3>5, <4>1
      <3>6. CASE i # n - 1
        <4>1. i + 1 < n /\ S[i + 1] = s[i + 1]
          BY <1>11, <1>12, <2>2, <3>6
        <4> QED
          BY <1>7, <1>10, <3>1, <3>2, <3>4, <3>6, <4>1
      <3> QED
        BY <3>5, <3>6
    <2>3. CASE ~(i < n)
      <3>1. S[i] = first + (i - n) /\ S[i] \in first..stop /\ S[i] \in Pfn /\ i \in Nat
        BY <1>12, <2>3
      <3>2. (S[i] = stop <=> i + 1 = N) /\ (S[i] = first <=> i = n)
        BY <1>5, <1>11, <3>1
      <3>3. S[i + 1] = IF S[i] = stop THEN PFN_INVALID ELSE S[i] + 1
        <4>1. S[i + 1] = IF i + 1 < N THEN first + ((i + 1) - n) ELSE PFN_INVALID
          BY <1>11, <1>12, <2>3
        <4>2. first + ((i + 1) - n) = S[i] + 1 /\ (i + 1 < N <=> i + 1 # N)
          BY <1>5, <1>11, <3>1
        <4> QED
          BY <3>2, <4>1, <4>2
      <3>4. IF i = 0 THEN PFN_INVALID = IF S[i] = first THEN tail ELSE S[i] - 1
            ELSE S[i - 1] = IF S[i] = first THEN tail ELSE S[i] - 1
        <4>1. CASE i = 0
          BY <1>6, <1>11, <2>3, <3>2, <4>1
        <4>2. CASE i # 0 /\ i = n
          <5>1. S[i - 1] = s[n - 1]
            BY <1>12, <2>1, <4>2
          <5> QED
            BY <1>6, <3>2, <4>2, <5>1
        <4>3. CASE i # 0 /\ i # n
          <5>1. S[i - 1] = first + (i - 1 - n)
            BY <1>11, <1>12, <2>1, <2>3, <3>1, <4>3
          <5> QED
            BY <1>5, <1>11, <3>1, <3>2, <4>3, <5>1
        <4> QED
          BY <4>1, <4>2, <4>3
      <3> QED
        BY <1>9, <3>1, <3>3, <3>4
    <2> QED
      BY <2>2, <2>3
  <1>18. Frames(N, S) = UsableFrames'
    <2>1. Frames(n, s) = UsableFrames /\ UsableFrames \subseteq Pfn
      BY <1>6 DEF ListInv, UsableFrames
    <2>2. ASSUME NEW f \in Frames(N, S) PROVE f \in UsableFrames'
      <3> PICK i \in 0..(N - 1) : f = S[i]
        BY DEF Frames
      <3> QED
        BY <1>3, <1>8, <1>11, <1>12
    <2>3. ASSUME NEW f \in UsableFrames PROVE f \in Frames(N, S)
      <3> PICK i \in 0..(n - 1) : f = s[i]
        BY <2>1 DEF Frames
      <3>1. i \in 0..(N - 1) /\ i < n
        BY <1>11
      <3> QED
        BY <1>12, <3>1 DEF Frames
    <2>4. ASSUME NEW f \in first..stop PROVE f \in Frames(N, S)
      <3> DEFINE i == n + (f - first)
      <3>1. i \in 0..(N - 1) /\ ~(i < n) /\ first + (i - n) = f
        BY <1>5, <1>11
      <3> HIDE DEF i
      <3> QED
        BY <1>12, <3>1 DEF Frames
    <2> QED
      BY <1>3, <2>2, <2>3, <2>4
  <1>19. UsableFrames' = {f \in Pfn : pf'[f].type = PFTYPE_AVAILABLE}
    <2>1. UsableFrames = {f \in Pfn : pf[f].type = PFTYPE_AVAILABLE}
      BY <1>6 DEF ListInv
    <2>2. first..stop \subseteq Pfn
      BY <1>3 DEF Pfn
    <2> QED
      BY <1>3, <1>9, <1>10, <2>1, <2>2
  <1>20. FramesTyped'
    <2>1. head' \in Link /\ tail' \in Link
      BY <1>1, <1>2, <1>3 DEF FramesTyped, Pfn, Link
    <2>2. \A f \in Pfn : pf'[f].type # PFTYPE_ALLOCATED /\ pf'[f].refcount # 1
      BY <1>1, <1>6, <1>9, <1>10 DEF FramesTyped, PFTYPE_ALLOCATED, PFTYPE_AVAILABLE
    <2>3. pc' \in {"init", "ready", "stopped"}
      BY <1>2
    <2> QED
      BY <1>2, <1>6, <1>9, <2>1, <2>2, <2>3 DEF FramesTyped, Pfn, Link, Rec
  <1>21. AvailBounded'
    <2>1. IsFiniteSet(UsableFrames) /\ IsFiniteSet(Pfn)
      <3>1. IsFiniteSet(Pfn) /\ UsableFrames \in SUBSET Pfn
        BY FS_Interval DEF Pfn, UsableFrames
      <3> QED
        BY <3>1, FS_Subset
    <2>2. IsFiniteSet(first..stop) /\ Cardinality(first..stop) = k
      BY <1>5, <1>3, FS_Interval DEF k
    <2>3. Cardinality(UsableFrames') = Cardinality(UsableFrames) + k
      <3>1. Cardinality(UsableFrames') = Cardinality(UsableFrames)
                + Cardinality(first..stop) - Cardinality({})
        BY <1>3, <2>1, <2>2, FS_Union
      <3> QED
        BY <2>1, <2>2, <3>1, FS_EmptySet, FS_CardinalityType
    <2>4. Cardinality(UsableFrames) \in Nat
      BY <2>1, FS_CardinalityType
    <2>5. avail \in Nat /\ avail <= Cardinality(UsableFrames) + MaxReleases
      BY <1>1 DEF AvailBounded
    <2>6. avail' = avail + k
      BY <1>2, <1>4
    <2> QED
      BY <1>5, <2>3, <2>4, <2>5, <2>6 DEF AvailBounded
  <1>22. tail' = S[N - 1] /\ N # 0
    <2>1. N - 1 \in 0..(N - 1) /\ ~(N - 1 < n) /\ first + (N - 1 - n) = stop
      BY <1>5, <1>11
    <2> QED
      BY <1>2, <1>12, <2>1
  <1> HIDE DEF N
  <1>23. ListInv(N, S)'
    <2>1. IsList(N, S)'
      BY <1>11, <1>12, <1>13, <1>14, <1>15, <1>16, <1>17 DEF IsList, Pfn, Link, PFN_INVALID
    <2>2. Frames(N, S)' = Frames(N, S) /\ Frames(N, S) = UsableFrames' \ held'
      BY <1>2, <1>6, <1>18 DEF Frames
    <2> QED
      BY <1>2, <1>6, <1>18, <1>19, <1>22, <2>1, <2>2
      DEF ListInv, Pfn, PFN_INVALID, PFTYPE_AVAILABLE
  <1> QED
    BY <1>2, <1>3, <1>6, <1>20, <1>21, <1>23 DEF IInv

LEMMA NextRegionIsNew ==
    ASSUME UsableWhole, Aligned, NEW r \in NextRegions
    PROVE  NewRegion(r[1], r[2])
  <1> USE PageFramesAssumption
  <1> DEFINE max  == CHOOSE u \in usable : \A v \in usable : v <= u
             from == IF usable = {} THEN PageUnits ELSE 2 + max
  <1>1. usable \subseteq Nat /\ Count * PageUnits \in Nat
        /\ \A u \in usable : u <= Count * PageUnits
    BY DEF UsableWhole
  <1>2. ASSUME usable # {} PROVE max \in usable /\ \A v \in usable : v <= max
    <2> DEFINE T == {x \in Nat : \A v \in usable : v <= x}
    <2>1. PICK m \in T : \A x \in T : m <= x
      <3>1. T \subseteq Nat /\ Count * PageUnits \in T
        BY <1>1
      <3>2. T # {}
        BY <3>1
      <3> HIDE DEF T
      <3> QED
        BY <3>1, <3>2, LeastNat
    <2>2. m \in usable
      <3> SUFFICES ASSUME m \notin usable PROVE FALSE
        OBVIOUS
      <3>1. \A v \in usable : v \in Nat /\ v <= m - 1
        BY <1>1
      <3>2. m - 1 \in Nat
        BY <1>2, <3>1
      <3>3. m - 1 \in T
        BY <3>1, <3>2
      <3> QED
        BY <2>1, <3>3
    <2> QED
      BY <2>1, <2>2
  <1>3. from \in Nat /\ \A u \in usable : u < from
    <2> HIDE DEF max
    <2>1. usable \subseteq Nat
      BY <1>1
    <2>2. CASE usable = {}
      BY <2>2
    <2>3. CASE usable # {}
      <3>1. max \in Nat /\ from = 2 + max /\ \A v \in usable : v <= max /\ v \in Nat
        BY <1>2, <2>1, <2>3
      <3> HIDE DEF from
      <3> QED
        BY <3>1
    <2> QED
      BY <2>2, <2>3
  <1>4. NextRegions = {q \in (from..(Count * PageUnits)) \X (1..(Count * PageUnits)) :
                          /\ q[1] < q[2]
                          /\ Aligned => q[1] % PageUnits = 0 /\ q[2] % PageUnits = 0}
    BY DEF NextRegions
  <1> HIDE DEF from
  <1>5. /\ r[1] \in from..(Count * PageUnits) /\ r[2] \in 1..(Count * PageUnits)
        /\ r[1] < r[2] /\ r[1] % PageUnits = 0 /\ r[2] % PageUnits = 0
    BY <1>4
  <1>6. r[1] \in Nat /\ r[2] \in Nat /\ from <= r[1] /\ r[2] <= Count * PageUnits
    BY <1>1, <1>3, <1>5
  <1>7. \A u \in r[1]..(r[2] - 1) : u \notin usable
    BY <1>1, <1>3, <1>6
  <1> QED
    BY <1>5, <1>6, <1>7 DEF NewRegion

-----------------------------------------------------------------------------
(* Allocation and release. *)

\* What the list holds is free, and what is held is not in it.
LEMMA FreeFrames ==
    IInv /\ pc # "stopped" => Listed = UsableFrames \ held /\ held \subseteq UsableFrames
  <1> SUFFICES ASSUME IInv, pc # "stopped"
               PROVE  Listed = UsableFrames \ held /\ held \subseteq UsableFrames
    OBVIOUS
  <1> PICK n, s : ListInv(n, s)
    BY DEF IInv
  <1>1. FramesTyped /\ IsList(n, s)
    BY DEF IInv, ListInv
  <1> QED
    BY <1>1, ListedIsFrames DEF ListInv

LEMMA InitDoneIInv == IInv /\ InitDone => IInv'
  <1> SUFFICES ASSUME IInv, InitDone PROVE IInv'
    OBVIOUS
  <1> PICK n, s : ListInv(n, s)
    BY DEF IInv, InitDone
  <1>1. ListInv(n, s)'
    BY DEF InitDone, ListInv, IsList, Frames, UsableFrames
  <1>2. FramesTyped' /\ UsableWhole' /\ AvailBounded'
    BY DEF IInv, InitDone, FramesTyped, UsableWhole, AvailBounded, UsableFrames
  <1> QED
    BY <1>1, <1>2 DEF IInv

\* The list loses its first frame.
LEMMA PfallocIInv ==
    ASSUME IInv, Pfalloc
    PROVE  /\ IInv' /\ head \in Pfn /\ UsableFrames' = UsableFrames
           /\ head \in UsableFrames /\ head \notin held /\ held' = held \union {head}
  <1> USE PageFramesAssumption
  <1> DEFINE next == pf[head].next
             back == IF next = PFN_INVALID THEN pf
                     ELSE [pf EXCEPT ![next].prev = PFN_INVALID]
             taken == [ZeroPf EXCEPT !.refcount = 1, !.type = PFTYPE_ALLOCATED]
  <1> PICK n, s : ListInv(n, s)
    BY DEF IInv, Pfalloc
  <1>1. FramesTyped /\ UsableWhole /\ AvailBounded
    BY DEF IInv
  <1>2. /\ pc = "ready" /\ head # PFN_INVALID /\ head' = next
        /\ pf' = [back EXCEPT ![head] = taken]
        /\ held' = held \union {head}
        /\ tail' = tail /\ avail' = avail /\ pc' = pc /\ usable' = usable
    BY DEF Pfalloc
  <1>3. /\ n \in 0..Count /\ s \in [0..n -> Link]
        /\ s[0] = head /\ s[n] = PFN_INVALID
        /\ \A i \in 0..(n - 1) :
               /\ s[i] \in Pfn
               /\ pf[s[i]].next = s[i + 1]
               /\ pf[s[i]].prev = IF i = 0 THEN PFN_INVALID ELSE s[i - 1]
        /\ \A i, j \in 0..(n - 1) : s[i] = s[j] => i = j
    BY DEF ListInv, IsList
  <1>4. n \in Nat /\ n # 0 /\ 0 \in 0..(n - 1) /\ n - 1 \in Nat
    BY <1>2, <1>3
  <1>5. head \in Pfn /\ next = s[1] /\ next \in Link /\ PFN_INVALID \notin Pfn
    BY <1>3, <1>4 DEF Pfn, PFN_INVALID
  <1>6. pf \in [Pfn -> Rec] /\ \A f \in Link : f \in Pfn \/ f = PFN_INVALID
    BY <1>1 DEF FramesTyped, Pfn, Link, PFN_INVALID
  <1>7. /\ taken \in Rec /\ taken.type = PFTYPE_ALLOCATED /\ taken.refcount = 1
    <2>1. 0 \in -1..Count /\ 0 \in Link /\ 1 \in 0..1 /\ PFTYPE_ALLOCATED \in 0..2
      BY DEF PFTYPE_ALLOCATED, Link
    <2> QED
      BY <2>1 DEF ZeroPf, Rec
  <1> HIDE DEF taken, next
  <1>8. /\ back \in [Pfn -> Rec]
        /\ \A f \in Pfn : /\ back[f].type = pf[f].type /\ back[f].refcount = pf[f].refcount
                          /\ back[f].next = pf[f].next
                          /\ back[f].prev = IF f = next THEN PFN_INVALID ELSE pf[f].prev
    <2>1. PFN_INVALID \in -1..Count
      BY DEF PFN_INVALID
    <2> QED
      BY <1>5, <1>6, <2>1 DEF Rec
  <1> HIDE DEF back
  <1>9. /\ pf' \in [Pfn -> Rec]
        /\ pf'[head] = taken /\ \A f \in Pfn : f # head => pf'[f] = back[f]
    BY <1>2, <1>5, <1>7, <1>8
  <1> DEFINE S == [i \in 0..(n - 1) |-> s[i + 1]]
  <1>10. \A i \in 0..(n - 1) : S[i] = s[i + 1]
    OBVIOUS
  <1>11. S \in [0..(n - 1) -> Link]
    <2>1. \A i \in 0..(n - 1) : i + 1 \in 0..n
      BY <1>4
    <2> QED
      BY <1>3, <2>1
  <1> HIDE DEF S
  <1>12. \A i \in 0..(n - 1 - 1) : /\ i \in 0..(n - 1) /\ i + 1 \in 0..(n - 1)
                                   /\ S[i] = s[i + 1] /\ s[i + 1] \in Pfn
                                   /\ s[i + 1] # head
    <2> SUFFICES ASSUME NEW i \in 0..(n - 1 - 1)
                 PROVE  /\ i \in 0..(n - 1) /\ i + 1 \in 0..(n - 1)
                        /\ S[i] = s[i + 1] /\ s[i + 1] \in Pfn
                        /\ s[i + 1] # head
      OBVIOUS
    <2>1. i \in 0..(n - 1) /\ i + 1 \in 0..(n - 1) /\ i + 1 # 0
      BY <1>4
    <2> QED
      BY <1>3, <1>4, <1>10, <2>1
  <1>13. S[0] = head' /\ S[n - 1] = PFN_INVALID
    <2>1. n - 1 \in 0..(n - 1) /\ n - 1 + 1 = n
      BY <1>4
    <2>2. S[0] = s[0 + 1] /\ S[n - 1] = s[n - 1 + 1]
      BY <1>4, <1>10, <2>1
    <2> QED
      BY <1>2, <1>3, <1>5, <2>1, <2>2
  <1>14. \A i \in 0..(n - 1 - 1) :
             /\ pf'[S[i]].next = S[i + 1]
             /\ pf'[S[i]].prev = IF i = 0 THEN PFN_INVALID ELSE S[i - 1]
    <2> SUFFICES ASSUME NEW i \in 0..(n - 1 - 1)
                 PROVE  /\ pf'[S[i]].next = S[i + 1]
                        /\ pf'[S[i]].prev = IF i = 0 THEN PFN_INVALID ELSE S[i - 1]
      OBVIOUS
    <2>1. /\ i \in Nat /\ i + 1 \in 0..(n - 1) /\ S[i] = s[i + 1] /\ s[i + 1] \in Pfn
          /\ S[i + 1] = s[i + 1 + 1] /\ s[i + 1] # head
      BY <1>10, <1>12
    <2>2. pf'[S[i]].next = S[i + 1]
      BY <1>3, <1>8, <1>9, <2>1
    <2>3. s[i + 1] = next <=> i = 0
      BY <1>3, <1>4, <1>5, <2>1
    <2>4. i # 0 => S[i - 1] = s[i]
      <3>1. i # 0 => i - 1 \in 0..(n - 1) /\ i - 1 + 1 = i
        BY <1>4, <2>1
      <3> QED
        BY <1>10, <3>1
    <2>5. pf[s[i + 1]].prev = s[i]
      <3>1. i + 1 # 0 /\ i + 1 - 1 = i
        BY <2>1
      <3> QED
        BY <1>3, <2>1, <3>1
    <2> QED
      BY <1>8, <1>9, <2>1, <2>2, <2>3, <2>4, <2>5
  <1>15. \A i, j \in 0..(n - 1 - 1) : S[i] = S[j] => i = j
    <2> SUFFICES ASSUME NEW i \in 0..(n - 1 - 1), NEW j \in 0..(n - 1 - 1), S[i] = S[j]
                 PROVE  i = j
      OBVIOUS
    <2>1. i + 1 = j + 1
      BY <1>3, <1>12
    <2> QED
      BY <2>1
  <1>16. UsableFrames' = UsableFrames
    BY <1>2 DEF UsableFrames
  <1>17. Frames(n - 1, S) = Frames(n, s) \ {head}
    <2>1. ASSUME NEW f \in Frames(n - 1, S) PROVE f \in Frames(n, s) \ {head}
      <3> PICK i \in 0..(n - 1 - 1) : f = S[i]
        BY DEF Frames
      <3> QED
        BY <1>12 DEF Frames
    <2>2. ASSUME NEW f \in Frames(n, s), f # head PROVE f \in Frames(n - 1, S)
      <3> PICK i \in 0..(n - 1) : f = s[i]
        BY DEF Frames
      <3>1. i # 0
        BY <1>3, <2>2
      <3>2. i - 1 \in 0..(n - 1 - 1) /\ i - 1 + 1 = i
        BY <1>4, <3>1
      <3>3. S[i - 1] = s[i]
        BY <1>12, <3>2
      <3> QED
        BY <3>2, <3>3 DEF Frames
    <2> QED
      BY <2>1, <2>2
  <1>18. /\ Frames(n, s) = {f \in Pfn : pf[f].type = PFTYPE_AVAILABLE}
         /\ Frames(n, s) = UsableFrames \ held /\ held \subseteq UsableFrames
    BY DEF ListInv
  <1>19. head \in Frames(n, s)
    BY <1>3, <1>4 DEF Frames
  <1>20. Frames(n - 1, S) = {f \in Pfn : pf'[f].type = PFTYPE_AVAILABLE}
    <2>1. PFTYPE_ALLOCATED # PFTYPE_AVAILABLE
      BY DEF PFTYPE_ALLOCATED, PFTYPE_AVAILABLE
    <2>2. \A f \in Pfn : pf'[f].type = PFTYPE_AVAILABLE
                         <=> f # head /\ pf[f].type = PFTYPE_AVAILABLE
      BY <1>7, <1>8, <1>9, <2>1
    <2> QED
      BY <1>17, <1>18, <2>2
  <1>21. ListInv(n - 1, S)'
    <2>1. IsList(n - 1, S)'
      <3>1. n - 1 \in 0..Count
        BY <1>3, <1>4
      <3> QED
        BY <1>11, <1>12, <1>13, <1>14, <1>15, <3>1 DEF IsList, Pfn, Link, PFN_INVALID
    <2>2. Frames(n - 1, S)' = Frames(n - 1, S)
      BY DEF Frames
    <2>3. pc' # "init"
      BY <1>2
    <2>4. Frames(n - 1, S) = UsableFrames' \ held' /\ held' \subseteq UsableFrames'
      BY <1>2, <1>16, <1>17, <1>18, <1>19
    <2>5. Frames(n - 1, S)' = {f \in Pfn : pf[f].type = PFTYPE_AVAILABLE}'
      BY <1>20, <2>2 DEF Pfn, PFTYPE_AVAILABLE
    <2> QED
      BY <2>1, <2>2, <2>3, <2>4, <2>5 DEF ListInv
  <1>22. FramesTyped'
    <2>1. head' \in Link /\ tail' \in Link /\ pc' \in {"init", "ready", "stopped"}
          /\ held' \subseteq Pfn
      BY <1>1, <1>2, <1>5 DEF FramesTyped
    <2>2. \A f \in Pfn : /\ f \in held' <=> pf'[f].type = PFTYPE_ALLOCATED
                         /\ f \in held' <=> pf'[f].refcount = 1
      BY <1>1, <1>2, <1>7, <1>8, <1>9 DEF FramesTyped
    <2> QED
      BY <1>9, <2>1, <2>2 DEF FramesTyped, Pfn, Link, Rec, PFTYPE_ALLOCATED
  <1>23. UsableWhole' /\ AvailBounded'
    BY <1>1, <1>2, <1>16 DEF UsableWhole, AvailBounded, PageOf
  <1> QED
    BY <1>2, <1>5, <1>16, <1>18, <1>19, <1>21, <1>22, <1>23 DEF IInv

\* The list gains a frame at its head.
LEMMA PffreeIInv ==
    ASSUME IInv, MayRelease, NEW f \in Pfn, Pffree(f)
    PROVE  /\ IInv' /\ UsableFrames' = UsableFrames
           /\ f \in held /\ held' = held \ {f}
  <1> USE PageFramesAssumption
  <1> DEFINE freed == Freed(f)
             stored == [pf EXCEPT ![f] = freed]
  <1> PICK n, s : ListInv(n, s)
    BY DEF IInv, Pffree
  <1>1. FramesTyped /\ UsableWhole /\ AvailBounded
    BY DEF IInv
  <1>2. /\ pc = "ready" /\ head # PFN_INVALID /\ head' = f
        /\ f \in held /\ pf[f].type = PFTYPE_ALLOCATED
        /\ pf' = [stored EXCEPT ![head].prev = f]
        /\ held' = held \ {f} /\ avail' = avail + 1
        /\ tail' = tail /\ pc' = pc /\ usable' = usable
    BY DEF Pffree
  <1>3. /\ n \in 0..Count /\ s \in [0..n -> Link]
        /\ s[0] = head /\ s[n] = PFN_INVALID
        /\ \A i \in 0..(n - 1) :
               /\ s[i] \in Pfn
               /\ pf[s[i]].next = s[i + 1]
               /\ pf[s[i]].prev = IF i = 0 THEN PFN_INVALID ELSE s[i - 1]
        /\ \A i, j \in 0..(n - 1) : s[i] = s[j] => i = j
    BY DEF ListInv, IsList
  <1> DEFINE N == n + 1
  <1>4. n \in Nat /\ n # 0 /\ 0 \in 0..(n - 1) /\ N \in Nat /\ N = n + 1
    BY <1>2, <1>3
  <1> HIDE DEF N
  <1>5. /\ Frames(n, s) = {g \in Pfn : pf[g].type = PFTYPE_AVAILABLE}
        /\ Frames(n, s) = UsableFrames \ held /\ held \subseteq UsableFrames
    BY DEF ListInv
  <1>6. \A i \in 0..(n - 1) : s[i] \in Pfn /\ s[i] # f
    <2>1. f \notin Frames(n, s)
      BY <1>2, <1>5
    <2> QED
      BY <1>3, <2>1 DEF Frames
  <1>7. head \in Pfn /\ head # f /\ pf \in [Pfn -> Rec] /\ Pfn \subseteq -1..Count
    BY <1>1, <1>3, <1>4, <1>6 DEF FramesTyped, Pfn
  <1>8. /\ freed \in Rec /\ freed.prev = PFN_INVALID /\ freed.next = head
        /\ freed.type = PFTYPE_AVAILABLE /\ freed.refcount = 0
    <2>1. head \in Link /\ PFN_INVALID \in -1..Count /\ 0 \in 0..1 /\ PFTYPE_AVAILABLE \in 0..2
      BY <1>1 DEF FramesTyped, PFN_INVALID, PFTYPE_AVAILABLE
    <2> QED
      BY <2>1 DEF Freed, ZeroPf, Rec
  <1> HIDE DEF freed
  <1>9. /\ stored \in [Pfn -> Rec] /\ stored[f] = freed
        /\ \A g \in Pfn : g # f => stored[g] = pf[g]
    BY <1>7, <1>8
  <1> HIDE DEF stored
  <1>10. /\ pf' \in [Pfn -> Rec] /\ pf'[f] = freed
         /\ \A g \in Pfn : g # f =>
                /\ pf'[g].type = pf[g].type /\ pf'[g].refcount = pf[g].refcount
                /\ pf'[g].next = pf[g].next
                /\ pf'[g].prev = IF g = head THEN f ELSE pf[g].prev
    BY <1>2, <1>7, <1>9 DEF Rec
  <1> DEFINE S == [i \in 0..N |-> IF i = 0 THEN f ELSE s[i - 1]]
  <1>11. \A i \in 0..N : S[i] = IF i = 0 THEN f ELSE s[i - 1]
    OBVIOUS
  <1>12. S \in [0..N -> Link]
    <2>1. \A i \in 0..N : i # 0 => i - 1 \in 0..n
      BY <1>4
    <2>2. f \in Link
      BY DEF Pfn, Link
    <2> QED
      BY <1>3, <2>1, <2>2
  <1> HIDE DEF S
  <1>13. /\ S[0] = f /\ S[N] = PFN_INVALID
         /\ \A i \in 0..(N - 1) : i # 0 =>
                /\ i - 1 \in 0..(n - 1) /\ i - 1 + 1 = i /\ S[i] = s[i - 1]
         /\ \A i \in 0..(N - 1) : S[i] \in Pfn /\ S[i + 1] = s[i]
    <2>1. S[0] = f /\ S[N] = s[N - 1] /\ N - 1 = n
      BY <1>4, <1>11
    <2>2. ASSUME NEW i \in 0..(N - 1), i # 0
          PROVE  i - 1 \in 0..(n - 1) /\ i - 1 + 1 = i /\ S[i] = s[i - 1]
      <3>1. i - 1 \in 0..(n - 1) /\ i - 1 + 1 = i /\ i \in 0..N
        BY <1>4, <2>2
      <3> QED
        BY <1>11, <2>2, <3>1
    <2>3. ASSUME NEW i \in 0..(N - 1) PROVE S[i] \in Pfn /\ S[i + 1] = s[i]
      <3>1. i + 1 \in 0..N /\ i + 1 # 0 /\ i + 1 - 1 = i
        BY <1>4
      <3> QED
        BY <1>6, <1>11, <2>1, <2>2, <3>1
    <2> QED
      BY <1>3, <2>1, <2>2, <2>3
  <1>14. \A i \in 0..(N - 1) :
             /\ pf'[S[i]].next = S[i + 1]
             /\ pf'[S[i]].prev = IF i = 0 THEN PFN_INVALID ELSE S[i - 1]
    <2> SUFFICES ASSUME NEW i \in 0..(N - 1)
                 PROVE  /\ pf'[S[i]].next = S[i + 1]
                        /\ pf'[S[i]].prev = IF i = 0 THEN PFN_INVALID ELSE S[i - 1]
      OBVIOUS
    <2>1. CASE i = 0
      BY <1>3, <1>8, <1>10, <1>13, <2>1
    <2>2. CASE i # 0
      <3>1. /\ i - 1 \in 0..(n - 1) /\ i - 1 + 1 = i /\ S[i] = s[i - 1] /\ S[i + 1] = s[i]
            /\ s[i - 1] \in Pfn /\ s[i - 1] # f
        BY <1>6, <1>13, <2>2
      <3>2. pf'[S[i]].next = S[i + 1]
        BY <1>3, <1>10, <3>1
      <3>3. CASE i = 1
        <4>1. S[i - 1] = f /\ s[i - 1] = head
          BY <1>3, <1>13, <3>3
        <4> QED
          BY <1>10, <2>2, <3>1, <3>2, <4>1
      <3>4. CASE i # 1
        <4>1. i - 1 # 0 /\ i - 1 \in 0..(N - 1)
          BY <1>4, <3>1, <3>4
        <4>2. S[i - 1] = s[i - 1 - 1] /\ s[i - 1] # head
          BY <1>3, <1>4, <1>13, <3>1, <4>1
        <4> QED
          BY <1>3, <1>10, <2>2, <3>1, <3>2, <4>1, <4>2, SMTT(30)
      <3> QED
        BY <3>3, <3>4
    <2> QED
      BY <2>1, <2>2
  <1>15. \A i, j \in 0..(N - 1) : S[i] = S[j] => i = j
    <2> SUFFICES ASSUME NEW i \in 0..(N - 1), NEW j \in 0..(N - 1), S[i] = S[j]
                 PROVE  i = j
      OBVIOUS
    <2>1. i = 0 <=> j = 0
      BY <1>6, <1>13
    <2>2. CASE i # 0
      <3>1. i - 1 = j - 1
        BY <1>3, <1>13, <2>1, <2>2
      <3> QED
        BY <3>1
    <2> QED
      BY <2>1, <2>2
  <1>16. N <= Count
    BY <1>4, <1>13, <1>15, ListShort
  <1>17. UsableFrames' = UsableFrames /\ f \in UsableFrames
    BY <1>2, <1>5 DEF UsableFrames
  <1>18. Frames(N, S) = Frames(n, s) \union {f}
    <2>1. ASSUME NEW g \in Frames(N, S) PROVE g \in Frames(n, s) \union {f}
      <3> PICK i \in 0..(N - 1) : g = S[i]
        BY DEF Frames
      <3> QED
        BY <1>13 DEF Frames
    <2>2. ASSUME NEW g \in Frames(n, s) PROVE g \in Frames(N, S)
      <3> PICK i \in 0..(n - 1) : g = s[i]
        BY DEF Frames
      <3>1. i + 1 \in 0..(N - 1) /\ i \in 0..(N - 1)
        BY <1>4
      <3>2. S[i + 1] = s[i]
        BY <1>13, <3>1
      <3> QED
        BY <3>1, <3>2 DEF Frames
    <2>3. f \in Frames(N, S)
      <3>1. 0 \in 0..(N - 1)
        BY <1>4
      <3> QED
        BY <1>13, <3>1 DEF Frames
    <2> QED
      BY <2>1, <2>2, <2>3
  <1>19. Frames(N, S) = {g \in Pfn : pf'[g].type = PFTYPE_AVAILABLE}
    BY <1>5, <1>8, <1>10, <1>18
  <1>20. ListInv(N, S)'
    <2>1. IsList(N, S)'
      <3>1. N \in 0..Count
        BY <1>4, <1>16
      <3> QED
        BY <1>2, <1>12, <1>13, <1>14, <1>15, <3>1 DEF IsList, Pfn, Link, PFN_INVALID
    <2>2. Frames(N, S)' = Frames(N, S)
      BY DEF Frames
    <2>3. pc' # "init"
      BY <1>2
    <2>4. Frames(N, S) = UsableFrames' \ held' /\ held' \subseteq UsableFrames'
      BY <1>2, <1>5, <1>17, <1>18
    <2>5. Frames(N, S)' = {g \in Pfn : pf[g].type = PFTYPE_AVAILABLE}'
      BY <1>19, <2>2 DEF Pfn, PFTYPE_AVAILABLE
    <2> QED
      BY <2>1, <2>2, <2>3, <2>4, <2>5 DEF ListInv
  <1>21. FramesTyped'
    <2>1. head' \in Link /\ tail' \in Link /\ pc' \in {"init", "ready", "stopped"}
          /\ held' \subseteq Pfn
      BY <1>1, <1>2 DEF FramesTyped, Pfn, Link
    <2>2. ASSUME NEW g \in Pfn
          PROVE  /\ g \in held' <=> pf'[g].type = PFTYPE_ALLOCATED
                 /\ g \in held' <=> pf'[g].refcount = 1
      <3>1. CASE g = f
        <4>1. g \notin held'
          BY <1>2, <3>1
        <4>2. pf'[g].type = PFTYPE_AVAILABLE /\ pf'[g].refcount = 0
          BY <1>8, <1>10, <3>1
        <4>3. 0 # 1 /\ PFTYPE_AVAILABLE # PFTYPE_ALLOCATED
          BY DEF PFTYPE_ALLOCATED, PFTYPE_AVAILABLE
        <4> QED
          BY <4>1, <4>2, <4>3
      <3>2. CASE g # f
        <4>1. /\ g \in held <=> pf[g].type = PFTYPE_ALLOCATED
              /\ g \in held <=> pf[g].refcount = 1
          BY <1>1 DEF FramesTyped
        <4> QED
          BY <1>2, <1>10, <3>2, <4>1
      <3> QED
        BY <3>1, <3>2
    <2> QED
      BY <1>10, <2>1, <2>2 DEF FramesTyped, Pfn, Link, Rec, PFTYPE_ALLOCATED
  <1>22. UsableWhole' /\ AvailBounded'
    <2>1. Cardinality(UsableFrames) \in Nat
      <3>1. IsFiniteSet(Pfn) /\ UsableFrames \in SUBSET Pfn
        BY FS_Interval DEF Pfn, UsableFrames
      <3> QED
        BY <3>1, FS_Subset, FS_CardinalityType
    <2>2. AvailBounded'
      BY <1>1, <1>2, <1>17, <2>1 DEF AvailBounded, MayRelease
    <2> QED
      BY <1>1, <1>2, <2>2 DEF UsableWhole, PageOf
  <1> QED
    BY <1>2, <1>17, <1>20, <1>21, <1>22 DEF IInv

\* A fault leaves the records typed, whatever has become of the list.
LEMMA FaultIInv ==
    ASSUME IInv, PfallocEmpty \/ \E f \in Pfn : PffreeIntoEmpty(f)
    PROVE  IInv' /\ pc' = "stopped"
  <1>1. FramesTyped /\ UsableWhole /\ AvailBounded
    BY DEF IInv
  <1>2. CASE PfallocEmpty
    <2>1. FramesTyped' /\ UsableWhole' /\ AvailBounded' /\ pc' = "stopped"
      BY <1>1, <1>2
      DEF PfallocEmpty, Fault, FramesTyped, UsableWhole, AvailBounded, UsableFrames
    <2> QED
      BY <2>1 DEF IInv
  <1>3. CASE \E f \in Pfn : PffreeIntoEmpty(f)
    <2> PICK f \in Pfn : PffreeIntoEmpty(f)
      BY <1>3
    <2>1. /\ pf' = [pf EXCEPT ![f] = Freed(f)] /\ held' = held \ {f}
          /\ pc' = "stopped" /\ head' = head /\ tail' = tail
          /\ avail' = avail /\ usable' = usable
      BY DEF PffreeIntoEmpty, Fault
    <2>2. Freed(f) \in Rec /\ Freed(f).type = PFTYPE_AVAILABLE /\ Freed(f).refcount = 0
      <3>1. head \in Link /\ PFN_INVALID \in -1..Count /\ 0 \in 0..1
            /\ PFTYPE_AVAILABLE \in 0..2
        BY <1>1, PageFramesAssumption DEF FramesTyped, PFN_INVALID, PFTYPE_AVAILABLE
      <3> QED
        BY <3>1 DEF Freed, ZeroPf, Rec
    <2> HIDE DEF Freed
    <2>3. pf' \in [Pfn -> Rec] /\ pf'[f] = Freed(f)
          /\ \A g \in Pfn : g # f => pf'[g] = pf[g]
      BY <1>1, <2>1, <2>2 DEF FramesTyped
    <2>4. FramesTyped'
      <3>1. \A g \in Pfn : /\ g \in held' <=> pf'[g].type = PFTYPE_ALLOCATED
                           /\ g \in held' <=> pf'[g].refcount = 1
        BY <1>1, <2>1, <2>2, <2>3 DEF FramesTyped, PFTYPE_ALLOCATED, PFTYPE_AVAILABLE
      <3> QED
        BY <1>1, <2>1, <2>3, <3>1 DEF FramesTyped, Pfn, Link, Rec, PFTYPE_ALLOCATED
    <2>5. UsableWhole' /\ AvailBounded'
      BY <1>1, <2>1 DEF UsableWhole, AvailBounded, UsableFrames, PageOf
    <2> QED
      BY <2>1, <2>4, <2>5 DEF IInv
  <1> QED
    BY <1>2, <1>3

LEMMA StutterIInv == IInv /\ UNCHANGED vars => IInv'
  <1> SUFFICES ASSUME IInv, UNCHANGED vars PROVE IInv'
    OBVIOUS
  <1>1. FramesTyped' /\ UsableWhole' /\ AvailBounded'
    BY DEF IInv, vars, FramesTyped, UsableWhole, AvailBounded, UsableFrames
  <1>2. ASSUME pc # "stopped" PROVE \E n, s : ListInv(n, s)'
    <2> PICK n, s : ListInv(n, s)
      BY <1>2 DEF IInv
    <2>1. ListInv(n, s)'
      BY DEF vars, ListInv, IsList, Frames, UsableFrames
    <2> QED
      BY <2>1
  <1> QED
    BY <1>1, <1>2 DEF IInv, vars

-----------------------------------------------------------------------------
(* The database. *)

LEMMA InitIInv == Init => IInv
  <1> SUFFICES ASSUME Init PROVE IInv
    OBVIOUS
  <1> USE PageFramesAssumption
  <1>1. /\ pf = [f \in Pfn |-> ZeroPf] /\ head = PFN_INVALID /\ tail = PFN_INVALID
        /\ avail = 0 /\ pc = "init" /\ usable = {} /\ held = {}
    BY DEF Init
  <1>2. /\ ZeroPf \in Rec /\ ZeroPf.type # PFTYPE_ALLOCATED
        /\ ZeroPf.type # PFTYPE_AVAILABLE /\ ZeroPf.refcount # 1
    <2>1. 0 \in -1..Count /\ 0 \in Link /\ 0 \in 0..1 /\ PFTYPE_RESERVED \in 0..2
      BY DEF PFTYPE_RESERVED, Link
    <2> QED
      BY <2>1 DEF ZeroPf, Rec, PFTYPE_RESERVED, PFTYPE_ALLOCATED, PFTYPE_AVAILABLE
  <1> HIDE DEF ZeroPf
  <1>3. FramesTyped
    <2>1. PFN_INVALID \in Link
      BY DEF PFN_INVALID, Link
    <2> QED
      BY <1>1, <1>2, <2>1 DEF FramesTyped
  <1>4. UsableWhole
    BY <1>1 DEF UsableWhole
  <1>5. UsableFrames = {}
    <2> SUFFICES ASSUME NEW f \in Pfn PROVE PageOf(f) # {}
      BY <1>1 DEF UsableFrames, PageOf
    <2> QED
      BY PageFacts DEF Pfn
  <1>6. AvailBounded
    BY <1>1, <1>5, FS_EmptySet DEF AvailBounded
  <1>7. ListInv(0, [i \in 0..0 |-> PFN_INVALID])
    <2> DEFINE s == [i \in 0..0 |-> PFN_INVALID]
    <2>1. s \in [0..0 -> Link] /\ s[0] = PFN_INVALID
      BY DEF Link, PFN_INVALID
    <2> HIDE DEF s
    <2>2. IsList(0, s) /\ Frames(0, s) = {}
      BY <1>1, <2>1 DEF IsList, Frames
    <2> QED
      BY <1>1, <1>2, <1>5, <2>2 DEF ListInv, s
  <1> QED
    BY <1>3, <1>4, <1>6, <1>7 DEF IInv

LEMMA NextIInv ==
    ASSUME Aligned
    PROVE  IInv /\ [Next]_vars => IInv'
  <1> SUFFICES ASSUME IInv, [Next]_vars PROVE IInv'
    OBVIOUS
  <1>1. ASSUME NEW r \in NextRegions, InitRegion(r[1], r[2]) PROVE IInv'
    <2>1. NewRegion(r[1], r[2])
      BY NextRegionIsNew DEF IInv
    <2> QED
      BY <1>1, <2>1, RegionIInv
  <1>2. CASE InitDone
    BY <1>2, InitDoneIInv
  <1>3. CASE Pfalloc
    BY <1>3, PfallocIInv
  <1>4. CASE PfallocEmpty
    BY <1>4, FaultIInv
  <1>5. CASE MayRelease /\ \E f \in Pfn : Pffree(f)
    BY <1>5, PffreeIInv
  <1>6. CASE \E f \in Pfn : PffreeIntoEmpty(f)
    BY <1>6, FaultIInv
  <1>7. CASE UNCHANGED vars
    BY <1>7, StutterIInv
  <1> QED
    BY <1>1, <1>2, <1>3, <1>4, <1>5, <1>6, <1>7 DEF Next

LEMMA IInvImpliesTypeOK == IInv => TypeOK
  <1> SUFFICES ASSUME IInv PROVE TypeOK
    OBVIOUS
  <1> USE PageFramesAssumption
  <1>1. FramesTyped /\ AvailBounded
    BY DEF IInv
  <1>2. Cardinality(UsableFrames) \in Nat /\ Cardinality(UsableFrames) <= Count
    <2>1. IsFiniteSet(Pfn) /\ Cardinality(Pfn) = Count /\ UsableFrames \in SUBSET Pfn
      BY FS_Interval DEF Pfn, UsableFrames
    <2> QED
      BY <2>1, FS_Subset, FS_CardinalityType
  <1>3. avail \in 0..(Count + MaxReleases)
    BY <1>1, <1>2 DEF AvailBounded
  <1>4. \A f \in Pfn : /\ (f \in held) = (pf[f].type = PFTYPE_ALLOCATED)
                       /\ (f \in held) = (pf[f].refcount = 1)
    BY <1>1 DEF FramesTyped
  <1> QED
    BY <1>1, <1>3, <1>4 DEF FramesTyped, TypeOK, Rec

\* From the regions on, through every sequence of allocations and releases up
\* to a fault, following the list from its head ends after exactly the frames
\* of usable memory that nobody holds, and its two directions agree.
THEOREM ListCorrect ==
    ASSUME Aligned
    PROVE  Spec => []ListExact
  <1>1. Init => IInv
    BY InitIInv
  <1>2. IInv /\ [Next]_vars => IInv'
    BY NextIInv
  <1>3. IInv => ListExact
    BY IInvImpliesListExact
  <1> QED
    BY <1>1, <1>2, <1>3, PTL DEF Spec

\* Every variable keeps to its type, and a frame's record says allocated, with
\* one reference, exactly while somebody holds it, after a fault too.
THEOREM TypeCorrect ==
    ASSUME Aligned
    PROVE  Spec => []TypeOK
  <1>1. Init => IInv
    BY InitIInv
  <1>2. IInv /\ [Next]_vars => IInv'
    BY NextIInv
  <1>3. IInv => TypeOK
    BY IInvImpliesTypeOK
  <1> QED
    BY <1>1, <1>2, <1>3, PTL DEF Spec

\* The steps of the database on the abstract pool.
LEMMA RegionDonates ==
    ASSUME IInv, NEW a, NEW b, NewRegion(a, b), InitRegion(a, b)
    PROVE  Pool!Donate
  <1>1. /\ IInv' /\ UsableFrames \subseteq UsableFrames' /\ held = {} /\ held' = {}
        /\ pc # "stopped" /\ pc' # "stopped"
    BY RegionIInv DEF InitRegion
  <1>2. (IInv /\ pc # "stopped" => Listed = UsableFrames \ held /\ held \subseteq UsableFrames)'
    BY FreeFrames, PTL
  <1>3. Listed = UsableFrames \ held /\ Listed' = UsableFrames' \ held'
    BY <1>1, <1>2, FreeFrames
  <1>4. UsableFrames' \subseteq Pfn
    BY DEF UsableFrames, Pfn
  <1> QED
    BY <1>1, <1>3, <1>4 DEF Pool!Donate

LEMMA PfallocTakes ==
    ASSUME IInv, Pfalloc
    PROVE  \E f \in Pfn : Pool!Take(f)
  <1>1. /\ IInv' /\ head \in Pfn /\ UsableFrames' = UsableFrames /\ head \in UsableFrames
        /\ head \notin held /\ held' = held \union {head}
        /\ pc # "stopped" /\ pc' # "stopped"
    BY PfallocIInv DEF Pfalloc
  <1>2. (IInv /\ pc # "stopped" => Listed = UsableFrames \ held /\ held \subseteq UsableFrames)'
    BY FreeFrames, PTL
  <1>3. Listed = UsableFrames \ held /\ Listed' = UsableFrames' \ held'
    BY <1>1, <1>2, FreeFrames
  <1>4. Pool!Take(head)
    BY <1>1, <1>3 DEF Pool!Take
  <1> QED
    BY <1>1, <1>4

LEMMA PffreeGivesBack ==
    ASSUME IInv, MayRelease, NEW f \in Pfn, Pffree(f)
    PROVE  Pool!GiveBack(f)
  <1>1. /\ IInv' /\ UsableFrames' = UsableFrames /\ f \in held /\ held' = held \ {f}
        /\ pc # "stopped" /\ pc' # "stopped"
    BY PffreeIInv DEF Pffree
  <1>2. (IInv /\ pc # "stopped" => Listed = UsableFrames \ held /\ held \subseteq UsableFrames)'
    BY FreeFrames, PTL
  <1>3. /\ Listed = UsableFrames \ held /\ held \subseteq UsableFrames
        /\ Listed' = UsableFrames' \ held'
    BY <1>1, <1>2, FreeFrames
  <1> QED
    BY <1>1, <1>3 DEF Pool!GiveBack

\* What leaves the list and the frames' records alone leaves the pool alone.
LEMMA SamePool == pf' = pf /\ head' = head => Listed' = Listed
  BY DEF Listed, Walk

\* The database implements the pool of frames: a region donates its frames,
\* pfalloc takes one that is free, pffree gives back one that is held, and
\* nothing else moves a frame, up to the fault that an empty list leads to.
THEOREM PoolCorrect ==
    ASSUME Aligned
    PROVE  Spec => IsPool
  <1>1. Init => IInv
    BY InitIInv
  <1>2. IInv /\ [Next]_vars => IInv'
    BY NextIInv
  <1>3. Init => Pool!Init
    <2> SUFFICES ASSUME Init PROVE Pool!Init
      OBVIOUS
    <2>1. Listed = UsableFrames \ held /\ held \subseteq UsableFrames
      BY <1>1, FreeFrames DEF Init
    <2>2. UsableFrames = {} /\ held = {}
      <3> SUFFICES ASSUME NEW f \in Pfn PROVE PageOf(f) # {}
        BY DEF Init, UsableFrames, PageOf
      <3> QED
        BY PageFacts DEF Pfn
    <2> QED
      BY <2>1, <2>2 DEF Pool!Init
  <1>4. IInv /\ [Next]_vars => [pc' # "stopped" => Pool!Next]_<<Listed, held>>
    <2> SUFFICES ASSUME IInv, [Next]_vars, pc' # "stopped"
                 PROVE  Pool!Next \/ UNCHANGED <<Listed, held>>
      OBVIOUS
    <2>1. ASSUME NEW r \in NextRegions, InitRegion(r[1], r[2]) PROVE Pool!Next
      <3>1. NewRegion(r[1], r[2])
        BY NextRegionIsNew DEF IInv
      <3> QED
        BY <2>1, <3>1, RegionDonates DEF Pool!Next
    <2>2. CASE InitDone
      BY <2>2, SamePool DEF InitDone
    <2>3. CASE Pfalloc
      BY <2>3, PfallocTakes DEF Pool!Next
    <2>4. CASE PfallocEmpty \/ \E f \in Pfn : PffreeIntoEmpty(f)
      BY <2>4, FaultIInv
    <2>5. CASE MayRelease /\ \E f \in Pfn : Pffree(f)
      BY <2>5, PffreeGivesBack DEF Pool!Next
    <2>6. CASE UNCHANGED vars
      BY <2>6, SamePool DEF vars
    <2> QED
      BY <2>1, <2>2, <2>3, <2>4, <2>5, <2>6 DEF Next
  <1> QED
    BY <1>1, <1>2, <1>3, <1>4, PTL DEF Spec, IsPool

-----------------------------------------------------------------------------
(* The kernel's page table, for every memory map and all sizes of memory   *)
(* and of pages: what kmem_init has entered up to the address it has come  *)
(* to maps exactly the pages it is to map there, each once.                *)

Covers(l, p) == l.addr <= p /\ p < l.addr + l.pages

Leaf == [addr : Pages, pages : {1, LargePages, HugePages}, uncached : BOOLEAN]

\* The entries lie below addr, each at a multiple of its size, and no two
\* overlap.
LeavesApart ==
    /\ leaves \subseteq Leaf
    /\ \A l \in leaves : l.addr % l.pages = 0 /\ l.addr + l.pages <= addr
    /\ \A l, m \in leaves : \A p \in Pages : Covers(l, p) /\ Covers(m, p) => l = m

\* They cover what is to be mapped below addr, with its caching.
LeavesMap ==
    /\ \A p \in 0..(addr - 1) : Mappable(p) <=> \E l \in leaves : Covers(l, p)
    /\ \A l \in leaves : \A p \in Pages : Covers(l, p) =>
           l.uncached = (mem[p] \in {PMEMTYPE_ACPI_NVS, PMEMTYPE_UNCACHED})

\* A table exists for the sake of a smaller entry beneath it.
TablesNeeded ==
    /\ \A t \in ktables :
           \/ \E p \in Pages : t = Pdpt(p)
           \/ \E l \in leaves : l.pages < HugePages /\ t = Pdt(l.addr)
           \/ \E l \in leaves : l.pages < LargePages /\ t = Pt(l.addr)
    /\ IsFiniteSet(ktables) /\ Cardinality(ktables) <= KernelTablePages

KmemInv ==
    /\ addr \in 0..PageCount
    /\ LeavesApart /\ LeavesMap /\ TablesNeeded

-----------------------------------------------------------------------------
(* The regions of the map. *)

LEMMA Sizes ==
    /\ PageCount \in Nat \ {0} /\ LargePages \in Nat \ {0} /\ HugePages \in Nat \ {0}
    /\ Count = PageCount /\ PageUnits = 1
    /\ \A p : p \in Pages <=> p \in Nat /\ p < PageCount
  BY MemoryAssumption, StartupAssumption DEF Pages

LEMMA MinNat ==
    ASSUME NEW S, S \subseteq Nat, S # {}
    PROVE  Min(S) \in S /\ \A x \in S : Min(S) <= x
  BY LeastNat DEF Min

LEMMA MaxNat ==
    ASSUME NEW S, S \subseteq Nat, S # {}, NEW b \in Nat, \A x \in S : x <= b
    PROVE  Max(S) \in S /\ \A x \in S : x <= Max(S)
  <1> DEFINE T == {y \in Nat : \A x \in S : x <= y}
  <1>1. PICK m \in T : \A y \in T : m <= y
    <2>1. T \subseteq Nat /\ b \in T
      OBVIOUS
    <2>2. T # {}
      BY <2>1
    <2> HIDE DEF T
    <2> QED
      BY <2>1, <2>2, LeastNat
  <1>2. m \in S
    <2> SUFFICES ASSUME m \notin S PROVE FALSE
      OBVIOUS
    <2>1. \A x \in S : x \in Nat /\ x <= m - 1
      OBVIOUS
    <2>2. m - 1 \in Nat
      <3> PICK x \in S : TRUE
        OBVIOUS
      <3>1. m \in Nat /\ x \in Nat /\ x <= m - 1
        BY <2>1
      <3> QED
        BY <3>1
    <2>3. m - 1 \in T
      BY <2>1, <2>2
    <2> QED
      BY <1>1, <2>3
  <1>3. \E x \in S : \A y \in S : x >= y
    BY <1>1, <1>2
  <1>4. Max(S) \in S /\ \A y \in S : Max(S) >= y
    BY <1>3 DEF Max
  <1> QED
    BY <1>4

\* From a page to the end of its region all pages are of one type.
LEMMA RegionTermFacts ==
    ASSUME NEW p \in Pages
    PROVE  /\ RegionTerm(p) \in (p + 1)..PageCount
           /\ \A q \in p..(RegionTerm(p) - 1) : q \in Pages /\ mem[q] = mem[p]
           /\ RegionTerm(p) # PageCount => mem[RegionTerm(p)] # mem[p]
  <1> DEFINE S == {q \in (p + 1)..PageCount : q = PageCount \/ mem[q] # mem[p]}
             t == Min(S)
  <1>1. RegionTerm(p) = t
    BY DEF RegionTerm
  <1>2. PageCount \in Nat /\ p \in Nat /\ p < PageCount
    BY Sizes
  <1>3. S \subseteq Nat /\ PageCount \in S
    BY <1>2
  <1>4. t \in S /\ \A x \in S : t <= x
    <2>1. S # {}
      BY <1>3
    <2> HIDE DEF S
    <2> QED
      BY <1>3, <2>1, MinNat
  <1> HIDE DEF t
  <1>5. t \in (p + 1)..PageCount /\ (t # PageCount => mem[t] # mem[p])
    BY <1>4
  <1>6. ASSUME NEW q \in p..(t - 1) PROVE q \in Pages /\ mem[q] = mem[p]
    <2>1. q \in Nat /\ q < PageCount /\ q < t
      BY <1>2, <1>5
    <2>2. q \notin S
      BY <1>4, <1>5, <2>1
    <2>3. q = p \/ q \in (p + 1)..PageCount
      BY <1>2, <2>1
    <2> QED
      BY <1>5, <2>1, <2>2, <2>3, Sizes
  <1> QED
    BY <1>1, <1>5, <1>6

\* So are those from the start of its region to the page.
LEMMA RegionAddrFacts ==
    ASSUME NEW p \in Pages
    PROVE  /\ RegionAddr(p) \in 0..p
           /\ \A q \in RegionAddr(p)..p : q \in Pages /\ mem[q] = mem[p]
           /\ RegionAddr(p) # 0 => mem[RegionAddr(p) - 1] # mem[p]
  <1> DEFINE S == {q \in 0..p : mem[q] = mem[p] /\ (q = 0 \/ mem[q - 1] # mem[q])}
             T == {q \in 0..p : \A x \in q..p : mem[x] = mem[p]}
  <1>1. RegionAddr(p) = Max(S)
    BY DEF RegionAddr
  <1>2. p \in Nat /\ \A q \in 0..p : q \in Pages
    BY Sizes
  <1>3. PICK m \in T : \A y \in T : m <= y
    <2>1. T \subseteq Nat /\ p \in T
      BY <1>2
    <2>2. T # {}
      BY <2>1
    <2> HIDE DEF T
    <2> QED
      BY <2>1, <2>2, LeastNat
  <1>4. m \in 0..p /\ \A x \in m..p : mem[x] = mem[p]
    OBVIOUS
  <1>5. m # 0 => mem[m - 1] # mem[p]
    <2> SUFFICES ASSUME m # 0, mem[m - 1] = mem[p] PROVE FALSE
      OBVIOUS
    <2>1. m - 1 \in 0..p /\ \A x \in (m - 1)..p : x = m - 1 \/ x \in m..p
      BY <1>2, <1>4
    <2>2. m - 1 \in T
      BY <1>4, <2>1
    <2> QED
      BY <1>3, <1>4, <2>2
  <1>6. m \in S
    <2>1. m \in m..p
      BY <1>2, <1>4
    <2> QED
      BY <1>4, <1>5, <2>1
  <1>7. \A q \in S : q <= m
    <2> SUFFICES ASSUME NEW q \in S, ~(q <= m) PROVE FALSE
      OBVIOUS
    <2>1. q \in m..p /\ q - 1 \in m..p /\ q # 0
      BY <1>2, <1>4
    <2> QED
      BY <1>4, <2>1
  <1>8. Max(S) = m
    <2>1. S \subseteq Nat /\ S # {}
      BY <1>2, <1>6
    <2>2. m \in Nat
      BY <1>4
    <2> HIDE DEF S
    <2>3. Max(S) \in S /\ \A x \in S : x <= Max(S)
      BY <1>7, <2>1, <2>2, MaxNat
    <2> DEFINE M == Max(S)
    <2>4. M \in Nat /\ m <= M /\ M <= m
      <3>1. m \in S /\ \A q \in S : q <= m
        BY <1>6, <1>7
      <3> HIDE DEF S
      <3> QED
        BY <2>1, <2>3, <3>1
    <2> HIDE DEF M
    <2>5. M = m
      BY <2>2, <2>4
    <2> QED
      BY <2>5 DEF M
  <1> QED
    BY <1>1, <1>2, <1>4, <1>5, <1>8

\* Of a reserved region either all pages are below the last usable address or
\* none is.
LEMMA ReservedRegion ==
    ASSUME NEW p \in Pages, mem[p] = PMEMTYPE_RESERVED,
           NEW q \in RegionAddr(p)..(RegionTerm(p) - 1)
    PROVE  q < last_usable <=> RegionAddr(p) < last_usable
  <1> DEFINE r == RegionAddr(p)
             t == RegionTerm(p)
             U == {x \in Pages : mem[x] = PMEMTYPE_USABLE}
  <1>1. /\ r \in 0..p /\ t \in (p + 1)..PageCount
        /\ \A x \in r..p : mem[x] = mem[p]
        /\ \A x \in p..(t - 1) : mem[x] = mem[p]
    BY RegionAddrFacts, RegionTermFacts
  <1>2. last_usable = IF U = {} THEN 0 ELSE Max(U) + 1
    BY DEF last_usable
  <1> HIDE DEF r, t
  <1>3. p \in Nat /\ PageCount \in Nat /\ r \in Nat /\ t \in Nat /\ r <= p /\ p < t
    BY <1>1, Sizes
  <1>4. \A x \in r..(t - 1) : mem[x] = PMEMTYPE_RESERVED
    <2> SUFFICES ASSUME NEW x \in r..(t - 1) PROVE x \in r..p \/ x \in p..(t - 1)
      BY <1>1
    <2> QED
      BY <1>3
  <1>5. CASE U = {}
    BY <1>2, <1>3, <1>5 DEF r, t
  <1>6. CASE U # {}
    <2> DEFINE u == Max(U)
    <2>1. u \in U
      <3>1. U \subseteq Nat /\ PageCount \in Nat /\ \A x \in U : x <= PageCount
        BY Sizes
      <3> HIDE DEF U
      <3> QED
        BY <1>6, <3>1, MaxNat
    <2>2. last_usable = u + 1
      BY <1>2, <1>6
    <2> HIDE DEF u
    <2>3. u \in Nat /\ u \notin r..(t - 1)
      BY <1>4, <2>1, Sizes DEF PMEMTYPE_RESERVED, PMEMTYPE_USABLE
    <2>4. q \in Nat /\ r <= q /\ q < t
      BY <1>3 DEF r, t
    <2> QED
      BY <1>3, <2>2, <2>3, <2>4 DEF r
  <1> QED
    BY <1>5, <1>6

\* map_region's test of a region is right for each of its pages.
LEMMA SkippedPages ==
    ASSUME addr \in Pages
    PROVE  \A q \in addr..(RegionTerm(addr) - 1) : Mappable(q) <=> ~Skipped
  <1> SUFFICES ASSUME NEW q \in addr..(RegionTerm(addr) - 1)
               PROVE  Mappable(q) <=> ~Skipped
    OBVIOUS
  <1>1. mem[q] = mem[addr]
    BY RegionTermFacts
  <1>2. CASE mem[addr] = PMEMTYPE_RESERVED
    <2> DEFINE r == RegionAddr(addr)
    <2>1. q \in r..(RegionTerm(addr) - 1) /\ r \in Nat
      BY RegionAddrFacts, RegionTermFacts, Sizes
    <2>2. q < last_usable <=> r < last_usable
      BY <1>2, <2>1, ReservedRegion
    <2>3. last_usable \in Nat
      <3> DEFINE U == {x \in Pages : mem[x] = PMEMTYPE_USABLE}
      <3>1. last_usable = IF U = {} THEN 0 ELSE Max(U) + 1
        BY DEF last_usable
      <3>2. U \subseteq Nat /\ PageCount \in Nat /\ \A x \in U : x <= PageCount
        BY Sizes
      <3> HIDE DEF U
      <3>3. U # {} => Max(U) \in Nat
        BY <3>2, MaxNat
      <3> QED
        BY <3>1, <3>3
    <2> HIDE DEF r
    <2>4. r >= last_usable <=> ~(r < last_usable)
      BY <2>1, <2>3
    <2> QED
      BY <1>1, <1>2, <2>2, <2>4
      DEF Mappable, Skipped, r, PMEMTYPE_RESERVED, PMEMTYPE_NONE, PMEMTYPE_BAD,
          PMEMTYPE_UNMAPPED
  <1>3. CASE mem[addr] # PMEMTYPE_RESERVED
    BY <1>1, <1>3 DEF Mappable, Skipped
  <1> QED
    BY <1>2, <1>3

-----------------------------------------------------------------------------
(* kmem_init. *)

LEMMA SkipRegionInv == KmemInv /\ SkipRegion => KmemInv'
  <1> SUFFICES ASSUME KmemInv, SkipRegion PROVE KmemInv'
    OBVIOUS
  <1> DEFINE t == RegionTerm(addr)
  <1>1. /\ addr \in Pages /\ Skipped /\ addr' = t
        /\ mem' = mem /\ ktables' = ktables /\ leaves' = leaves
    BY Sizes DEF SkipRegion, Mapping, KmemInv
  <1>2. t \in (addr + 1)..PageCount /\ \A q \in addr..(t - 1) : ~Mappable(q)
    BY <1>1, RegionTermFacts, SkippedPages
  <1> HIDE DEF t
  <1>3. addr \in Nat /\ t \in Nat /\ addr < t /\ t <= PageCount /\ PageCount \in Nat
    BY <1>1, <1>2, Sizes
  <1>4. \A l \in leaves : /\ l \in Leaf /\ l.addr % l.pages = 0
                          /\ l.addr \in Nat /\ l.pages \in Nat
                          /\ l.addr + l.pages <= addr
    BY Sizes DEF KmemInv, LeavesApart, Leaf
  <1>5. LeavesApart'
    <2>1. \A l \in leaves : l.addr + l.pages <= t
      BY <1>3, <1>4
    <2> QED
      BY <1>1, <1>4, <2>1 DEF KmemInv, LeavesApart, Leaf, Covers
  <1>6. LeavesMap'
    <2>1. ASSUME NEW p \in 0..(t - 1)
          PROVE  Mappable(p) <=> \E l \in leaves : Covers(l, p)
      <3>1. CASE p < addr
        <4>1. p \in 0..(addr - 1)
          BY <1>3, <3>1
        <4> QED
          BY <4>1 DEF KmemInv, LeavesMap
      <3>2. CASE ~(p < addr)
        <4>1. p \in addr..(t - 1)
          BY <1>3, <3>2
        <4>2. \A l \in leaves : ~Covers(l, p)
          BY <1>3, <1>4, <4>1 DEF Covers
        <4> QED
          BY <1>2, <4>1, <4>2
      <3> QED
        BY <3>1, <3>2
    <2>2. \A p : Mappable(p)' <=> Mappable(p)
      BY <1>1 DEF Mappable, last_usable
    <2> QED
      BY <1>1, <2>1, <2>2 DEF KmemInv, LeavesMap, Covers
  <1>7. TablesNeeded'
    BY <1>1 DEF KmemInv, TablesNeeded
  <1> QED
    BY <1>1, <1>3, <1>5, <1>6, <1>7 DEF KmemInv

\* The page that is entered lies within its region, at a multiple of its size.
LEMMA PageFits ==
    ASSUME addr \in Pages
    PROVE  /\ PageSize \in {1, LargePages, HugePages}
           /\ PageSize \in Nat \ {0}
           /\ addr % PageSize = 0
           /\ addr + PageSize <= RegionTerm(addr)
  <1>1. RegionTerm(addr) \in (addr + 1)..PageCount /\ addr \in Nat /\ PageCount \in Nat
    BY RegionTermFacts, Sizes
  <1>2. addr % 1 = 0 /\ addr + 1 <= RegionTerm(addr)
    BY <1>1
  <1>3. \A n \in Nat : Fits(n) => addr % n = 0 /\ addr + n <= RegionTerm(addr)
    BY <1>1 DEF Fits
  <1>4. CASE Fits(HugePages)
    BY <1>3, <1>4, Sizes DEF PageSize
  <1>5. CASE ~Fits(HugePages) /\ Fits(LargePages)
    BY <1>3, <1>5, Sizes DEF PageSize
  <1>6. CASE ~Fits(HugePages) /\ ~Fits(LargePages)
    BY <1>2, <1>6 DEF PageSize
  <1> QED
    BY <1>4, <1>5, <1>6

LEMMA MapPageInv == KmemInv /\ MapPage => KmemInv'
  <1> SUFFICES ASSUME KmemInv, MapPage PROVE KmemInv'
    OBVIOUS
  <1> DEFINE n   == PageSize
             new == [addr |-> addr, pages |-> n, uncached |-> Uncached]
  <1>1. /\ addr \in Pages /\ ~Skipped /\ HasTables
        /\ ktables' = ktables \union Way(n) /\ leaves' = leaves \union {new}
        /\ addr' = addr + n /\ mem' = mem
    BY Sizes DEF MapPage, Mapping, KmemInv
  <1>2. /\ n \in {1, LargePages, HugePages} /\ n \in Nat \ {0}
        /\ addr % n = 0 /\ addr + n <= RegionTerm(addr)
    BY <1>1, PageFits
  <1>3. /\ RegionTerm(addr) \in (addr + 1)..PageCount
        /\ \A q \in addr..(RegionTerm(addr) - 1) :
               q \in Pages /\ mem[q] = mem[addr] /\ Mappable(q)
    BY <1>1, RegionTermFacts, SkippedPages
  <1>4. /\ new.addr = addr /\ new.pages = n /\ new.uncached = Uncached /\ new \in Leaf
    <2>1. Uncached \in BOOLEAN
      BY DEF Uncached
    <2> QED
      BY <1>1, <1>2, <2>1 DEF Leaf
  <1>5. HasTables <=> Cardinality(ktables \union Way(n)) <= KernelTablePages
    BY DEF HasTables
  <1> HIDE DEF new, n
  <1>6. addr \in Nat /\ n \in Nat /\ n > 0 /\ addr + n <= PageCount /\ PageCount \in Nat
    BY <1>1, <1>2, <1>3, Sizes
  <1>7. \A l \in leaves : /\ l \in Leaf /\ l.addr % l.pages = 0
                          /\ l.addr \in Nat /\ l.pages \in Nat
                          /\ l.addr + l.pages <= addr
    BY Sizes DEF KmemInv, LeavesApart, Leaf
  <1>8. \A p \in addr..(addr + n - 1) :
            /\ p \in Pages /\ mem[p] = mem[addr] /\ Mappable(p)
            /\ \A l \in leaves : ~Covers(l, p)
    <2> SUFFICES ASSUME NEW p \in addr..(addr + n - 1)
                 PROVE  /\ p \in Pages /\ mem[p] = mem[addr] /\ Mappable(p)
                        /\ \A l \in leaves : ~Covers(l, p)
      OBVIOUS
    <2>1. p \in addr..(RegionTerm(addr) - 1)
      BY <1>2, <1>3, <1>6
    <2>2. \A l \in leaves : ~Covers(l, p)
      BY <1>6, <1>7 DEF Covers
    <2> QED
      BY <1>3, <2>1, <2>2
  <1>9. \A p \in Nat : Covers(new, p) <=> p \in addr..(addr + n - 1)
    BY <1>4, <1>6 DEF Covers
  <1>10. LeavesApart'
    <2>1. ASSUME NEW l \in leaves \union {new}
          PROVE  l \in Leaf /\ l.addr % l.pages = 0 /\ l.addr + l.pages <= addr + n
      BY <1>2, <1>4, <1>6, <1>7
    <2>2. ASSUME NEW l \in leaves \union {new}, NEW m \in leaves \union {new},
                 NEW p \in Pages, Covers(l, p), Covers(m, p)
          PROVE  l = m
      <3>1. p \in Nat
        BY Sizes
      <3>2. CASE l \in leaves /\ m \in leaves
        BY <2>2, <3>2 DEF KmemInv, LeavesApart
      <3>3. CASE l = new \/ m = new
        BY <1>8, <1>9, <2>2, <3>1, <3>3
      <3> QED
        BY <3>2, <3>3
    <2> QED
      BY <1>1, <2>1, <2>2 DEF LeavesApart, Leaf, Pages, Covers
  <1>11. LeavesMap'
    <2>1. ASSUME NEW p \in 0..(addr + n - 1)
          PROVE  Mappable(p) <=> \E l \in leaves \union {new} : Covers(l, p)
      <3>1. CASE p < addr
        <4>1. p \in 0..(addr - 1) /\ ~Covers(new, p)
          BY <1>6, <1>9, <3>1
        <4> QED
          BY <4>1 DEF KmemInv, LeavesMap
      <3>2. CASE ~(p < addr)
        <4>1. p \in addr..(addr + n - 1) /\ p \in Nat
          BY <1>6, <3>2
        <4> QED
          BY <1>8, <1>9, <4>1
      <3> QED
        BY <3>1, <3>2
    <2>2. ASSUME NEW l \in leaves \union {new}, NEW p \in Pages, Covers(l, p)
          PROVE  l.uncached = (mem[p] \in {PMEMTYPE_ACPI_NVS, PMEMTYPE_UNCACHED})
      <3>1. CASE l \in leaves
        BY <2>2, <3>1 DEF KmemInv, LeavesMap
      <3>2. CASE l = new
        <4>1. mem[p] = mem[addr]
          BY <1>8, <1>9, <2>2, <3>2, Sizes
        <4> QED
          BY <1>4, <3>2, <4>1 DEF Uncached
      <3> QED
        BY <3>1, <3>2
    <2>3. \A p : Mappable(p)' <=> Mappable(p)
      BY <1>1 DEF Mappable, last_usable
    <2> HIDE DEF Mappable, Covers
    <2>4. ASSUME NEW p \in 0..(addr' - 1)
          PROVE  Mappable(p)' <=> \E l \in leaves' : Covers(l, p)
      <3>1. p \in 0..(addr + n - 1) /\ leaves' = leaves \union {new}
        BY <1>1, <1>6
      <3>2. Mappable(p) <=> \E l \in leaves \union {new} : Covers(l, p)
        BY <2>1, <3>1
      <3> QED
        BY <2>3, <3>1, <3>2
    <2> QED
      BY <1>1, <2>2, <2>4
      DEF LeavesMap, Covers, Pages, PMEMTYPE_ACPI_NVS, PMEMTYPE_UNCACHED
  <1>12. TablesNeeded'
    <2>1. ASSUME NEW t \in ktables \union Way(n)
          PROVE  \/ \E p \in Pages : t = Pdpt(p)
                 \/ \E l \in leaves \union {new} : l.pages < HugePages /\ t = Pdt(l.addr)
                 \/ \E l \in leaves \union {new} : l.pages < LargePages /\ t = Pt(l.addr)
      <3>1. CASE t \in ktables
        BY <3>1 DEF KmemInv, TablesNeeded
      <3>2. CASE t \in Way(n)
        BY <1>1, <1>4, <3>2 DEF Way
      <3> QED
        BY <3>1, <3>2
    <2>2. IsFiniteSet(ktables \union Way(n))
      <3>1. IsFiniteSet({Pdpt(addr)}) /\ IsFiniteSet({Pdt(addr)}) /\ IsFiniteSet({Pt(addr)})
            /\ IsFiniteSet({})
        BY FS_Singleton, FS_EmptySet
      <3>2. IsFiniteSet(Way(n))
        BY <3>1, FS_Union DEF Way
      <3> QED
        BY <3>2, FS_Union DEF KmemInv, TablesNeeded
    <2> QED
      BY <1>1, <1>5, <2>1, <2>2 DEF TablesNeeded, Pages, Pdpt, Pdt, Pt
  <1> QED
    BY <1>1, <1>6, <1>10, <1>11, <1>12 DEF KmemInv

\* Addresses in one block are apart by less than its size.
LEMMA BlockFacts ==
    ASSUME NEW n \in Nat \ {0}, NEW a \in Nat, NEW m \in Nat,
           a % n = 0, m \div n = a \div n
    PROVE  a <= m /\ m < a + n
  <1>1. a = (a \div n) * n
    OBVIOUS
  <1>2. (m \div n) * n <= m /\ m < (m \div n) * n + n
    OBVIOUS
  <1> QED
    BY <1>1, <1>2

\* Once every region has been gone through, the table is what IdentityMapped
\* asks for.
LEMMA TableComplete ==
    ASSUME KmemInv, addr = PageCount
    PROVE  /\ \A p \in Pages :
                  Cardinality(LeavesOf(p)) = IF Mappable(p) THEN 1 ELSE 0
           /\ \A p \in Pages : \A l \in LeavesOf(p) :
                  l.uncached = (mem[p] \in {PMEMTYPE_ACPI_NVS, PMEMTYPE_UNCACHED})
           /\ \A l \in leaves :
                  /\ l.pages = LargePages => Pt(l.addr) \notin ktables
                  /\ l.pages = HugePages => Pdt(l.addr) \notin ktables
  <1>1. \A p : LeavesOf(p) = {l \in leaves : Covers(l, p)}
    BY DEF LeavesOf, Covers
  <1>2. ASSUME NEW p \in Pages
        PROVE  Cardinality(LeavesOf(p)) = IF Mappable(p) THEN 1 ELSE 0
    <2>1. Mappable(p) <=> \E l \in leaves : Covers(l, p)
      <3>1. p \in 0..(addr - 1)
        BY Sizes
      <3> QED
        BY <3>1 DEF KmemInv, LeavesMap
    <2>2. CASE Mappable(p)
      <3> PICK l \in leaves : Covers(l, p)
        BY <2>1, <2>2
      <3>1. LeavesOf(p) = {l}
        BY <1>1 DEF KmemInv, LeavesApart
      <3> QED
        BY <2>2, <3>1, FS_Singleton
    <2>3. CASE ~Mappable(p)
      <3>1. LeavesOf(p) = {}
        BY <1>1, <2>1, <2>3
      <3> QED
        BY <2>3, <3>1, FS_EmptySet
    <2> QED
      BY <2>2, <2>3
  <1>3. \A p \in Pages : \A l \in LeavesOf(p) :
            l.uncached = (mem[p] \in {PMEMTYPE_ACPI_NVS, PMEMTYPE_UNCACHED})
    BY <1>1 DEF KmemInv, LeavesMap
  <1>4. \A l, m \in leaves : \A n \in {LargePages, HugePages} :
            l.pages = n /\ m.addr \div n = l.addr \div n => l = m
    <2> SUFFICES ASSUME NEW l \in leaves, NEW m \in leaves, NEW n \in {LargePages, HugePages},
                        l.pages = n, m.addr \div n = l.addr \div n
                 PROVE  l = m
      OBVIOUS
    <2>1. /\ l.addr \in Pages /\ l.addr % n = 0 /\ m.addr \in Pages
          /\ m.pages \in {1, LargePages, HugePages}
      BY DEF KmemInv, LeavesApart, Leaf
    <2>2. /\ n \in Nat \ {0} /\ l.addr \in Nat /\ m.addr \in Nat /\ m.pages \in Nat \ {0}
      BY <2>1, Sizes
    <2>3. l.addr <= m.addr /\ m.addr < l.addr + n
      BY <2>1, <2>2, BlockFacts
    <2>4. Covers(l, m.addr) /\ Covers(m, m.addr)
      BY <2>2, <2>3 DEF Covers
    <2> QED
      BY <2>1, <2>4 DEF KmemInv, LeavesApart
  <1>5. ASSUME NEW l \in leaves, l.pages = LargePages PROVE Pt(l.addr) \notin ktables
    <2> SUFFICES ASSUME Pt(l.addr) \in ktables PROVE FALSE
      OBVIOUS
    <2>1. PICK m \in leaves : m.pages < LargePages /\ Pt(l.addr) = Pt(m.addr)
      BY DEF KmemInv, TablesNeeded, Pdpt, Pdt, Pt
    <2>2. m.addr \div LargePages = l.addr \div LargePages
      BY <2>1 DEF Pt
    <2>3. l = m
      BY <1>4, <1>5, <2>2
    <2> QED
      BY <1>5, <2>1, <2>3, Sizes
  <1>6. ASSUME NEW l \in leaves, l.pages = HugePages PROVE Pdt(l.addr) \notin ktables
    <2> SUFFICES ASSUME Pdt(l.addr) \in ktables PROVE FALSE
      OBVIOUS
    <2>1. PICK m \in leaves : m.pages < HugePages /\ Pdt(l.addr) = Pdt(m.addr)
      BY DEF KmemInv, TablesNeeded, Pdpt, Pdt, Pt
    <2>2. m.addr \div HugePages = l.addr \div HugePages
      BY <2>1 DEF Pdt
    <2>3. l = m
      BY <1>4, <1>6, <2>2
    <2> QED
      BY <1>6, <2>1, <2>3, Sizes
  <1> QED
    BY <1>2, <1>3, <1>5, <1>6

-----------------------------------------------------------------------------
(* The phases of the start-up. *)

\* The phases in which the firmware's layout is not read yet, in which it has
\* been, in which the kernel has listed its own memory, and in which the pool
\* of frames exists.
Loading  == {"volume", "find_loader", "read_loader", "a20", "cpu", "find_kernel",
             "kernel_found", "load_kernel", "layout"}
Tables   == {"acpi_root", "acpi_tables", "pmap_init"}
Building == {"page_init", "kmem", "activate"}
Running  == {"frames", "ready"}
Reported == {"page_tables", "acpi"} \union Tables \union Building \union Running
Phases   == Loading \union {"zones", "stopped"} \union Reported

-----------------------------------------------------------------------------
(* The memory map. *)

MapTyped ==
    /\ phase \in Phases
    /\ mem \in [Pages -> 0..7]
    /\ report \in Seq([pages : SUBSET Pages, type : 1..5])
    /\ zone \in 0..Len(report)
    /\ phase \in Loading => zone = 0 /\ mem = [p \in Pages |-> PMEMTYPE_NONE]

\* A page is listed as what the zones read so far say, or as something
\* stronger; only they say that it is usable.
ZonesListed ==
    /\ \A i \in 1..zone : \A p \in report[i].pages : mem[p] >= report[i].type
    /\ \A p \in Pages : mem[p] = PMEMTYPE_USABLE => \E i \in 1..zone : p \in report[i].pages
    /\ phase \in Reported => zone \in {Len(report), MaxZones}

\* What is not free memory is listed as something else than usable.
TakenListed ==
    /\ phase \in Building \union Running =>
           \A p \in 0..(ImageEnd - 1) : mem[p] >= PMEMTYPE_RESERVED
    /\ \A p \in db : p \in Pages /\ mem[p] >= PMEMTYPE_RESERVED
    /\ \A p \in acpi : p \in Pages /\ mem[p] >= PMEMTYPE_ACPI
    /\ phase \in Tables \union Building \union Running => fw \in Firmwares
    /\ phase \in {"pmap_init"} \union Building \union Running =>
           \A p \in fw.apics : p \in Pages /\ mem[p] >= PMEMTYPE_UNCACHED

MapInv == MapTyped /\ ZonesListed /\ TakenListed

\* The root's tables are read from the first one on.
TabInv == tab \in Nat /\ (phase = "acpi_tables" => tab # 0)

\* Pages only ever become more than they were.
Raised(m, n) ==
    /\ n \in [Pages -> 0..7]
    /\ \A p \in Pages : /\ n[p] >= m[p]
                        /\ n[p] = PMEMTYPE_USABLE => m[p] = PMEMTYPE_USABLE
                        /\ n[p] = PMEMTYPE_BAD => m[p] = PMEMTYPE_BAD

LEMMA MaxOfTwo ==
    ASSUME NEW a \in Nat, NEW b \in Nat
    PROVE  Max({a, b}) = IF a >= b THEN a ELSE b
  <1> DEFINE c == IF a >= b THEN a ELSE b
  <1>1. c \in {a, b} /\ \A y \in {a, b} : c >= y
    OBVIOUS
  <1>2. \A x \in {a, b} : (\A y \in {a, b} : x >= y) => x = c
    OBVIOUS
  <1> HIDE DEF c
  <1>3. Max({a, b}) = c
    BY <1>1, <1>2 DEF Max
  <1> QED
    BY <1>3 DEF c

LEMMA OverlayPages ==
    ASSUME NEW m \in [Pages -> 0..7], NEW S, NEW t \in 0..7
    PROVE  /\ Overlay(m, S, t) \in [Pages -> 0..7]
           /\ \A p \in Pages : Overlay(m, S, t)[p] = IF p \in S /\ m[p] < t THEN t ELSE m[p]
  <1> SUFFICES ASSUME NEW p \in Pages
               PROVE  (IF p \in S THEN Max({m[p], t}) ELSE m[p])
                          = IF p \in S /\ m[p] < t THEN t ELSE m[p]
    BY DEF Overlay
  <1>1. m[p] \in Nat /\ t \in Nat
    OBVIOUS
  <1>2. Max({m[p], t}) = IF m[p] >= t THEN m[p] ELSE t
    BY <1>1, MaxOfTwo
  <1> QED
    BY <1>1, <1>2

LEMMA OverlayRaises ==
    ASSUME NEW m \in [Pages -> 0..7], NEW S, NEW t \in {2, 3, 6, 7}
    PROVE  /\ Raised(m, Overlay(m, S, t))
           /\ \A p \in Pages : p \in S => Overlay(m, S, t)[p] >= t
  <1>1. /\ Overlay(m, S, t) \in [Pages -> 0..7]
        /\ \A p \in Pages : Overlay(m, S, t)[p] = IF p \in S /\ m[p] < t THEN t ELSE m[p]
    BY OverlayPages
  <1> QED
    BY <1>1 DEF Raised, PMEMTYPE_USABLE, PMEMTYPE_BAD

LEMMA FilledRaises ==
    ASSUME NEW m \in [Pages -> 0..7]
    PROVE  Raised(m, Filled(m)) /\ \A p \in Pages : m[p] # 0 => Filled(m)[p] = m[p]
  BY DEF Filled, Raised, PMEMTYPE_USABLE, PMEMTYPE_BAD, PMEMTYPE_NONE, PMEMTYPE_RESERVED

LEMMA RaisedTwice ==
    ASSUME NEW k \in [Pages -> 0..7], NEW m, NEW n, Raised(k, m), Raised(m, n)
    PROVE  Raised(k, n)
  <1> SUFFICES ASSUME NEW p \in Pages PROVE n[p] >= k[p]
    BY DEF Raised
  <1>1. k[p] \in Nat /\ m[p] \in Nat /\ n[p] \in Nat /\ m[p] >= k[p] /\ n[p] >= m[p]
    BY DEF Raised
  <1> QED
    BY <1>1

LEMMA RaisedSame == ASSUME NEW m \in [Pages -> 0..7] PROVE Raised(m, m)
  <1>1. \A p \in Pages : m[p] \in Nat
    OBVIOUS
  <1> QED
    BY <1>1 DEF Raised

LEMMA ZoneFacts ==
    ASSUME MapTyped
    PROVE  \A i \in 1..zone : /\ i \in 1..Len(report)
                              /\ report[i].pages \subseteq Pages /\ report[i].type \in 1..5
  <1> SUFFICES ASSUME NEW i \in 1..zone
               PROVE  /\ i \in 1..Len(report)
                      /\ report[i].pages \subseteq Pages /\ report[i].type \in 1..5
    OBVIOUS
  <1>1. report \in Seq([pages : SUBSET Pages, type : 1..5]) /\ Len(report) \in Nat
        /\ zone \in 0..Len(report)
    BY DEF MapTyped
  <1>2. i \in 1..Len(report)
    BY <1>1
  <1>3. report[i] \in [pages : SUBSET Pages, type : 1..5]
    BY <1>1, <1>2, ElementOfSeq
  <1> QED
    BY <1>2, <1>3

\* What a step has to respect while pages are only raised.
LEMMA MapKept ==
    ASSUME MapInv, Raised(mem, mem'), report' = report, zone' = zone, phase' \in Phases,
           phase' \in Loading => mem' = mem /\ phase \in Loading,
           phase' \in Reported => zone \in {Len(report), MaxZones},
           db' = db \/ \A p \in db' : p \in Pages /\ mem'[p] >= PMEMTYPE_RESERVED,
           acpi' = acpi \/ \A p \in acpi' : p \in Pages /\ mem'[p] >= PMEMTYPE_ACPI,
           phase' \in Tables \union Building \union Running => fw' \in Firmwares,
           phase' \in Building \union Running =>
               \/ phase \in Building \union Running
               \/ \A p \in 0..(ImageEnd - 1) : mem'[p] >= PMEMTYPE_RESERVED,
           phase' \in {"pmap_init"} \union Building \union Running =>
               \/ fw' = fw /\ phase \in {"pmap_init"} \union Building \union Running
               \/ \A p \in fw'.apics : p \in Pages /\ mem'[p] >= PMEMTYPE_UNCACHED
    PROVE  MapInv'
  <1>1. /\ mem \in [Pages -> 0..7] /\ mem' \in [Pages -> 0..7]
        /\ \A p \in Pages : mem[p] \in Nat /\ mem'[p] \in Nat /\ mem'[p] >= mem[p]
        /\ \A p \in Pages : mem'[p] = PMEMTYPE_USABLE => mem[p] = PMEMTYPE_USABLE
    BY DEF MapInv, MapTyped, Raised
  <1>2. MapTyped'
    BY <1>1 DEF MapInv, MapTyped, Pages
  <1>3. ZonesListed'
    <2>1. \A i \in 1..zone : report[i].pages \subseteq Pages /\ report[i].type \in Nat
      BY ZoneFacts DEF MapInv
    <2>2. \A i \in 1..zone : \A p \in report[i].pages : mem[p] >= report[i].type
      BY DEF MapInv, ZonesListed
    <2>3. \A i \in 1..zone : \A p \in report[i].pages : mem'[p] >= report[i].type
      <3> SUFFICES ASSUME NEW i \in 1..zone, NEW p \in report[i].pages
                   PROVE  mem'[p] >= report[i].type
        OBVIOUS
      <3>1. /\ mem[p] \in Nat /\ mem'[p] \in Nat /\ report[i].type \in Nat
            /\ mem'[p] >= mem[p] /\ mem[p] >= report[i].type
        BY <1>1, <2>1, <2>2
      <3> QED
        BY <3>1
    <2> QED
      BY <1>1, <2>3 DEF MapInv, ZonesListed, Pages, PMEMTYPE_USABLE
  <1>4. \A t \in Nat : \A p \in Pages : mem[p] >= t => mem'[p] >= t
    BY <1>1
  <1>5. \A p \in 0..(ImageEnd - 1) : p \in Pages
    BY MemoryAssumption DEF Pages
  <1>6. TakenListed'
    <2> USE DEF PMEMTYPE_RESERVED, PMEMTYPE_ACPI, PMEMTYPE_UNCACHED
    <2>1. (phase \in Building \union Running =>
              \A p \in 0..(ImageEnd - 1) : mem[p] >= PMEMTYPE_RESERVED)'
      BY <1>4, <1>5 DEF MapInv, TakenListed, Building, Running
    <2>2. (\A p \in db : p \in Pages /\ mem[p] >= PMEMTYPE_RESERVED)'
      BY <1>4 DEF MapInv, TakenListed, Pages
    <2>3. (\A p \in acpi : p \in Pages /\ mem[p] >= PMEMTYPE_ACPI)'
      BY <1>4 DEF MapInv, TakenListed, Pages
    <2>4. (phase \in {"pmap_init"} \union Building \union Running =>
              \A p \in fw.apics : p \in Pages /\ mem[p] >= PMEMTYPE_UNCACHED)'
      BY <1>4 DEF MapInv, TakenListed, Pages, Building, Running
    <2> QED
      BY <2>1, <2>2, <2>3, <2>4 DEF TakenListed, Tables, Building, Running
  <1> QED
    BY <1>2, <1>3, <1>6 DEF MapInv

LEMMA PmapRaises ==
    ASSUME MapTyped, pmap_init
    PROVE  /\ Raised(mem, mem')
           /\ \A p \in 0..(ImageEnd - 1) : mem'[p] >= PMEMTYPE_RESERVED
           /\ \A p \in Pages : mem'[p] = PMEMTYPE_UNMAPPED => p = 0 \/ mem[p] = PMEMTYPE_UNMAPPED
  <1> DEFINE video == Overlay(mem, VideoPages, PMEMTYPE_UNCACHED)
             image == Overlay(video, 0..(ImageEnd - 1), PMEMTYPE_RESERVED)
             all   == Overlay(image, {0}, PMEMTYPE_UNMAPPED)
  <1>1. mem' = Filled(all) /\ mem \in [Pages -> 0..7]
    BY DEF pmap_init, MapTyped
  <1>2. 6 \in 0..7 /\ 2 \in 0..7 /\ 7 \in 0..7
    OBVIOUS
  <1>3. /\ video \in [Pages -> 0..7] /\ Raised(mem, video)
        /\ \A p \in Pages : video[p] = IF p \in VideoPages /\ mem[p] < 6 THEN 6 ELSE mem[p]
    BY <1>1, <1>2, OverlayRaises, OverlayPages DEF PMEMTYPE_UNCACHED
  <1> HIDE DEF video
  <1>4. /\ image \in [Pages -> 0..7] /\ Raised(video, image)
        /\ \A p \in Pages : image[p] = IF p \in 0..(ImageEnd - 1) /\ video[p] < 2 THEN 2
                                       ELSE video[p]
    BY <1>2, <1>3, OverlayRaises, OverlayPages, ZenonT(60) DEF PMEMTYPE_RESERVED
  <1> HIDE DEF image
  <1>5. /\ all \in [Pages -> 0..7] /\ Raised(image, all)
        /\ \A p \in Pages : all[p] = IF p \in {0} /\ image[p] < 7 THEN 7 ELSE image[p]
    BY <1>2, <1>4, OverlayRaises, OverlayPages DEF PMEMTYPE_UNMAPPED
  <1> HIDE DEF all
  <1>6. /\ Raised(all, mem') /\ \A p \in Pages : all[p] # 0 => mem'[p] = all[p]
        /\ \A p \in Pages : all[p] = 0 => mem'[p] \in {0, 2}
    BY <1>1, <1>5, FilledRaises DEF Filled, PMEMTYPE_NONE, PMEMTYPE_RESERVED
  <1>7. Raised(mem, mem')
    BY <1>1, <1>3, <1>4, <1>5, <1>6, RaisedTwice
  <1>8. \A p \in Pages : /\ video[p] \in Nat /\ image[p] \in Nat /\ all[p] \in Nat
                         /\ mem'[p] \in Nat /\ mem[p] \in Nat /\ mem'[p] >= all[p]
    BY <1>1, <1>3, <1>4, <1>5, <1>6 DEF Raised
  <1>9. ASSUME NEW p \in 0..(ImageEnd - 1) PROVE mem'[p] >= PMEMTYPE_RESERVED
    <2>1. p \in Pages
      BY MemoryAssumption DEF Pages
    <2>2. image[p] >= 2
      BY <1>4, <1>8, <2>1
    <2>3. all[p] >= 2
      BY <1>5, <1>8, <2>1, <2>2
    <2> QED
      BY <1>8, <2>1, <2>3 DEF PMEMTYPE_RESERVED
  <1>10. ASSUME NEW p \in Pages, mem'[p] = 7, p # 0 PROVE mem[p] = 7
    <2>1. all[p] = 7
      BY <1>6, <1>10
    <2> QED
      BY <1>3, <1>4, <1>5, <1>10, <2>1
  <1> QED
    BY <1>7, <1>9, <1>10 DEF PMEMTYPE_UNMAPPED

\* A zone that is read is listed, and counted.
LEMMA ReadZoneMap == MapInv /\ ReadZone /\ UNCHANGED <<db, acpi, fw>> => MapInv'
  <1> SUFFICES ASSUME MapInv, ReadZone, UNCHANGED <<db, acpi, fw>> PROVE MapInv'
    OBVIOUS
  <1> DEFINE z == report[zone + 1]
  <1>1. /\ phase = "zones" /\ zone < Len(report) /\ zone' = zone + 1 /\ report' = report
        /\ mem' = Overlay(mem, z.pages, z.type)
        /\ phase' \in {"zones", "page_tables"}
        /\ phase' = "page_tables" => zone' \in {Len(report), MaxZones}
    BY DEF ReadZone, list
  <1>2. /\ mem \in [Pages -> 0..7] /\ zone \in Nat /\ Len(report) \in Nat
        /\ report \in Seq([pages : SUBSET Pages, type : 1..5])
    BY DEF MapInv, MapTyped
  <1>3. zone + 1 \in 1..Len(report) /\ zone' \in 0..Len(report)
    BY <1>1, <1>2
  <1>4. z \in [pages : SUBSET Pages, type : 1..5]
    BY <1>2, <1>3, ElementOfSeq
  <1>5. z.pages \subseteq Pages /\ z.type \in 1..5 /\ z.type \in 0..7
    BY <1>4
  <1> HIDE DEF z
  <1>6. /\ mem' \in [Pages -> 0..7]
        /\ \A p \in Pages : mem'[p] = IF p \in z.pages /\ mem[p] < z.type THEN z.type ELSE mem[p]
    BY <1>1, <1>2, <1>5, OverlayPages
  <1>7. \A p \in Pages : /\ mem[p] \in Nat /\ mem'[p] \in Nat /\ mem'[p] >= mem[p]
                         /\ p \in z.pages => mem'[p] >= z.type
                         /\ mem'[p] = 1 => mem[p] = 1 \/ p \in z.pages
    BY <1>2, <1>5, <1>6
  <1>8. MapTyped'
    BY <1>1, <1>2, <1>3, <1>6 DEF MapTyped, Phases, Loading, Reported, Pages
  <1>9. \A i \in 1..zone' : i \in 1..zone \/ i = zone + 1
    BY <1>1, <1>2
  <1>10. ZonesListed'
    <2>1. ASSUME NEW i \in 1..zone', NEW p \in report[i].pages
          PROVE  mem'[p] >= report[i].type
      <3>1. CASE i \in 1..zone
        <4>1. p \in Pages /\ report[i].type \in Nat /\ mem[p] >= report[i].type
          BY <3>1, ZoneFacts DEF MapInv, ZonesListed
        <4> QED
          BY <1>7, <4>1
      <3>2. CASE i = zone + 1
        BY <1>5, <1>7, <3>2 DEF z
      <3> QED
        BY <1>9, <3>1, <3>2
    <2>2. ASSUME NEW p \in Pages, mem'[p] = PMEMTYPE_USABLE
          PROVE  \E i \in 1..zone' : p \in report[i].pages
      <3>1. CASE mem[p] = PMEMTYPE_USABLE
        <4> PICK i \in 1..zone : p \in report[i].pages
          BY <3>1 DEF MapInv, ZonesListed
        <4>1. i \in 1..zone'
          BY <1>1, <1>2
        <4> QED
          BY <4>1
      <3>2. CASE mem[p] # PMEMTYPE_USABLE
        <4>1. p \in z.pages /\ zone + 1 \in 1..zone'
          BY <1>1, <1>2, <1>7, <2>2, <3>2 DEF PMEMTYPE_USABLE
        <4> QED
          BY <4>1 DEF z
      <3> QED
        BY <3>1, <3>2
    <2>3. phase' \in Reported => zone' \in {Len(report), MaxZones}
      BY <1>1 DEF Reported, Tables, Building, Running
    <2> QED
      BY <1>1, <2>1, <2>2, <2>3 DEF ZonesListed, Pages, PMEMTYPE_USABLE
  <1>11. TakenListed'
    <2> USE DEF PMEMTYPE_RESERVED, PMEMTYPE_ACPI
    <2>1. \A t \in Nat : \A p \in Pages : mem[p] >= t => mem'[p] >= t
      BY <1>7
    <2>2. (\A p \in db : p \in Pages /\ mem[p] >= PMEMTYPE_RESERVED)'
      BY <2>1 DEF MapInv, TakenListed, Pages
    <2>3. (\A p \in acpi : p \in Pages /\ mem[p] >= PMEMTYPE_ACPI)'
      BY <2>1 DEF MapInv, TakenListed, Pages
    <2> QED
      BY <1>1, <2>2, <2>3 DEF TakenListed, Tables, Building, Running
  <1> QED
    BY <1>8, <1>10, <1>11 DEF MapInv

\* Nothing else that the loaders do lists a page.
LEMMA LoadMap == MapInv /\ Load => MapInv'
  <1> SUFFICES ASSUME MapInv, Load PROVE MapInv'
    OBVIOUS
  <1>1. UNCHANGED <<db, acpi, fw>>
    BY DEF Load, acpiVars
  <1>2. mem \in [Pages -> 0..7] /\ Raised(mem, mem)
    BY RaisedSame DEF MapInv, MapTyped
  <1>3. ASSUME NEW q \in Phases, phase' = q, mem' = mem, report' = report, zone' = zone,
               q \in Loading => phase \in Loading,
               q \in Reported => q = "page_tables" /\ zone = Len(report)
        PROVE  MapInv'
    <2>1. phase' \notin Tables \union Building \union Running
      BY <1>3 DEF Reported, Tables, Building, Running
    <2>2. phase' \in Reported => zone \in {Len(report), MaxZones}
      BY <1>3
    <2>3. Raised(mem, mem')
      BY <1>2, <1>3
    <2> QED
      BY <1>1, <1>3, <2>1, <2>2, <2>3, MapKept DEF Tables
  <1> USE DEF Phases, Loading, Reported, Tables, Building, Running, MapInv, MapTyped
  <1>4. CASE ReadError
    BY <1>3, <1>4 DEF ReadError, Stop, loaderVars, zoneVars
  <1>5. CASE ReadVolume
    BY <1>3, <1>5 DEF ReadVolume, Stop, zoneVars
  <1>6. CASE FindLoader
    BY <1>3, <1>6 DEF FindLoader, ProcessDirEntry, Stop, zoneVars
  <1>7. CASE ReadLoader
    BY <1>3, <1>7 DEF ReadLoader, loaderVars, zoneVars
  <1>8. CASE EnableA20
    BY <1>3, <1>8 DEF EnableA20, Stop, zoneVars
  <1>9. CASE CheckCpu
    BY <1>3, <1>9 DEF CheckCpu, Stop, zoneVars
  <1>10. CASE FindKernel
    BY <1>3, <1>10 DEF FindKernel, ProcessDirEntry, Stop, zoneVars
  <1>11. CASE StartLoading
    BY <1>3, <1>11 DEF StartLoading, zoneVars
  <1>12. CASE LoadChunk
    BY <1>3, <1>12 DEF LoadChunk, zoneVars
  <1>13. CASE ReadZone
    BY <1>1, <1>13, ReadZoneMap
  <1>14. CASE NoMoreZones
    BY <1>3, <1>14 DEF NoMoreZones, loaderVars, zoneVars
  <1>15. ASSUME NEW r \in Layouts, ProbeMemory(r) PROVE MapInv'
    <2>1. /\ phase = "layout" /\ phase' = "zones" /\ report' = r /\ zone' = zone
          /\ mem' = mem
      BY <1>15 DEF ProbeMemory
    <2>2. zone = 0 /\ \A p \in Pages : mem[p] = PMEMTYPE_NONE
      BY <2>1
    <2>3. r \in Seq([pages : SUBSET Pages, type : 1..5]) /\ Len(r) \in Nat
      <3>1. r \in Seq([pages : SUBSET Pages, type : 1..5])
        BY LoaderAssumption
      <3> QED
        BY <3>1, LenProperties
    <2>4. MapTyped'
      BY <2>1, <2>2, <2>3 DEF Pages
    <2>5. ZonesListed'
      BY <2>1, <2>2 DEF ZonesListed, Pages, PMEMTYPE_NONE, PMEMTYPE_USABLE
    <2>6. TakenListed'
      BY <1>1, <2>1 DEF TakenListed, Pages, PMEMTYPE_RESERVED, PMEMTYPE_ACPI
    <2> QED
      BY <2>4, <2>5, <2>6
  <1> QED
    BY <1>4, <1>5, <1>6, <1>7, <1>8, <1>9, <1>10, <1>11, <1>12, <1>13, <1>14, <1>15
    DEF Load, load

LEMMA TableIsPages ==
    ASSUME NEW f \in Firmwares, NEW i \in Nat \ {0}, i <= Len(f.tables)
    PROVE  i \in DOMAIN f.tables /\ f.tables[i] \subseteq Pages
  <1>1. f.tables \in Seq(SUBSET Pages)
    BY AcpiAssumption
  <1>2. Len(f.tables) \in Nat /\ DOMAIN f.tables = 1..Len(f.tables)
    BY <1>1, LenProperties
  <1>3. i \in 1..Len(f.tables)
    BY <1>2
  <1>4. f.tables[i] \in SUBSET Pages
    BY <1>1, <1>3, ElementOfSeq
  <1> QED
    BY <1>2, <1>3, <1>4

LEMMA LastUsableNat == last_usable \in Nat
  <1> DEFINE U == {p \in Pages : mem[p] = PMEMTYPE_USABLE}
  <1>1. last_usable = IF U = {} THEN 0 ELSE Max(U) + 1
    BY DEF last_usable
  <1>2. U \subseteq Nat /\ PageCount \in Nat /\ \A p \in U : p <= PageCount
    BY Sizes
  <1> HIDE DEF U
  <1>3. U # {} => Max(U) \in Nat
    BY <1>2, MaxNat
  <1> QED
    BY <1>1, <1>3

\* The database is put within a region.
LEMMA RegionIsPages == reserve_region \subseteq Pages
  <1>1. DbSize \in Int
    <2>1. DbFrames \in Nat \ {0} /\ LargePages \in Nat
      BY StartupAssumption, Sizes
    <2>2. AlignUp(last_usable, DbFrames) \in Int
      BY <2>1, LastUsableNat DEF AlignUp
    <2> HIDE DEF AlignUp, last_usable
    <2>3. AlignUp(last_usable, DbFrames) \div DbFrames \in Int
      BY <2>1, <2>2
    <2> QED
      BY <2>1, <2>3 DEF DbSize
  <1>2. ASSUME NEW a \in Pages PROVE Within(a) \subseteq Pages
    <2> DEFINE from == AlignUp(a, LargePages)
    <2>1. a \in Nat /\ LargePages \in Nat \ {0} /\ PageCount \in Nat
      BY Sizes
    <2>2. from \in Nat
      <3>1. (a + LargePages - 1) \div LargePages \in Nat
        BY <2>1
      <3> QED
        BY <2>1, <3>1 DEF AlignUp
    <2>3. RegionTerm(a) \in Nat /\ RegionTerm(a) <= PageCount
      BY <2>1, RegionTermFacts
    <2>4. Within(a) = IF from + DbSize <= RegionTerm(a) THEN from..(from + DbSize - 1) ELSE {}
      BY DEF Within, NULL
    <2> HIDE DEF from
    <2>5. \A p \in Within(a) : p \in Nat /\ p < PageCount
      BY <1>1, <2>1, <2>2, <2>3, <2>4
    <2> QED
      BY <2>5, Sizes
  <1> DEFINE fitting == {a \in UsableAddrs : Within(a) # NULL}
  <1>3. fitting \subseteq Pages /\ fitting \subseteq Nat
    BY Sizes DEF UsableAddrs
  <1>4. reserve_region = IF fitting = {} THEN {} ELSE Within(Min(fitting))
    BY DEF reserve_region, NULL
  <1> HIDE DEF fitting
  <1>5. fitting # {} => Min(fitting) \in fitting
    BY <1>3, MinNat
  <1> QED
    BY <1>2, <1>3, <1>4, <1>5

\* What ACPI's tables occupy is listed as theirs.
LEMMA AcpiMap == MapInv /\ TabInv /\ ReadAcpi => MapInv'
  <1> SUFFICES ASSUME MapInv, TabInv, ReadAcpi PROVE MapInv'
    OBVIOUS
  <1>1. UNCHANGED <<db, report, zone>>
    BY DEF ReadAcpi, loaderVars, zoneVars
  <1>2. mem \in [Pages -> 0..7] /\ Raised(mem, mem)
    BY RaisedSame DEF MapInv, MapTyped
  <1>3. phase \in Reported => zone \in {Len(report), MaxZones}
    BY DEF MapInv, ZonesListed
  <1>4. phase \in Tables => fw \in Firmwares
    BY DEF MapInv, TakenListed
  <1> USE DEF Phases, Loading, Reported, Tables, Building, Running
  <1>5. ASSUME NEW S \in SUBSET Pages, mem' = Overlay(mem, S, PMEMTYPE_ACPI),
               acpi' = acpi \union S
        PROVE  /\ Raised(mem, mem')
               /\ \A p \in acpi' : p \in Pages /\ mem'[p] >= PMEMTYPE_ACPI
    <2>1. Raised(mem, mem') /\ \A p \in Pages : p \in S => mem'[p] >= PMEMTYPE_ACPI
      BY <1>2, <1>5, OverlayRaises DEF PMEMTYPE_ACPI
    <2>2. \A p \in acpi : p \in Pages /\ mem[p] \in Nat /\ mem'[p] \in Nat
                          /\ mem'[p] >= mem[p] /\ mem[p] >= PMEMTYPE_ACPI
      BY <1>2, <2>1 DEF MapInv, TakenListed, Raised
    <2>3. \A p \in acpi : mem'[p] >= PMEMTYPE_ACPI
      BY <2>2 DEF PMEMTYPE_ACPI
    <2> QED
      BY <1>5, <2>1, <2>2, <2>3
  <1>6. ASSUME NEW f \in Firmwares, FindRsdp(f) PROVE MapInv'
    BY <1>1, <1>2, <1>3, <1>6, MapKept DEF FindRsdp
  <1>7. CASE FindNoRsdp
    BY <1>1, <1>2, <1>7, MapKept DEF FindNoRsdp, Stop
  <1>8. CASE ReadRoot
    <2>1. /\ phase = "acpi_root" /\ phase' = "acpi_tables" /\ fw' = fw
          /\ mem' = Overlay(mem, Root, PMEMTYPE_ACPI) /\ acpi' = acpi \union Root
      BY <1>8 DEF ReadRoot, map_table, list
    <2>2. Root \subseteq Pages
      BY <1>4, <2>1, AcpiAssumption DEF Root
    <2>3. Raised(mem, mem') /\ \A p \in acpi' : p \in Pages /\ mem'[p] >= PMEMTYPE_ACPI
      BY <1>5, <2>1, <2>2
    <2> QED
      BY <1>1, <1>3, <1>4, <2>1, <2>3, MapKept
  <1>9. CASE NoRoot
    BY <1>1, <1>2, <1>9, MapKept DEF NoRoot, Exhausted, Stop
  <1>10. CASE ReadTable
    <2> DEFINE S == fw.tables[tab]
    <2>1. /\ phase = "acpi_tables" /\ phase' = "acpi_tables" /\ fw' = fw
          /\ mem' = Overlay(mem, S, PMEMTYPE_ACPI) /\ acpi' = acpi \union S
      BY <1>10 DEF ReadTable, map_table, list
    <2>2. S \subseteq Pages
      BY <1>4, <1>10, <2>1, TableIsPages DEF ReadTable, TabInv
    <2> HIDE DEF S
    <2>3. Raised(mem, mem') /\ \A p \in acpi' : p \in Pages /\ mem'[p] >= PMEMTYPE_ACPI
      BY <1>5, <2>1, <2>2
    <2> QED
      BY <1>1, <1>3, <1>4, <2>1, <2>3, MapKept
  <1>11. CASE TableTooMany
    BY <1>1, <1>2, <1>11, MapKept DEF TableTooMany, Exhausted, Stop
  <1>12. CASE ReserveApics
    <2>1. /\ phase = "acpi_tables" /\ phase' = "pmap_init" /\ fw' = fw /\ acpi' = acpi
          /\ mem' = Overlay(mem, fw.apics, PMEMTYPE_UNCACHED)
      BY <1>12 DEF ReserveApics, list
    <2>2. fw.apics \subseteq Pages
      BY <1>4, <2>1, AcpiAssumption
    <2>3. Raised(mem, mem') /\ \A p \in fw.apics : mem'[p] >= PMEMTYPE_UNCACHED
      BY <1>2, <2>1, <2>2, OverlayRaises DEF PMEMTYPE_UNCACHED
    <2> QED
      BY <1>1, <1>3, <1>4, <2>1, <2>2, <2>3, MapKept
  <1> QED
    BY <1>6, <1>7, <1>8, <1>9, <1>10, <1>11, <1>12 DEF ReadAcpi, acpi_init

\* The kernel lists its own memory, and the database its own.
LEMMA BuildMap ==
    ASSUME MapInv, \/ LaunchKernel \/ pmap_init \/ ReserveDb \/ NoMemory
                   \/ BuildKernelTable \/ Activate
    PROVE  MapInv'
  <1>1. mem \in [Pages -> 0..7] /\ Raised(mem, mem) /\ MapTyped
    BY RaisedSame DEF MapInv, MapTyped
  <1>2. phase \in Reported => zone \in {Len(report), MaxZones}
    BY DEF MapInv, ZonesListed
  <1>3. phase \in Tables \union Building \union Running => fw \in Firmwares
    BY DEF MapInv, TakenListed
  <1> USE DEF Phases, Loading, Reported, Tables, Building, Running, loaderVars, zoneVars, acpiVars
  <1>4. CASE LaunchKernel
    BY <1>1, <1>2, <1>4, MapKept DEF LaunchKernel, SetupPageTables
  <1>5. CASE pmap_init
    <2>1. /\ phase = "pmap_init" /\ phase' = "page_init"
          /\ report' = report /\ zone' = zone /\ db' = db /\ acpi' = acpi /\ fw' = fw
      BY <1>5 DEF pmap_init
    <2>2. Raised(mem, mem') /\ \A p \in 0..(ImageEnd - 1) : mem'[p] >= PMEMTYPE_RESERVED
      BY <1>1, <1>5, PmapRaises
    <2> QED
      BY <1>2, <1>3, <2>1, <2>2, MapKept
  <1>6. CASE ReserveDb
    <2> DEFINE new == Overlay(mem, reserve_region, PMEMTYPE_RESERVED)
    <2>1. /\ phase = "page_init" /\ phase' = "kmem" /\ db' = reserve_region
          /\ mem' = Filled(new)
          /\ report' = report /\ zone' = zone /\ acpi' = acpi /\ fw' = fw
      BY <1>6 DEF ReserveDb, pmap_add
    <2>2. reserve_region \subseteq Pages
      BY RegionIsPages
    <2>3. /\ new \in [Pages -> 0..7] /\ Raised(mem, new)
          /\ \A p \in Pages : p \in reserve_region => new[p] >= PMEMTYPE_RESERVED
      BY <1>1, OverlayRaises DEF PMEMTYPE_RESERVED, Raised
    <2> HIDE DEF new
    <2>4. Raised(new, mem')
      BY <2>1, <2>3, FilledRaises
    <2>5. Raised(mem, mem')
      BY <1>1, <2>3, <2>4, RaisedTwice
    <2>6. \A p \in db' : p \in Pages /\ mem'[p] >= PMEMTYPE_RESERVED
      <3> SUFFICES ASSUME NEW p \in db' PROVE p \in Pages /\ mem'[p] >= PMEMTYPE_RESERVED
        OBVIOUS
      <3>1. p \in Pages /\ new[p] \in Nat /\ mem'[p] \in Nat /\ mem'[p] >= new[p]
        BY <2>1, <2>2, <2>3, <2>4 DEF Raised
      <3>2. new[p] >= PMEMTYPE_RESERVED
        BY <2>1, <2>3, <3>1
      <3> QED
        BY <3>1, <3>2 DEF PMEMTYPE_RESERVED
    <2> QED
      BY <1>2, <1>3, <2>1, <2>5, <2>6, MapKept
  <1>7. CASE NoMemory
    BY <1>1, <1>7, MapKept DEF NoMemory, Stop
  <1>8. CASE BuildKernelTable
    <2>1. /\ phase = "kmem" /\ phase' \in {"kmem", "activate", "stopped"}
          /\ mem' = mem /\ report' = report /\ zone' = zone
          /\ db' = db /\ acpi' = acpi /\ fw' = fw
      BY <1>8 DEF BuildKernelTable, kmem_init, SkipRegion, MapPage, OutOfTables, MapDone,
                  Mapping, Stop
    <2> QED
      BY <1>1, <1>2, <1>3, <2>1, MapKept
  <1>9. CASE Activate
    <2>1. /\ phase = "activate" /\ phase' \in {"frames", "stopped"}
          /\ mem' = mem /\ report' = report /\ zone' = zone
          /\ db' = db /\ acpi' = acpi /\ fw' = fw
      BY <1>9 DEF Activate
    <2> QED
      BY <1>1, <1>2, <1>3, <2>1, MapKept
  <1> QED
    BY <1>4, <1>5, <1>6, <1>7, <1>8, <1>9

LEMMA PoolMap == MapInv /\ (AddFrames \/ UsePool \/ UNCHANGED startVars) => MapInv'
  <1> SUFFICES ASSUME MapInv, AddFrames \/ UsePool \/ UNCHANGED startVars PROVE MapInv'
    OBVIOUS
  <1>1. mem \in [Pages -> 0..7] /\ Raised(mem, mem) /\ phase \in Phases
    BY RaisedSame DEF MapInv, MapTyped
  <1>2. phase \in Reported => zone \in {Len(report), MaxZones}
    BY DEF MapInv, ZonesListed
  <1>3. phase \in Tables \union Building \union Running => fw \in Firmwares
    BY DEF MapInv, TakenListed
  <1> USE DEF Phases, Loading, Reported, Tables, Building, Running, loaderVars, zoneVars, acpiVars
  <1>4. CASE AddFrames \/ UsePool
    <2>1. /\ phase \in Running /\ phase' \in Running
          /\ mem' = mem /\ report' = report /\ zone' = zone
          /\ db' = db /\ acpi' = acpi /\ fw' = fw
      BY <1>4 DEF AddFrames, UsePool
    <2> QED
      BY <1>1, <1>2, <1>3, <2>1, MapKept
  <1>5. CASE UNCHANGED startVars
    BY <1>1, <1>2, <1>3, <1>5, MapKept DEF startVars
  <1> QED
    BY <1>4, <1>5

-----------------------------------------------------------------------------
(* The pool of frames. *)

\* What the pool is made of: whole parts of usable regions, from their first
\* page on, once the database is there and its memory not listed any more.
RunsDonated ==
    \A u \in usable : /\ u \in Pages /\ mem[u] = PMEMTYPE_USABLE
                      /\ u # 0 /\ mem[u - 1] = PMEMTYPE_USABLE => u - 1 \in usable

PoolInv ==
    /\ IInv /\ RunsDonated
    /\ phase \notin Running => usable = {}
    /\ phase = "ready" <=> pc # "init"
    /\ held \subseteq usable
    /\ pc = "stopped" => head = PFN_INVALID

\* A page is as large as the unit of addresses.
LEMMA FramesArePages == UsableWhole => UsableFrames = usable
  <1> SUFFICES ASSUME UsableWhole PROVE UsableFrames = usable
    OBVIOUS
  <1>1. Count \in Nat \ {0} /\ PageUnits = 1
    BY Sizes
  <1>2. \A f \in Pfn : (f * PageUnits)..((f + 1) * PageUnits - 1) = {f}
    BY <1>1 DEF Pfn
  <1>3. usable \subseteq Pfn
    BY <1>1 DEF UsableWhole, Pfn
  <1> QED
    BY <1>2, <1>3 DEF UsableFrames

LEMMA RegionIsFree ==
    ASSUME RunsDonated, NEW a \in UsableAddrs, a \notin usable
    PROVE  NewRegion(a, RegionTerm(a))
  <1> DEFINE b == RegionTerm(a)
             S == {u \in a..(b - 1) : u \in usable}
  <1>1. a \in Pages /\ a \in Nat /\ mem[a] = PMEMTYPE_USABLE /\ PageUnits = 1 /\ Count = PageCount
    BY Sizes DEF UsableAddrs
  <1>2. /\ b \in (a + 1)..PageCount
        /\ \A q \in a..(b - 1) : q \in Pages /\ mem[q] = PMEMTYPE_USABLE
    BY <1>1, RegionTermFacts
  <1> HIDE DEF b
  <1>3. b \in Nat /\ a < b /\ b <= PageCount /\ PageCount \in Nat
    BY <1>1, <1>2, Sizes
  <1>4. S = {}
    <2> SUFFICES ASSUME S # {} PROVE FALSE
      OBVIOUS
    <2>1. S \subseteq Nat
      BY <1>1, <1>3
    <2> HIDE DEF S
    <2> PICK m \in S : \A k \in S : m <= k
      BY <2>1, LeastNat
    <2>2. m \in Nat /\ a <= m /\ m < b /\ m \in usable /\ m # a
      BY <1>1, <1>3 DEF S
    <2>3. m - 1 \in a..(b - 1) /\ m # 0 /\ m - 1 \in Nat /\ ~(m <= m - 1)
      BY <1>1, <1>3, <2>2
    <2>4. m - 1 \in usable
      BY <1>2, <2>2, <2>3 DEF RunsDonated
    <2>5. m - 1 \in S
      BY <2>3, <2>4 DEF S
    <2> QED
      BY <2>3, <2>5
  <1>5. a % PageUnits = 0 /\ b % PageUnits = 0 /\ b <= Count * PageUnits
    BY <1>1, <1>3
  <1> QED
    BY <1>1, <1>3, <1>4, <1>5 DEF NewRegion, b

\* page_init chains one usable region after the other.
LEMMA AddFramesPool ==
    ASSUME PoolInv, AddFrames
    PROVE  PoolInv' /\ (Pool!Next \/ UNCHANGED <<Listed, held>>)
  <1> DEFINE todo == {x \in UsableAddrs : x \notin usable}
             a    == Min(todo)
             b    == RegionTerm(a)
  <1>1. phase = "frames" /\ pc = "init" /\ mem' = mem
    BY DEF AddFrames, PoolInv
  <1>2. CASE todo # {}
    <2>1. a \in UsableAddrs /\ a \notin usable
      <3>1. todo \subseteq Nat
        BY Sizes DEF UsableAddrs
      <3> HIDE DEF todo
      <3>2. a \in todo
        BY <1>2, <3>1, MinNat
      <3> QED
        BY <3>2 DEF todo
    <2>2. InitRegion(a, b) /\ phase' = phase
      BY <1>2 DEF AddFrames
    <2> HIDE DEF a
    <2>3. NewRegion(a, b)
      BY <2>1, RegionIsFree DEF PoolInv
    <2>4. IInv' /\ held' = {} /\ Pool!Donate
      BY <2>2, <2>3, RegionIInv, RegionDonates DEF PoolInv
    <2>5. /\ a \in Pages /\ a \in Nat /\ mem[a] = PMEMTYPE_USABLE /\ RegionAddr(a) = a
          /\ b \in (a + 1)..PageCount /\ PageCount \in Nat
          /\ \A q \in a..(b - 1) : q \in Pages /\ mem[q] = PMEMTYPE_USABLE
      BY <2>1, RegionTermFacts, Sizes DEF UsableAddrs
    <2>6. a # 0 => mem[a - 1] # PMEMTYPE_USABLE
      BY <2>5, RegionAddrFacts
    <2>7. usable' = usable \union a..(b - 1) /\ pc' = pc
      BY <2>2 DEF InitRegion
    <2> HIDE DEF b
    <2>8. RunsDonated'
      <3> SUFFICES ASSUME NEW u \in usable'
                   PROVE  /\ u \in Pages /\ mem[u] = PMEMTYPE_USABLE
                          /\ u # 0 /\ mem[u - 1] = PMEMTYPE_USABLE => u - 1 \in usable'
        BY <1>1 DEF RunsDonated, Pages, PMEMTYPE_USABLE
      <3>1. CASE u \in usable
        BY <2>7, <3>1 DEF PoolInv, RunsDonated
      <3>2. CASE u \in a..(b - 1)
        <4>1. u = a \/ u - 1 \in a..(b - 1)
          BY <2>5, <3>2
        <4> QED
          BY <2>5, <2>6, <2>7, <3>2, <4>1
      <3> QED
        BY <2>7, <3>1, <3>2
    <2> QED
      BY <1>1, <2>2, <2>4, <2>7, <2>8 DEF PoolInv, Pool!Next, Running
  <1>3. CASE todo = {}
    <2>1. InitDone /\ phase' = "ready"
      BY <1>3 DEF AddFrames
    <2>2. IInv' /\ UNCHANGED <<Listed, held>>
      BY <2>1, InitDoneIInv, SamePool DEF PoolInv, InitDone
    <2> QED
      BY <1>1, <2>1, <2>2 DEF PoolInv, RunsDonated, InitDone, Running, Pages, PMEMTYPE_USABLE
  <1> QED
    BY <1>2, <1>3

LEMMA UsePoolPool ==
    ASSUME PoolInv, UsePool
    PROVE  PoolInv' /\ (pc' # "stopped" => Pool!Next)
  <1>1. phase = "ready" /\ phase' = "ready" /\ mem' = mem /\ IInv /\ UsableWhole
    BY DEF UsePool, PoolInv, IInv
  <1>2. UsableFrames = usable
    BY <1>1, FramesArePages
  <1>3. ASSUME IInv', usable' = usable, held' \subseteq usable, pc' # "init",
               pc' = "stopped" => head' = PFN_INVALID
        PROVE  PoolInv'
    BY <1>1, <1>3 DEF PoolInv, RunsDonated, Running, Pages, PMEMTYPE_USABLE, PFN_INVALID
  <1>4. CASE Pfalloc
    <2>1. IInv' /\ head \in UsableFrames /\ held' = held \union {head}
      BY <1>1, <1>4, PfallocIInv
    <2>2. PoolInv'
      BY <1>2, <1>3, <1>4, <2>1 DEF Pfalloc, PoolInv
    <2> QED
      BY <1>1, <1>4, <2>2, PfallocTakes DEF Pool!Next
  <1>5. ASSUME MayRelease, NEW f \in Pfn, Pffree(f) PROVE PoolInv' /\ Pool!Next
    <2>1. IInv' /\ held' = held \ {f} /\ Pool!GiveBack(f)
      BY <1>1, <1>5, PffreeIInv, PffreeGivesBack
    <2>2. PoolInv'
      BY <1>3, <1>5, <2>1 DEF Pffree, PoolInv
    <2> QED
      BY <2>1, <2>2 DEF Pool!Next
  <1>6. CASE PfallocEmpty \/ \E f \in Pfn : PffreeIntoEmpty(f)
    <2>1. IInv' /\ pc' = "stopped"
      BY <1>1, <1>6, FaultIInv
    <2>2. /\ usable' = usable /\ held' \subseteq held /\ head' = head /\ head = PFN_INVALID
      BY <1>6 DEF PfallocEmpty, PffreeIntoEmpty, Fault
    <2>3. PoolInv'
      BY <1>3, <2>1, <2>2 DEF PoolInv, PFN_INVALID
    <2> QED
      BY <2>1, <2>3
  <1> QED
    BY <1>4, <1>5, <1>6 DEF UsePool

\* Before, there is no pool.
LEMMA NoPool ==
    ASSUME PoolInv, MapInv, UNCHANGED poolVars,
           \/ phase \notin Running /\ phase' # "ready"
           \/ phase' = phase /\ mem' = mem
    PROVE  PoolInv' /\ UNCHANGED <<Listed, held>>
  <1>1. IInv' /\ UNCHANGED <<Listed, held>>
    BY StutterIInv, SamePool DEF PoolInv, poolVars, vars
  <1>2. usable' = usable /\ pc' = pc /\ held' = held /\ head' = head
    BY DEF poolVars, vars
  <1>3. CASE phase \notin Running /\ phase' # "ready"
    BY <1>1, <1>2, <1>3 DEF PoolInv, RunsDonated, Running, PFN_INVALID
  <1>4. CASE phase' = phase /\ mem' = mem
    BY <1>1, <1>2, <1>4 DEF PoolInv, RunsDonated, Running, Pages, PMEMTYPE_USABLE, PFN_INVALID
  <1> QED
    BY <1>3, <1>4

\* While the map says so, the pool's frames are nobody else's.
LEMMA PoolIsFree ==
    ASSUME MapInv, PoolInv
    PROVE  PoolIsFreeMemory
  <1> SUFFICES ASSUME NEW f \in Listed \union held
               PROVE  /\ f \notin 0..(ImageEnd - 1) \union db \union acpi \union fw.apics
                      /\ Len(report) <= MaxZones =>
                             /\ \E i \in DOMAIN report : f \in report[i].pages
                             /\ \A i \in DOMAIN report :
                                    f \in report[i].pages => report[i].type = PMEMTYPE_USABLE
    BY DEF PoolIsFreeMemory
  <1>1. f \in usable
    <2>1. CASE pc # "stopped"
      <3>1. Listed = UsableFrames \ held /\ UsableFrames = usable
        BY <2>1, FreeFrames, FramesArePages DEF PoolInv, IInv
      <3> QED
        BY <3>1 DEF PoolInv
    <2>2. CASE pc = "stopped"
      <3> DEFINE s == [i \in 0..0 |-> PFN_INVALID]
      <3>1. s \in [0..0 -> Link] /\ s[0] = PFN_INVALID /\ head = PFN_INVALID /\ Count \in Nat
        BY <2>2, PageFramesAssumption DEF Link, PFN_INVALID, PoolInv
      <3> HIDE DEF s
      <3>2. IsList(0, s) /\ Frames(0, s) = {}
        BY <3>1 DEF IsList, Frames
      <3>3. Listed = {}
        BY <3>2, ListedIsFrames DEF PoolInv, IInv
      <3> QED
        BY <3>3 DEF PoolInv
    <2> QED
      BY <2>1, <2>2
  <1>2. f \in Pages /\ mem[f] = 1 /\ phase \in Running
    BY <1>1 DEF PoolInv, RunsDonated, PMEMTYPE_USABLE
  <1>3. f \notin 0..(ImageEnd - 1) \union db \union acpi \union fw.apics
    BY <1>2 DEF MapInv, TakenListed, Building, Running,
                PMEMTYPE_RESERVED, PMEMTYPE_ACPI, PMEMTYPE_UNCACHED
  <1>4. ASSUME Len(report) <= MaxZones
        PROVE  /\ \E i \in DOMAIN report : f \in report[i].pages
               /\ \A i \in DOMAIN report :
                      f \in report[i].pages => report[i].type = PMEMTYPE_USABLE
    <2>1. /\ Len(report) \in Nat /\ DOMAIN report = 1..Len(report)
          /\ zone \in 0..Len(report) /\ zone \in {Len(report), MaxZones} /\ MaxZones \in Nat
      BY <1>2, LoaderAssumption DEF MapInv, MapTyped, ZonesListed, Reported
    <2>2. zone = Len(report)
      <3> DEFINE n == Len(report)
      <3>1. n \in Nat /\ zone \in 0..n /\ zone \in {n, MaxZones} /\ n <= MaxZones
            /\ MaxZones \in Nat
        BY <1>4, <2>1
      <3> HIDE DEF n
      <3>2. zone = n
        BY <3>1
      <3> QED
        BY <3>2 DEF n
    <2>3. \E i \in DOMAIN report : f \in report[i].pages
      BY <1>2, <2>1, <2>2 DEF MapInv, ZonesListed, PMEMTYPE_USABLE
    <2>4. ASSUME NEW i \in DOMAIN report, f \in report[i].pages
          PROVE  report[i].type = PMEMTYPE_USABLE
      <3>1. report[i].type \in 1..5 /\ mem[f] >= report[i].type
        BY <2>1, <2>2, <2>4, ZoneFacts DEF MapInv, ZonesListed
      <3> QED
        BY <1>2, <3>1 DEF PMEMTYPE_USABLE
    <2> QED
      BY <2>3, <2>4
  <1> QED
    BY <1>3, <1>4

-----------------------------------------------------------------------------
(* The kernel's page table. *)

\* The phases before kmem_init, and those after it.
Before == Loading \union {"zones", "page_tables", "acpi"} \union Tables \union {"page_init"}
After  == {"activate"} \union Running

TableInv ==
    /\ KmemInv
    /\ phase \in Before => leaves = {} /\ ktables = {} /\ addr = 0
    /\ phase \in After => addr = PageCount

LEMMA NoTableYet == leaves = {} /\ ktables = {} /\ addr = 0 => KmemInv
  <1> SUFFICES ASSUME leaves = {}, ktables = {}, addr = 0 PROVE KmemInv
    OBVIOUS
  <1>1. addr \in 0..PageCount /\ 0..(addr - 1) = {}
    BY Sizes
  <1>2. TablesNeeded
    BY FS_EmptySet, KmemAssumption DEF TablesNeeded
  <1> QED
    BY <1>1, <1>2 DEF KmemInv, LeavesApart, LeavesMap

LEMMA SameTable == KmemInv /\ UNCHANGED <<mem, kmemVars>> => KmemInv'
  <1> SUFFICES ASSUME KmemInv, UNCHANGED <<mem, kmemVars>> PROVE KmemInv'
    OBVIOUS
  <1>1. mem' = mem /\ leaves' = leaves /\ ktables' = ktables /\ addr' = addr
    BY DEF kmemVars
  <1>2. \A p : Mappable(p)' <=> Mappable(p)
    BY <1>1 DEF Mappable, last_usable
  <1>3. LeavesApart'
    BY <1>1 DEF KmemInv, LeavesApart, Leaf, Covers
  <1>4. LeavesMap'
    BY <1>1, <1>2 DEF KmemInv, LeavesMap, Covers
  <1>5. TablesNeeded'
    BY <1>1 DEF KmemInv, TablesNeeded
  <1> QED
    BY <1>1, <1>3, <1>4, <1>5 DEF KmemInv

\* What the steps of the other parts have to respect.
LEMMA TableKept ==
    ASSUME TableInv, UNCHANGED kmemVars,
           \/ phase \in Before /\ phase' \in Before \union {"kmem", "stopped"}
           \/ mem' = mem /\ phase \in After /\ phase' \in Running \union {"stopped"}
           \/ mem' = mem /\ phase' = phase
           \/ mem' = mem /\ phase' = "stopped"
    PROVE  TableInv'
  <1>1. leaves' = leaves /\ ktables' = ktables /\ addr' = addr
    BY DEF kmemVars
  <1>2. Before \intersect After = {} /\ "kmem" \notin Before \union After
        /\ "stopped" \notin Before \union After /\ Running \intersect Before = {}
        /\ Running \subseteq After
    BY DEF Before, After, Loading, Tables, Running
  <1>3. CASE phase \in Before /\ phase' \in Before \union {"kmem", "stopped"}
    <2>1. leaves' = {} /\ ktables' = {} /\ addr' = 0
      BY <1>1, <1>3 DEF TableInv
    <2>2. (leaves = {} /\ ktables = {} /\ addr = 0 => KmemInv)'
      BY NoTableYet, PTL
    <2>3. phase' \notin After
      BY <1>2, <1>3
    <2> QED
      BY <2>1, <2>2, <2>3 DEF TableInv, Before, After, Loading, Tables, Running
  <1>4. CASE mem' = mem
    <2>1. KmemInv'
      BY <1>4, SameTable DEF TableInv
    <2>2. \/ phase' = phase
          \/ phase' \notin Before /\ (phase' \in After => phase \in After)
          \/ phase \in Before /\ phase' \in Before \union {"kmem", "stopped"}
      BY <1>2
    <2>3. CASE phase' = phase
      BY <1>1, <2>1, <2>3 DEF TableInv, Before, After, Loading, Tables, Running
    <2>4. CASE phase' \notin Before /\ (phase' \in After => phase \in After)
      BY <1>1, <2>1, <2>4 DEF TableInv, Before, After, Loading, Tables, Running
    <2> QED
      BY <1>3, <2>2, <2>3, <2>4
  <1> QED
    BY <1>3, <1>4

LEMMA BuildTable == TableInv /\ BuildKernelTable => TableInv'
  <1> SUFFICES ASSUME TableInv, BuildKernelTable PROVE TableInv'
    OBVIOUS
  <1> USE DEF Before, After, Loading, Tables, Running
  <1>1. CASE SkipRegion
    BY <1>1, SkipRegionInv DEF TableInv, SkipRegion, Mapping
  <1>2. CASE MapPage
    BY <1>2, MapPageInv DEF TableInv, MapPage, Mapping
  <1>3. CASE OutOfTables
    BY <1>3, TableKept DEF OutOfTables, Stop, kmemVars
  <1>4. CASE MapDone
    <2>1. KmemInv'
      BY <1>4, SameTable DEF TableInv, MapDone, kmemVars
    <2>2. addr = PageCount
      BY <1>4, Sizes DEF TableInv, KmemInv, MapDone
    <2> QED
      BY <1>4, <2>1, <2>2 DEF TableInv, MapDone
  <1> QED
    BY <1>1, <1>2, <1>3, <1>4 DEF BuildKernelTable, kmem_init

LEMMA TableIsIdentity == TableInv => IdentityMapped
  <1> SUFFICES ASSUME TableInv, phase \in Running PROVE IdentityMapped
    BY DEF IdentityMapped, Running
  <1>1. KmemInv /\ addr = PageCount
    BY DEF TableInv, After
  <1> QED
    BY <1>1, TableComplete DEF IdentityMapped

-----------------------------------------------------------------------------
(* The start-up. *)

CoreInv == MapInv /\ TabInv /\ PoolInv /\ TableInv

LEMMA InitCore == StartInit => CoreInv /\ Pool!Init
  <1> SUFFICES ASSUME StartInit PROVE CoreInv /\ Pool!Init
    OBVIOUS
  <1> USE DEF StartInit
  <1>1. /\ phase = "volume" /\ mem = [p \in Pages |-> PMEMTYPE_NONE]
        /\ report = <<>> /\ zone = 0 /\ db = {} /\ acpi = {} /\ tab = 0
        /\ leaves = {} /\ ktables = {} /\ addr = 0
    BY DEF LoaderInit, AcpiInit, KmemInit, NULL
  <1>2. MapInv
    <2>1. report \in Seq([pages : SUBSET Pages, type : 1..5]) /\ Len(report) = 0
      BY <1>1, EmptySeq
    <2>2. MapTyped
      BY <1>1, <2>1 DEF MapTyped, Phases, Loading, PMEMTYPE_NONE
    <2>3. ZonesListed
      BY <1>1 DEF ZonesListed, Reported, Tables, Building, Running, PMEMTYPE_NONE, PMEMTYPE_USABLE
    <2>4. TakenListed
      BY <1>1 DEF TakenListed, Tables, Building, Running
    <2> QED
      BY <2>2, <2>3, <2>4 DEF MapInv
  <1>3. TabInv
    BY <1>1 DEF TabInv
  <1>4. IInv /\ pc = "init" /\ usable = {} /\ held = {}
    BY InitIInv DEF Init
  <1>5. PoolInv
    BY <1>1, <1>4 DEF PoolInv, RunsDonated
  <1>6. Pool!Init
    <2>1. Listed = UsableFrames \ held /\ UsableFrames = usable
      BY <1>4, FreeFrames, FramesArePages DEF IInv
    <2> QED
      BY <1>4, <2>1 DEF Pool!Init
  <1>7. TableInv
    BY <1>1, NoTableYet DEF TableInv, After, Running
  <1> QED
    BY <1>2, <1>3, <1>5, <1>6, <1>7 DEF CoreInv

\* How the phases follow one another, up to kmem_init.
LEMMA PhasesBefore ==
    ASSUME MapInv, Load \/ LaunchKernel \/ ReadAcpi \/ pmap_init \/ ReserveDb \/ NoMemory
    PROVE  /\ phase \in Before /\ phase' \in Before \union {"kmem", "stopped"}
           /\ phase \notin Running /\ phase' \notin Running
           /\ UNCHANGED kmemVars /\ UNCHANGED poolVars
           /\ phase' = "acpi_tables" /\ phase # "acpi_tables" => tab' = 1
  <1> USE DEF Before, Loading, Tables, Running, Stop
  <1>1. CASE Load
    <2>1. /\ phase \in Loading \union {"zones"}
          /\ phase' \in Loading \union {"zones", "page_tables", "stopped"}
      BY <1>1 DEF Load, load, ReadError, ReadVolume, FindLoader, ProcessDirEntry, ReadLoader,
          EnableA20, CheckCpu, FindKernel, StartLoading, LoadChunk, ProbeMemory, ReadZone,
          NoMoreZones
    <2> QED
      BY <1>1, <2>1 DEF Load
  <1>2. CASE LaunchKernel
    BY <1>2 DEF LaunchKernel, SetupPageTables
  <1>3. CASE ReadAcpi
    <2>1. /\ phase \in {"acpi"} \union Tables
          /\ phase' \in Tables \union {"stopped"}
          /\ phase' = "acpi_tables" /\ phase # "acpi_tables" => tab' = 1
      BY <1>3 DEF ReadAcpi, acpi_init, FindRsdp, FindNoRsdp, ReadRoot, NoRoot, Exhausted,
          ReadTable, TableTooMany, ReserveApics
    <2> QED
      BY <1>3, <2>1 DEF ReadAcpi
  <1>4. CASE pmap_init
    BY <1>4 DEF pmap_init
  <1>5. CASE ReserveDb
    BY <1>5 DEF ReserveDb
  <1>6. CASE NoMemory
    BY <1>6 DEF NoMemory
  <1> QED
    BY <1>1, <1>2, <1>3, <1>4, <1>5, <1>6

LEMMA TabStep == TabInv /\ [StartNext]_startVars => TabInv'
  <1> SUFFICES ASSUME TabInv, [StartNext]_startVars PROVE TabInv'
    OBVIOUS
  <1>1. CASE Load \/ LaunchKernel \/ pmap_init \/ ReserveDb \/ NoMemory
    <2>1. tab' = tab
      BY <1>1 DEF Load, LaunchKernel, SetupPageTables, pmap_init, ReserveDb, NoMemory, acpiVars
    <2>2. phase' = "acpi_tables" => FALSE
      BY <1>1 DEF Load, load, ReadError, ReadVolume, FindLoader, ProcessDirEntry, ReadLoader,
          EnableA20, CheckCpu, FindKernel, StartLoading, LoadChunk, ProbeMemory, ReadZone,
          NoMoreZones, LaunchKernel, SetupPageTables, pmap_init, ReserveDb, NoMemory, Stop
    <2> QED
      BY <2>1, <2>2 DEF TabInv
  <1>2. CASE ReadAcpi
    <2>1. /\ tab' \in {tab, tab + 1, 1}
          /\ phase' = "acpi_tables" => tab' \in {tab + 1, 1}
      BY <1>2 DEF ReadAcpi, acpi_init, FindRsdp, FindNoRsdp, ReadRoot, NoRoot, Exhausted,
          ReadTable, TableTooMany, ReserveApics, Stop, TabInv
    <2> QED
      BY <2>1 DEF TabInv
  <1>3. CASE BuildKernelTable \/ Activate \/ AddFrames \/ UsePool \/ UNCHANGED startVars
    <2>1. tab' = tab
      BY <1>3 DEF BuildKernelTable, Activate, AddFrames, UsePool, startVars, acpiVars
    <2>2. phase' = "acpi_tables" => phase = "acpi_tables"
      BY <1>3 DEF BuildKernelTable, kmem_init, SkipRegion, MapPage, OutOfTables, MapDone,
          Mapping, Stop, Activate, AddFrames, UsePool, startVars
    <2> QED
      BY <2>1, <2>2 DEF TabInv
  <1> QED
    BY <1>1, <1>2, <1>3 DEF StartNext

LEMMA CoreStep ==
    CoreInv /\ [StartNext]_startVars =>
        CoreInv' /\ [pc' # "stopped" => Pool!Next]_<<Listed, held>>
  <1> SUFFICES ASSUME CoreInv, [StartNext]_startVars
               PROVE  CoreInv' /\ [pc' # "stopped" => Pool!Next]_<<Listed, held>>
    OBVIOUS
  <1>1. MapInv /\ TabInv /\ PoolInv /\ TableInv
    BY DEF CoreInv
  <1>2. TabInv'
    BY <1>1, TabStep
  <1>3. CASE Load \/ LaunchKernel \/ ReadAcpi \/ pmap_init \/ ReserveDb \/ NoMemory
    <2>1. MapInv'
      BY <1>1, <1>3, LoadMap, AcpiMap, BuildMap
    <2>2. TableInv'
      BY <1>1, <1>3, PhasesBefore, TableKept
    <2>3. phase' # "ready"
      BY <1>1, <1>3, PhasesBefore DEF Running
    <2>4. PoolInv' /\ UNCHANGED <<Listed, held>>
      BY <1>1, <1>3, <2>3, PhasesBefore, NoPool
    <2> QED
      BY <1>2, <2>1, <2>2, <2>4 DEF CoreInv
  <1>4. CASE BuildKernelTable
    <2>1. MapInv' /\ TableInv'
      BY <1>1, <1>4, BuildMap, BuildTable
    <2>2. phase \notin Running /\ phase' # "ready" /\ UNCHANGED poolVars
      BY <1>4 DEF BuildKernelTable, kmem_init, SkipRegion, MapPage, OutOfTables, MapDone,
          Mapping, Stop, Running
    <2>3. PoolInv' /\ UNCHANGED <<Listed, held>>
      BY <1>1, <2>2, NoPool
    <2> QED
      BY <1>2, <2>1, <2>3 DEF CoreInv
  <1>5. CASE Activate
    <2>1. MapInv'
      BY <1>1, <1>5, BuildMap
    <2>2. /\ phase = "activate" /\ phase' \in {"frames", "stopped"} /\ mem' = mem
          /\ UNCHANGED kmemVars /\ UNCHANGED poolVars
      BY <1>5 DEF Activate
    <2>3. TableInv'
      BY <1>1, <2>2, TableKept DEF After, Running
    <2>4. PoolInv' /\ UNCHANGED <<Listed, held>>
      BY <1>1, <2>2, NoPool DEF Running
    <2> QED
      BY <1>2, <2>1, <2>3, <2>4 DEF CoreInv
  <1>6. CASE AddFrames \/ UsePool
    <2>1. MapInv'
      BY <1>1, <1>6, PoolMap
    <2>2. /\ phase \in Running /\ phase' \in Running /\ mem' = mem /\ UNCHANGED kmemVars
      BY <1>6 DEF AddFrames, UsePool, Running
    <2>3. TableInv'
      BY <1>1, <2>2, TableKept DEF After
    <2>4. PoolInv' /\ [pc' # "stopped" => Pool!Next]_<<Listed, held>>
      BY <1>1, <1>6, AddFramesPool, UsePoolPool
    <2> QED
      BY <1>2, <2>1, <2>3, <2>4 DEF CoreInv
  <1>7. CASE UNCHANGED startVars
    <2>1. MapInv'
      BY <1>1, <1>7, PoolMap
    <2>2. phase' = phase /\ mem' = mem /\ UNCHANGED kmemVars /\ UNCHANGED poolVars
      BY <1>7 DEF startVars
    <2>3. TableInv'
      BY <1>1, <2>2, TableKept
    <2>4. PoolInv' /\ UNCHANGED <<Listed, held>>
      BY <1>1, <2>2, NoPool
    <2> QED
      BY <1>2, <2>1, <2>3, <2>4 DEF CoreInv
  <1> QED
    BY <1>3, <1>4, <1>5, <1>6, <1>7 DEF StartNext

\* Whatever the disc holds and the firmware reports: the list of frames holds
\* exactly the frames of the regions chained so far that nobody holds.
THEOREM StartListCorrect == StartSpec => []ListExact
  <1>1. StartInit => CoreInv
    BY InitCore
  <1>2. CoreInv /\ [StartNext]_startVars => CoreInv'
    BY CoreStep
  <1>3. CoreInv => ListExact
    BY IInvImpliesListExact DEF CoreInv, PoolInv
  <1> QED
    BY <1>1, <1>2, <1>3, PTL DEF StartSpec

\* ... and the regions that page_init finds make the database a pool of
\* frames, which pfalloc and pffree then keep to, up to the fault.
THEOREM StartPoolCorrect == StartSpec => IsPool
  <1>1. StartInit => CoreInv /\ Pool!Init
    BY InitCore
  <1>2. CoreInv /\ [StartNext]_startVars =>
            CoreInv' /\ [pc' # "stopped" => Pool!Next]_<<Listed, held>>
    BY CoreStep
  <1> QED
    BY <1>1, <1>2, PTL DEF StartSpec, IsPool

\* No frame that pfalloc hands out is part of the kernel, of the database
\* itself, of an ACPI table or of a device's registers, whatever regions the
\* firmware reports, overlapping and in any order.
THEOREM FreeMemoryCorrect == StartSpec => []PoolIsFreeMemory
  <1>1. StartInit => CoreInv
    BY InitCore
  <1>2. CoreInv /\ [StartNext]_startVars => CoreInv'
    BY CoreStep
  <1>3. CoreInv => PoolIsFreeMemory
    BY PoolIsFree DEF CoreInv
  <1> QED
    BY <1>1, <1>2, <1>3, PTL DEF StartSpec

\* The kernel's page table maps each page of memory that is to be mapped
\* exactly once, to itself, with the caching its type needs, and no other.
THEOREM IdentityCorrect == StartSpec => []IdentityMapped
  <1>1. StartInit => CoreInv
    BY InitCore
  <1>2. CoreInv /\ [StartNext]_startVars => CoreInv'
    BY CoreStep
  <1>3. CoreInv => IdentityMapped
    BY TableIsIdentity DEF CoreInv
  <1> QED
    BY <1>1, <1>2, <1>3, PTL DEF StartSpec

-----------------------------------------------------------------------------
(* The loaders. *)

Entry == [name : STRING, dir : BOOLEAN, lba : Nat, sectors : Nat]

\* The phases in which the kernel has been found.
Found == {"kernel_found", "load_kernel", "layout"}

LoadTyped ==
    /\ phase \in Loading => disc \in Discs
    /\ at \in (Nat \ {0}) \X (Nat \ {0})
    /\ file.lba \in Nat /\ file.sectors \in Nat
    /\ a20 \in BOOLEAN /\ tries \in 0..3
    /\ current \in 0..(Word - 1) /\ last \in 0..(Word - 1)
    /\ zone \in 0..MaxZones /\ (phase = "zones" => zone < MaxZones)
    /\ phase \in Loading => zone = 0

\* The first k sectors of the kernel.
Sectors(k) == [i \in 1..k |-> file.lba + i - 1]

\* What has been copied is the kernel's beginning, and CurrentSector counts
\* it; all of it has been when the loop is left.
LoadCopied ==
    /\ phase \in Loading /\ phase \notin {"load_kernel", "layout"} => upper = <<>>
    /\ phase \in {"cpu", "find_kernel"} \union Found => a20
    /\ phase \in Found => ~file.dir /\ file.name = "MONK.SYS" /\ Near(file)
    /\ phase = "load_kernel" =>
           /\ \E k \in 0..file.sectors : /\ upper = Sectors(k)
                                         /\ current = (file.lba + k) % Word
           /\ last = (file.lba + file.sectors) % Word
    /\ phase = "layout" => upper = Sectors(file.sectors)

LEMMA WordRemainder ==
    ASSUME NEW w \in Nat \ {0}
    PROVE  \A x \in Int : -w < x /\ x <= w =>
               x % w = IF x < 0 THEN x + w ELSE IF x = w THEN 0 ELSE x
  <1> SUFFICES ASSUME NEW x \in Int, -w < x, x <= w
               PROVE  x % w = IF x < 0 THEN x + w ELSE IF x = w THEN 0 ELSE x
    OBVIOUS
  <1>1. w \in Nat /\ w > 0
    OBVIOUS
  <1>2. CASE x < 0
    BY <1>1, <1>2
  <1>3. CASE x = w
    BY <1>1, <1>3
  <1>4. CASE 0 <= x /\ x < w
    BY <1>1, <1>4
  <1> QED
    BY <1>2, <1>3, <1>4

\* One turn of LoadKernel's loop, in numbers: l is the kernel's first sector,
\* n its length, k what has been copied.
LEMMA ChunkFacts ==
    ASSUME NEW l \in Nat, NEW n \in Nat, l > 0, l + n <= Word, NEW k \in 0..n,
           current = (l + k) % Word, last = (l + n) % Word
    PROVE  /\ Chunk \in Nat /\ k + Chunk \in 0..n /\ k + Chunk \in Nat
           /\ \A i \in 1..Chunk : (current + i - 1) % Word = l + (k + i) - 1
           /\ (current + Chunk) % Word = (l + (k + Chunk)) % Word
           /\ (current + Chunk) % Word = last => k + Chunk = n
  <1> DEFINE w   == Word
             b   == BufferSectors
             cur == current
             end == last
             c   == Chunk
  <1>1. w \in Nat \ {0} /\ b \in Nat \ {0} /\ cur = (l + k) % w /\ end = (l + n) % w
        /\ l + n <= w
    BY LoaderAssumption
  <1>2. c = Min({b, (end - cur) % w})
    BY DEF Chunk
  <1> HIDE DEF w, b, cur, end, c
  <1>3. \A x \in Int : x > 0 /\ x <= w => x % w = IF x = w THEN 0 ELSE x
    <2>1. \A x \in Int : x > 0 => -w < x /\ ~(x < 0)
      BY <1>1
    <2> QED
      BY <1>1, <2>1, WordRemainder
  <1>4. /\ cur = IF l + k = w THEN 0 ELSE l + k
        /\ end = IF l + n = w THEN 0 ELSE l + n
    <2> DEFINE x == l + k
               y == l + n
    <2>2. x \in Int /\ y \in Int /\ x > 0 /\ x <= w /\ y > 0 /\ y <= w
      BY <1>1
    <2>3. cur = x % w /\ end = y % w
      BY <1>1
    <2> HIDE DEF x, y
    <2>4. cur = (IF x = w THEN 0 ELSE x) /\ end = (IF y = w THEN 0 ELSE y)
      BY <1>3, <2>2, <2>3
    <2> QED
      BY <2>4 DEF x, y
  <1>5. (end - cur) % w = n - k
    <2>1. end - cur \in Int /\ -w < end - cur /\ end - cur <= w
      BY <1>1, <1>4
    <2>2. (end - cur) % w = IF end - cur < 0 THEN (end - cur) + w
                            ELSE IF end - cur = w THEN 0 ELSE end - cur
      BY <1>1, <2>1, WordRemainder
    <2> QED
      BY <1>1, <1>4, <2>2
  <1>6. c \in {b, n - k} /\ c <= b /\ c <= n - k
    <2>1. {b, n - k} \subseteq Nat /\ {b, n - k} # {}
      BY <1>1
    <2>2. Min({b, n - k}) \in {b, n - k} /\ \A x \in {b, n - k} : Min({b, n - k}) <= x
      BY <2>1, MinNat
    <2> QED
      BY <1>2, <1>5, <2>2
  <1>7. c \in Nat /\ k + c \in 0..n
    BY <1>1, <1>6
  <1>8. ASSUME NEW i \in 1..c PROVE (cur + i - 1) % w = l + (k + i) - 1
    <2>1. cur = l + k /\ cur + i - 1 \in Nat /\ cur + i - 1 < w /\ cur + i - 1 = l + (k + i) - 1
      BY <1>1, <1>4, <1>6, <1>7
    <2> DEFINE x == cur + i - 1
    <2>2. \A y \in Nat : y < w => y % w = y
      BY <1>1
    <2>3. x \in Nat /\ x < w
      BY <2>1
    <2> HIDE DEF x
    <2>4. x % w = x
      BY <2>2, <2>3
    <2> QED
      BY <2>1, <2>4 DEF x
  <1>9. (cur + c) % w = (l + (k + c)) % w
    <2>1. CASE l + k = w
      <3>1. cur = 0 /\ c = 0 /\ l + (k + c) = w
        BY <1>1, <1>4, <1>6, <2>1
      <3>2. w % w = 0 /\ 0 % w = 0
        BY <1>1, WordRemainder
      <3>3. cur + c = 0 /\ l + (k + c) = w
        BY <3>1
      <3> QED
        BY <3>2, <3>3
    <2>2. CASE l + k # w
      <3>1. cur = l + k /\ cur + c = l + (k + c)
        BY <1>1, <1>4, <1>7, <2>2
      <3> QED
        BY <3>1
    <2> QED
      BY <2>1, <2>2
  <1>10. (l + (k + c)) % w = end => k + c = n
    <2>1. l + (k + c) \in Nat /\ l + (k + c) <= w /\ l + (k + c) > 0
      BY <1>1, <1>7
    <2> DEFINE x == l + (k + c)
    <2>2. x \in Int /\ x > 0 /\ x <= w
      BY <1>1, <2>1
    <2> HIDE DEF x
    <2>3. x % w = IF x = w THEN 0 ELSE x
      BY <1>3, <2>2
    <2>4. x % w = end => x = l + n
      <3>1. l + n \in Nat /\ l + n > 0
        BY <1>1
      <3> QED
        BY <1>1, <1>4, <2>2, <2>3, <3>1
    <2> QED
      BY <1>1, <1>7, <2>4 DEF x
  <1> QED
    BY <1>7, <1>8, <1>9, <1>10 DEF w, cur, end, c

LEMMA LoaderNumbers ==
    /\ SectorEntries \in Nat \ {0} /\ BufferSectors \in Nat \ {0} /\ LoaderMax \in Nat \ {0}
    /\ Word \in Nat \ {0} /\ MaxZones \in Nat \ {0}
    /\ \A n \in Int : n % Word \in 0..(Word - 1)
  BY LoaderAssumption

\* What the search looks at is an entry of the directory.
LEMMA RecordFacts ==
    ASSUME LoadTyped, disc \in Discs, AtRecord
    PROVE  /\ Sector[at[2]].lba \in Nat /\ Sector[at[2]].sectors \in Nat
           /\ \E s \in DOMAIN disc.root : \E i \in DOMAIN disc.root[s] :
                  Sector[at[2]] = disc.root[s][i]
  <1> DEFINE s == at[1]
             i == at[2]
  <1>1. s \in Nat \ {0} /\ i \in Nat \ {0}
    BY DEF LoadTyped
  <1>2. disc.root \in Seq(Seq(Entry))
    BY LoaderAssumption DEF Entry
  <1>3. Len(disc.root) \in Nat /\ DOMAIN disc.root = 1..Len(disc.root)
    BY <1>2, LenProperties
  <1>4. AtRecord <=> i <= Len(Sector)
    BY DEF AtRecord
  <1>5. Sector = IF s <= Len(disc.root) THEN disc.root[s] ELSE <<>>
    BY DEF Sector
  <1> HIDE DEF s, i
  <1>6. s <= Len(disc.root)
    <2>1. Len(<<>>) = 0
      BY EmptySeq
    <2> SUFFICES ASSUME ~(s <= Len(disc.root)) PROVE FALSE
      OBVIOUS
    <2>2. Sector = <<>>
      BY <1>5
    <2>3. i <= 0
      BY <1>4, <2>1, <2>2
    <2> QED
      BY <1>1, <2>3
  <1>7. s \in DOMAIN disc.root
    BY <1>1, <1>3, <1>6
  <1>8. Sector = disc.root[s] /\ Sector \in Seq(Entry)
    BY <1>2, <1>3, <1>5, <1>6, <1>7, ElementOfSeq
  <1>9. Len(Sector) \in Nat /\ DOMAIN Sector = 1..Len(Sector)
    BY <1>8, LenProperties
  <1>10. i \in 1..Len(Sector)
    BY <1>1, <1>4, <1>9
  <1>11. Sector[i] \in Entry
    BY <1>8, <1>10, ElementOfSeq
  <1>12. Sector[i].lba \in Nat /\ Sector[i].sectors \in Nat
    BY <1>11 DEF Entry
  <1> QED
    BY <1>7, <1>8, <1>9, <1>10, <1>12 DEF i

LEMMA InitLoad == StartInit => LoadTyped /\ LoadCopied
  <1> SUFFICES ASSUME StartInit PROVE LoadTyped /\ LoadCopied
    OBVIOUS
  <1>1. LoaderInit
    BY DEF StartInit
  <1>2. file.lba \in Nat /\ file.sectors \in Nat
    BY <1>1 DEF LoaderInit, NoFile
  <1>3. LoadTyped
    <2>1. 0 \in 0..3 /\ 0 \in 0..(Word - 1) /\ 0 \in 0..MaxZones
          /\ <<1, 1>> \in (Nat \ {0}) \X (Nat \ {0})
      BY LoaderNumbers
    <2>2. /\ disc \in Discs /\ at = <<1, 1>> /\ a20 \in BOOLEAN /\ tries = 0 /\ zone = 0
          /\ current = 0 /\ last = 0 /\ phase = "volume"
      BY <1>1 DEF LoaderInit
    <2> QED
      BY <1>2, <2>1, <2>2, Zenon DEF LoadTyped
  <1>4. LoadCopied
    BY <1>1 DEF LoaderInit, LoadCopied, Loading, Found
  <1> QED
    BY <1>3, <1>4

\* One turn of the search in the root directory.
LEMMA SearchStep ==
    ASSUME LoadTyped, NEW from, NEW name, NEW found, from \in Loading,
           ProcessDirEntry(from, name, found)
    PROVE  /\ at' \in (Nat \ {0}) \X (Nat \ {0}) /\ disc' = disc
           /\ file'.lba \in Nat /\ file'.sectors \in Nat
           /\ phase' \in {from, found, "stopped"}
           /\ phase' = found /\ found # from /\ found # "stopped" =>
                  /\ ~file'.dir /\ file'.name = name
                  /\ \E s \in DOMAIN disc.root : \E i \in DOMAIN disc.root[s] :
                         file' = disc.root[s][i]
  <1>1. phase = from /\ disc' = disc /\ disc \in Discs
    BY DEF ProcessDirEntry, LoadTyped
  <1>2. /\ at \in (Nat \ {0}) \X (Nat \ {0}) /\ at[1] \in Nat \ {0} /\ at[2] \in Nat \ {0}
        /\ file.lba \in Nat /\ file.sectors \in Nat
    BY DEF LoadTyped
  <1>3. /\ <<at[1], at[2] + 1>> \in (Nat \ {0}) \X (Nat \ {0})
        /\ <<at[1] + 1, 1>> \in (Nat \ {0}) \X (Nat \ {0})
    BY <1>2
  <1>4. CASE IsFile(name)
    <2>1. phase' = found /\ file' = Sector[at[2]] /\ at' = at
      BY <1>4 DEF ProcessDirEntry, AtEmpty, IsFile
    <2>2. AtRecord /\ ~Sector[at[2]].dir /\ Sector[at[2]].name = name
      BY <1>4 DEF IsFile
    <2> QED
      BY <1>1, <1>2, <2>1, <2>2, RecordFacts
  <1>5. CASE ~IsFile(name)
    <2>1. /\ file' = file
          /\ at' \in {at, <<at[1], at[2] + 1>>, <<at[1] + 1, 1>>}
          /\ phase' \in {phase, "stopped"}
      <3>1. CASE AtRecord
        BY <1>5, <3>1 DEF ProcessDirEntry, AtEmpty
      <3>2. CASE AtEmpty
        BY <1>5, <3>2 DEF ProcessDirEntry, AtEmpty, Stop
      <3>3. CASE ~AtRecord /\ ~AtEmpty
        BY <1>5, <3>3 DEF ProcessDirEntry
      <3> QED
        BY <3>1, <3>2, <3>3
    <2> QED
      BY <1>1, <1>2, <1>3, <2>1
  <1> QED
    BY <1>4, <1>5

\* A chunk that is copied goes on where the one before it ended.
LEMMA ChunkCopied ==
    ASSUME LoadTyped, LoadCopied, LoadChunk
    PROVE  /\ phase' = "load_kernel" =>
                  \E k \in 0..file.sectors : /\ upper' = Sectors(k)
                                             /\ current' = (file.lba + k) % Word
           /\ phase' = "layout" => upper' = Sectors(file.sectors)
  <1> DEFINE l == file.lba
             n == file.sectors
             c == Chunk
  <1>1. /\ phase = "load_kernel" /\ a20 /\ l \in Nat /\ n \in Nat
        /\ l > 0 /\ l + n <= Word /\ last = (l + n) % Word
    BY DEF LoadChunk, LoadCopied, LoadTyped, Found, Near
  <1>2. l \in Nat /\ n \in Nat /\ Word \in Nat \ {0} /\ BufferSectors \in Nat \ {0}
    BY <1>1, LoaderNumbers
  <1> PICK k \in 0..n : upper = Sectors(k) /\ current = (l + k) % Word
    BY <1>1 DEF LoadCopied
  <1>3. /\ upper' = upper \o [i \in 1..c |-> (current + i - 1) % Word]
        /\ current' = (current + c) % Word
        /\ phase' = IF current' = last THEN "layout" ELSE "load_kernel"
    BY <1>1 DEF LoadChunk
  <1> HIDE DEF c
  <1>4. /\ c \in Nat /\ k + c \in 0..n /\ k + c \in Nat
        /\ \A i \in 1..c : (current + i - 1) % Word = l + (k + i) - 1
        /\ (current + c) % Word = (l + (k + c)) % Word
        /\ (current + c) % Word = last => k + c = n
    BY <1>1, <1>2, ChunkFacts DEF c
  <1>5. k \in Nat
    BY <1>2
  <1>6. upper' = Sectors(k + c)
    <2> DEFINE old == Sectors(k)
               new == [i \in 1..c |-> (current + i - 1) % Word]
               all == Sectors(k + c)
    <2>1. /\ old \in Seq(Nat) /\ Len(old) = k /\ \A i \in 1..k : old[i] = l + i - 1
      <3>1. old = [i \in 1..k |-> l + i - 1]
        BY DEF Sectors
      <3>2. \A i \in 1..k : l + i - 1 \in Nat
        BY <1>2, <1>4, <1>5
      <3> QED
        BY <1>4, <1>5, <3>1, <3>2
    <2>2. /\ new \in Seq(Nat) /\ Len(new) = c /\ \A i \in 1..c : new[i] = l + (k + i) - 1
      <3>1. \A i \in 1..c : l + (k + i) - 1 \in Nat
        BY <1>2, <1>4, <1>5
      <3>2. \A i \in 1..c : new[i] \in Nat /\ new[i] = l + (k + i) - 1
        BY <1>4, <1>5, <3>1
      <3>3. new = [i \in 1..c |-> new[i]]
        OBVIOUS
      <3> HIDE DEF new
      <3> QED
        BY <1>4, <1>5, <3>2, <3>3, SMTT(30)
    <2>3. /\ all \in Seq(Nat) /\ Len(all) = k + c
          /\ \A i \in 1..(k + c) : all[i] = l + i - 1
      <3>1. all = [i \in 1..(k + c) |-> l + i - 1]
        BY DEF Sectors
      <3>2. \A i \in 1..(k + c) : l + i - 1 \in Nat
        BY <1>2, <1>4, <1>5
      <3> QED
        BY <1>4, <1>5, <3>1, <3>2
    <2>4. upper' = old \o new
      BY <1>3
    <2> HIDE DEF old, new, all
    <2>5. /\ old \o new \in Seq(Nat) /\ Len(old \o new) = k + c
          /\ \A i \in 1..(k + c) :
                 (old \o new)[i] = IF i <= k THEN old[i] ELSE new[i - k]
      <3>1. old \in Seq(Nat) /\ new \in Seq(Nat)
        BY <2>1, <2>2
      <3>2. /\ old \o new \in Seq(Nat)
            /\ Len(old \o new) = Len(old) + Len(new)
            /\ \A i \in 1..(Len(old) + Len(new)) :
                   (old \o new)[i] = IF i <= Len(old) THEN old[i] ELSE new[i - Len(old)]
        BY <3>1, ConcatProperties
      <3>3. Len(old) = k /\ Len(new) = c
        BY <2>1, <2>2
      <3> QED
        BY <3>2, <3>3
    <2>6. ASSUME NEW i \in 1..(k + c) PROVE (old \o new)[i] = all[i]
      <3>1. all[i] = l + i - 1 /\ i \in Nat
        BY <1>4, <1>5, <2>3
      <3>2. CASE i <= k
        <4>1. i \in 1..k
          BY <1>4, <1>5, <3>2
        <4> QED
          BY <2>1, <2>5, <3>1, <3>2, <4>1
      <3>3. CASE ~(i <= k)
        <4>1. i - k \in 1..c /\ k + (i - k) = i
          BY <1>4, <1>5, <3>3
        <4> QED
          BY <2>2, <2>5, <3>1, <3>3, <4>1
      <3> QED
        BY <3>2, <3>3
    <2>7. old \o new = all
      BY <2>3, <2>5, <2>6, SeqEqual
    <2> QED
      BY <2>4, <2>7 DEF all
  <1> QED
    BY <1>3, <1>4, <1>6

\* Every step but the loaders' leaves what they have brought about.
LEMMA LoadersDone ==
    ASSUME LaunchKernel \/ ReadAcpi \/ pmap_init \/ ReserveDb \/ NoMemory
               \/ BuildKernelTable \/ Activate \/ AddFrames \/ UsePool \/ UNCHANGED startVars
    PROVE  UNCHANGED loaderVars /\ (phase' = phase \/ phase' \notin Loading \union {"zones"})
  <1> USE DEF Loading, Tables, Running, Before
  <1>1. CASE LaunchKernel \/ ReadAcpi \/ pmap_init \/ ReserveDb \/ NoMemory
    BY <1>1 DEF LaunchKernel, SetupPageTables, pmap_init, ReserveDb, NoMemory, Stop,
       ReadAcpi, acpi_init, FindRsdp, FindNoRsdp, ReadRoot, NoRoot, Exhausted, ReadTable,
       TableTooMany, ReserveApics
  <1>2. CASE BuildKernelTable
    BY <1>2 DEF BuildKernelTable, kmem_init, SkipRegion, MapPage, OutOfTables, MapDone, Stop
  <1>3. CASE Activate \/ AddFrames \/ UsePool \/ UNCHANGED startVars
    BY <1>3 DEF Activate, AddFrames, UsePool, startVars
  <1> QED
    BY <1>1, <1>2, <1>3

LEMMA LoadTypedStep == LoadTyped /\ [StartNext]_startVars => LoadTyped'
  <1> SUFFICES ASSUME LoadTyped, [StartNext]_startVars PROVE LoadTyped'
    OBVIOUS
  <1>1. /\ phase \in Loading => disc \in Discs
        /\ at \in (Nat \ {0}) \X (Nat \ {0}) /\ at[1] \in Nat \ {0}
        /\ file.lba \in Nat /\ file.sectors \in Nat
        /\ a20 \in BOOLEAN /\ tries \in 0..3
        /\ current \in 0..(Word - 1) /\ last \in 0..(Word - 1)
        /\ zone \in 0..MaxZones /\ (phase = "zones" => zone < MaxZones)
        /\ phase \in Loading => zone = 0
    BY DEF LoadTyped
  <1>2. /\ <<1, 1>> \in (Nat \ {0}) \X (Nat \ {0})
        /\ <<at[1] + 1, 1>> \in (Nat \ {0}) \X (Nat \ {0})
        /\ 0 \in 0..3 /\ 0 \in 0..(Word - 1)
    BY <1>1, LoaderNumbers
  <1>3. /\ \A n \in Int : n % Word \in 0..(Word - 1)
        /\ Word \in Nat \ {0} /\ MaxZones \in Nat \ {0} /\ BufferSectors \in Nat \ {0}
    BY LoaderNumbers
  \* A step that changes neither the entry found nor the counters.
  <1>4. ASSUME disc' = disc, file' = file, zone' = zone, phase' \in Loading \union {"stopped"},
               phase \in Loading, at' \in (Nat \ {0}) \X (Nat \ {0}),
               a20' \in BOOLEAN, tries' \in 0..3,
               current' \in 0..(Word - 1), last' \in 0..(Word - 1)
        PROVE  LoadTyped'
    <2>1. phase' # "zones"
      BY <1>4 DEF Loading
    <2> QED
      BY <1>1, <1>4, <2>1 DEF LoadTyped
  <1>5. CASE Load
    <2> USE DEF Loading
    <2>1. CASE ReadError
      BY <1>1, <2>1 DEF ReadError, Stop, loaderVars, driveVars, lineVars, copyVars, zoneVars, LoadTyped
    <2>2. CASE ReadVolume
      <3>1. /\ phase = "volume" /\ disc' = disc /\ file' = file /\ zone' = zone
            /\ a20' = a20 /\ tries' = tries /\ current' = current /\ last' = last
        BY <2>2 DEF ReadVolume, lineVars, copyVars, zoneVars
      <3>2. /\ phase' \in {"volume", "find_loader", "stopped"}
            /\ at' \in {at, <<1, 1>>, <<at[1] + 1, 1>>}
        <4> DEFINE none == at[1] > Len(disc.volumes) \/ disc.volumes[at[1]] = "terminator"
                   here == disc.volumes[at[1]] = "primary"
        <4>1. CASE none
          BY <2>2, <3>1, <4>1 DEF ReadVolume, Stop
        <4>2. CASE ~none /\ here
          BY <2>2, <3>1, <4>2 DEF ReadVolume, Stop
        <4>3. CASE ~none /\ ~here
          BY <2>2, <3>1, <4>3 DEF ReadVolume, Stop
        <4> QED
          BY <4>1, <4>2, <4>3
      <3> QED
        BY <1>1, <1>2, <1>4, <3>1, <3>2
    <2>3. ASSUME NEW from \in Loading, NEW name, NEW found \in Loading,
                 ProcessDirEntry(from, name, found)
          PROVE  LoadTyped'
      <3>1. /\ at' \in (Nat \ {0}) \X (Nat \ {0}) /\ disc' = disc
            /\ file'.lba \in Nat /\ file'.sectors \in Nat
            /\ phase' \in {from, found, "stopped"}
        BY <2>3, SearchStep
      <3>2. /\ phase = from /\ zone' = zone
            /\ a20' = a20 /\ tries' = tries /\ current' = current /\ last' = last
        BY <2>3 DEF ProcessDirEntry, lineVars, copyVars, zoneVars
      <3>3. phase' \in Loading \union {"stopped"} /\ phase' # "zones" /\ phase \in Loading
        BY <2>3, <3>1, <3>2
      <3> HIDE DEF Loading
      <3> QED
        BY <1>1, <3>1, <3>2, <3>3 DEF LoadTyped
    <2>4. CASE FindLoader \/ FindKernel
      BY <2>3, <2>4 DEF FindLoader, FindKernel
    <2>5. CASE ReadLoader
      BY <1>1, <1>4, <2>5 DEF ReadLoader, loaderVars, driveVars, lineVars, copyVars, zoneVars
    <2>6. CASE EnableA20
      <3>1. /\ phase = "a20" /\ disc' = disc /\ file' = file /\ zone' = zone /\ at' = at
            /\ current' = current /\ last' = last
        BY <2>6 DEF EnableA20, driveVars, copyVars, zoneVars
      <3>2. /\ phase' \in Loading \union {"stopped"}
            /\ a20' \in BOOLEAN /\ tries' \in 0..3
        <4>1. CASE a20
          BY <1>1, <2>6, <3>1, <4>1 DEF EnableA20, lineVars
        <4>2. CASE ~a20 /\ tries < 3
          BY <1>1, <2>6, <3>1, <4>2 DEF EnableA20, lineVars
        <4>3. CASE ~a20 /\ ~(tries < 3)
          BY <1>1, <2>6, <3>1, <4>3 DEF EnableA20, lineVars, Stop
        <4> QED
          BY <4>1, <4>2, <4>3
      <3> QED
        BY <1>1, <1>4, <3>1, <3>2
    <2>7. CASE CheckCpu
      BY <1>1, <1>2, <1>4, <2>7 DEF CheckCpu, Stop, lineVars, copyVars, zoneVars
    <2>8. CASE StartLoading
      <3>1. /\ phase = "kernel_found" /\ phase' = "load_kernel" /\ disc' = disc /\ file' = file
            /\ zone' = zone /\ at' = at /\ a20' = a20 /\ tries' = tries
            /\ current' = file.lba % Word /\ last' = (file.lba + file.sectors) % Word
        BY <2>8 DEF StartLoading, driveVars, lineVars, zoneVars
      <3>2. file.lba \in Int /\ file.lba + file.sectors \in Int
        BY <1>1
      <3> QED
        BY <1>1, <1>3, <1>4, <3>1, <3>2
    <2>9. CASE LoadChunk
      <3>1. /\ phase = "load_kernel" /\ phase' \in {"load_kernel", "layout"} /\ disc' = disc
            /\ file' = file /\ zone' = zone /\ at' = at /\ a20' = a20 /\ tries' = tries
            /\ current' = (current + Chunk) % Word /\ last' = last
        BY <2>9 DEF LoadChunk, driveVars, lineVars, zoneVars
      <3>2. Chunk \in Nat
        <4>1. (last - current) % Word \in Nat
          BY <1>1, <1>3
        <4>2. /\ {BufferSectors, (last - current) % Word} \subseteq Nat
              /\ {BufferSectors, (last - current) % Word} # {}
          BY <1>3, <4>1
        <4> QED
          BY <4>2, MinNat DEF Chunk
      <3>3. current + Chunk \in Int
        BY <1>1, <3>2
      <3> HIDE DEF Chunk
      <3> QED
        BY <1>1, <1>3, <1>4, <3>1, <3>3
    <2>10. ASSUME NEW q \in Layouts, ProbeMemory(q) PROVE LoadTyped'
      <3>1. /\ phase = "layout" /\ phase' = "zones" /\ zone' = zone /\ a20' = a20
            /\ at' = <<1, 1>> /\ file' = NoFile /\ tries' = 0 /\ current' = 0 /\ last' = 0
        BY <2>10 DEF ProbeMemory
      <3>2. NoFile.lba \in Nat /\ NoFile.sectors \in Nat
        BY DEF NoFile
      <3>3. zone' = 0 /\ zone' < MaxZones /\ zone' \in 0..MaxZones /\ phase' \notin Loading
        BY <1>1, <1>3, <3>1
      <3> HIDE DEF Loading
      <3> QED
        BY <1>1, <1>2, <3>1, <3>2, <3>3 DEF LoadTyped
    <2>11. CASE ReadZone
      <3>1. /\ phase = "zones" /\ zone' = zone + 1 /\ phase' \in {"zones", "page_tables"}
            /\ phase' = "zones" => zone' < MaxZones
            /\ UNCHANGED <<disc, at, file, a20, tries, current, last>>
        BY <2>11 DEF ReadZone, driveVars, lineVars, copyVars
      <3>2. zone' \in 0..MaxZones
        BY <1>1, <1>3, <3>1
      <3> QED
        BY <1>1, <3>1, <3>2 DEF LoadTyped
    <2>12. CASE NoMoreZones
      BY <1>1, <2>12 DEF NoMoreZones, loaderVars, driveVars, lineVars, copyVars, zoneVars, LoadTyped
    <2> QED
      BY <1>5, <2>1, <2>2, <2>4, <2>5, <2>6, <2>7, <2>8, <2>9, <2>10, <2>11, <2>12
      DEF Load, load
  <1>6. CASE ~Load
    <2>1. UNCHANGED loaderVars /\ (phase' = phase \/ phase' \notin Loading \union {"zones"})
      BY <1>6, LoadersDone DEF StartNext
    <2> QED
      BY <1>1, <2>1 DEF LoadTyped, loaderVars, driveVars, lineVars, copyVars, zoneVars
  <1> QED
    BY <1>5, <1>6

LEMMA LoadCopiedStep ==
    ASSUME KernelsNear
    PROVE  LoadTyped /\ LoadCopied /\ [StartNext]_startVars => LoadCopied'
  <1> SUFFICES ASSUME LoadTyped, LoadCopied, [StartNext]_startVars PROVE LoadCopied'
    OBVIOUS
  <1>1. /\ phase \in Loading /\ phase \notin {"load_kernel", "layout"} => upper = <<>>
        /\ phase \in {"cpu", "find_kernel"} \union Found => a20
        /\ phase \in Found => ~file.dir /\ file.name = "MONK.SYS" /\ Near(file)
        /\ phase = "load_kernel" =>
               /\ \E k \in 0..file.sectors : /\ upper = Sectors(k)
                                             /\ current = (file.lba + k) % Word
               /\ last = (file.lba + file.sectors) % Word
        /\ phase = "layout" => upper = Sectors(file.sectors)
        /\ phase \in Loading => disc \in Discs
        /\ file.lba \in Nat /\ file.sectors \in Nat
    BY DEF LoadCopied, LoadTyped
  <1>2. ASSUME file' = file, a20' = a20, upper' = upper, current' = current, last' = last,
               \/ phase' = phase
               \/ phase' \notin Loading
               \/ /\ phase \in Loading \ {"load_kernel", "layout"}
                  /\ phase' \in Loading \ {"load_kernel", "layout"}
                  /\ phase' \in {"cpu", "find_kernel"} \union Found => a20
                  /\ phase' \notin Found
        PROVE  LoadCopied'
    <2>1. Found \union {"cpu", "find_kernel"} \subseteq Loading
      BY DEF Found, Loading
    <2>2. CASE phase' = phase
      BY <1>1, <1>2, <2>2 DEF LoadCopied, Sectors, Near
    <2>3. CASE phase' # phase
      <3>1. phase' # "load_kernel" /\ phase' # "layout" /\ phase' \notin Found
        BY <1>2, <2>1, <2>3 DEF Found
      <3>2. /\ phase' \in Loading => upper' = <<>>
            /\ phase' \in {"cpu", "find_kernel"} => a20'
        BY <1>1, <1>2, <2>1, <2>3
      <3> QED
        BY <3>1, <3>2 DEF LoadCopied
    <2> QED
      BY <2>2, <2>3
  <1>3. CASE Load
    <2> USE DEF Loading, Found
    <2>1. CASE ReadError
      BY <1>2, <2>1 DEF ReadError, Stop, loaderVars, driveVars, lineVars, copyVars
    <2>2. CASE ReadVolume
      <3>1. /\ phase = "volume" /\ UNCHANGED <<file, a20, upper, current, last>>
        BY <2>2 DEF ReadVolume, lineVars, copyVars
      <3>2. phase' \in {"volume", "find_loader", "stopped"}
        <4> DEFINE none == at[1] > Len(disc.volumes) \/ disc.volumes[at[1]] = "terminator"
                   here == disc.volumes[at[1]] = "primary"
        <4>1. CASE none
          BY <2>2, <3>1, <4>1 DEF ReadVolume, Stop
        <4>2. CASE ~none /\ here
          BY <2>2, <3>1, <4>2 DEF ReadVolume, Stop
        <4>3. CASE ~none /\ ~here
          BY <2>2, <3>1, <4>3 DEF ReadVolume, Stop
        <4> QED
          BY <4>1, <4>2, <4>3
      <3> QED
        BY <1>2, <3>1, <3>2
    <2>3. CASE FindLoader
      <3>1. phase' \in {"find_loader", "read_loader", "stopped"}
        BY <2>3, SearchStep DEF FindLoader
      <3>2. phase = "find_loader" /\ UNCHANGED <<a20, upper, current, last>>
        BY <2>3 DEF FindLoader, ProcessDirEntry, lineVars, copyVars
      <3>3. phase' \in Loading => upper' = <<>>
        BY <1>1, <3>2
      <3> QED
        BY <3>1, <3>3 DEF LoadCopied
    <2>4. CASE ReadLoader
      BY <1>2, <2>4 DEF ReadLoader, loaderVars, driveVars, lineVars, copyVars
    <2>5. CASE EnableA20
      <3>1. /\ phase = "a20" /\ phase' \in {"a20", "cpu", "stopped"}
            /\ UNCHANGED <<file, upper, current, last>>
            /\ phase' = "cpu" => a20'
        <4>1. CASE a20
          BY <2>5, <4>1 DEF EnableA20, lineVars, driveVars, copyVars
        <4>2. CASE ~a20 /\ tries < 3
          BY <2>5, <4>2 DEF EnableA20, driveVars, copyVars
        <4>3. CASE ~a20 /\ ~(tries < 3)
          BY <2>5, <4>3 DEF EnableA20, driveVars, copyVars, Stop
        <4> QED
          BY <4>1, <4>2, <4>3
      <3>2. phase' \in Loading => upper' = <<>>
        BY <1>1, <3>1
      <3> QED
        BY <3>1, <3>2 DEF LoadCopied
    <2>6. CASE CheckCpu
      <3>1. /\ phase = "cpu" /\ phase' \in {"find_kernel", "stopped"}
            /\ UNCHANGED <<file, a20, upper, current, last>>
        BY <2>6 DEF CheckCpu, Stop, lineVars, copyVars
      <3>2. a20
        BY <1>1, <3>1
      <3> QED
        BY <1>2, <3>1, <3>2
    <2>7. CASE FindKernel
      <3>1. /\ phase = "find_kernel" /\ UNCHANGED <<a20, upper, current, last>> /\ disc \in Discs
        BY <1>1, <2>7 DEF FindKernel, ProcessDirEntry, lineVars, copyVars
      <3>2. /\ phase' \in {"find_kernel", "kernel_found", "stopped"}
            /\ phase' = "kernel_found" =>
                   /\ ~file'.dir /\ file'.name = "MONK.SYS"
                   /\ \E s \in DOMAIN disc.root : \E i \in DOMAIN disc.root[s] :
                          file' = disc.root[s][i]
        BY <2>7, SearchStep DEF FindKernel
      <3>3. phase' = "kernel_found" => Near(file')
        BY <3>1, <3>2 DEF KernelsNear
      <3>4. a20' /\ upper' = <<>>
        BY <1>1, <3>1
      <3> QED
        BY <3>2, <3>3, <3>4 DEF LoadCopied, Near
    <2>8. CASE StartLoading
      <3>1. /\ phase = "kernel_found" /\ phase' = "load_kernel"
            /\ UNCHANGED <<file, a20, upper>>
            /\ current' = file.lba % Word /\ last' = (file.lba + file.sectors) % Word
        BY <2>8 DEF StartLoading, driveVars, lineVars
      <3>2. upper' = <<>> /\ a20' /\ ~file.dir /\ file.name = "MONK.SYS" /\ Near(file)
        BY <1>1, <3>1
      <3>3. 0 \in 0..file.sectors /\ Sectors(0) = <<>> /\ file.lba + 0 = file.lba
        <4>1. Sectors(0) = [i \in 1..0 |-> file.lba + i - 1]
          BY DEF Sectors
        <4>2. Sectors(0) = <<>>
          BY <4>1
        <4> QED
          BY <1>1, <4>2
      <3>4. \E k \in 0..file.sectors : /\ upper' = Sectors(k)
                                       /\ current' = (file.lba + k) % Word
        BY <3>1, <3>2, <3>3
      <3> QED
        BY <3>1, <3>2, <3>4 DEF LoadCopied, Near, Sectors
    <2>9. CASE LoadChunk
      <3>1. /\ phase = "load_kernel" /\ phase' \in {"load_kernel", "layout"}
            /\ UNCHANGED <<file, a20, last>>
        BY <2>9 DEF LoadChunk, driveVars, lineVars
      <3>2. /\ phase' = "load_kernel" =>
                   \E k \in 0..file.sectors : /\ upper' = Sectors(k)
                                              /\ current' = (file.lba + k) % Word
            /\ phase' = "layout" => upper' = Sectors(file.sectors)
        BY <2>9, ChunkCopied
      <3>3. /\ a20 /\ ~file.dir /\ file.name = "MONK.SYS" /\ Near(file)
            /\ last = (file.lba + file.sectors) % Word
        BY <1>1, <3>1
      <3> QED
        BY <3>1, <3>2, <3>3 DEF LoadCopied, Near, Sectors
    <2>10. ASSUME NEW q \in Layouts, ProbeMemory(q) PROVE LoadCopied'
      BY <2>10 DEF ProbeMemory, LoadCopied
    <2>11. CASE ReadZone \/ NoMoreZones
      BY <1>2, <2>11 DEF ReadZone, NoMoreZones, loaderVars, driveVars, lineVars, copyVars
    <2> QED
      BY <1>3, <2>1, <2>2, <2>3, <2>4, <2>5, <2>6, <2>7, <2>8, <2>9, <2>10, <2>11
      DEF Load, load
  <1>4. CASE ~Load
    <2>1. UNCHANGED loaderVars /\ (phase' = phase \/ phase' \notin Loading)
      BY <1>4, LoadersDone DEF StartNext
    <2> QED
      BY <1>2, <2>1 DEF loaderVars, driveVars, lineVars, copyVars
  <1> QED
    BY <1>3, <1>4

\* Whatever is on the disc and in whatever order, with a kernel that sector
\* numbers of a word reach: what the kernel is started from is its file, all
\* of it, and memory above 1 MiB is open.
THEOREM KernelCorrect ==
    ASSUME KernelsNear
    PROVE  StartSpec => []KernelLoaded
  <1>1. StartInit => LoadTyped /\ LoadCopied
    BY InitLoad
  <1>2. LoadTyped /\ LoadCopied /\ [StartNext]_startVars => LoadTyped' /\ LoadCopied'
    BY LoadTypedStep, LoadCopiedStep
  <1>3. LoadCopied => KernelLoaded
    BY DEF LoadCopied, KernelLoaded, Found, Sectors
  <1> QED
    BY <1>1, <1>2, <1>3, PTL DEF StartSpec

-----------------------------------------------------------------------------
(* ACPI's tables. *)

\* The phases before and after the firmware's tables are found.
Searching == Loading \union {"zones", "page_tables", "acpi"}
Reading   == Tables \union Building \union Running

TableNames == {"PDPT", "PDT", "PT"} \X Nat

BootTable == [tables : SUBSET TableNames, small : SUBSET Nat, guard : SUBSET GuardPages,
              large : SUBSET Nat, used : 0..BootSpare]

\* What has been read is mapped, and nothing that is bad memory is read; only
\* the page null pointers point to stays unmapped.
AcpiInv ==
    /\ btable \in BootTable
    /\ \A p \in acpi : is_mapped(p)
    /\ phase \in Searching => acpi = {}
    /\ phase \in Reading => /\ acpi \subseteq TablePages(fw)
                            /\ \A p \in Pages \intersect TablePages(fw) : mem[p] # PMEMTYPE_BAD
    /\ \A p \in Pages : mem[p] = PMEMTYPE_UNMAPPED => p = 0

LEMMA MissingFinite ==
    ASSUME NEW S \in SUBSET Pages
    PROVE  /\ Missing(S) \subseteq TableNames
           /\ IsFiniteSet(Missing(S)) /\ Cardinality(Missing(S)) \in Nat
  <1> DEFINE names == {"PDPT", "PDT", "PT"}
  <1>1. \A p \in Pages : /\ p \div TopPages \in 0..PageCount
                         /\ p \div HugePages \in 0..PageCount
                         /\ p \div LargePages \in 0..PageCount
    <2> SUFFICES ASSUME NEW p \in Pages, NEW n \in Nat \ {0} PROVE p \div n \in 0..PageCount
      BY MemoryAssumption
    <2>1. p \in Nat /\ p < PageCount /\ PageCount \in Nat
      BY Sizes
    <2>2. p \div n \in Nat /\ p \div n <= p
      BY <2>1
    <2> QED
      BY <2>1, <2>2
  <1>2. Missing(S) \subseteq names \X (0..PageCount)
    BY <1>1 DEF Missing, Pdpt, Pdt, Pt
  <1>3. IsFiniteSet(names)
    <2>1. IsFiniteSet({"PDPT"}) /\ IsFiniteSet({"PDT"}) /\ IsFiniteSet({"PT"})
      BY FS_Singleton
    <2>2. IsFiniteSet({"PDPT"} \union {"PDT"})
      BY <2>1, FS_Union
    <2>3. IsFiniteSet(({"PDPT"} \union {"PDT"}) \union {"PT"})
      BY <2>1, <2>2, FS_Union
    <2>4. ({"PDPT"} \union {"PDT"}) \union {"PT"} = names
      OBVIOUS
    <2> QED
      BY <2>3, <2>4
  <1>4. IsFiniteSet(0..PageCount)
    BY FS_Interval, Sizes
  <1>5. IsFiniteSet(names \X (0..PageCount))
    BY <1>3, <1>4, FS_Product
  <1>6. IsFiniteSet(Missing(S))
    BY <1>2, <1>5, FS_Subset
  <1>7. names \X (0..PageCount) \subseteq TableNames
    BY Sizes DEF TableNames
  <1> HIDE DEF names
  <1> QED
    BY <1>2, <1>6, <1>7, FS_CardinalityType

\* map_table maps what it lists, within the spare pages.
LEMMA MapTableFacts ==
    ASSUME btable \in BootTable, NEW S \in SUBSET Pages, mem \in [Pages -> 0..7], map_table(S)
    PROVE  /\ btable' \in BootTable
           /\ \A p \in acpi : is_mapped(p) => is_mapped(p)'
           /\ \A p \in S : is_mapped(p)'
           /\ \A p \in Pages : mem'[p] \in {mem[p], PMEMTYPE_ACPI}
  <1> DEFINE new   == {p \in S : ~is_mapped(p)}
             count == Cardinality(Missing(S))
  <1>1. /\ Missing(S) \subseteq TableNames /\ count \in Nat
        /\ btable.used + count <= BootSpare
    BY MissingFinite DEF map_table, HasRoom
  <1>2. btable' = [btable EXCEPT !.tables = @ \union Missing(S), !.small = @ \union new,
                                 !.used = @ + count]
    BY DEF map_table, map_range
  <1>3. new \subseteq Nat /\ btable.used \in 0..BootSpare /\ BootSpare \in Nat
        /\ btable.tables \subseteq TableNames /\ btable.small \subseteq Nat
    BY Sizes, AcpiAssumption DEF BootTable
  <1>4. \A p : p \in new <=> p \in S /\ ~is_mapped(p)
    OBVIOUS
  <1> HIDE DEF new, count
  <1>5. btable.used + count \in 0..BootSpare
    BY <1>1, <1>3
  <1>6. /\ btable' \in BootTable /\ btable'.small = btable.small \union new
        /\ btable'.large = btable.large
    BY <1>1, <1>2, <1>3, <1>5 DEF BootTable
  <1>7. \A p : is_mapped(p)' <=> is_mapped(p) \/ p \in new
    BY <1>6 DEF is_mapped
  <1>8. \A p \in Pages : mem'[p] = IF p \in S /\ mem[p] < PMEMTYPE_ACPI THEN PMEMTYPE_ACPI
                                   ELSE mem[p]
    BY OverlayPages DEF map_table, list, PMEMTYPE_ACPI
  <1> QED
    BY <1>4, <1>6, <1>7, <1>8

\* What the steps of the other parts have to respect.
LEMMA AcpiKept ==
    ASSUME AcpiInv, UNCHANGED <<btable, acpi>>,
           phase' \in Searching => phase \in Searching,
           phase' \in Reading => phase \in Reading /\ fw' = fw,
           \A p \in Pages : /\ mem'[p] = PMEMTYPE_BAD => mem[p] = PMEMTYPE_BAD
                            /\ mem'[p] = PMEMTYPE_UNMAPPED => p = 0 \/ mem[p] = PMEMTYPE_UNMAPPED
    PROVE  AcpiInv'
  <1>1. btable' \in BootTable /\ \A p \in acpi' : is_mapped(p)'
    BY DEF AcpiInv, is_mapped, BootTable, TableNames
  <1>2. phase' \in Searching => acpi' = {}
    BY DEF AcpiInv
  <1>3. phase' \in Reading =>
            /\ acpi' \subseteq TablePages(fw)'
            /\ \A p \in Pages \intersect TablePages(fw)' : mem'[p] # PMEMTYPE_BAD
    BY DEF AcpiInv, TablePages
  <1>4. \A p \in Pages : mem'[p] = PMEMTYPE_UNMAPPED => p = 0
    BY DEF AcpiInv
  <1> QED
    BY <1>1, <1>2, <1>3, <1>4
    DEF AcpiInv, Searching, Reading, Loading, Tables, Building, Running, Pages, BootTable,
        TableNames, PMEMTYPE_BAD, PMEMTYPE_UNMAPPED, is_mapped, TablePages

LEMMA InitAcpi == StartInit => AcpiInv
  <1> SUFFICES ASSUME StartInit PROVE AcpiInv
    OBVIOUS
  <1>1. /\ btable = NoTables /\ acpi = {} /\ phase = "volume"
        /\ mem = [p \in Pages |-> PMEMTYPE_NONE]
    BY DEF StartInit, LoaderInit, AcpiInit
  <1>2. NoTables \in BootTable
    <2>1. 0 \in 0..BootSpare
      BY AcpiAssumption
    <2> QED
      BY <2>1 DEF NoTables, BootTable
  <1>3. phase \notin Reading
    BY <1>1 DEF Reading, Tables, Building, Running
  <1> QED
    BY <1>1, <1>2, <1>3 DEF AcpiInv, PMEMTYPE_NONE, PMEMTYPE_UNMAPPED

LEMMA AcpiStep ==
    MapInv /\ TabInv /\ AcpiInv /\ [StartNext]_startVars => AcpiInv'
  <1> SUFFICES ASSUME MapInv, TabInv, AcpiInv, [StartNext]_startVars PROVE AcpiInv'
    OBVIOUS
  <1>1. mem \in [Pages -> 0..7] /\ phase \in Phases /\ MapTyped
    BY DEF MapInv, MapTyped
  <1>2. \A t \in 0..6 : \A S : mem' = Overlay(mem, S, t) =>
            \A p \in Pages : mem'[p] = PMEMTYPE_UNMAPPED => mem[p] = PMEMTYPE_UNMAPPED
    BY <1>1, OverlayPages DEF PMEMTYPE_UNMAPPED
  <1> USE DEF Searching, Reading, Loading, Tables, Building, Running
  <1>3. CASE Load
    <2>1. UNCHANGED <<btable, fw, acpi>>
      BY <1>3 DEF Load, acpiVars
    <2>2. phase \in Searching /\ phase' \in Searching \union {"stopped"}
      BY <1>3 DEF Load, load, ReadError, ReadVolume, FindLoader, ProcessDirEntry, ReadLoader,
          EnableA20, CheckCpu, FindKernel, StartLoading, LoadChunk, ProbeMemory, ReadZone,
          NoMoreZones, Stop
    <2>3. \A p \in Pages : mem'[p] = PMEMTYPE_UNMAPPED => mem[p] = PMEMTYPE_UNMAPPED
      <3>1. CASE ReadZone
        <4>1. zone + 1 \in 1..Len(report)
          BY <3>1 DEF ReadZone, MapInv, MapTyped
        <4>2. report[zone + 1] \in [pages : SUBSET Pages, type : 1..5]
          BY <4>1, ElementOfSeq DEF MapInv, MapTyped
        <4>3. report[zone + 1].type \in 0..6
          BY <4>2
        <4>4. mem' = Overlay(mem, report[zone + 1].pages, report[zone + 1].type)
          BY <3>1 DEF ReadZone, list
        <4> QED
          BY <1>2, <4>3, <4>4
      <3>2. CASE ~ReadZone
        <4>1. mem' = mem
          BY <1>3, <3>2 DEF Load, load, ReadError, ReadVolume, FindLoader, ProcessDirEntry,
              ReadLoader, EnableA20, CheckCpu, FindKernel, StartLoading, LoadChunk,
              ProbeMemory, NoMoreZones
        <4> QED
          BY <4>1
      <3> QED
        BY <3>1, <3>2
    <2>4. (\A p \in acpi : is_mapped(p))' /\ btable' \in BootTable
      BY <2>1 DEF AcpiInv, is_mapped
    <2>5. phase' \notin Reading /\ acpi' = {}
      BY <2>1, <2>2 DEF AcpiInv
    <2>6. \A p \in Pages : mem'[p] = PMEMTYPE_UNMAPPED => p = 0
      BY <2>3 DEF AcpiInv
    <2> HIDE DEF Searching, Reading
    <2> QED
      BY <2>4, <2>5, <2>6 DEF AcpiInv, Pages, PMEMTYPE_UNMAPPED, BootTable, TableNames
  <1>4. CASE LaunchKernel
    <2> DEFINE new == [tables |-> {Pdpt(0), Pdt(0), Pt(0)}, small |-> 0..(LargePages - 1),
                       guard  |-> GuardPages, large |-> LargePages..(ImageEnd - 1), used |-> 0]
    <2>1. /\ phase = "page_tables" /\ phase' = "acpi" /\ btable' = new
          /\ mem' = mem /\ acpi' = acpi
      BY <1>4 DEF LaunchKernel, SetupPageTables
    <2>2. new \in BootTable
      <3>1. 0 \div TopPages \in Nat /\ 0 \div HugePages \in Nat /\ 0 \div LargePages \in Nat
            /\ 0..(LargePages - 1) \subseteq Nat /\ LargePages..(ImageEnd - 1) \subseteq Nat
            /\ 0 \in 0..BootSpare
        BY MemoryAssumption, AcpiAssumption
      <3>2. {Pdpt(0), Pdt(0), Pt(0)} \subseteq TableNames
        BY <3>1 DEF Pdpt, Pdt, Pt, TableNames
      <3> QED
        BY <3>1, <3>2 DEF BootTable
    <2> HIDE DEF new
    <2>3. acpi' = {}
      BY <2>1 DEF AcpiInv
    <2>4. \A p \in Pages : mem'[p] = PMEMTYPE_UNMAPPED => p = 0
      BY <2>1 DEF AcpiInv
    <2> QED
      BY <2>1, <2>2, <2>3, <2>4 DEF AcpiInv, Pages, PMEMTYPE_UNMAPPED, BootTable, TableNames
  <1>5. CASE ReadAcpi
    <2>1. ASSUME NEW S \in SUBSET Pages, S \subseteq TablePages(fw), phase \in Tables,
                 phase' \in Tables, map_table(S), fw' = fw
          PROVE  AcpiInv'
      <3>1. /\ btable' \in BootTable
            /\ \A p \in acpi : is_mapped(p) => is_mapped(p)'
            /\ \A p \in S : is_mapped(p)'
            /\ \A p \in Pages : mem'[p] \in {mem[p], PMEMTYPE_ACPI}
        BY <1>1, <2>1, MapTableFacts DEF AcpiInv
      <3>2. acpi' = acpi \union S
        BY <2>1 DEF map_table
      <3>3. \A p \in acpi' : is_mapped(p)'
        BY <3>1, <3>2 DEF AcpiInv
      <3>4. acpi' \subseteq TablePages(fw)
        BY <2>1, <3>2 DEF AcpiInv
      <3>5. \A p \in Pages : /\ mem'[p] = PMEMTYPE_UNMAPPED => p = 0
                             /\ p \in TablePages(fw) => mem'[p] # PMEMTYPE_BAD
        BY <2>1, <3>1 DEF AcpiInv, PMEMTYPE_UNMAPPED, PMEMTYPE_BAD, PMEMTYPE_ACPI
      <3>6. TablePages(fw)' = TablePages(fw)
        BY <2>1 DEF TablePages
      <3>7. phase' \notin Searching
        BY <2>1
      <3> HIDE DEF Searching, Reading
      <3> QED
        BY <3>1, <3>3, <3>4, <3>5, <3>6, <3>7
        DEF AcpiInv, Pages, PMEMTYPE_UNMAPPED, PMEMTYPE_BAD, BootTable, TableNames
    <2>2. ASSUME NEW f \in Firmwares, FindRsdp(f) PROVE AcpiInv'
      <3>1. /\ phase = "acpi" /\ phase' = "acpi_root" /\ fw' = f
            /\ \A p \in TablePages(f) : mem[p] # PMEMTYPE_BAD
            /\ mem' = mem /\ btable' = btable /\ acpi' = acpi
        BY <2>2 DEF FindRsdp
      <3>2. acpi = {}
        BY <3>1 DEF AcpiInv
      <3>3. TablePages(fw)' = TablePages(f)
        BY <3>1 DEF TablePages
      <3>4. btable' \in BootTable /\ \A p \in Pages : mem'[p] = PMEMTYPE_UNMAPPED => p = 0
        BY <3>1 DEF AcpiInv
      <3> QED
        BY <3>1, <3>2, <3>3, <3>4
        DEF AcpiInv, Pages, PMEMTYPE_UNMAPPED, PMEMTYPE_BAD, BootTable, TableNames
    <2>3. CASE FindNoRsdp \/ NoRoot \/ TableTooMany
      BY <2>3, AcpiKept DEF FindNoRsdp, NoRoot, TableTooMany, Exhausted, Stop
    <2>4. CASE ReadRoot
      <3>1. phase = "acpi_root" /\ phase' = "acpi_tables" /\ map_table(Root) /\ fw' = fw
        BY <2>4 DEF ReadRoot
      <3>2. fw \in Firmwares
        BY <3>1 DEF MapInv, TakenListed
      <3>3. Root \subseteq Pages /\ Root \subseteq TablePages(fw)
        BY <3>2, AcpiAssumption DEF Root, TablePages
      <3> QED
        BY <2>1, <3>1, <3>3
    <2>5. CASE ReadTable
      <3>1. phase = "acpi_tables" /\ phase' = "acpi_tables" /\ map_table(fw.tables[tab])
            /\ fw' = fw /\ tab <= Len(fw.tables)
        BY <2>5 DEF ReadTable
      <3>2. fw \in Firmwares /\ tab \in Nat \ {0}
        BY <3>1 DEF MapInv, TakenListed, TabInv
      <3>3. tab \in DOMAIN fw.tables /\ fw.tables[tab] \subseteq Pages
        BY <3>1, <3>2, TableIsPages
      <3>4. fw.tables[tab] \subseteq TablePages(fw)
        BY <3>3 DEF TablePages
      <3> QED
        BY <2>1, <3>1, <3>3, <3>4
    <2>6. CASE ReserveApics
      <3>1. /\ phase = "acpi_tables" /\ phase' = "pmap_init" /\ fw' = fw
            /\ UNCHANGED <<btable, acpi>> /\ mem' = Overlay(mem, fw.apics, PMEMTYPE_UNCACHED)
        BY <2>6 DEF ReserveApics, list
      <3>2. Raised(mem, mem')
        BY <1>1, <3>1, OverlayRaises DEF PMEMTYPE_UNCACHED
      <3>3. \A p \in Pages : mem'[p] = PMEMTYPE_UNMAPPED => mem[p] = PMEMTYPE_UNMAPPED
        BY <1>2, <3>1 DEF PMEMTYPE_UNCACHED
      <3> QED
        BY <3>1, <3>2, <3>3, AcpiKept DEF Raised
    <2> QED
      BY <1>5, <2>2, <2>3, <2>4, <2>5, <2>6 DEF ReadAcpi, acpi_init
  <1>6. CASE pmap_init
    <2>1. /\ phase = "pmap_init" /\ phase' = "page_init" /\ fw' = fw
          /\ UNCHANGED <<btable, acpi>>
      BY <1>6 DEF pmap_init, acpiVars
    <2>2. /\ Raised(mem, mem')
          /\ \A p \in Pages : mem'[p] = PMEMTYPE_UNMAPPED => p = 0 \/ mem[p] = PMEMTYPE_UNMAPPED
      BY <1>1, <1>6, PmapRaises
    <2> QED
      BY <2>1, <2>2, AcpiKept DEF Raised
  <1>7. CASE ReserveDb
    <2> DEFINE new == Overlay(mem, reserve_region, PMEMTYPE_RESERVED)
    <2>1. /\ phase = "page_init" /\ phase' = "kmem" /\ fw' = fw
          /\ UNCHANGED <<btable, acpi>> /\ mem' = Filled(new)
      BY <1>7 DEF ReserveDb, acpiVars, pmap_add
    <2>2. /\ new \in [Pages -> 0..7] /\ Raised(mem, new)
          /\ \A p \in Pages : new[p] \in {mem[p], PMEMTYPE_RESERVED}
      BY <1>1, OverlayPages, OverlayRaises DEF PMEMTYPE_RESERVED
    <2> HIDE DEF new
    <2>3. Raised(new, mem') /\ \A p \in Pages : mem'[p] \in {new[p], PMEMTYPE_RESERVED}
      BY <2>1, <2>2, FilledRaises DEF Filled
    <2>4. Raised(mem, mem')
      BY <1>1, <2>2, <2>3, RaisedTwice
    <2>5. \A p \in Pages : mem'[p] = PMEMTYPE_UNMAPPED => mem[p] = PMEMTYPE_UNMAPPED
      BY <2>2, <2>3 DEF PMEMTYPE_UNMAPPED, PMEMTYPE_RESERVED
    <2> QED
      BY <2>1, <2>4, <2>5, AcpiKept DEF Raised
  <1>8. CASE NoMemory \/ Activate \/ AddFrames \/ UsePool
    <2>1. /\ UNCHANGED <<btable, acpi>> /\ fw' = fw /\ mem' = mem
          /\ phase \in Reading /\ phase' \in Running \union {"stopped"}
      BY <1>8 DEF NoMemory, Activate, AddFrames, UsePool, acpiVars, Stop
    <2> QED
      BY <2>1, AcpiKept
  <1>9. CASE BuildKernelTable
    <2>1. /\ UNCHANGED <<btable, acpi>> /\ fw' = fw /\ mem' = mem
          /\ phase \in Reading /\ phase' \in Building \union {"stopped"}
      BY <1>9 DEF BuildKernelTable, kmem_init, SkipRegion, MapPage, OutOfTables, MapDone,
          Mapping, Stop, acpiVars
    <2> QED
      BY <2>1, AcpiKept
  <1>10. CASE UNCHANGED startVars
    <2>1. UNCHANGED <<btable, acpi>> /\ fw' = fw /\ mem' = mem /\ phase' = phase
      BY <1>10 DEF startVars, acpiVars
    <2> QED
      BY <2>1, AcpiKept
  <1> QED
    BY <1>3, <1>4, <1>5, <1>6, <1>7, <1>8, <1>9, <1>10 DEF StartNext

LEMMA TablesAreReachable ==
    ASSUME TablesClear, MapInv, TableInv, AcpiInv
    PROVE  TablesReachable
  <1> SUFFICES ASSUME NEW p \in acpi
               PROVE  /\ phase \in Running => IsMapped(p)
                      /\ phase # "stopped" => is_mapped(p) /\ p \notin btable.guard
    BY DEF TablesReachable, Running
  <1>1. /\ p \in Pages /\ mem[p] \in 0..7 /\ mem[p] >= PMEMTYPE_ACPI
        /\ is_mapped(p) /\ btable.guard \subseteq GuardPages
        /\ phase \in Searching \union Reading \union {"stopped"} /\ phase \notin Searching
    BY DEF MapInv, MapTyped, TakenListed, AcpiInv, BootTable, Phases, Searching, Reading,
           Reported
  <1>2. ASSUME phase \in Reading PROVE p \notin btable.guard /\ p # 0 /\ mem[p] # PMEMTYPE_BAD
    <2>1. fw \in Firmwares /\ p \in TablePages(fw)
      BY <1>2 DEF MapInv, TakenListed, AcpiInv, Reading
    <2> QED
      BY <1>1, <1>2, <2>1 DEF TablesClear, AcpiInv
  <1>3. ASSUME phase \in Running PROVE IsMapped(p)
    <2>1. phase \in Reading /\ phase \in After
      BY <1>3 DEF Reading, After
    <2>2. mem[p] # PMEMTYPE_UNMAPPED
      BY <1>1, <1>2, <2>1 DEF AcpiInv
    <2>3. Mappable(p)
      BY <1>1, <1>2, <2>1, <2>2
      DEF Mappable, PMEMTYPE_NONE, PMEMTYPE_RESERVED, PMEMTYPE_ACPI
    <2>4. p \in 0..(addr - 1)
      BY <1>1, <2>1, Sizes DEF TableInv
    <2>5. \E l \in leaves : Covers(l, p)
      BY <2>3, <2>4 DEF TableInv, KmemInv, LeavesMap
    <2> QED
      BY <2>5 DEF IsMapped, LeavesOf, Covers
  <1> QED
    BY <1>1, <1>2, <1>3

StartInv == CoreInv /\ LoadTyped /\ AcpiInv

LEMMA StartInvHolds ==
    /\ StartInit => StartInv
    /\ StartInv /\ [StartNext]_startVars => StartInv'
  <1>1. StartInit => StartInv
    BY InitCore, InitLoad, InitAcpi DEF StartInv
  <1>2. StartInv /\ [StartNext]_startVars => StartInv'
    BY CoreStep, LoadTypedStep, AcpiStep DEF StartInv, CoreInv
  <1> QED
    BY <1>1, <1>2

\* The kernel reads each table of ACPI through the boot page table while it
\* has that one, and through its own afterwards, whatever tables the firmware
\* has, and none of them through a guard page.
THEOREM ReachableCorrect ==
    ASSUME TablesClear
    PROVE  StartSpec => []TablesReachable
  <1>1. StartInit => StartInv
    BY StartInvHolds
  <1>2. StartInv /\ [StartNext]_startVars => StartInv'
    BY StartInvHolds
  <1>3. StartInv => TablesReachable
    BY TablesAreReachable DEF StartInv, CoreInv
  <1> QED
    BY <1>1, <1>2, <1>3, PTL DEF StartSpec

\* Every variable of the start-up keeps to its type: the zones and sector
\* numbers to their bounds, the boot page table to its spare pages and the
\* kernel's to the room it has.
THEOREM StartTypeCorrect == StartSpec => []StartTypeOK
  <1>1. StartInit => StartInv
    BY StartInvHolds
  <1>2. StartInv /\ [StartNext]_startVars => StartInv'
    BY StartInvHolds
  <1>3. StartInv => StartTypeOK
    <2> SUFFICES ASSUME StartInv PROVE StartTypeOK
      OBVIOUS
    <2>1. MapInv /\ PoolInv /\ TableInv /\ LoadTyped /\ AcpiInv
      BY DEF StartInv, CoreInv
    <2>2. TypeOK
      BY <2>1, IInvImpliesTypeOK DEF PoolInv
    <2>3. mem \in [Pages -> 0..7] /\ acpi \subseteq Pages /\ db \subseteq Pages
      BY <2>1 DEF MapInv, MapTyped, TakenListed
    <2>4. /\ zone \in 0..MaxZones /\ tries \in 0..3
          /\ current \in 0..(Word - 1) /\ last \in 0..(Word - 1)
      BY <2>1 DEF LoadTyped
    <2>5. btable.used \in 0..BootSpare
      BY <2>1 DEF AcpiInv, BootTable
    <2>6. Cardinality(ktables) <= KernelTablePages /\ addr \in 0..PageCount
      BY <2>1 DEF TableInv, KmemInv, TablesNeeded
    <2> QED
      BY <2>2, <2>3, <2>4, <2>5, <2>6 DEF StartTypeOK
  <1> QED
    BY <1>1, <1>2, <1>3, PTL DEF StartSpec
================================================================================
