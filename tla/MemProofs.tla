----------------------------- MODULE MemProofs -----------------------------
(***************************************************************************)
(* Proofs about the two ways of giving out memory, page tables and heaps.  *)
(*                                                                         *)
(* Page tables: the client's pages reach the frames they were given, no    *)
(* frame in use is in the pool, the processor keeps no translation of the  *)
(* past, and destroying a table returns the client's pages.                *)
(*                                                                         *)
(* The heap: its blocks tile it, the list of free blocks is in order, and  *)
(* what the client holds is as it was left.                                *)
(***************************************************************************)
EXTENDS Paging, Heap, FiniteSetTheorems, SequenceTheorems, WellFoundedInduction, TLAPS

-----------------------------------------------------------------------------
(* Addresses. *)

\* The pages that neither the kernel's entry of the root nor nothing covers.
Pages == (E * E * E)..(E * E * E * E - 1)

\* Multiplication keeps the order.
LEMMA TimesKeeps ==
    \A m, a, b \in Nat : a <= b => m * a <= m * b
  OBVIOUS

\* Division with a remainder.
LEMMA Division ==
    ASSUME NEW v \in Nat, NEW m \in Nat \ {0}
    PROVE  v \div m \in Nat /\ v % m \in 0..(m - 1) /\ v = m * (v \div m) + (v % m)
  OBVIOUS

\* Only the quotient leaves a remainder smaller than the divisor.
LEMMA Quotient ==
    ASSUME NEW m \in Nat \ {0}, NEW q \in Nat, NEW k \in 0..(m - 1), NEW v \in Nat,
           v = m * q + k
    PROVE  v \div m = q
  <1> DEFINE p == v \div m
             s == v % m
  <1>1. p \in Nat /\ s \in 0..(m - 1) /\ v = m * p + s  BY Division
  <1> HIDE DEF p, s
  <1>2. CASE p < q
    <2>1. m * (p + 1) <= m * q  BY <1>1, <1>2, TimesKeeps
    <2>2. m * (p + 1) = m * p + m  BY <1>1
    <2>3. m * p \in Nat /\ m * q \in Nat  BY <1>1
    <2>. QED  BY <1>1, <2>1, <2>2, <2>3
  <1>3. CASE q < p
    <2>1. m * (q + 1) <= m * p  BY <1>1, <1>3, TimesKeeps
    <2>2. m * (q + 1) = m * q + m  OBVIOUS
    <2>3. m * p \in Nat /\ m * q \in Nat  BY <1>1
    <2>. QED  BY <1>1, <2>1, <2>2, <2>3
  <1>. QED  BY <1>1, <1>2, <1>3 DEF p

\* Dividing by a product is dividing twice.
LEMMA TwoDivisions ==
    ASSUME NEW v \in Nat, NEW a \in Nat \ {0}, NEW b \in Nat \ {0}
    PROVE  v \div (a * b) = (v \div a) \div b
  <1> DEFINE q == v \div a
             r == v % a
             p == q \div b
             s == q % b
             k == a * s + r
  <1>1. q \in Nat /\ r \in 0..(a - 1) /\ v = a * q + r  BY Division
  <1>2. p \in Nat /\ s \in 0..(b - 1) /\ q = b * p + s  BY <1>1, Division
  <1> HIDE DEF q, r, p, s
  <1>3. a * b \in Nat \ {0}  OBVIOUS
  <1>4. k \in 0..(a * b - 1)
    <2>1. a * s <= a * (b - 1)  BY <1>2, TimesKeeps
    <2>2. a * (b - 1) = a * b - a  OBVIOUS
    <2>3. a * s \in Nat  BY <1>2
    <2>. QED  BY <1>1, <1>3, <2>1, <2>2, <2>3
  <1>5. v = (a * b) * p + k
    <2>1. a * q = a * (b * p) + a * s  BY <1>2
    <2>2. a * (b * p) = (a * b) * p  BY <1>2
    <2>. QED  BY <1>1, <1>2, <2>1, <2>2
  <1> HIDE DEF k
  <1>. QED  BY <1>2, <1>3, <1>4, <1>5, Quotient DEF p, q

\* The indices of a page, and that they tell pages apart.
LEMMA Indices ==
    \A v \in Pages : /\ v \in Nat /\ PML4E(v) \in Index \ {0}
                     /\ PDPTE(v) \in Index /\ PDE(v) \in Index /\ PTE(v) \in Index
  <1> SUFFICES ASSUME NEW v \in Pages
      PROVE  /\ v \in Nat /\ PML4E(v) \in Index \ {0}
             /\ PDPTE(v) \in Index /\ PDE(v) \in Index /\ PTE(v) \in Index
    OBVIOUS
  <1> DEFINE N == E * E * E
             p == v \div N
  <1>1. E \in Nat \ {0}  BY PagingAssumption
  <1>2. E * E \in Nat \ {0} /\ N \in Nat \ {0}
    <2>1. E * E \in Nat \ {0}  BY <1>1
    <2>. QED  BY <1>1, <2>1
  <1>3. v \in Nat /\ N <= v /\ v < N * E  BY <1>1, <1>2 DEF Pages
  <1> HIDE DEF N
  <1>4. p \in Nat /\ v % N \in 0..(N - 1) /\ v = N * p + (v % N)  BY <1>2, <1>3, Division
  <1> HIDE DEF p
  <1>5. p # 0  BY <1>2, <1>3, <1>4
  <1>6. p < E
    <2>1. CASE E <= p
      <3>1. N * E <= N * p  BY <1>1, <1>2, <1>4, <2>1, TimesKeeps
      <3>2. N * E \in Nat /\ N * p \in Nat  BY <1>1, <1>2, <1>4
      <3>. QED  BY <1>3, <1>4, <3>1, <3>2
    <2>. QED  BY <1>1, <1>4, <2>1
  <1>7. \A x \in Nat : x % E \in 0..(E - 1)  BY <1>1
  <1>8. v \div (E * E) \in Nat /\ v \div E \in Nat  BY <1>1, <1>2, <1>3, Division
  <1>9. PML4E(v) \in Index \ {0}  BY <1>1, <1>4, <1>5, <1>6 DEF PML4E, N, p, Index
  <1>. QED  BY <1>3, <1>7, <1>8, <1>9 DEF PDPTE, PDE, PTE, Index

\* The four indices tell pages apart.
LEMMA SamePage ==
    ASSUME NEW u \in Pages, NEW v \in Pages, PML4E(u) = PML4E(v),
           PDPTE(u) = PDPTE(v), PDE(u) = PDE(v), PTE(u) = PTE(v)
    PROVE  u = v
  <1>1. E \in Nat \ {0} /\ E * E \in Nat \ {0} /\ u \in Nat /\ v \in Nat
    BY PagingAssumption, Indices
  <1> DEFINE One(x) == x \div E
             Two(x) == One(x) \div E
  <1>2. ASSUME NEW x \in Nat
        PROVE  /\ One(x) \in Nat /\ Two(x) \in Nat /\ Two(x) = x \div (E * E)
               /\ PML4E(x) \in Nat /\ PML4E(x) = Two(x) \div E
               /\ PDPTE(x) = Two(x) % E /\ PDE(x) = One(x) % E
    <2>1. One(x) \in Nat  BY <1>1, Division
    <2>2. Two(x) \in Nat  BY <1>1, <2>1, Division
    <2>3. Two(x) = x \div (E * E)  BY <1>1, TwoDivisions
    <2>4. x \div (E * E * E) = (x \div (E * E)) \div E  BY <1>1, TwoDivisions
    <2>5. (x \div (E * E)) \div E \in Nat  BY <1>1, <2>2, <2>3, Division
    <2>. QED  BY <2>1, <2>2, <2>3, <2>4, <2>5 DEF PML4E, PDPTE, PDE
  <1> HIDE DEF Two
  <1>3. Two(u) = Two(v)
    <2>1. /\ Two(u) = E * (Two(u) \div E) + (Two(u) % E)
          /\ Two(v) = E * (Two(v) \div E) + (Two(v) % E)
      BY <1>1, <1>2, Division
    <2>. QED  BY <1>1, <1>2, <2>1
  <1>4. One(u) = One(v)
    <2>1. /\ One(u) = E * (One(u) \div E) + (One(u) % E)
          /\ One(v) = E * (One(v) \div E) + (One(v) % E)
      BY <1>1, <1>2, Division
    <2>2. One(u) \div E = One(v) \div E  BY <1>3 DEF Two
    <2>3. One(u) % E = One(v) % E  BY DEF PDE
    <2> HIDE DEF One
    <2>. QED  BY <2>1, <2>2, <2>3
  <1>5. u = E * (u \div E) + (u % E) /\ v = E * (v \div E) + (v % E)  BY <1>1, Division
  <1>. QED  BY <1>4, <1>5 DEF PTE

-----------------------------------------------------------------------------
(* The tree, L[n] its tables at depth n: L[0] is the root, the entries of   *)
(* L[3] lead to pages.  t is what the frames hold, h the frames held, C the *)
(* frames the client has.                                                   *)

Depth == 0..3

Holds == [Frames -> [Index -> Frames \union {ABSENT, SYSTEM}]]

IsTree(t, r, L) ==
    /\ L \in [Depth -> SUBSET Frames]
    /\ L[0] = {r}
    /\ \A n \in 0..2 : L[n + 1] = Below(t, L[n])

\* The tables below the root.
Made(L) == L[1] \union L[2] \union L[3]

\* No frame serves at two depths, and none in two places.
Apart(L) == \A m, n \in Depth : m # n => L[m] \intersect L[n] = {}

OneParent(t, L) ==
    \A n \in 0..2 : \A f, g \in L[n] : \A i, j \in Index :
        t[f][i] \in Frames /\ t[f][i] = t[g][j] => f = g /\ i = j

\* The first entry of the root, and no other, is the kernel's.
SystemAt(t, r, L) ==
    /\ t[r][0] = SYSTEM
    /\ \A n \in Depth : \A f \in L[n] : \A i \in Index :
           t[f][i] = SYSTEM => f = r /\ i = 0

\* The tree maps the client's frames, each once, and tables.
LeavesAre(t, L, C) ==
    \A f \in L[3] : \A i \in Index : t[f][i] \in {ABSENT} \union C \union Made(L)

OneLeaf(t, L, C) ==
    \A f, g \in L[3] : \A i, j \in Index :
        t[f][i] \in C /\ t[f][i] = t[g][j] => f = g /\ i = j

Owned(h, L, C) ==
    /\ C \subseteq h
    /\ \A n \in Depth : L[n] \subseteq h /\ L[n] \intersect C = {}

Sound(t, h, r, L, C) ==
    /\ t \in Holds /\ h \subseteq Frames
    /\ IsTree(t, r, L) /\ Apart(L) /\ OneParent(t, L) /\ SystemAt(t, r, L)
    /\ LeavesAre(t, L, C) /\ OneLeaf(t, L, C) /\ Owned(h, L, C)

\* What is below tables that hold the same is the same.
LEMMA BelowSame ==
    ASSUME NEW t, NEW u, NEW S, \A f \in S : u[f] = t[f]
    PROVE  Below(u, S) = Below(t, S)
  BY DEF Below

\* An entry that was absent leads to one frame more.
LEMMA BelowMore ==
    ASSUME NEW t \in Holds, NEW u \in Holds, NEW S \in SUBSET Frames, NEW p \in S,
           NEW i \in Index, NEW f \in Frames, t[p][i] = ABSENT,
           u[p] = [t[p] EXCEPT ![i] = f],
           \A g \in S : g # p => u[g] = t[g]
    PROVE  Below(u, S) = Below(t, S) \union {f}
  <1>1. f # ABSENT /\ f # SYSTEM  BY PagingAssumption DEF ABSENT, SYSTEM
  <1>2. u[p][i] = f /\ \A j \in Index : j # i => u[p][j] = t[p][j]
    BY DEF Holds
  <1>3. ASSUME NEW x \in Below(u, S)  PROVE x \in Below(t, S) \union {f}
    <2>1. PICK g \in S, j \in Index : x = u[g][j]  BY <1>3 DEF Below
    <2>2. x # ABSENT /\ x # SYSTEM  BY <1>3 DEF Below
    <2>3. CASE g = p /\ j = i  BY <1>2, <2>1, <2>3
    <2>4. CASE ~(g = p /\ j = i)
      <3>1. u[g][j] = t[g][j]  BY <1>2, <2>4
      <3>. QED  BY <2>1, <2>2, <3>1 DEF Below
    <2>. QED  BY <2>3, <2>4
  <1>4. ASSUME NEW x \in Below(t, S)  PROVE x \in Below(u, S)
    <2>1. PICK g \in S, j \in Index : x = t[g][j]  BY <1>4 DEF Below
    <2>2. x # ABSENT /\ x # SYSTEM  BY <1>4 DEF Below
    <2>3. ~(g = p /\ j = i)  BY <2>1, <2>2
    <2>4. u[g][j] = t[g][j]  BY <1>2, <2>3
    <2>. QED  BY <2>1, <2>2, <2>4 DEF Below
  <1>5. f \in Below(u, S)  BY <1>1, <1>2 DEF Below
  <1>. QED  BY <1>3, <1>4, <1>5

\* A table without entries leads nowhere.
LEMMA BelowZero ==
    ASSUME NEW u, NEW S, NEW f, u[f] = ZeroPage
    PROVE  Below(u, S \union {f}) = Below(u, S)
  <1>1. \A j \in Index : u[f][j] = ABSENT  BY DEF ZeroPage
  <1>. QED  BY <1>1 DEF Below

\* The depths are a function of the tree.
Depths(t, r) ==
    LET p1 == Below(t, {r})
        p2 == Below(t, p1)
    IN  [n \in Depth |-> IF n = 0 THEN {r} ELSE IF n = 1 THEN p1
                         ELSE IF n = 2 THEN p2 ELSE Below(t, p2)]

\* A tree has one sequence of depths.
LEMMA DepthsAre ==
    ASSUME NEW t, NEW r, NEW L, IsTree(t, r, L)
    PROVE  Depths(t, r) = L
  <1>1. L[0] = {r} /\ L[1] = Below(t, {r})
    <2>1. 0 \in 0..2 /\ 0 + 1 = 1  OBVIOUS
    <2>. QED  BY <2>1 DEF IsTree
  <1>2. L[2] = Below(t, L[1])
    <2>1. 1 \in 0..2 /\ 1 + 1 = 2  OBVIOUS
    <2>. QED  BY <2>1 DEF IsTree
  <1>3. L[3] = Below(t, L[2])
    <2>1. 2 \in 0..2 /\ 2 + 1 = 3  OBVIOUS
    <2>. QED  BY <2>1 DEF IsTree
  <1>4. L = [n \in Depth |-> L[n]]  BY DEF IsTree
  <1>5. \A n \in Depth : Depths(t, r)[n] = L[n]
    <2>1. \A n \in Depth : n = 0 \/ n = 1 \/ n = 2 \/ n = 3  BY DEF Depth
    <2>. QED  BY <1>1, <1>2, <1>3, <2>1 DEF Depths
  <1>6. Depths(t, r) = [n \in Depth |-> Depths(t, r)[n]]  BY DEF Depths
  <1>. QED  BY <1>4, <1>5, <1>6

-----------------------------------------------------------------------------
(* Growth. *)

\* From the tree L in t to M in u only new frames join, no entry that led
\* somewhere changes, and no page is mapped.
Grown(t, h, L, u, k, M) ==
    /\ h \subseteq k
    /\ \A n \in Depth : L[n] \subseteq M[n] /\ M[n] \subseteq L[n] \union (k \ h)
    /\ \A n \in Depth : \A g \in L[n] : \A j \in Index :
           t[g][j] # ABSENT => u[g][j] = t[g][j]
    /\ \A g \in M[3] : \A j \in Index :
           u[g][j] = ABSENT \/ (g \in L[3] /\ u[g][j] = t[g][j])

\* Growth adds up.
LEMMA GrownAgain ==
    ASSUME NEW t, NEW h, NEW L, NEW u, NEW k, NEW M, NEW v, NEW l, NEW N,
           Grown(t, h, L, u, k, M), Grown(u, k, M, v, l, N)
    PROVE  Grown(t, h, L, v, l, N)
  <1>1. h \subseteq l  BY DEF Grown
  <1>2. \A n \in Depth : L[n] \subseteq N[n] /\ N[n] \subseteq L[n] \union (l \ h)
    BY DEF Grown
  <1>3. ASSUME NEW n \in Depth, NEW g \in L[n], NEW j \in Index, t[g][j] # ABSENT
        PROVE  v[g][j] = t[g][j]
    <2>1. u[g][j] = t[g][j] /\ g \in M[n]  BY <1>3 DEF Grown
    <2>. QED  BY <1>3, <2>1 DEF Grown
  <1>4. ASSUME NEW g \in N[3], NEW j \in Index
        PROVE  v[g][j] = ABSENT \/ (g \in L[3] /\ v[g][j] = t[g][j])
    <2>1. v[g][j] = ABSENT \/ (g \in M[3] /\ v[g][j] = u[g][j])  BY DEF Grown
    <2>2. g \in M[3] => u[g][j] = ABSENT \/ (g \in L[3] /\ u[g][j] = t[g][j])
      BY DEF Grown
    <2>. QED  BY <2>1, <2>2
  <1>. QED  BY <1>1, <1>2, <1>3, <1>4 DEF Grown

\* A tree that stayed has grown by nothing.
LEMMA NotGrown ==
    ASSUME NEW t, NEW h, NEW L  PROVE Grown(t, h, L, t, h, L)
  BY DEF Grown

\* Entry i of table p, at depth n, leads to the new table f.
NewTable(t, L, n, p, i, f, u, M) ==
    /\ u = [[t EXCEPT ![f] = ZeroPage] EXCEPT ![p][i] = f]
    /\ M = [L EXCEPT ![n + 1] = L[n + 1] \union {f}]

\* A new table keeps the tree sound.
LEMMA Grow ==
    ASSUME NEW t, NEW h, NEW r, NEW L, NEW C, Sound(t, h, r, L, C),
           NEW n \in 0..2, NEW p \in L[n], NEW i \in Index, t[p][i] = ABSENT,
           NEW f \in Frames \ h, NEW u, NEW M,
           NewTable(t, L, n, p, i, f, u, M)
    PROVE  /\ Sound(u, h \union {f}, r, M, C)
           /\ Grown(t, h, L, u, h \union {f}, M)
           /\ u[p][i] = f
  <1> DEFINE k == h \union {f}
             d == n + 1
  <1>1. /\ t \in Holds /\ h \subseteq Frames /\ C \subseteq h
        /\ L \in [Depth -> SUBSET Frames] /\ L[0] = {r}
        /\ \A m \in Depth : L[m] \subseteq h /\ L[m] \intersect C = {}
    BY DEF Sound, IsTree, Owned
  <1>2. /\ n \in Depth /\ d \in Depth /\ d # n /\ d # 0 /\ 0 \in Depth /\ 3 \in Depth
        /\ \A m \in 0..2 : m \in Depth /\ m + 1 \in Depth
    BY DEF Depth
  <1>3. /\ p \in Frames /\ p # f /\ f \in Frames /\ f \notin C /\ r \in Frames /\ r # f
        /\ \A m \in Depth : f \notin L[m]
    BY <1>1, <1>2
  <1>4. f # ABSENT /\ f # SYSTEM /\ ABSENT # SYSTEM
    BY <1>3, PagingAssumption DEF ABSENT, SYSTEM
  <1>5. /\ u[p] = [t[p] EXCEPT ![i] = f] /\ u[f] = ZeroPage
        /\ \A g \in Frames : g # p /\ g # f => u[g] = t[g]
    BY <1>1, <1>3 DEF Holds, NewTable
  <1>6. u \in Holds
    <2>1. ZeroPage \in [Index -> Frames \union {ABSENT, SYSTEM}]  BY DEF ZeroPage
    <2>2. [t EXCEPT ![f] = ZeroPage] \in Holds  BY <1>1, <1>3, <2>1 DEF Holds
    <2>. QED  BY <1>3, <2>2 DEF Holds, NewTable
  <1>7. /\ \A j \in Index : u[f][j] = ABSENT
        /\ u[p][i] = f
        /\ \A j \in Index : j # i => u[p][j] = t[p][j]
        /\ \A g \in Frames : \A j \in Index :
               g # f /\ ~(g = p /\ j = i) => u[g][j] = t[g][j]
    <2>1. \A j \in Index : u[f][j] = ABSENT  BY <1>5 DEF ZeroPage
    <2>2. u[p][i] = f /\ \A j \in Index : j # i => u[p][j] = t[p][j]
      BY <1>1, <1>3, <1>5 DEF Holds
    <2>. QED  BY <1>5, <2>1, <2>2
  <1>8. /\ M \in [Depth -> SUBSET Frames] /\ M[d] = L[d] \union {f}
        /\ \A m \in Depth : m # d => M[m] = L[m]
    BY <1>1, <1>2, <1>3 DEF NewTable
  <1> HIDE DEF d
  <1>9. \A m \in Depth : \A g \in M[m] : g = f \/ (g \in L[m] /\ g # f /\ g \in Frames)
    BY <1>1, <1>2, <1>3, <1>8
  <1>10. IsTree(u, r, M)
    <2>1. ASSUME NEW m \in 0..2  PROVE M[m + 1] = Below(u, M[m])
      <3>1. L[m + 1] = Below(t, L[m]) /\ m \in Depth /\ m + 1 \in Depth
        BY <1>2 DEF Sound, IsTree
      <3>2. CASE m = n
        <4>1. M[m] = L[m] /\ M[m + 1] = L[m + 1] \union {f}
          BY <1>2, <1>8, <3>2 DEF d
        <4>2. L[m] \in SUBSET Frames /\ p \in L[m]  BY <1>1, <3>1, <3>2
        <4>3. \A g \in L[m] : g # p => u[g] = t[g]  BY <1>3, <1>5, <3>1, <4>2
        <4>4. Below(u, L[m]) = Below(t, L[m]) \union {f}
          BY <1>1, <1>3, <1>5, <1>6, <4>2, <4>3, BelowMore
        <4>. QED  BY <3>1, <4>1, <4>4
      <3>3. CASE m # n
        <4>1. M[m + 1] = L[m + 1]  BY <1>8, <3>1, <3>3 DEF d
        <4>2. p \notin L[m]
          <5>1. L[m] \intersect L[n] = {}  BY <1>2, <3>1, <3>3 DEF Sound, Apart
          <5>. QED  BY <5>1
        <4>3. \A g \in L[m] : u[g] = t[g]  BY <1>1, <1>3, <1>5, <3>1, <4>2
        <4>4. Below(u, L[m]) = Below(t, L[m])  BY <4>3, BelowSame
        <4>5. M[m] = L[m] \/ M[m] = L[m] \union {f}  BY <1>8, <3>1
        <4>6. Below(u, L[m] \union {f}) = Below(u, L[m])  BY <1>5, BelowZero
        <4>. QED  BY <3>1, <4>1, <4>4, <4>5, <4>6
      <3>. QED  BY <3>2, <3>3
    <2>. QED  BY <1>1, <1>2, <1>8, <2>1 DEF IsTree
  <1>11. Apart(M)
    <2> SUFFICES ASSUME NEW m \in Depth, NEW q \in Depth, m # q
                 PROVE  M[m] \intersect M[q] = {}
      BY DEF Apart
    <2>1. L[m] \intersect L[q] = {}  BY DEF Sound, Apart
    <2>. QED  BY <1>3, <1>8, <2>1
  <1>12. OneParent(u, M)
    <2> SUFFICES ASSUME NEW m \in 0..2, NEW g \in M[m], NEW e \in M[m],
                        NEW j \in Index, NEW l \in Index,
                        u[g][j] \in Frames, u[g][j] = u[e][l]
                 PROVE  g = e /\ j = l
      BY DEF OneParent
    <2>0. m \in Depth /\ m + 1 \in Depth  BY <1>2
    <2>1. u[g][j] # ABSENT /\ u[g][j] # SYSTEM
      BY PagingAssumption DEF ABSENT, SYSTEM
    <2>2. g # f /\ e # f  BY <1>7, <2>1
    <2>3. g \in L[m] /\ e \in L[m] /\ g \in Frames /\ e \in Frames  BY <1>9, <2>0, <2>2
    <2>4. ASSUME NEW x \in L[m], NEW y \in Index, t[x][y] = f  PROVE FALSE
      <3>1. f \in Below(t, L[m])  BY <1>4, <2>4 DEF Below
      <3>2. f \in L[m + 1]  BY <3>1 DEF Sound, IsTree
      <3>. QED  BY <1>3, <2>0, <3>2
    <2>5. CASE g = p /\ j = i
      <3>1. u[e][l] = f  BY <1>7, <2>5
      <3>2. CASE e = p /\ l = i  BY <2>5, <3>2
      <3>3. CASE ~(e = p /\ l = i)
        <4>1. t[e][l] = f  BY <1>7, <2>2, <2>3, <3>1, <3>3
        <4>. QED  BY <2>3, <2>4, <4>1
      <3>. QED  BY <3>2, <3>3
    <2>6. CASE ~(g = p /\ j = i)
      <3>1. u[g][j] = t[g][j]  BY <1>7, <2>2, <2>3, <2>6
      <3>2. CASE e = p /\ l = i
        <4>1. t[g][j] = f  BY <1>7, <3>1, <3>2
        <4>. QED  BY <2>3, <2>4, <4>1
      <3>3. CASE ~(e = p /\ l = i)
        <4>1. u[e][l] = t[e][l]  BY <1>7, <2>2, <2>3, <3>3
        <4>2. t[g][j] \in Frames /\ t[g][j] = t[e][l]  BY <3>1, <4>1
        <4>3. OneParent(t, L)  BY DEF Sound
        <4>. QED  BY <2>3, <4>2, <4>3, Zenon DEF OneParent
      <3>. QED  BY <3>2, <3>3
    <2>. QED  BY <2>5, <2>6
  <1>13. SystemAt(u, r, M)
    <2>1. t[r][0] = SYSTEM  BY DEF Sound, SystemAt
    <2>2. 0 \in Index  BY PagingAssumption DEF Index
    <2>3. ~(r = p /\ 0 = i)  BY <1>4, <2>1
    <2>4. u[r][0] = SYSTEM  BY <1>3, <1>7, <2>1, <2>2, <2>3
    <2>5. ASSUME NEW m \in Depth, NEW g \in M[m], NEW j \in Index, u[g][j] = SYSTEM
          PROVE  g = r /\ j = 0
      <3>1. g # f  BY <1>4, <1>7, <2>5
      <3>2. g \in L[m] /\ g \in Frames  BY <1>9, <3>1
      <3>3. ~(g = p /\ j = i)  BY <1>4, <1>7, <2>5
      <3>4. t[g][j] = SYSTEM  BY <1>7, <2>5, <3>1, <3>2, <3>3
      <3>. QED  BY <3>2, <3>4 DEF Sound, SystemAt
    <2>. QED  BY <2>4, <2>5 DEF SystemAt
  <1>14. ASSUME NEW g \in M[3], NEW j \in Index
         PROVE  u[g][j] = ABSENT \/ (g \in L[3] /\ u[g][j] = t[g][j])
    <2>1. CASE g = f  BY <1>7, <2>1
    <2>2. CASE g # f
      <3>1. g \in L[3] /\ g \in Frames  BY <1>2, <1>9, <2>2
      <3>2. L[3] \intersect L[n] = {}
        <4>1. 3 # n  OBVIOUS
        <4>. QED  BY <1>2, <4>1 DEF Sound, Apart
      <3>3. g # p  BY <3>1, <3>2
      <3>. QED  BY <1>7, <2>2, <3>1, <3>3
    <2>. QED  BY <2>1, <2>2
  <1>15. LeavesAre(u, M, C)
    <2>1. Made(L) \subseteq Made(M)
      <3>1. 1 \in Depth /\ 2 \in Depth  BY DEF Depth
      <3>2. \A m \in Depth : L[m] \subseteq M[m]  BY <1>8
      <3>. QED  BY <1>2, <3>1, <3>2 DEF Made
    <2>2. \A g \in L[3] : \A j \in Index : t[g][j] \in {ABSENT} \union C \union Made(L)
      BY DEF Sound, LeavesAre
    <2>. QED  BY <1>14, <2>1, <2>2 DEF LeavesAre
  <1>16. OneLeaf(u, M, C)
    <2> SUFFICES ASSUME NEW g \in M[3], NEW e \in M[3], NEW j \in Index, NEW l \in Index,
                        u[g][j] \in C, u[g][j] = u[e][l]
                 PROVE  g = e /\ j = l
      BY DEF OneLeaf
    <2>1. u[g][j] # ABSENT  BY <1>1, PagingAssumption DEF ABSENT
    <2>2. /\ g \in L[3] /\ u[g][j] = t[g][j]
          /\ e \in L[3] /\ u[e][l] = t[e][l]
      BY <1>14, <2>1
    <2>3. t[g][j] \in C /\ t[g][j] = t[e][l]  BY <2>2
    <2>4. OneLeaf(t, L, C)  BY DEF Sound
    <2>5. g \in L[3] /\ e \in L[3]  BY <2>2
    <2>6. t[g][j] \in C /\ t[g][j] = t[e][l] => g = e /\ j = l
      BY <2>4, <2>5, ZenonT(60) DEF OneLeaf
    <2>. QED  BY <2>3, <2>6
  <1>17. Owned(k, M, C)
    <2>1. ASSUME NEW m \in Depth  PROVE M[m] \subseteq k /\ M[m] \intersect C = {}
      BY <1>1, <1>3, <1>8, <1>9
    <2>. QED  BY <1>1, <2>1 DEF Owned
  <1>18. Sound(u, k, r, M, C)
    <2>1. k \subseteq Frames  BY <1>1, <1>3
    <2>. QED
      BY <1>6, <1>10, <1>11, <1>12, <1>13, <1>15, <1>16, <1>17, <2>1 DEF Sound
  <1>19. Grown(t, h, L, u, k, M)
    <2>1. \A m \in Depth : L[m] \subseteq M[m] /\ M[m] \subseteq L[m] \union (k \ h)
      BY <1>3, <1>8
    <2>2. ASSUME NEW m \in Depth, NEW g \in L[m], NEW j \in Index, t[g][j] # ABSENT
          PROVE  u[g][j] = t[g][j]
      <3>1. g \in Frames /\ g # f  BY <1>1, <1>3
      <3>2. ~(g = p /\ j = i)  BY <2>2
      <3>. QED  BY <1>7, <3>1, <3>2
    <2>. QED  BY <1>14, <2>1, <2>2 DEF Grown
  <1>. QED  BY <1>7, <1>18, <1>19

-----------------------------------------------------------------------------
(* The walk down the tree. *)

Distinct(q) == \A k, l \in 1..Len(q) : q[k] = q[l] => k = l

Elements(q) == {q[k] : k \in 1..Len(q)}

\* A frame joins the added ones.
LEMMA OneMore ==
    ASSUME NEW S, NEW q \in Seq(S), NEW x \in S, Distinct(q), x \notin Elements(q)
    PROVE  /\ Append(q, x) \in Seq(S) /\ Distinct(Append(q, x))
           /\ Elements(Append(q, x)) = Elements(q) \union {x}
  <1> DEFINE a == Append(q, x)
             m == Len(q)
  <1>1. /\ a \in Seq(S) /\ Len(a) = m + 1 /\ m \in Nat /\ a[m + 1] = x
        /\ \A k \in 1..m : a[k] = q[k]
    OBVIOUS
  <1> HIDE DEF a, m
  <1>2. \A k \in 1..(m + 1) : k \in 1..m \/ k = m + 1  BY <1>1
  <1>3. \A k \in 1..m : q[k] # x  BY DEF Elements, m
  <1>4. \A k, l \in 1..m : q[k] = q[l] => k = l  BY DEF Distinct, m
  <1>5. Distinct(a)
    <2> SUFFICES ASSUME NEW k \in 1..(m + 1), NEW l \in 1..(m + 1)
                 PROVE  a[k] = a[l] => k = l
      BY <1>1 DEF Distinct
    <2>1. CASE k \in 1..m /\ l \in 1..m  BY <1>1, <1>4, <2>1
    <2>2. CASE k \in 1..m /\ l = m + 1  BY <1>1, <1>3, <2>2
    <2>3. CASE k = m + 1 /\ l \in 1..m  BY <1>1, <1>3, <2>3
    <2>4. CASE k = m + 1 /\ l = m + 1  BY <2>4
    <2>. QED  BY <1>2, <2>1, <2>2, <2>3, <2>4
  <1>6. Elements(a) = Elements(q) \union {x}
    <2>1. \A k \in 1..m : k \in 1..(m + 1)  BY <1>1
    <2>2. m + 1 \in 1..(m + 1)  BY <1>1
    <2>3. Elements(a) = {a[k] : k \in 1..(m + 1)}  BY <1>1 DEF Elements
    <2>4. Elements(q) = {q[k] : k \in 1..m}  BY DEF Elements, m
    <2>. QED  BY <1>1, <1>2, <2>1, <2>2, <2>3, <2>4
  <1>. QED  BY <1>1, <1>5, <1>6 DEF a

\* The pool's frames, and at least n of them free.
Pooled(s, n) ==
    /\ s \in [tab : Holds, free : SUBSET Frames, held : SUBSET Frames]
    /\ s.free \intersect s.held = {} /\ s.free \union s.held = Frames
    /\ Cardinality(s.free) >= n

\* A frame comes out of the pool, zeroed.
LEMMA Allocated ==
    ASSUME NEW s, NEW n \in Nat, Pooled(s, n + 1)
    PROVE  LET f == pfalloc(s.free) IN
           /\ f \in s.free /\ f \in Frames \ s.held
           /\ pgalloc(s).tab = [s.tab EXCEPT ![f] = ZeroPage]
           /\ pgalloc(s).held = s.held \union {f}
           /\ pgalloc(s).free = s.free \ {f}
           /\ Pooled(pgalloc(s), n)
  <1> DEFINE f == pfalloc(s.free)
  <1>1. /\ s.free \subseteq Frames /\ s.held \subseteq Frames /\ s.tab \in Holds
        /\ s.free \intersect s.held = {} /\ s.free \union s.held = Frames
        /\ Cardinality(s.free) >= n + 1
    BY DEF Pooled
  <1>2. IsFiniteSet(s.free)  BY <1>1, PagingAssumption, FS_Subset
  <1>3. s.free # {}
    <2>1. CASE s.free = {}
      <3>1. Cardinality(s.free) = 0  BY <2>1, FS_EmptySet
      <3>. QED  BY <1>1, <3>1
    <2>. QED  BY <2>1
  <1>4. f \in s.free  BY <1>3 DEF pfalloc
  <1>5. f \in Frames \ s.held  BY <1>1, <1>4
  <1>6. /\ pgalloc(s).tab = [s.tab EXCEPT ![f] = ZeroPage]
        /\ pgalloc(s).held = s.held \union {f}
        /\ pgalloc(s).free = s.free \ {f}
        /\ pgalloc(s) = [tab |-> pgalloc(s).tab, free |-> pgalloc(s).free,
                         held |-> pgalloc(s).held]
    BY DEF pgalloc
  <1>7. Cardinality(s.free \ {f}) >= n
    <2>1. /\ Cardinality(s.free) \in Nat
          /\ Cardinality(s.free \ {f}) = Cardinality(s.free) - 1
      BY <1>2, <1>4, FS_RemoveElement, FS_CardinalityType
    <2>. QED  BY <1>1, <2>1
  <1> HIDE DEF f
  <1>8. [s.tab EXCEPT ![f] = ZeroPage] \in Holds
    <2>1. ZeroPage \in [Index -> Frames \union {ABSENT, SYSTEM}]  BY DEF ZeroPage
    <2>. QED  BY <1>1, <1>5, <2>1 DEF Holds
  <1>9. Pooled(pgalloc(s), n)
    <2>1. pgalloc(s) \in [tab : Holds, free : SUBSET Frames, held : SUBSET Frames]
      <3>1. /\ pgalloc(s).tab \in Holds /\ pgalloc(s).free \in SUBSET Frames
            /\ pgalloc(s).held \in SUBSET Frames
        BY <1>1, <1>5, <1>6, <1>8
      <3>. QED  BY <1>6, <3>1
    <2>2. /\ pgalloc(s).free \intersect pgalloc(s).held = {}
          /\ pgalloc(s).free \union pgalloc(s).held = Frames
      BY <1>1, <1>4, <1>6
    <2>. QED  BY <1>6, <1>7, <2>1, <2>2 DEF Pooled
  <1>. QED  BY <1>4, <1>5, <1>6, <1>9 DEF f

\* A walk that began in s, with the tree L, came to a table at depth n of
\* the tree M, and added what M has more; m frames are free at least.
Walked(s, L, r, C, w, n, M, m) ==
    /\ Pooled(w.s, m)
    /\ Sound(w.s.tab, w.s.held, r, M, C)
    /\ Grown(s.tab, s.held, L, w.s.tab, w.s.held, M)
    /\ w.t \in M[n]
    /\ w.added \in Seq(Frames) /\ Distinct(w.added)
    /\ Elements(w.added) = Made(M) \ Made(L)

\* One step from w to x, through entry i, from the tree M to the tree N.
Stepped(w, M, i, x, N) ==
    /\ Grown(w.s.tab, w.s.held, M, x.s.tab, x.s.held, N)
    /\ x.s.tab[w.t][i] = x.t

\* A pool that has many frames has few.
LEMMA PoolLess ==
    ASSUME NEW s, NEW n \in Nat, NEW m \in Nat, Pooled(s, n), m <= n
    PROVE  Pooled(s, m)
  <1>1. IsFiniteSet(s.free)  BY PagingAssumption, FS_Subset DEF Pooled
  <1>2. Cardinality(s.free) \in Nat  BY <1>1, FS_CardinalityType
  <1>. QED  BY <1>2 DEF Pooled

\* A step where the table is there.
LEMMA StepThere ==
    ASSUME NEW s, NEW L, NEW r, NEW C, NEW w, NEW n \in 0..2, NEW M, NEW m \in Nat,
           Walked(s, L, r, C, w, n, M, m + 1), NEW i \in Index, n = 0 => i # 0,
           w.s.tab[w.t][i] # ABSENT
    PROVE  /\ Walked(s, L, r, C, Step(w, i), n + 1, M, m)
           /\ Stepped(w, M, i, Step(w, i), M)
  <1> DEFINE x == Step(w, i)
             t == w.s.tab
  <1>1. x = [s |-> w.s, t |-> t[w.t][i], added |-> w.added]  BY DEF Step
  <1>2. x.s = w.s /\ x.added = w.added  BY <1>1
  <1>3. /\ w.t \in M[n] /\ IsTree(t, r, M) /\ SystemAt(t, r, M) /\ Apart(M)
        /\ t \in Holds
    BY DEF Walked, Sound
  <1>4. t[w.t][i] # SYSTEM
    <2>1. n \in Depth /\ 0 \in Depth  BY DEF Depth
    <2>2. t[w.t][i] = SYSTEM => w.t = r /\ i = 0  BY <1>3, <2>1 DEF SystemAt
    <2>3. w.t = r => n = 0
      <3>1. M[0] = {r}  BY <1>3 DEF IsTree
      <3>2. n # 0 => M[n] \intersect M[0] = {}  BY <1>3, <2>1 DEF Apart
      <3>. QED  BY <1>3, <3>1, <3>2
    <2>. QED  BY <2>2, <2>3
  <1>5. t[w.t][i] \in M[n + 1]
    <2>1. t[w.t][i] \in Below(t, M[n])  BY <1>3, <1>4 DEF Below
    <2>. QED  BY <1>3, <2>1 DEF IsTree
  <1>6. x.t = t[w.t][i]  BY <1>1
  <1>7. Pooled(x.s, m)
    <2>1. Pooled(w.s, m + 1)  BY DEF Walked
    <2>. QED  BY <1>2, <2>1, PoolLess
  <1> HIDE DEF x
  <1>8. Walked(s, L, r, C, x, n + 1, M, m)  BY <1>2, <1>5, <1>6, <1>7 DEF Walked
  <1>9. Stepped(w, M, i, x, M)  BY <1>2, <1>6, NotGrown DEF Stepped
  <1>. QED  BY <1>8, <1>9 DEF x

\* A step that makes the table.
LEMMA StepNew ==
    ASSUME NEW s, NEW L, NEW r, NEW C, NEW w, NEW n \in 0..2, NEW M, NEW m \in Nat,
           Walked(s, L, r, C, w, n, M, m + 1), NEW i \in Index,
           w.s.tab[w.t][i] = ABSENT
    PROVE  \E N : /\ Walked(s, L, r, C, Step(w, i), n + 1, N, m)
                  /\ Stepped(w, M, i, Step(w, i), N)
  <1> DEFINE x == Step(w, i)
             t == w.s.tab
             h == w.s.held
             f == pfalloc(w.s.free)
             u == x.s.tab
             N == [M EXCEPT ![n + 1] = M[n + 1] \union {f}]
             g == pgalloc(w.s)
  <1>1. /\ Pooled(w.s, m + 1) /\ Sound(t, h, r, M, C) /\ w.t \in M[n]
        /\ Grown(s.tab, s.held, L, t, h, M)
        /\ w.added \in Seq(Frames) /\ Distinct(w.added)
        /\ Elements(w.added) = Made(M) \ Made(L)
    BY DEF Walked
  <1>2. /\ f \in w.s.free /\ f \in Frames \ h
        /\ g.tab = [t EXCEPT ![f] = ZeroPage] /\ g.held = h \union {f}
        /\ g.free = w.s.free \ {f} /\ Pooled(g, m)
    BY <1>1, Allocated
  <1>3. /\ x.s = Enter(g, w.t, i, f) /\ x.t = f /\ x.added = Append(w.added, f)
    BY DEF Step
  <1>4. g = [tab |-> g.tab, free |-> g.free, held |-> g.held]  BY DEF pgalloc
  <1> HIDE DEF g, f
  <1>5. x.s = [tab |-> [g.tab EXCEPT ![w.t][i] = f], free |-> g.free, held |-> g.held]
    BY <1>3, <1>4 DEF Enter
  <1>6. /\ u = [[t EXCEPT ![f] = ZeroPage] EXCEPT ![w.t][i] = f]
        /\ x.s.free = g.free /\ x.s.held = h \union {f}
    BY <1>2, <1>5
  <1> HIDE DEF x
  <1>7. NewTable(t, M, n, w.t, i, f, u, N)  BY <1>6 DEF NewTable
  <1> HIDE DEF u, N
  <1>8. /\ Sound(u, h \union {f}, r, N, C)
        /\ Grown(t, h, M, u, h \union {f}, N)
        /\ u[w.t][i] = f
    <2> DEFINE p == w.t
    <2>1. t[p][i] = ABSENT /\ p \in M[n]  BY <1>1
    <2>2. NewTable(t, M, n, p, i, f, u, N)  BY <1>7
    <2>3. Sound(t, h, r, M, C) /\ f \in Frames \ h  BY <1>1, <1>2
    <2> HIDE DEF t, h, p
    <2>4. /\ Sound(u, h \union {f}, r, N, C)
          /\ Grown(t, h, M, u, h \union {f}, N)
          /\ u[p][i] = f
      BY <2>1, <2>2, <2>3, Grow
    <2>. QED  BY <2>4 DEF p
  <1>9. Pooled(x.s, m)
    <2>1. x.s \in [tab : Holds, free : SUBSET Frames, held : SUBSET Frames]
      <3>1. u \in Holds  BY <1>8 DEF Sound
      <3>2. g.free \in SUBSET Frames /\ g.held \in SUBSET Frames  BY <1>2 DEF Pooled
      <3>3. x.s = [tab |-> u, free |-> g.free, held |-> g.held]  BY <1>5 DEF u
      <3>. QED  BY <3>1, <3>2, <3>3
    <2>2. x.s.free = g.free /\ x.s.held = g.held  BY <1>2, <1>6
    <2>. QED  BY <1>2, <2>1, <2>2 DEF Pooled
  <1>10. Grown(s.tab, s.held, L, u, h \union {f}, N)  BY <1>1, <1>8, GrownAgain
  <1>11. /\ n + 1 \in Depth /\ M \in [Depth -> SUBSET Frames]
         /\ \A d \in Depth : f \notin M[d]
         /\ L[1] \subseteq M[1] /\ L[2] \subseteq M[2] /\ L[3] \subseteq M[3]
         /\ n + 1 \in {1, 2, 3}
    <2>1. M \in [Depth -> SUBSET Frames]  BY <1>1 DEF Sound, IsTree
    <2>2. \A d \in Depth : M[d] \subseteq h  BY <1>1 DEF Sound, Owned
    <2>3. \A d \in Depth : L[d] \subseteq M[d]  BY <1>1 DEF Grown
    <2>4. 1 \in Depth /\ 2 \in Depth /\ 3 \in Depth  BY DEF Depth
    <2>. QED  BY <1>2, <2>1, <2>2, <2>3, <2>4 DEF Depth
  <1>12. /\ N[n + 1] = M[n + 1] \union {f}
         /\ \A d \in Depth : d # n + 1 => N[d] = M[d]
    BY <1>11 DEF N
  <1>13. Made(N) = Made(M) \union {f} /\ f \notin Made(M) /\ Made(L) \subseteq Made(M)
    <2>1. 1 \in Depth /\ 2 \in Depth /\ 3 \in Depth  BY DEF Depth
    <2>2. f \notin Made(M) /\ Made(L) \subseteq Made(M)  BY <1>11, <2>1 DEF Made
    <2> DEFINE d == n + 1
    <2>3. /\ d \in {1, 2, 3} /\ N[d] = M[d] \union {f}
          /\ \A e \in Depth : e # d => N[e] = M[e]
      BY <1>11, <1>12
    <2> HIDE DEF d
    <2>4. CASE d = 1
      <3>1. N[1] = M[1] \union {f}  BY <2>3, <2>4
      <3>2. N[2] = M[2]  BY <2>1, <2>3, <2>4
      <3>3. N[3] = M[3]  BY <2>1, <2>3, <2>4
      <3>4. Made(N) = Made(M) \union {f}  BY <3>1, <3>2, <3>3 DEF Made
      <3>. QED  BY <2>2, <3>4
    <2>5. CASE d = 2
      <3>1. N[2] = M[2] \union {f}  BY <2>3, <2>5
      <3>2. N[1] = M[1]  BY <2>1, <2>3, <2>5
      <3>3. N[3] = M[3]  BY <2>1, <2>3, <2>5
      <3>4. Made(N) = Made(M) \union {f}  BY <3>1, <3>2, <3>3 DEF Made
      <3>. QED  BY <2>2, <3>4
    <2>6. CASE d = 3
      <3>1. N[3] = M[3] \union {f}  BY <2>3, <2>6
      <3>2. N[1] = M[1]  BY <2>1, <2>3, <2>6
      <3>3. N[2] = M[2]  BY <2>1, <2>3, <2>6
      <3>4. Made(N) = Made(M) \union {f}  BY <3>1, <3>2, <3>3 DEF Made
      <3>. QED  BY <2>2, <3>4
    <2>. QED  BY <2>2, <2>3, <2>4, <2>5, <2>6
  <1>14. /\ x.added \in Seq(Frames) /\ Distinct(x.added)
         /\ Elements(x.added) = Made(N) \ Made(L)
    <2>1. f \notin Elements(w.added)  BY <1>1, <1>13
    <2>2. /\ x.added \in Seq(Frames) /\ Distinct(x.added)
          /\ Elements(x.added) = Elements(w.added) \union {f}
      <3>1. f \in Frames  BY <1>2
      <3>. QED  BY <1>1, <1>3, <2>1, <3>1, OneMore
    <2>. QED  BY <1>1, <1>13, <2>2
  <1>15. x.t \in N[n + 1]  BY <1>3, <1>12
  <1>16. Walked(s, L, r, C, x, n + 1, N, m)
    BY <1>6, <1>8, <1>9, <1>10, <1>14, <1>15 DEF Walked, u
  <1>17. Stepped(w, M, i, x, N)  BY <1>3, <1>6, <1>8 DEF Stepped, u
  <1>. QED  BY <1>16, <1>17 DEF x

\* What the frames of the tree lead to on the way to page v.
At(t, r, L, v, c) ==
    /\ c \in L[3]
    /\ \E a \in L[1], b \in L[2] :
           t[r][PML4E(v)] = a /\ t[a][PDPTE(v)] = b /\ t[b][PDE(v)] = c

\* A page that has a table keeps it.
LEMMA AtGrown ==
    ASSUME NEW t, NEW h, NEW r, NEW L, NEW C, NEW u, NEW k, NEW M, NEW v \in Pages, NEW c,
           Sound(t, h, r, L, C), Grown(t, h, L, u, k, M), At(t, r, L, v, c)
    PROVE  At(u, r, M, v, c)
  <1>1. PICK a \in L[1], b \in L[2] :
            t[r][PML4E(v)] = a /\ t[a][PDPTE(v)] = b /\ t[b][PDE(v)] = c
    BY DEF At
  <1>2. /\ 0 \in Depth /\ 1 \in Depth /\ 2 \in Depth /\ 3 \in Depth  BY DEF Depth
  <1>3. /\ a \in M[1] /\ b \in M[2] /\ c \in L[3] /\ c \in M[3]
    BY <1>1, <1>2 DEF At, Grown
  <1>4. a # ABSENT /\ b # ABSENT /\ c # ABSENT /\ r \in L[0]
    BY <1>2, <1>3, PagingAssumption DEF Sound, IsTree, ABSENT
  <1>5. PML4E(v) \in Index /\ PDPTE(v) \in Index /\ PDE(v) \in Index  BY Indices
  <1>6. u[r][PML4E(v)] = a  BY <1>1, <1>2, <1>4, <1>5 DEF Grown
  <1>7. u[a][PDPTE(v)] = b  BY <1>1, <1>2, <1>4, <1>5 DEF Grown
  <1>8. u[b][PDE(v)] = c  BY <1>1, <1>2, <1>4, <1>5 DEF Grown
  <1>. QED  BY <1>3, <1>6, <1>7, <1>8 DEF At

\* A step of the way down, whichever.
LEMMA StepOn ==
    ASSUME NEW s, NEW L, NEW r, NEW C, NEW w, NEW n \in 0..2, NEW M, NEW m \in Nat,
           Walked(s, L, r, C, w, n, M, m + 1), NEW i \in Index, n = 0 => i # 0
    PROVE  \E N : /\ Walked(s, L, r, C, Step(w, i), n + 1, N, m)
                  /\ Stepped(w, M, i, Step(w, i), N)
  <1>1. CASE w.s.tab[w.t][i] = ABSENT  BY <1>1, StepNew
  <1>2. CASE w.s.tab[w.t][i] # ABSENT
    <2>1. /\ Walked(s, L, r, C, Step(w, i), n + 1, M, m)
          /\ Stepped(w, M, i, Step(w, i), M)
      BY <1>2, StepThere
    <2>. QED  BY <2>1
  <1>. QED  BY <1>1, <1>2

\* What is met on the way is not absent, and is where it was when the tree
\* has grown.
LEMMA StillThere ==
    ASSUME NEW t, NEW h, NEW L, NEW u, NEW k, NEW M, Grown(t, h, L, u, k, M),
           NEW n \in Depth, NEW g \in L[n], NEW j \in Index, NEW e \in Frames, t[g][j] = e
    PROVE  u[g][j] = e /\ g \in M[n]
  <1>1. e # ABSENT  BY PagingAssumption DEF ABSENT
  <1>. QED  BY <1>1 DEF Grown

\* The way down to the table of page v.
LEMMA Descent ==
    ASSUME NEW s, NEW r, NEW L, NEW C, NEW v \in Pages,
           Pooled(s, 3), Sound(s.tab, s.held, r, L, C)
    PROVE  \E M : /\ Walked(s, L, r, C, Descend(s, r, v), 3, M, 0)
                  /\ At(Descend(s, r, v).s.tab, r, M, v, Descend(s, r, v).t)
  <1> DEFINE w0 == [s |-> s, t |-> r, added |-> <<>>]
             w1 == Step(w0, PML4E(v))
             w2 == Step(w1, PDPTE(v))
             w3 == Step(w2, PDE(v))
  <1>1. Descend(s, r, v) = w3  BY DEF Descend
  <1>2. /\ PML4E(v) \in Index /\ PML4E(v) # 0 /\ PDPTE(v) \in Index /\ PDE(v) \in Index
    BY Indices
  <1>3. Walked(s, L, r, C, w0, 0, L, 2 + 1)
    <2>1. w0.s = s /\ w0.t = r /\ w0.added = <<>>  OBVIOUS
    <2>2. r \in L[0]  BY DEF Sound, IsTree
    <2>3. <<>> \in Seq(Frames) /\ Distinct(<<>>) /\ Elements(<<>>) = {}
      BY DEF Distinct, Elements
    <2>4. Made(L) \ Made(L) = {}  OBVIOUS
    <2>5. Pooled(s, 2 + 1)  OBVIOUS
    <2> HIDE DEF w0
    <2>. QED  BY <2>1, <2>2, <2>3, <2>4, <2>5, NotGrown DEF Walked
  <1> HIDE DEF w0
  <1>4. PICK M1 : Walked(s, L, r, C, w1, 0 + 1, M1, 2) /\ Stepped(w0, L, PML4E(v), w1, M1)
    <2>1. 0 \in 0..2 /\ 2 \in Nat  OBVIOUS
    <2>. QED  BY <1>2, <1>3, <2>1, StepOn
  <1>5. w0.t = r  BY DEF w0
  <1> HIDE DEF w1
  <1>6. Walked(s, L, r, C, w1, 1, M1, 1 + 1)
    <2>1. 0 + 1 = 1 /\ 1 + 1 = 2  OBVIOUS
    <2>. QED  BY <1>4, <2>1
  <1>7. PICK M2 : Walked(s, L, r, C, w2, 1 + 1, M2, 1) /\ Stepped(w1, M1, PDPTE(v), w2, M2)
    <2>1. 1 \in 0..2 /\ 1 \in Nat /\ 1 # 0  OBVIOUS
    <2>. QED  BY <1>2, <1>6, <2>1, StepOn
  <1> HIDE DEF w2
  <1>8. Walked(s, L, r, C, w2, 2, M2, 0 + 1)
    <2>1. 0 + 1 = 1 /\ 1 + 1 = 2  OBVIOUS
    <2>. QED  BY <1>7, <2>1
  <1>9. PICK M3 : Walked(s, L, r, C, w3, 2 + 1, M3, 0) /\ Stepped(w2, M2, PDE(v), w3, M3)
    <2>1. 2 \in 0..2 /\ 0 \in Nat /\ 2 # 0  OBVIOUS
    <2>. QED  BY <1>2, <1>8, <2>1, StepOn
  <1> HIDE DEF w3
  <1>10. Walked(s, L, r, C, w3, 3, M3, 0)
    <2>1. 2 + 1 = 3  OBVIOUS
    <2>. QED  BY <1>9, <2>1
  <1>11. /\ 0 \in Depth /\ 1 \in Depth /\ 2 \in Depth /\ 3 \in Depth  BY DEF Depth
  <1>12. /\ M1 \in [Depth -> SUBSET Frames] /\ M2 \in [Depth -> SUBSET Frames]
         /\ M3 \in [Depth -> SUBSET Frames] /\ M1[0] = {r}
    BY <1>6, <1>8, <1>10 DEF Walked, Sound, IsTree
  <1>13. /\ w1.t \in M1[1] /\ w2.t \in M2[2] /\ w3.t \in M3[3]
         /\ w1.t \in Frames /\ w2.t \in Frames /\ r \in M1[0]
    <2>1. w1.t \in M1[1] /\ w2.t \in M2[2] /\ w3.t \in M3[3]
      BY <1>6, <1>8, <1>10 DEF Walked
    <2>. QED  BY <1>11, <1>12, <2>1
  <1>14. w1.s.tab[r][PML4E(v)] = w1.t  BY <1>4, <1>5 DEF Stepped
  <1>15. w2.s.tab[w1.t][PDPTE(v)] = w2.t  BY <1>7 DEF Stepped
  <1>16. w3.s.tab[w2.t][PDE(v)] = w3.t  BY <1>9 DEF Stepped
  <1>17. /\ Grown(w1.s.tab, w1.s.held, M1, w2.s.tab, w2.s.held, M2)
         /\ Grown(w2.s.tab, w2.s.held, M2, w3.s.tab, w3.s.held, M3)
    BY <1>7, <1>9 DEF Stepped
  <1>18. w2.s.tab[r][PML4E(v)] = w1.t /\ r \in M2[0]
    BY <1>2, <1>11, <1>13, <1>14, <1>17, StillThere
  <1>19. w3.s.tab[r][PML4E(v)] = w1.t
    BY <1>2, <1>11, <1>13, <1>17, <1>18, StillThere
  <1>20. w1.t \in M2[1] /\ w1.t \in M3[1] /\ w2.t \in M3[2]
    BY <1>11, <1>13, <1>17 DEF Grown
  <1>21. w3.s.tab[w1.t][PDPTE(v)] = w2.t
    BY <1>2, <1>11, <1>13, <1>15, <1>17, <1>20, StillThere
  <1>22. At(w3.s.tab, r, M3, v, w3.t)
    BY <1>13, <1>16, <1>19, <1>20, <1>21 DEF At
  <1>. QED  BY <1>1, <1>10, <1>22

-----------------------------------------------------------------------------
(* The entries that lead to pages. *)

\* The walk of the hardware, and of page_free, comes to the same table.
LEMMA AtLeads ==
    ASSUME NEW t, NEW r, NEW L, NEW v, NEW c, At(t, r, L, v, c)
    PROVE  /\ c \in L[3]
           /\ t[t[t[r][PML4E(v)]][PDPTE(v)]][PDE(v)] = c
           /\ Leaf(t, r, v) = t[c][PTE(v)]
  BY DEF At, Leaf

\* Two pages with the same table and the same entry are one.
LEMMA AtOne ==
    ASSUME NEW t, NEW h, NEW r, NEW L, NEW C, Sound(t, h, r, L, C),
           NEW u \in Pages, NEW v \in Pages, NEW c, At(t, r, L, u, c), At(t, r, L, v, c),
           PTE(u) = PTE(v)
    PROVE  u = v
  <1>1. PICK a \in L[1], b \in L[2] :
            t[r][PML4E(u)] = a /\ t[a][PDPTE(u)] = b /\ t[b][PDE(u)] = c
    BY DEF At
  <1>2. PICK d \in L[1], e \in L[2] :
            t[r][PML4E(v)] = d /\ t[d][PDPTE(v)] = e /\ t[e][PDE(v)] = c
    BY DEF At
  <1>3. /\ OneParent(t, L) /\ c \in Frames /\ a \in Frames /\ b \in Frames /\ r \in L[0]
    <2>1. 1 \in Depth /\ 2 \in Depth /\ 3 \in Depth /\ 0 \in Depth  BY DEF Depth
    <2>. QED  BY <1>1, <2>1 DEF Sound, IsTree, At
  <1>4. /\ PML4E(u) \in Index /\ PDPTE(u) \in Index /\ PDE(u) \in Index
        /\ PML4E(v) \in Index /\ PDPTE(v) \in Index /\ PDE(v) \in Index
    BY Indices
  <1>5. 0 \in 0..2 /\ 1 \in 0..2 /\ 2 \in 0..2  OBVIOUS
  <1>6. b = e /\ PDE(u) = PDE(v)
    <2>1. t[b][PDE(u)] \in Frames /\ t[b][PDE(u)] = t[e][PDE(v)]  BY <1>1, <1>2, <1>3
    <2>2. \A f, g \in L[2] : \A i, j \in Index :
              t[f][i] \in Frames /\ t[f][i] = t[g][j] => f = g /\ i = j
      BY <1>3, <1>5 DEF OneParent
    <2>3. b \in L[2] /\ e \in L[2]  OBVIOUS
    <2>. QED  BY <1>4, <2>1, <2>2, <2>3, Zenon
  <1>7. a = d /\ PDPTE(u) = PDPTE(v)
    <2>1. t[a][PDPTE(u)] \in Frames /\ t[a][PDPTE(u)] = t[d][PDPTE(v)]
      BY <1>1, <1>2, <1>3, <1>6
    <2>2. \A f, g \in L[1] : \A i, j \in Index :
              t[f][i] \in Frames /\ t[f][i] = t[g][j] => f = g /\ i = j
      BY <1>3, <1>5 DEF OneParent
    <2>3. a \in L[1] /\ d \in L[1]  OBVIOUS
    <2>. QED  BY <1>4, <2>1, <2>2, <2>3, Zenon
  <1>8. PML4E(u) = PML4E(v)
    <2>1. t[r][PML4E(u)] \in Frames /\ t[r][PML4E(u)] = t[r][PML4E(v)]
      BY <1>1, <1>2, <1>3, <1>7
    <2>. QED  BY <1>3, <1>4, <1>5, <2>1, Zenon DEF OneParent
  <1>. QED  BY <1>6, <1>7, <1>8, SamePage

\* Entry i of the table g leads to e instead.
Puts(t, g, i, e, u) == u = [t EXCEPT ![g][i] = e]

\* What the other entries lead to, and e, suit a client that has D.
Suits(t, L, C, g, i, e, D) ==
    /\ e \in {ABSENT} \union D \union Made(L)
    /\ \A f \in L[3] : \A j \in Index : ~(f = g /\ j = i) =>
           /\ t[f][j] \in {ABSENT} \union D \union Made(L)
           /\ t[f][j] \in D => t[f][j] \in C /\ t[f][j] # e

\* What else stays when an entry of a last table changes.
LEMMA PutsFacts ==
    ASSUME NEW t, NEW h, NEW r, NEW L, NEW C, Sound(t, h, r, L, C),
           NEW g \in L[3], NEW i \in Index, NEW e \in Frames \union {ABSENT}, NEW u,
           Puts(t, g, i, e, u)
    PROVE  /\ u \in Holds /\ u[g][i] = e
           /\ \A f \in L[3] : \A j \in Index : ~(f = g /\ j = i) => u[f][j] = t[f][j]
           /\ \A n \in 0..2 : \A f \in L[n] : u[f] = t[f]
           /\ \A v, c : At(t, r, L, v, c) => At(u, r, L, v, c)
  <1>1. /\ t \in Holds /\ L \in [Depth -> SUBSET Frames] /\ L[0] = {r} /\ Apart(L)
    BY DEF Sound, IsTree
  <1>2. 3 \in Depth /\ \A n \in 0..2 : n \in Depth /\ n # 3  BY DEF Depth
  <1>3. g \in Frames /\ \A f \in L[3] : f \in Frames  BY <1>1, <1>2
  <1>4. /\ u \in Holds /\ u[g][i] = e
        /\ \A f \in Frames : f # g => u[f] = t[f]
        /\ \A j \in Index : j # i => u[g][j] = t[g][j]
    BY <1>1, <1>3 DEF Puts, Holds
  <1>5. ASSUME NEW n \in 0..2, NEW f \in L[n]  PROVE u[f] = t[f]
    <2>1. L[n] \intersect L[3] = {} /\ L[n] \subseteq Frames  BY <1>1, <1>2 DEF Apart
    <2>. QED  BY <1>4, <2>1
  <1>6. ASSUME NEW v, NEW c, At(t, r, L, v, c)  PROVE At(u, r, L, v, c)
    <2>1. PICK a \in L[1], b \in L[2] :
              t[r][PML4E(v)] = a /\ t[a][PDPTE(v)] = b /\ t[b][PDE(v)] = c
      BY <1>6 DEF At
    <2>2. u[r] = t[r] /\ u[a] = t[a] /\ u[b] = t[b]
      <3>1. 0 \in 0..2 /\ 1 \in 0..2 /\ 2 \in 0..2 /\ r \in L[0]  BY <1>1
      <3>. QED  BY <1>5, <3>1
    <2>. QED  BY <1>6, <2>1, <2>2 DEF At
  <1>. QED  BY <1>3, <1>4, <1>5, <1>6

\* The tree is sound with the entry, for the client that has D.
LEMMA Stored ==
    ASSUME NEW t, NEW h, NEW r, NEW L, NEW C, Sound(t, h, r, L, C),
           NEW g \in L[3], NEW i \in Index, NEW e \in Frames \union {ABSENT}, NEW u,
           Puts(t, g, i, e, u), NEW k \in SUBSET Frames, NEW D,
           Suits(t, L, C, g, i, e, D), Owned(k, L, D)
    PROVE  Sound(u, k, r, L, D)
  <1>1. /\ t \in Holds /\ L \in [Depth -> SUBSET Frames] /\ L[0] = {r} /\ Apart(L)
        /\ IsTree(t, r, L) /\ OneParent(t, L) /\ SystemAt(t, r, L) /\ OneLeaf(t, L, C)
    BY DEF Sound, IsTree
  <1>2. /\ u \in Holds /\ u[g][i] = e
        /\ \A f \in L[3] : \A j \in Index : ~(f = g /\ j = i) => u[f][j] = t[f][j]
        /\ \A n \in 0..2 : \A f \in L[n] : u[f] = t[f]
    BY PutsFacts
  <1>3. 3 \in Depth /\ 0 \in 0..2 /\ \A n \in Depth : n \in 0..2 \/ n = 3  BY DEF Depth
  <1>4. IsTree(u, r, L)
    <2>1. ASSUME NEW n \in 0..2  PROVE L[n + 1] = Below(u, L[n])
      <3>1. Below(u, L[n]) = Below(t, L[n])  BY <1>2, BelowSame
      <3>. QED  BY <1>1, <3>1 DEF IsTree
    <2>. QED  BY <1>1, <2>1 DEF IsTree
  <1>5. OneParent(u, L)
    <2> SUFFICES ASSUME NEW n \in 0..2, NEW f \in L[n], NEW p \in L[n],
                        NEW j \in Index, NEW l \in Index
                 PROVE  u[f][j] \in Frames /\ u[f][j] = u[p][l] => f = p /\ j = l
      BY DEF OneParent
    <2>1. u[f] = t[f] /\ u[p] = t[p]  BY <1>2
    <2>2. t[f][j] \in Frames /\ t[f][j] = t[p][l] => f = p /\ j = l
      BY <1>1, Zenon DEF OneParent
    <2>. QED  BY <2>1, <2>2
  <1>6. SystemAt(u, r, L)
    <2>1. u[r][0] = SYSTEM  BY <1>1, <1>2, <1>3 DEF SystemAt
    <2>2. ASSUME NEW n \in Depth, NEW f \in L[n], NEW j \in Index, u[f][j] = SYSTEM
          PROVE  f = r /\ j = 0
      <3>1. e # SYSTEM  BY PagingAssumption DEF ABSENT, SYSTEM
      <3>2. CASE n \in 0..2
        <4>1. t[f][j] = SYSTEM  BY <1>2, <2>2, <3>2
        <4>. QED  BY <1>1, <4>1 DEF SystemAt
      <3>3. CASE n = 3
        <4>1. t[f][j] = SYSTEM  BY <1>2, <2>2, <3>1, <3>3
        <4>. QED  BY <1>1, <4>1 DEF SystemAt
      <3>. QED  BY <1>3, <3>2, <3>3
    <2>. QED  BY <2>1, <2>2 DEF SystemAt
  <1>7. LeavesAre(u, L, D)
    <2> SUFFICES ASSUME NEW f \in L[3], NEW j \in Index
                 PROVE  u[f][j] \in {ABSENT} \union D \union Made(L)
      BY DEF LeavesAre
    <2>1. CASE f = g /\ j = i  BY <1>2, <2>1 DEF Suits
    <2>2. CASE ~(f = g /\ j = i)  BY <1>2, <2>2 DEF Suits
    <2>. QED  BY <2>1, <2>2
  <1>8. OneLeaf(u, L, D)
    <2> DEFINE Same(f, p, j, l) == u[f][j] \in D /\ u[f][j] = u[p][l]
    <2> SUFFICES ASSUME NEW f \in L[3], NEW p \in L[3], NEW j \in Index, NEW l \in Index,
                        Same(f, p, j, l)
                 PROVE  f = p /\ j = l
      BY DEF OneLeaf
    <2>1. CASE f = g /\ j = i
      <3>1. CASE ~(p = g /\ l = i)
        <4>1. u[p][l] = t[p][l] /\ (t[p][l] \in D => t[p][l] # e)
          BY <1>2, <3>1 DEF Suits
        <4>. QED  BY <1>2, <2>1, <4>1 DEF Same
      <3>. QED  BY <2>1, <3>1
    <2>2. CASE p = g /\ l = i
      <3>1. CASE ~(f = g /\ j = i)
        <4>1. u[f][j] = t[f][j] /\ (t[f][j] \in D => t[f][j] # e)
          BY <1>2, <3>1 DEF Suits
        <4>. QED  BY <1>2, <2>2, <4>1 DEF Same
      <3>. QED  BY <2>2, <3>1
    <2>3. CASE ~(f = g /\ j = i) /\ ~(p = g /\ l = i)
      <3>1. u[f][j] = t[f][j] /\ u[p][l] = t[p][l]  BY <1>2, <2>3
      <3>2. t[f][j] \in D => t[f][j] \in C  BY <2>3 DEF Suits
      <3>3. t[f][j] \in C /\ t[f][j] = t[p][l]  BY <3>1, <3>2 DEF Same
      <3>. QED  BY <1>1, <3>3, Zenon DEF OneLeaf
    <2>. QED  BY <2>1, <2>2, <2>3
  <1>. QED  BY <1>1, <1>2, <1>4, <1>5, <1>6, <1>7, <1>8 DEF Sound

-----------------------------------------------------------------------------
(* The client's pages. *)

\* The pages of pg reach their frames.
PagesAre(t, r, L, pg) ==
    \A v \in DOMAIN pg : \E c : At(t, r, L, v, c) /\ t[c][PTE(v)] = pg[v]

\* Growth keeps the client's pages where they are.
LEMMA PagesKept ==
    ASSUME NEW t, NEW h, NEW r, NEW L, NEW C, NEW u, NEW k, NEW M, NEW pg,
           DOMAIN pg \subseteq Pages, \A v \in DOMAIN pg : pg[v] \in Frames,
           Sound(t, h, r, L, C), Grown(t, h, L, u, k, M), PagesAre(t, r, L, pg)
    PROVE  PagesAre(u, r, M, pg)
  <1> SUFFICES ASSUME NEW v \in DOMAIN pg
               PROVE  \E c : At(u, r, M, v, c) /\ u[c][PTE(v)] = pg[v]
    BY DEF PagesAre
  <1>1. PICK c : At(t, r, L, v, c) /\ t[c][PTE(v)] = pg[v]  BY DEF PagesAre
  <1>2. v \in Pages /\ PTE(v) \in Index /\ 3 \in Depth  BY Indices DEF Depth
  <1>3. At(u, r, M, v, c)  BY <1>1, <1>2, AtGrown
  <1>4. c \in L[3]  BY <1>1 DEF At
  <1>5. u[c][PTE(v)] = pg[v]  BY <1>1, <1>2, <1>4, StillThere
  <1>. QED  BY <1>3, <1>5

\* Another page's entry is none of theirs.
LEMMA PagesPut ==
    ASSUME NEW t, NEW h, NEW r, NEW L, NEW C, NEW u, NEW pg,
           DOMAIN pg \subseteq Pages, Sound(t, h, r, L, C), PagesAre(t, r, L, pg),
           NEW v \in Pages, v \notin DOMAIN pg, NEW g, At(t, r, L, v, g),
           NEW e \in Frames \union {ABSENT}, Puts(t, g, PTE(v), e, u)
    PROVE  PagesAre(u, r, L, pg)
  <1> SUFFICES ASSUME NEW p \in DOMAIN pg
               PROVE  \E c : At(u, r, L, p, c) /\ u[c][PTE(p)] = pg[p]
    BY DEF PagesAre
  <1>1. PICK c : At(t, r, L, p, c) /\ t[c][PTE(p)] = pg[p]  BY DEF PagesAre
  <1>2. p \in Pages /\ PTE(p) \in Index /\ PTE(v) \in Index /\ p # v  BY Indices
  <1>3. c \in L[3] /\ g \in L[3]  BY <1>1 DEF At
  <1>4. ~(c = g /\ PTE(p) = PTE(v))  BY <1>1, <1>2, AtOne
  <1> DEFINE i == PTE(v)
  <1>5. i \in Index /\ Puts(t, g, i, e, u)  BY <1>2
  <1> HIDE DEF i
  <1>6. /\ u \in Holds /\ u[g][i] = e
        /\ \A f \in L[3] : \A j \in Index : ~(f = g /\ j = i) => u[f][j] = t[f][j]
        /\ \A n \in 0..2 : \A f \in L[n] : u[f] = t[f]
        /\ \A x, y : At(t, r, L, x, y) => At(u, r, L, x, y)
    BY <1>3, <1>5, PutsFacts
  <1>7. At(u, r, L, p, c)  BY <1>1, <1>6
  <1>8. ~(c = g /\ PTE(p) = i)  BY <1>4 DEF i
  <1>9. u[c][PTE(p)] = t[c][PTE(p)]  BY <1>2, <1>3, <1>6, <1>8
  <1>. QED  BY <1>1, <1>7, <1>9

\* Tables of a set are the same.
SameOn(t, u, h) == \A f \in h : u[f] = t[f]

\* Frames that are not held may change.
LEMMA SoundElsewhere ==
    ASSUME NEW t, NEW h, NEW r, NEW L, NEW C, Sound(t, h, r, L, C),
           NEW u \in Holds, NEW k \in SUBSET Frames, h \subseteq k,
           SameOn(t, u, h)
    PROVE  /\ Sound(u, k, r, L, C)
           /\ Grown(t, h, L, u, k, L)
  <1>1. /\ IsTree(t, r, L) /\ Apart(L) /\ OneParent(t, L) /\ SystemAt(t, r, L)
        /\ LeavesAre(t, L, C) /\ OneLeaf(t, L, C) /\ Owned(h, L, C)
    BY DEF Sound
  <1>2. \A n \in Depth : \A f \in L[n] : u[f] = t[f]  BY <1>1 DEF Owned, SameOn
  <1>3. \A n \in 0..2 : n \in Depth  BY DEF Depth
  <1>4. 3 \in Depth /\ 0 \in Depth /\ r \in L[0]  BY <1>1 DEF Depth, IsTree
  <1>5. IsTree(u, r, L)
    <2>1. ASSUME NEW n \in 0..2  PROVE L[n + 1] = Below(u, L[n])
      <3>1. Below(u, L[n]) = Below(t, L[n])  BY <1>2, <1>3, BelowSame
      <3>. QED  BY <1>1, <3>1 DEF IsTree
    <2>. QED  BY <1>1, <2>1 DEF IsTree
  <1>6. OneParent(u, L)
    <2> SUFFICES ASSUME NEW n \in 0..2, NEW f \in L[n], NEW p \in L[n],
                        NEW j \in Index, NEW l \in Index
                 PROVE  u[f][j] \in Frames /\ u[f][j] = u[p][l] => f = p /\ j = l
      BY DEF OneParent
    <2>1. u[f] = t[f] /\ u[p] = t[p]  BY <1>2, <1>3
    <2>2. \A x, y \in L[n] : \A a, b \in Index :
              t[x][a] \in Frames /\ t[x][a] = t[y][b] => x = y /\ a = b
      BY <1>1 DEF OneParent
    <2>3. t[f][j] \in Frames /\ t[f][j] = t[p][l] => f = p /\ j = l
      BY <2>2, Zenon
    <2>. QED  BY <2>1, <2>3
  <1>7. SystemAt(u, r, L)
    <2>1. u[r][0] = SYSTEM  BY <1>1, <1>2, <1>4 DEF SystemAt
    <2>2. ASSUME NEW n \in Depth, NEW f \in L[n], NEW j \in Index, u[f][j] = SYSTEM
          PROVE  f = r /\ j = 0
      <3>1. t[f][j] = SYSTEM  BY <1>2, <2>2
      <3>. QED  BY <1>1, <3>1 DEF SystemAt
    <2>. QED  BY <2>1, <2>2 DEF SystemAt
  <1>8. LeavesAre(u, L, C)  BY <1>1, <1>2, <1>4 DEF LeavesAre
  <1>9. OneLeaf(u, L, C)
    <2> SUFFICES ASSUME NEW f \in L[3], NEW p \in L[3], NEW j \in Index, NEW l \in Index
                 PROVE  u[f][j] \in C /\ u[f][j] = u[p][l] => f = p /\ j = l
      BY DEF OneLeaf
    <2>1. u[f] = t[f] /\ u[p] = t[p]  BY <1>2, <1>4
    <2>2. t[f][j] \in C /\ t[f][j] = t[p][l] => f = p /\ j = l
      BY <1>1, Zenon DEF OneLeaf
    <2>. QED  BY <2>1, <2>2
  <1>10. Owned(k, L, C)  BY <1>1 DEF Owned
  <1>11. Sound(u, k, r, L, C)
    BY <1>1, <1>5, <1>6, <1>7, <1>8, <1>9, <1>10 DEF Sound
  <1>12. Grown(t, h, L, u, k, L)  BY <1>2, <1>4 DEF Grown
  <1>. QED  BY <1>11, <1>12

\* A call of add_pte made a of s: w is where the way down came to.
Mapped(s, L, r, C, v, f, a, w, M) ==
    /\ Walked(s, L, r, C, w, 3, M, 0)
    /\ At(w.s.tab, r, M, v, w.t)
    /\ Puts(w.s.tab, w.t, PTE(v), f, a.s.tab)
    /\ a.s.free = w.s.free /\ a.s.held = w.s.held /\ a.added = w.added

\* A call of add_pte: the way down, and then the entry.
LEMMA Mapping ==
    ASSUME NEW s, NEW r, NEW L, NEW C, NEW v \in Pages, NEW f,
           Pooled(s, 3), Sound(s.tab, s.held, r, L, C)
    PROVE  \E w, M : Mapped(s, L, r, C, v, f, add_pte(s, r, v, f), w, M)
  <1> DEFINE w == Descend(s, r, v)
             a == add_pte(s, r, v, f)
  <1>1. PICK M : Walked(s, L, r, C, w, 3, M, 0) /\ At(w.s.tab, r, M, v, w.t)
    BY Descent
  <1>2. a = [s |-> Enter(w.s, w.t, PTE(v), f), added |-> w.added]  BY DEF add_pte
  <1> HIDE DEF w, a
  <1>3. w.s \in [tab : Holds, free : SUBSET Frames, held : SUBSET Frames]
    BY <1>1 DEF Walked, Pooled
  <1>4. /\ a.s = [w.s EXCEPT !.tab = [w.s.tab EXCEPT ![w.t][PTE(v)] = f]]
        /\ a.added = w.added
    BY <1>2 DEF Enter
  <1>5. /\ a.s.tab = [w.s.tab EXCEPT ![w.t][PTE(v)] = f]
        /\ a.s.free = w.s.free /\ a.s.held = w.s.held
    BY <1>3, <1>4
  <1>6. Puts(w.s.tab, w.t, PTE(v), f, a.s.tab)  BY <1>5 DEF Puts
  <1>7. Mapped(s, L, r, C, v, f, a, w, M)  BY <1>1, <1>4, <1>5, <1>6 DEF Mapped
  <1>. QED  BY <1>7 DEF a

-----------------------------------------------------------------------------
(* The calls under way. *)

Call == [frame : Frames, called : BOOLEAN]

PendingOf(q) == {q[k].frame : k \in 1..Len(q)}

Once(q) == \A k, l \in 1..Len(q) : q[k].frame = q[l].frame => k = l

\* A call leaves the tables it added to be mapped.
LEMMA AddedIs ==
    ASSUME NEW a \in Seq(Frames), Distinct(a)
    PROVE  /\ Added(a) \in Seq(Call) /\ Once(Added(a))
           /\ PendingOf(Added(a)) = Elements(a)
  <1> DEFINE b == Added(a)
             n == Len(a)
  <1>1. n \in Nat /\ \A k \in 1..n : a[k] \in Frames  OBVIOUS
  <1>2. b = [k \in 1..n |-> [frame |-> a[k], called |-> FALSE]]  BY DEF Added
  <1> HIDE DEF b, n
  <1>3. \A k \in 1..n : b[k] \in Call /\ b[k].frame = a[k]  BY <1>1, <1>2 DEF Call
  <1>4. b \in [1..n -> Call]
    <2>1. DOMAIN b = 1..n  BY <1>2
    <2>2. b = [k \in 1..n |-> b[k]]  BY <1>2, <2>1
    <2>. QED  BY <1>3, <2>2
  <1>5. b \in Seq(Call)  BY <1>1, <1>4
  <1>6. Len(b) = n  BY <1>1, <1>4, <1>5, LenProperties
  <1>7. \A k, l \in 1..n : a[k] = a[l] => k = l  BY DEF Distinct, n
  <1>8. Once(b)  BY <1>3, <1>6, <1>7 DEF Once
  <1>9. PendingOf(b) = {a[k] : k \in 1..n}  BY <1>3, <1>6 DEF PendingOf
  <1>. QED  BY <1>5, <1>8, <1>9 DEF b, n, Elements

\* Calls with different tables join.
LEMMA ConcatOnce ==
    ASSUME NEW p \in Seq(Call), NEW q \in Seq(Call), Once(p), Once(q),
           PendingOf(p) \intersect PendingOf(q) = {}
    PROVE  /\ p \o q \in Seq(Call) /\ Once(p \o q)
           /\ PendingOf(p \o q) = PendingOf(p) \union PendingOf(q)
  <1> DEFINE c == p \o q
             m == Len(p)
             n == Len(q)
  <1>1. /\ c \in Seq(Call) /\ Len(c) = m + n
        /\ \A k \in 1..(m + n) : c[k] = IF k <= m THEN p[k] ELSE q[k - m]
    BY ConcatProperties
  <1>2. m \in Nat /\ n \in Nat  OBVIOUS
  <1> HIDE DEF c, m, n
  <1>3. \A k \in 1..m : k \in 1..(m + n) /\ c[k] = p[k]  BY <1>1, <1>2
  <1>4. \A k \in 1..n : m + k \in 1..(m + n) /\ c[m + k] = q[k]
    <2> SUFFICES ASSUME NEW k \in 1..n
                 PROVE  m + k \in 1..(m + n) /\ c[m + k] = q[k]
      OBVIOUS
    <2>1. m + k \in 1..(m + n) /\ ~(m + k <= m) /\ (m + k) - m = k  BY <1>2
    <2>. QED  BY <1>1, <2>1
  <1>5. \A k \in 1..(m + n) : k \in 1..m \/ (k - m \in 1..n /\ c[k] = q[k - m])
    BY <1>1, <1>2
  <1>6. ASSUME NEW k \in 1..m, NEW l \in 1..n  PROVE p[k].frame # q[l].frame
    <2>1. p[k].frame \in PendingOf(p) /\ q[l].frame \in PendingOf(q)
      BY DEF PendingOf, m, n
    <2>. QED  BY <2>1
  <1>7. Once(c)
    <2> SUFFICES ASSUME NEW k \in 1..(m + n), NEW l \in 1..(m + n),
                        c[k].frame = c[l].frame
                 PROVE  k = l
      BY <1>1 DEF Once
    <2>1. CASE k \in 1..m /\ l \in 1..m  BY <1>3, <2>1 DEF Once, m
    <2>2. CASE k \in 1..m /\ l - m \in 1..n /\ c[l] = q[l - m]
      BY <1>3, <1>6, <2>2
    <2>3. CASE l \in 1..m /\ k - m \in 1..n /\ c[k] = q[k - m]
      BY <1>3, <1>6, <2>3
    <2>4. CASE /\ k - m \in 1..n /\ c[k] = q[k - m]
               /\ l - m \in 1..n /\ c[l] = q[l - m]
      <3>1. k - m = l - m  BY <2>4 DEF Once, n
      <3>. QED  BY <1>2, <3>1
    <2>. QED  BY <1>5, <2>1, <2>2, <2>3, <2>4
  <1>8. PendingOf(c) = PendingOf(p) \union PendingOf(q)
    <2>1. ASSUME NEW x \in PendingOf(c)  PROVE x \in PendingOf(p) \union PendingOf(q)
      <3>1. PICK k \in 1..(m + n) : x = c[k].frame  BY <1>1 DEF PendingOf
      <3>2. CASE k \in 1..m  BY <1>3, <3>1, <3>2 DEF PendingOf, m
      <3>3. CASE k - m \in 1..n /\ c[k] = q[k - m]  BY <3>1, <3>3 DEF PendingOf, n
      <3>. QED  BY <1>5, <3>2, <3>3
    <2>2. ASSUME NEW x \in PendingOf(p)  PROVE x \in PendingOf(c)
      <3>1. PICK k \in 1..m : x = p[k].frame  BY DEF PendingOf, m
      <3>. QED  BY <1>1, <1>3, <3>1 DEF PendingOf
    <2>3. ASSUME NEW x \in PendingOf(q)  PROVE x \in PendingOf(c)
      <3>1. PICK k \in 1..n : x = q[k].frame  BY DEF PendingOf, n
      <3>2. m + k \in 1..(m + n) /\ x = c[m + k].frame  BY <1>4, <3>1
      <3>. QED  BY <1>1, <3>2 DEF PendingOf
    <2>. QED  BY <2>1, <2>2, <2>3
  <1>. QED  BY <1>1, <1>7, <1>8 DEF c

\* Making a call changes no table.
LEMMA CalledHead ==
    ASSUME NEW q \in Seq(Call), q # <<>>, Once(q)
    PROVE  LET c == [q EXCEPT ![1].called = TRUE]
           IN  c \in Seq(Call) /\ Once(c) /\ PendingOf(c) = PendingOf(q)
  <1> DEFINE c == [q EXCEPT ![1].called = TRUE]
             x == [q[1] EXCEPT !.called = TRUE]
             n == Len(q)
  <1>1. n \in Nat /\ 1 \in 1..n /\ q[1] \in Call  OBVIOUS
  <1>2. x \in Call /\ x.frame = q[1].frame  BY <1>1 DEF Call
  <1>3. c = [q EXCEPT ![1] = x]  OBVIOUS
  <1> HIDE DEF c, x
  <1>4. /\ c \in Seq(Call) /\ Len(c) = n
        /\ \A k \in 1..n : c[k] = IF k = 1 THEN x ELSE q[k]
    BY <1>1, <1>2, <1>3
  <1> HIDE DEF n
  <1>5. \A k \in 1..n : c[k].frame = q[k].frame  BY <1>2, <1>4
  <1>6. Once(c)  BY <1>4, <1>5 DEF Once, n
  <1>7. PendingOf(c) = PendingOf(q)  BY <1>4, <1>5 DEF PendingOf, n
  <1>. QED  BY <1>4, <1>6, <1>7 DEF c

\* When a call returns, its table is mapped.
LEMMA TailOnce ==
    ASSUME NEW q \in Seq(Call), q # <<>>, Once(q)
    PROVE  /\ Tail(q) \in Seq(Call) /\ Once(Tail(q))
           /\ PendingOf(Tail(q)) = PendingOf(q) \ {Head(q).frame}
           /\ Head(q).frame \in PendingOf(q) /\ Head(q).frame \in Frames
  <1> DEFINE c == Tail(q)
             n == Len(q)
  <1>1. n \in Nat /\ 1 \in 1..n /\ q[1] \in Call /\ Head(q) = q[1]  OBVIOUS
  <1>2. /\ c \in Seq(Call) /\ Len(c) = n - 1
        /\ \A k \in 1..(n - 1) : c[k] = q[k + 1]
    OBVIOUS
  <1> HIDE DEF c, n
  <1>3. \A k \in 1..(n - 1) : k + 1 \in 1..n /\ k + 1 # 1  BY <1>1
  <1>4. \A k \in 1..n : k # 1 => k - 1 \in 1..(n - 1) /\ (k - 1) + 1 = k  BY <1>1
  <1>5. \A k, l \in 1..n : q[k].frame = q[l].frame => k = l  BY DEF Once, n
  <1>6. Once(c)
    <2> SUFFICES ASSUME NEW k \in 1..(n - 1), NEW l \in 1..(n - 1),
                        c[k].frame = c[l].frame
                 PROVE  k = l
      BY <1>2 DEF Once
    <2>1. k + 1 = l + 1  BY <1>2, <1>3, <1>5
    <2>. QED  BY <1>1, <2>1
  <1>7. PendingOf(c) = PendingOf(q) \ {q[1].frame}
    <2>1. ASSUME NEW x \in PendingOf(c)  PROVE x \in PendingOf(q) /\ x # q[1].frame
      <3>1. PICK k \in 1..(n - 1) : x = c[k].frame  BY <1>2 DEF PendingOf
      <3>2. x = q[k + 1].frame /\ k + 1 \in 1..n /\ k + 1 # 1  BY <1>2, <1>3, <3>1
      <3>3. x # q[1].frame  BY <1>1, <1>5, <3>2
      <3>. QED  BY <3>2, <3>3 DEF PendingOf, n
    <2>2. ASSUME NEW x \in PendingOf(q), x # q[1].frame  PROVE x \in PendingOf(c)
      <3>1. PICK k \in 1..n : x = q[k].frame  BY DEF PendingOf, n
      <3>2. k # 1  BY <2>2, <3>1
      <3>3. k - 1 \in 1..(n - 1) /\ x = c[k - 1].frame  BY <1>2, <1>4, <3>1, <3>2
      <3>. QED  BY <1>2, <3>3 DEF PendingOf
    <2>. QED  BY <2>1, <2>2
  <1>8. q[1].frame \in PendingOf(q) /\ q[1].frame \in Frames
    BY <1>1 DEF PendingOf, Call, n
  <1>. QED  BY <1>1, <1>2, <1>6, <1>7, <1>8 DEF c

-----------------------------------------------------------------------------
(* The state of a page table between two turns: r its root, vn its vnext,   *)
(* pg the client's pages, q the calls under way, L its depths.              *)

Given(pg) == {pg[v] : v \in DOMAIN pg}

OneEach(pg) == \A u, v \in DOMAIN pg : pg[u] = pg[v] => u = v

PagesOf(pg) ==
    /\ pg \in [DOMAIN pg -> Frames]
    /\ DOMAIN pg \subseteq ClientPages
    /\ OneEach(pg)

\* The tables still to map are the tree's, each once; the others are mapped
\* from Vroot + 1 on.
Counted(L, vn, q) ==
    /\ PendingOf(q) \subseteq Made(L) /\ Once(q)
    /\ vn = Vroot + 1 + Cardinality(Made(L) \ PendingOf(q))

Good(t, h, r, vn, pg, q, L) ==
    /\ Sound(t, h, r, L, Given(pg))
    /\ PagesAre(t, r, L, pg)
    /\ Counted(L, vn, q)

\* The region has a page for each table.
LEMMA RegionSuffices ==
    ASSUME NEW t, NEW h, NEW r, NEW L, NEW C, Sound(t, h, r, L, C),
           NEW q, NEW vn, Counted(L, vn, q)
    PROVE  /\ vn \in Nat /\ Vroot <= vn /\ vn <= Vterm
           /\ PendingOf(q) # {} =>
                  vn \in Pages /\ vn \notin ClientPages /\ vn + 1 <= Vterm
  <1> DEFINE M == Made(L)
             P == PendingOf(q)
             d == M \ P
             N == Cardinality(Frames)
             c == Cardinality(d)
  <1>1. L \in [Depth -> SUBSET Frames] /\ L[0] = {r} /\ Apart(L)
    BY DEF Sound, IsTree
  <1>2. 0 \in Depth /\ 1 \in Depth /\ 2 \in Depth /\ 3 \in Depth  BY DEF Depth
  <1>3. M \subseteq Frames \ {r} /\ r \in Frames
    <2>1. /\ L[0] \subseteq Frames /\ L[1] \subseteq Frames /\ L[2] \subseteq Frames
          /\ L[3] \subseteq Frames
      BY <1>1, <1>2
    <2>2. /\ L[1] \intersect L[0] = {} /\ L[2] \intersect L[0] = {}
          /\ L[3] \intersect L[0] = {}
      BY <1>1, <1>2 DEF Apart
    <2>. QED  BY <1>1, <2>1, <2>2 DEF Made
  <1>4. P \subseteq M /\ vn = Vroot + 1 + c  BY DEF Counted
  <1>5. /\ IsFiniteSet(Frames) /\ Vroot \in Nat /\ Vterm \in Nat /\ Vroot + N <= Vterm
        /\ E * E * E <= Vroot /\ Vterm <= E * E * E * E
        /\ ClientPages \intersect Vroot..(Vterm - 1) = {} /\ E \in Nat
    BY PagingAssumption
  <1> HIDE DEF M, P
  <1>6. /\ IsFiniteSet(Frames \ {r}) /\ N \in Nat /\ Cardinality(Frames \ {r}) = N - 1
    BY <1>3, <1>5, FS_RemoveElement, FS_CardinalityType
  <1>7. d \subseteq Frames \ {r}  BY <1>3
  <1>8. IsFiniteSet(d) /\ c \in Nat /\ c <= N - 1
    BY <1>6, <1>7, FS_Subset, FS_CardinalityType
  <1> HIDE DEF d, c, N
  <1>9. vn \in Nat /\ Vroot <= vn /\ vn <= Vterm  BY <1>4, <1>5, <1>6, <1>8
  <1>10. ASSUME P # {}
         PROVE  vn \in Pages /\ vn \notin ClientPages /\ vn + 1 <= Vterm
    <2>1. PICK f : f \in P  BY <1>10
    <2>2. f \in Frames \ {r}  BY <1>3, <1>4, <2>1
    <2> DEFINE R == Frames \ {r}
               K == R \ {f}
    <2>3. IsFiniteSet(R) /\ Cardinality(R) = N - 1 /\ f \in R  BY <1>6, <2>2
    <2> HIDE DEF R
    <2>4. IsFiniteSet(K) /\ Cardinality(K) = (N - 1) - 1
      BY <2>3, FS_RemoveElement
    <2>5. d \subseteq K  BY <1>7, <2>1 DEF d, R
    <2>6. c <= Cardinality(K)  BY <2>4, <2>5, FS_Subset DEF c
    <2>7. c <= (N - 1) - 1  BY <2>4, <2>6
    <2>8. vn + 1 <= Vterm  BY <1>4, <1>5, <1>6, <1>8, <2>7
    <2>9. vn \in Vroot..(Vterm - 1)  BY <1>5, <1>9, <2>8
    <2>10. vn \in Pages
      <3>1. E * E * E \in Nat /\ E * E * E * E \in Nat  BY <1>5
      <3>. QED  BY <1>5, <1>9, <2>8, <3>1 DEF Pages
    <2>. QED  BY <1>5, <2>8, <2>9, <2>10
  <1>. QED  BY <1>9, <1>10 DEF P

\* What a call makes of the tables counted.
LEMMA CountedOn ==
    ASSUME NEW s, NEW L, NEW r, NEW C, NEW w, NEW M, NEW m, Walked(s, L, r, C, w, 3, M, m),
           NEW vn, NEW q \in Seq(Call), Counted(L, vn, q)
    PROVE  /\ Added(w.added) \o q \in Seq(Call)
           /\ Counted(M, vn, Added(w.added) \o q)
  <1> DEFINE a == w.added
             b == Added(a)
  <1>1. a \in Seq(Frames) /\ Distinct(a) /\ Elements(a) = Made(M) \ Made(L)
    BY DEF Walked
  <1>2. Made(L) \subseteq Made(M)
    <2>1. L[1] \subseteq M[1] /\ L[2] \subseteq M[2] /\ L[3] \subseteq M[3]
      <3>1. 1 \in Depth /\ 2 \in Depth /\ 3 \in Depth  BY DEF Depth
      <3>. QED  BY <3>1 DEF Walked, Grown
    <2>. QED  BY <2>1 DEF Made
  <1> HIDE DEF a
  <1>3. b \in Seq(Call) /\ Once(b) /\ PendingOf(b) = Made(M) \ Made(L)
    BY <1>1, AddedIs
  <1> HIDE DEF b
  <1>4. /\ PendingOf(q) \subseteq Made(L) /\ Once(q)
        /\ vn = Vroot + 1 + Cardinality(Made(L) \ PendingOf(q))
    BY DEF Counted
  <1>5. PendingOf(b) \intersect PendingOf(q) = {}  BY <1>3, <1>4
  <1>6. /\ b \o q \in Seq(Call) /\ Once(b \o q)
        /\ PendingOf(b \o q) = PendingOf(b) \union PendingOf(q)
    BY <1>3, <1>4, <1>5, ConcatOnce
  <1>7. Made(M) \ PendingOf(b \o q) = Made(L) \ PendingOf(q)
    BY <1>2, <1>3, <1>4, <1>6
  <1>8. PendingOf(b \o q) \subseteq Made(M)  BY <1>2, <1>3, <1>4, <1>6
  <1>. QED  BY <1>4, <1>6, <1>7, <1>8 DEF Counted, a, b

-----------------------------------------------------------------------------
(* The turns. *)

\* The client, which had pg, is to have D: what page v is to lead to suits it.
Ready(s, L, r, C, v, e, w, M, D, pg) ==
    /\ v \in Pages /\ v \notin DOMAIN pg /\ e \in Frames
    /\ Suits(w.s.tab, M, C, w.t, PTE(v), e, D) /\ Owned(w.s.held, M, D)
    /\ PagesAre(s.tab, r, L, pg) /\ Sound(s.tab, s.held, r, L, C)
    /\ DOMAIN pg \subseteq Pages /\ \A p \in DOMAIN pg : pg[p] \in Frames

\* The tree after the call.
LEMMA PutThere ==
    ASSUME NEW s, NEW L, NEW r, NEW C, NEW v, NEW e, NEW a, NEW w, NEW M, NEW D, NEW pg,
           Mapped(s, L, r, C, v, e, a, w, M), Ready(s, L, r, C, v, e, w, M, D, pg)
    PROVE  /\ Sound(a.s.tab, a.s.held, r, M, D)
           /\ PagesAre(a.s.tab, r, M, pg)
           /\ At(a.s.tab, r, M, v, w.t) /\ a.s.tab[w.t][PTE(v)] = e
  <1> DEFINE t == w.s.tab
             h == w.s.held
             g == w.t
             i == PTE(v)
             u == a.s.tab
  <1>0. /\ v \in Pages /\ v \notin DOMAIN pg /\ e \in Frames /\ DOMAIN pg \subseteq Pages
        /\ Sound(s.tab, s.held, r, L, C) /\ a.s.held = h
    BY DEF Mapped, Ready
  <1>1. /\ Sound(t, h, r, M, C) /\ Grown(s.tab, s.held, L, t, h, M)
        /\ h \in SUBSET Frames
    BY DEF Mapped, Walked, Sound
  <1>2. g \in M[3] /\ At(t, r, M, v, g)  BY DEF Mapped, At
  <1>3. i \in Index /\ Puts(t, g, i, e, u) /\ Suits(t, M, C, g, i, e, D)
    BY <1>0, Indices DEF Mapped, Ready
  <1>4. Owned(h, M, D)  BY DEF Ready
  <1>5. PagesAre(t, r, M, pg)  BY <1>0, <1>1, PagesKept DEF Ready
  <1> HIDE DEF t, h, g, u
  <1>6. PagesAre(u, r, M, pg)  BY <1>0, <1>1, <1>2, <1>3, <1>5, PagesPut DEF i
  <1> HIDE DEF i
  <1>7. Sound(u, h, r, M, D)  BY <1>0, <1>1, <1>2, <1>3, <1>4, Stored
  <1>8. /\ u \in Holds /\ u[g][i] = e
        /\ \A f \in M[3] : \A j \in Index : ~(f = g /\ j = i) => u[f][j] = t[f][j]
        /\ \A n \in 0..2 : \A f \in M[n] : u[f] = t[f]
        /\ \A x, y : At(t, r, M, x, y) => At(u, r, M, x, y)
    BY <1>0, <1>1, <1>2, <1>3, PutsFacts
  <1>. QED  BY <1>0, <1>2, <1>6, <1>7, <1>8 DEF g, i, u

\* The pages with page v besides, at frame f.
With(pg, v, f) == [p \in DOMAIN pg \union {v} |-> IF p = v THEN f ELSE pg[p]]

\* What the call a of add_pte made is good with the pages ng and the calls nq.
Becoming(a, r, vn, ng, nq) ==
    /\ \E M : Good(a.s.tab, a.s.held, r, vn, ng, nq, M)
    /\ PagesOf(ng) /\ nq \in Seq(Call)
    /\ Pooled([tab |-> a.s.tab, free |-> a.s.free, held |-> a.s.held], 0)

\* page_alloc.
LEMMA AllocTree ==
    ASSUME NEW s, NEW r, NEW vn, NEW pg, NEW L, Pooled(s, 4), PagesOf(pg),
           Good(s.tab, s.held, r, vn, pg, <<>>, L),
           NEW v \in ClientPages, v \notin DOMAIN pg
    PROVE  LET f == pfalloc(s.free)
               a == add_pte(pgalloc(s), r, v, f)
           IN  Becoming(a, r, vn, With(pg, v, f), Added(a.added))
  <1> DEFINE f == pfalloc(s.free)
             g == pgalloc(s)
             a == add_pte(g, r, v, f)
             ng == With(pg, v, f)
             C == Given(pg)
             D == C \union {f}
  <1>1. /\ f \in s.free /\ f \in Frames \ s.held
        /\ g.tab = [s.tab EXCEPT ![f] = ZeroPage]
        /\ g.held = s.held \union {f} /\ Pooled(g, 3)
    <2>1. 3 \in Nat /\ 3 + 1 = 4  OBVIOUS
    <2>. QED  BY <2>1, Allocated
  <1>2. /\ Sound(s.tab, s.held, r, L, C) /\ PagesAre(s.tab, r, L, pg)
        /\ Counted(L, vn, <<>>)
    BY DEF Good
  <1>3. /\ v \in Pages /\ DOMAIN pg \subseteq Pages /\ DOMAIN pg \subseteq ClientPages
        /\ \A p \in DOMAIN pg : pg[p] \in Frames
    BY PagingAssumption DEF PagesOf, Pages
  <1>4. C \subseteq s.held /\ s.tab \in Holds /\ s.held \subseteq Frames
    BY <1>2 DEF Sound, Owned
  <1>5. DOMAIN ng = DOMAIN pg \union {v} /\ ng[v] = f /\ \A p \in DOMAIN pg : ng[p] = pg[p]
    BY DEF With
  <1>6. Given(ng) = D
    <2>1. ASSUME NEW x \in Given(ng)  PROVE x \in D
      <3>1. PICK p \in DOMAIN ng : x = ng[p]  BY DEF Given
      <3>2. CASE p = v  BY <1>5, <3>1, <3>2
      <3>3. CASE p # v
        <4>1. p \in DOMAIN pg /\ x = pg[p]  BY <1>5, <3>1, <3>3
        <4>. QED  BY <4>1 DEF Given
      <3>. QED  BY <3>2, <3>3
    <2>2. f \in Given(ng)  BY <1>5 DEF Given
    <2>3. ASSUME NEW x \in C  PROVE x \in Given(ng)
      <3>1. PICK p \in DOMAIN pg : x = pg[p]  BY DEF Given
      <3>2. p \in DOMAIN ng /\ x = ng[p]  BY <1>5, <3>1
      <3>. QED  BY <3>2 DEF Given
    <2>. QED  BY <2>1, <2>2, <2>3
  <1>7. f \notin C /\ \A p \in DOMAIN pg : pg[p] # f
    <2>1. \A p \in DOMAIN pg : pg[p] \in C  BY DEF Given
    <2>. QED  BY <1>1, <1>4, <2>1
  <1>8. PagesOf(ng)
    <2>1. ng \in [DOMAIN ng -> Frames]  BY <1>1, <1>3 DEF With
    <2>2. DOMAIN ng \subseteq ClientPages  BY <1>3, <1>5
    <2>3. OneEach(ng)
      <3> SUFFICES ASSUME NEW x \in DOMAIN ng, NEW y \in DOMAIN ng, ng[x] = ng[y]
                   PROVE  x = y
        BY DEF OneEach
      <3>1. CASE x = v \/ y = v  BY <1>5, <1>7, <3>1
      <3>2. CASE x # v /\ y # v
        <4>1. x \in DOMAIN pg /\ y \in DOMAIN pg /\ pg[x] = pg[y]  BY <1>5, <3>2
        <4>. QED  BY <4>1 DEF PagesOf, OneEach
      <3>. QED  BY <3>1, <3>2
    <2>. QED  BY <2>1, <2>2, <2>3 DEF PagesOf
  <1> HIDE DEF f, g, ng, C
  <1>9. Sound(g.tab, g.held, r, L, C) /\ Grown(s.tab, s.held, L, g.tab, g.held, L)
    <2>1. g.tab \in Holds /\ g.held \in SUBSET Frames  BY <1>1 DEF Pooled
    <2>2. SameOn(s.tab, g.tab, s.held)  BY <1>1, <1>4 DEF SameOn, Holds
    <2>3. s.held \subseteq g.held  BY <1>1
    <2>. QED  BY <1>2, <2>1, <2>2, <2>3, SoundElsewhere
  <1>10. PICK w, M : Mapped(g, L, r, C, v, f, a, w, M)
    <2>1. Pooled(g, 3) /\ Sound(g.tab, g.held, r, L, C) /\ v \in Pages  BY <1>1, <1>3, <1>9
    <2>. QED  BY <2>1, Mapping
  <1> HIDE DEF a
  <1>11. /\ Walked(g, L, r, C, w, 3, M, 0)
         /\ a.s.free = w.s.free /\ a.s.held = w.s.held /\ a.added = w.added
    BY <1>10 DEF Mapped
  <1>12. /\ Pooled(w.s, 0) /\ Sound(w.s.tab, w.s.held, r, M, C)
         /\ Grown(g.tab, g.held, L, w.s.tab, w.s.held, M)
    BY <1>11 DEF Walked
  <1>13. f \in w.s.held /\ \A n \in Depth : f \notin M[n]
    <2>1. \A n \in Depth : L[n] \subseteq s.held  BY <1>2 DEF Sound, Owned
    <2>. QED  BY <1>1, <1>12, <2>1 DEF Grown
  <1>14. Owned(w.s.held, M, D)
    <2>1. Owned(w.s.held, M, C)  BY <1>12 DEF Sound
    <2>. QED  BY <1>13, <2>1 DEF Owned
  <1>15. Suits(w.s.tab, M, C, w.t, PTE(v), f, D)
    <2>1. f \notin Made(M)
      <3>1. 1 \in Depth /\ 2 \in Depth /\ 3 \in Depth  BY DEF Depth
      <3>. QED  BY <1>13, <3>1 DEF Made
    <2>2. f # ABSENT  BY <1>1, PagingAssumption DEF ABSENT
    <2>3. LeavesAre(w.s.tab, M, C)  BY <1>12 DEF Sound
    <2>. QED  BY <1>7, <2>1, <2>2, <2>3 DEF Suits, LeavesAre
  <1>16. PagesAre(g.tab, r, L, pg)  BY <1>2, <1>3, <1>9, PagesKept
  <1>17. /\ Sound(a.s.tab, a.s.held, r, M, D)
         /\ PagesAre(a.s.tab, r, M, pg)
         /\ At(a.s.tab, r, M, v, w.t) /\ a.s.tab[w.t][PTE(v)] = f
    <2>1. f \in Frames  BY <1>1
    <2> HIDE DEF D
    <2>2. Ready(g, L, r, C, v, f, w, M, D, pg)
      BY <1>3, <1>9, <1>14, <1>15, <1>16, <2>1 DEF Ready
    <2>. QED  BY <1>10, <2>2, PutThere
  <1>18. PagesAre(a.s.tab, r, M, ng)  BY <1>5, <1>17 DEF PagesAre
  <1>19. Added(a.added) \in Seq(Call) /\ Counted(M, vn, Added(a.added))
    <2>1. <<>> \in Seq(Call)  OBVIOUS
    <2>2. /\ Added(a.added) \o <<>> \in Seq(Call)
          /\ Counted(M, vn, Added(a.added) \o <<>>)
      BY <1>2, <1>11, <2>1, CountedOn
    <2>3. a.added \in Seq(Frames) /\ Distinct(a.added)  BY <1>11 DEF Walked
    <2>4. Added(a.added) \in Seq(Call)  BY <2>3, AddedIs
    <2>5. Added(a.added) \o <<>> = Added(a.added)  BY <2>4
    <2>. QED  BY <2>2, <2>4, <2>5
  <1>20. Good(a.s.tab, a.s.held, r, vn, ng, Added(a.added), M)
    BY <1>6, <1>11, <1>17, <1>18, <1>19 DEF Good
  <1>21. Pooled([tab |-> a.s.tab, free |-> a.s.free, held |-> a.s.held], 0)
    <2>1. a.s.tab \in Holds  BY <1>17 DEF Sound
    <2>2. /\ a.s.free \in SUBSET Frames /\ a.s.held \in SUBSET Frames
          /\ a.s.free \intersect a.s.held = {} /\ a.s.free \union a.s.held = Frames
          /\ Cardinality(a.s.free) >= 0
      BY <1>11, <1>12 DEF Pooled
    <2>. QED  BY <2>1, <2>2 DEF Pooled
  <1>. QED  BY <1>8, <1>19, <1>20, <1>21 DEF Becoming, f, g, a, ng

\* A call of add_pte for the next of the tables.
LEMMA AddTree ==
    ASSUME NEW s, NEW r, NEW vn, NEW pg, NEW q \in Seq(Call), NEW L,
           Pooled(s, 3), PagesOf(pg), Good(s.tab, s.held, r, vn, pg, q, L), q # <<>>
    PROVE  LET a == add_pte(s, r, vn, Head(q).frame)
               nq == Added(a.added) \o [q EXCEPT ![1].called = TRUE]
           IN  Becoming(a, r, vn, pg, nq)
  <1> DEFINE f == Head(q).frame
             a == add_pte(s, r, vn, f)
             c == [q EXCEPT ![1].called = TRUE]
             C == Given(pg)
  <1>1. /\ Sound(s.tab, s.held, r, L, C) /\ PagesAre(s.tab, r, L, pg)
        /\ Counted(L, vn, q)
    BY DEF Good
  <1>2. /\ PendingOf(q) \subseteq Made(L) /\ Once(q)
        /\ vn = Vroot + 1 + Cardinality(Made(L) \ PendingOf(q))
    BY <1>1 DEF Counted
  <1>3. f \in PendingOf(q) /\ f \in Frames /\ f \in Made(L)  BY <1>2, TailOnce
  <1>4. vn \in Pages /\ vn \notin DOMAIN pg
    <2>1. PendingOf(q) # {}  BY <1>3
    <2>2. vn \in Pages /\ vn \notin ClientPages  BY <1>1, <2>1, RegionSuffices
    <2>. QED  BY <2>2 DEF PagesOf
  <1>5. DOMAIN pg \subseteq Pages /\ \A p \in DOMAIN pg : pg[p] \in Frames
    BY PagingAssumption DEF PagesOf, Pages
  <1>6. c \in Seq(Call) /\ Once(c) /\ PendingOf(c) = PendingOf(q)  BY <1>2, CalledHead
  <1>7. Counted(L, vn, c)  BY <1>2, <1>6 DEF Counted
  <1> HIDE DEF C, c, f
  <1>8. PICK w, M : Mapped(s, L, r, C, vn, f, a, w, M)  BY <1>1, <1>4, Mapping
  <1> HIDE DEF a
  <1>9. /\ Walked(s, L, r, C, w, 3, M, 0)
        /\ a.s.free = w.s.free /\ a.s.held = w.s.held /\ a.added = w.added
    BY <1>8 DEF Mapped
  <1>10. /\ Pooled(w.s, 0) /\ Sound(w.s.tab, w.s.held, r, M, C)
         /\ Grown(s.tab, s.held, L, w.s.tab, w.s.held, M)
    BY <1>9 DEF Walked
  <1>11. f \in Made(M) /\ f \notin C
    <2>1. 1 \in Depth /\ 2 \in Depth /\ 3 \in Depth  BY DEF Depth
    <2>2. \A n \in Depth : L[n] \subseteq M[n]  BY <1>10 DEF Grown
    <2>3. \A n \in Depth : M[n] \intersect C = {}  BY <1>10 DEF Sound, Owned
    <2>4. f \in L[1] \/ f \in L[2] \/ f \in L[3]  BY <1>3 DEF Made
    <2>5. f \in M[1] \/ f \in M[2] \/ f \in M[3]  BY <2>1, <2>2, <2>4
    <2>. QED  BY <2>1, <2>3, <2>5 DEF Made
  <1>12. Suits(w.s.tab, M, C, w.t, PTE(vn), f, C)
    <2>1. LeavesAre(w.s.tab, M, C)  BY <1>10 DEF Sound
    <2>. QED  BY <1>11, <2>1 DEF Suits, LeavesAre
  <1>13. Ready(s, L, r, C, vn, f, w, M, C, pg)
    <2>1. Owned(w.s.held, M, C)  BY <1>10 DEF Sound
    <2>. QED  BY <1>1, <1>3, <1>4, <1>5, <1>12, <2>1 DEF Ready
  <1>14. Sound(a.s.tab, a.s.held, r, M, C) /\ PagesAre(a.s.tab, r, M, pg)
    BY <1>8, <1>13, PutThere
  <1>15. /\ Added(a.added) \o c \in Seq(Call) /\ Counted(M, vn, Added(a.added) \o c)
    BY <1>6, <1>7, <1>9, CountedOn
  <1>16. Good(a.s.tab, a.s.held, r, vn, pg, Added(a.added) \o c, M)
    BY <1>14, <1>15 DEF Good, C
  <1>17. Pooled([tab |-> a.s.tab, free |-> a.s.free, held |-> a.s.held], 0)
    <2>1. a.s.tab \in Holds  BY <1>14 DEF Sound
    <2>2. /\ a.s.free \in SUBSET Frames /\ a.s.held \in SUBSET Frames
          /\ a.s.free \intersect a.s.held = {} /\ a.s.free \union a.s.held = Frames
          /\ Cardinality(a.s.free) >= 0
      BY <1>9, <1>10 DEF Pooled
    <2>. QED  BY <2>1, <2>2 DEF Pooled
  <1>. QED  BY <1>15, <1>16, <1>17 DEF Becoming, a, c, f

\* A call returned.
LEMMA NextTree ==
    ASSUME NEW t, NEW h, NEW r, NEW vn, NEW pg, NEW q \in Seq(Call), NEW L,
           Good(t, h, r, vn, pg, q, L), q # <<>>
    PROVE  /\ Good(t, h, r, vn + 1, pg, Tail(q), L)
           /\ Tail(q) \in Seq(Call) /\ vn + 1 \in Nat
  <1> DEFINE f == Head(q).frame
             M == Made(L)
             P == PendingOf(q)
             d == M \ P
             c == Tail(q)
  <1>1. /\ Sound(t, h, r, L, Given(pg)) /\ PagesAre(t, r, L, pg) /\ Counted(L, vn, q)
    BY DEF Good
  <1>2. P \subseteq M /\ Once(q) /\ vn = Vroot + 1 + Cardinality(d)
    BY <1>1 DEF Counted
  <1>3. c \in Seq(Call) /\ Once(c) /\ PendingOf(c) = P \ {f} /\ f \in P
    BY <1>2, TailOnce
  <1>4. vn \in Nat /\ Vroot \in Nat  BY <1>1, RegionSuffices, PagingAssumption
  <1>5. IsFiniteSet(d)
    <2>1. L[1] \subseteq Frames /\ L[2] \subseteq Frames /\ L[3] \subseteq Frames
      <3>1. 1 \in Depth /\ 2 \in Depth /\ 3 \in Depth  BY DEF Depth
      <3>. QED  BY <1>1, <3>1 DEF Sound, IsTree
    <2>2. d \subseteq Frames  BY <2>1 DEF Made
    <2>. QED  BY <2>2, PagingAssumption, FS_Subset
  <1> HIDE DEF P, M, c, f
  <1>6. M \ PendingOf(c) = d \union {f} /\ f \notin d  BY <1>2, <1>3
  <1>7. Cardinality(d \union {f}) = Cardinality(d) + 1 /\ Cardinality(d) \in Nat
    BY <1>5, <1>6, FS_AddElement, FS_CardinalityType
  <1> HIDE DEF d
  <1>8. vn + 1 = Vroot + 1 + Cardinality(M \ PendingOf(c))
    <2> DEFINE x == Cardinality(d)
               y == Cardinality(M \ PendingOf(c))
    <2>1. y = x + 1  BY <1>6, <1>7
    <2>2. x \in Nat /\ vn = Vroot + 1 + x  BY <1>2, <1>7
    <2> HIDE DEF x, y
    <2>3. vn + 1 = Vroot + 1 + y  BY <1>4, <2>1, <2>2
    <2>. QED  BY <2>3 DEF y
  <1>9. PendingOf(c) \subseteq M  BY <1>2, <1>3
  <1>10. Counted(L, vn + 1, c)  BY <1>3, <1>8, <1>9 DEF Counted, M
  <1>. QED  BY <1>1, <1>3, <1>4, <1>10 DEF Good, c

\* The pages without page v.
Without(pg, v) == [p \in DOMAIN pg \ {v} |-> pg[p]]

\* page_free.
LEMMA FreeTree ==
    ASSUME NEW t, NEW h, NEW r, NEW vn, NEW pg, NEW L, NEW c, NEW u, NEW q,
           PagesOf(pg), Good(t, h, r, vn, pg, q, L), NEW v \in DOMAIN pg,
           At(t, r, L, v, c), t[c][PTE(v)] = pg[v], Puts(t, c, PTE(v), ABSENT, u)
    PROVE  /\ Good(u, h \ {pg[v]}, r, vn, Without(pg, v), q, L)
           /\ PagesOf(Without(pg, v))
           /\ pg[v] \in h /\ u \in Holds
  <1> DEFINE f == pg[v]
             ng == Without(pg, v)
             C == Given(pg)
             D == C \ {f}
             k == h \ {f}
             i == PTE(v)
  <1>1. /\ Sound(t, h, r, L, C) /\ PagesAre(t, r, L, pg) /\ Counted(L, vn, q)
    BY DEF Good
  <1>2. /\ v \in Pages /\ DOMAIN pg \subseteq Pages /\ DOMAIN pg \subseteq ClientPages
        /\ \A p \in DOMAIN pg : pg[p] \in Frames
        /\ \A x, y \in DOMAIN pg : pg[x] = pg[y] => x = y
    BY PagingAssumption DEF PagesOf, OneEach, Pages
  <1>3. /\ DOMAIN ng = DOMAIN pg \ {v} /\ \A p \in DOMAIN ng : ng[p] = pg[p]
        /\ ng \in [DOMAIN ng -> Frames]
    BY <1>2 DEF Without
  <1>4. f \in C /\ f \in Frames  BY <1>2 DEF Given
  <1>5. Given(ng) = D
    <2>1. ASSUME NEW x \in Given(ng)  PROVE x \in D
      <3>1. PICK p \in DOMAIN ng : x = ng[p]  BY DEF Given
      <3>2. x = pg[p] /\ p \in DOMAIN pg /\ p # v  BY <1>3, <3>1
      <3>3. x # f  BY <1>2, <3>2
      <3>. QED  BY <3>2, <3>3 DEF Given
    <2>2. ASSUME NEW x \in D  PROVE x \in Given(ng)
      <3>1. PICK p \in DOMAIN pg : x = pg[p]  BY DEF Given
      <3>2. p \in DOMAIN ng /\ x = ng[p]  BY <1>3, <3>1
      <3>. QED  BY <3>2 DEF Given
    <2>. QED  BY <2>1, <2>2
  <1>6. PagesOf(ng)
    <2>1. OneEach(ng)
      <3> SUFFICES ASSUME NEW x \in DOMAIN ng, NEW y \in DOMAIN ng, ng[x] = ng[y]
                   PROVE  x = y
        BY DEF OneEach
      <3>1. x \in DOMAIN pg /\ y \in DOMAIN pg /\ pg[x] = pg[y]  BY <1>3
      <3>. QED  BY <1>2, <3>1
    <2>. QED  BY <1>2, <1>3, <2>1 DEF PagesOf
  <1>7. i \in Index /\ c \in L[3] /\ t[c][i] = f /\ Puts(t, c, i, ABSENT, u)
    BY <1>2, Indices DEF At
  <1>8. PagesAre(t, r, L, ng) /\ v \notin DOMAIN ng /\ DOMAIN ng \subseteq Pages
    <2>1. ASSUME NEW p \in DOMAIN ng
          PROVE  \E e : At(t, r, L, p, e) /\ t[e][PTE(p)] = ng[p]
      <3>1. p \in DOMAIN pg /\ ng[p] = pg[p]  BY <1>3
      <3>2. PICK e : At(t, r, L, p, e) /\ t[e][PTE(p)] = pg[p]
        BY <1>1, <3>1 DEF PagesAre
      <3>. QED  BY <3>1, <3>2
    <2>2. PagesAre(t, r, L, ng)  BY <2>1 DEF PagesAre
    <2>. QED  BY <1>2, <1>3, <2>2
  <1> HIDE DEF ng, C, f
  <1>9. PagesAre(u, r, L, ng)
    <2>1. Puts(t, c, PTE(v), ABSENT, u) /\ ABSENT \in Frames \union {ABSENT}  OBVIOUS
    <2>. QED  BY <1>1, <1>2, <1>8, <2>1, PagesPut
  <1> HIDE DEF i
  <1>10. Owned(h, L, C) /\ LeavesAre(t, L, C) /\ OneLeaf(t, L, C)  BY <1>1 DEF Sound
  <1>11. Owned(k, L, D)
    <2>1. \A n \in Depth : f \notin L[n]  BY <1>4, <1>10 DEF Owned
    <2>. QED  BY <1>10, <2>1 DEF Owned
  <1>12. Suits(t, L, C, c, i, ABSENT, D)
    <2> SUFFICES ASSUME NEW g \in L[3], NEW j \in Index, ~(g = c /\ j = i)
                 PROVE  /\ t[g][j] \in {ABSENT} \union D \union Made(L)
                        /\ t[g][j] \in D => t[g][j] \in C /\ t[g][j] # ABSENT
      BY DEF Suits
    <2>1. t[g][j] # f
      <3>1. \A x, y \in L[3] : \A a, b \in Index :
                t[x][a] \in C /\ t[x][a] = t[y][b] => x = y /\ a = b
        BY <1>10 DEF OneLeaf
      <3>2. t[c][i] \in C /\ c \in L[3] /\ i \in Index  BY <1>4, <1>7
      <3>. QED  BY <1>7, <3>1, <3>2
    <2>2. t[g][j] \in {ABSENT} \union C \union Made(L)  BY <1>10 DEF LeavesAre
    <2>3. \A x \in C : x # ABSENT
      <3>1. C \subseteq Frames  BY <1>1 DEF Sound, Owned
      <3>. QED  BY <3>1, PagingAssumption DEF ABSENT
    <2>. QED  BY <2>1, <2>2, <2>3
  <1>13. k \in SUBSET Frames /\ f \in h  BY <1>1, <1>4 DEF Sound, Owned
  <1> HIDE DEF D, k
  <1>14. Sound(u, k, r, L, D)
    <2>1. ABSENT \in Frames \union {ABSENT}  OBVIOUS
    <2>. QED  BY <1>1, <1>7, <1>11, <1>12, <1>13, <2>1, Stored
  <1>15. Good(u, k, r, vn, ng, q, L)  BY <1>1, <1>5, <1>9, <1>14 DEF Good
  <1>16. u \in Holds  BY <1>14 DEF Sound
  <1>. QED  BY <1>6, <1>13, <1>15, <1>16 DEF ng, k, f

\* pagetable_create.
LEMMA CreateTree ==
    ASSUME NEW t \in Holds, NEW h \in SUBSET Frames, NEW f \in Frames, NEW pg,
           DOMAIN pg = {}
    PROVE  LET u == [[t EXCEPT ![f] = ZeroPage] EXCEPT ![f][0] = SYSTEM]
           IN  \E L : Good(u, h \union {f}, f, Vroot + 1, pg, <<>>, L)
  <1> DEFINE u == [[t EXCEPT ![f] = ZeroPage] EXCEPT ![f][0] = SYSTEM]
             L == [n \in Depth |-> IF n = 0 THEN {f} ELSE {}]
             k == h \union {f}
             z == [t EXCEPT ![f] = ZeroPage]
  <1>1. ZeroPage \in [Index -> Frames \union {ABSENT, SYSTEM}]
        /\ \A j \in Index : ZeroPage[j] = ABSENT
    BY DEF ZeroPage
  <1>2. z \in Holds /\ z[f] = ZeroPage  BY <1>1 DEF Holds
  <1>3. 0 \in Index  BY PagingAssumption DEF Index
  <1> HIDE DEF z
  <1>4. /\ u \in Holds /\ u[f][0] = SYSTEM
        /\ \A j \in Index : j # 0 => u[f][j] = ABSENT
    BY <1>1, <1>2, <1>3 DEF Holds
  <1>5. /\ 0 \in Depth /\ 1 \in Depth /\ 2 \in Depth /\ 3 \in Depth
        /\ \A n \in 0..2 : n \in Depth /\ n + 1 \in Depth /\ n + 1 # 0
    BY DEF Depth
  <1>6. /\ L \in [Depth -> SUBSET Frames] /\ L[0] = {f}
        /\ \A n \in Depth : n # 0 => L[n] = {}
    BY <1>5
  <1> HIDE DEF u, L
  <1>7. Below(u, {f}) = {} /\ Below(u, {}) = {}  BY <1>4 DEF Below
  <1>8. IsTree(u, f, L)
    <2>1. ASSUME NEW n \in 0..2  PROVE L[n + 1] = Below(u, L[n])
      <3>1. L[n + 1] = {}  BY <1>5, <1>6
      <3>2. L[n] = {f} \/ L[n] = {}  BY <1>5, <1>6
      <3>. QED  BY <1>7, <3>1, <3>2
    <2>. QED  BY <1>6, <2>1 DEF IsTree
  <1>9. Apart(L)
    <2> SUFFICES ASSUME NEW m \in Depth, NEW n \in Depth, m # n
                 PROVE  L[m] \intersect L[n] = {}
      BY DEF Apart
    <2>1. L[m] = {} \/ L[n] = {}  BY <1>6
    <2>. QED  BY <2>1
  <1>10. \A n \in Depth : \A g \in L[n] : g = f  BY <1>6
  <1>11. OneParent(u, L)
    <2> SUFFICES ASSUME NEW n \in 0..2, NEW g \in L[n], NEW e \in L[n],
                        NEW i \in Index, NEW j \in Index, u[g][i] \in Frames
                 PROVE  FALSE
      BY DEF OneParent
    <2>1. u[f][i] \in Frames  BY <1>5, <1>10
    <2>2. ABSENT \notin Frames /\ SYSTEM \notin Frames
      BY PagingAssumption DEF ABSENT, SYSTEM
    <2>. QED  BY <1>4, <2>1, <2>2
  <1>12. SystemAt(u, f, L)
    <2>1. ABSENT # SYSTEM  BY DEF ABSENT, SYSTEM
    <2>. QED  BY <1>4, <1>10, <2>1 DEF SystemAt
  <1>13. L[1] = {} /\ L[2] = {} /\ L[3] = {}  BY <1>5, <1>6
  <1>14. Given(pg) = {} /\ Made(L) = {}  BY <1>13 DEF Given, Made
  <1>15. LeavesAre(u, L, {}) /\ OneLeaf(u, L, {})  BY <1>13 DEF LeavesAre, OneLeaf
  <1>16. Owned(k, L, {})  BY <1>10 DEF Owned
  <1>17. Sound(u, k, f, L, Given(pg))
    BY <1>4, <1>8, <1>9, <1>11, <1>12, <1>14, <1>15, <1>16 DEF Sound
  <1>18. PagesAre(u, f, L, pg)  BY DEF PagesAre
  <1>19. Counted(L, Vroot + 1, <<>>)
    <2>1. PendingOf(<<>>) = {} /\ Once(<<>>)  BY DEF PendingOf, Once
    <2>2. Made(L) \ PendingOf(<<>>) = {}  BY <1>14
    <2>3. Cardinality({}) = 0  BY FS_EmptySet
    <2>4. Vroot + 1 = Vroot + 1 + 0  BY PagingAssumption
    <2>. QED  BY <2>1, <2>2, <2>3, <2>4 DEF Counted
  <1>. QED  BY <1>17, <1>18, <1>19 DEF Good, u

-----------------------------------------------------------------------------
(* The invariant. *)

Typed ==
    /\ Pooled(State, 0)
    /\ pt \in [proot : Frames \union {0}, vnext : Nat]
    /\ todo \in Seq(Call)
    /\ PagesOf(pages)
    /\ active \in BOOLEAN /\ (active => Created)
    /\ ~Created => Quiet /\ DOMAIN pages = {} /\ pt.vnext = 0

\* The tree is sound, the client's pages reach their frames, and the tables
\* still to map are counted; the depths are those of the tree as it is.
IInv ==
    /\ Typed
    /\ Created => Good(tab, held, pt.proot, pt.vnext, pages, todo,
                       Depths(tab, pt.proot))

\* Whatever depths serve are the tree's.
LEMMA GoodIs ==
    ASSUME NEW t, NEW h, NEW r, NEW vn, NEW pg, NEW q,
           \E L : Good(t, h, r, vn, pg, q, L)
    PROVE  Good(t, h, r, vn, pg, q, Depths(t, r))
  <1>1. PICK L : Good(t, h, r, vn, pg, q, L)  OBVIOUS
  <1>2. IsTree(t, r, L)  BY <1>1 DEF Good, Sound
  <1>3. Depths(t, r) = L  BY <1>2, DepthsAre
  <1>. QED  BY <1>1, <1>3

\* The pool's variables as the operators take them.
LEMMA StateIs ==
    ASSUME NEW n, Pooled(State, n)
    PROVE  /\ tab \in Holds /\ free \in SUBSET Frames /\ held \in SUBSET Frames
           /\ free \intersect held = {} /\ free \union held = Frames
           /\ State.tab = tab /\ State.free = free /\ State.held = held
           /\ Cardinality(free) >= n
  <1>1. State.tab = tab /\ State.free = free /\ State.held = held  BY DEF State
  <1>2. State \in [tab : Holds, free : SUBSET Frames, held : SUBSET Frames]
    BY DEF Pooled
  <1>3. /\ State.tab \in Holds /\ State.free \in SUBSET Frames
        /\ State.held \in SUBSET Frames
    BY <1>2
  <1>. QED  BY <1>1, <1>3 DEF Pooled

\* What a frame pool is made of.
LEMMA PoolIs ==
    ASSUME NEW t \in Holds, NEW f \in SUBSET Frames, NEW h \in SUBSET Frames,
           f \intersect h = {}, f \union h = Frames, NEW n \in Nat, Cardinality(f) >= n
    PROVE  Pooled([tab |-> t, free |-> f, held |-> h], n)
  BY DEF Pooled

\* There is no tree at first.
LEMMA InitIInv == Init => IInv
  <1> SUFFICES ASSUME Init  PROVE IInv
    OBVIOUS
  <1>1. ZeroPage \in [Index -> Frames \union {ABSENT, SYSTEM}]  BY DEF ZeroPage
  <1>2. tab \in Holds  BY <1>1 DEF Init, Holds
  <1>3. Pooled(State, 0)
    <2>1. /\ free \in SUBSET Frames /\ held \in SUBSET Frames
          /\ free \intersect held = {} /\ free \union held = Frames
      BY DEF Init
    <2>2. Cardinality(free) >= 0
      BY PagingAssumption, FS_CardinalityType DEF Init
    <2>. QED  BY <1>2, <2>1, <2>2, PoolIs DEF State
  <1>4. pt.proot = 0 /\ pt.vnext = 0 /\ pt \in [proot : Frames \union {0}, vnext : Nat]
    BY DEF Init
  <1>5. todo \in Seq(Call) /\ Quiet /\ active = FALSE  BY DEF Init, Quiet
  <1>6. DOMAIN pages = {} /\ PagesOf(pages)
    <2>1. DOMAIN pages = {} /\ pages \in [DOMAIN pages -> Frames]  BY DEF Init
    <2>. QED  BY <2>1 DEF PagesOf, OneEach
  <1>. QED  BY <1>3, <1>4, <1>5, <1>6 DEF IInv, Typed, Created

\* pagetable_create keeps the invariant.
LEMMA CreateKeeps == IInv /\ pagetable_create => IInv'
  <1> SUFFICES ASSUME IInv, pagetable_create  PROVE IInv'
    OBVIOUS
  <1> DEFINE f == pfalloc(free)
  <1>1. Typed /\ ~Created  BY DEF IInv, pagetable_create
  <1>2. /\ tab \in Holds /\ free \in SUBSET Frames /\ held \in SUBSET Frames
        /\ free \intersect held = {} /\ free \union held = Frames
        /\ State.tab = tab
    BY <1>1, StateIs DEF Typed
  <1>3. /\ f \in free /\ free' = free \ {f} /\ held' = held \union {f}
    BY DEF pagetable_create, Pool!Take
  <1>4. tab' = [[tab EXCEPT ![f] = ZeroPage] EXCEPT ![f][0] = SYSTEM]
    BY <1>2 DEF pagetable_create, pgalloc, State
  <1>5. /\ pt' = [proot |-> f, vnext |-> Vroot + 1]
        /\ pages' = pages /\ todo' = todo /\ active' = active
    BY DEF pagetable_create
  <1>6. f \in Frames  BY <1>2, <1>3
  <1>7. DOMAIN pages = {} /\ todo = <<>> /\ active = FALSE
    BY <1>1 DEF Typed, Quiet
  <1> HIDE DEF f
  <1>8. \E L : Good(tab', held', f, Vroot + 1, pages, <<>>, L)
    <2> DEFINE u == [[tab EXCEPT ![f] = ZeroPage] EXCEPT ![f][0] = SYSTEM]
    <2>1. tab \in Holds /\ held \in SUBSET Frames /\ DOMAIN pages = {}  BY <1>2, <1>7
    <2>2. \E L : Good(u, held \union {f}, f, Vroot + 1, pages, <<>>, L)
      BY <1>6, <2>1, CreateTree
    <2>3. tab' = u /\ held' = held \union {f}  BY <1>3, <1>4
    <2>. QED  BY <2>2, <2>3
  <1>9. pt'.proot = f /\ pt'.vnext = Vroot + 1 /\ Vroot \in Nat
    BY <1>5, PagingAssumption
  <1>10. Good(tab', held', pt'.proot, pt'.vnext, pages', todo', Depths(tab', pt'.proot))
    BY <1>5, <1>7, <1>8, <1>9, GoodIs
  <1>11. Typed'
    <2>1. tab' \in Holds  BY <1>10 DEF Good, Sound
    <2>2. /\ free' \in SUBSET Frames /\ held' \in SUBSET Frames
          /\ free' \intersect held' = {} /\ free' \union held' = Frames
      BY <1>2, <1>3
    <2>3. Cardinality(free') >= 0
      BY <2>2, PagingAssumption, FS_Subset, FS_CardinalityType
    <2>4. Pooled(State, 0)'  BY <2>1, <2>2, <2>3, PoolIs DEF State
    <2>5. pt' \in [proot : Frames \union {0}, vnext : Nat]  BY <1>5, <1>6, <1>9
    <2>6. Created'
      <3>1. f # 0  BY <1>6, PagingAssumption
      <3>. QED  BY <1>9, <3>1 DEF Created
    <2>7. /\ todo' \in Seq(Call) /\ PagesOf(pages)' /\ active' \in BOOLEAN
      BY <1>1, <1>5 DEF Typed, PagesOf, OneEach
    <2>. QED  BY <2>4, <2>5, <2>6, <2>7 DEF Typed
  <1>. QED  BY <1>10, <1>11 DEF IInv

\* page_alloc keeps it.
LEMMA AllocKeeps ==
    ASSUME NEW v \in ClientPages  PROVE IInv /\ page_alloc(v) => IInv'
  <1> SUFFICES ASSUME IInv, page_alloc(v)  PROVE IInv'
    OBVIOUS
  <1> DEFINE r == pt.proot
             vn == pt.vnext
             f == pfalloc(State.free)
             a == add_pte(pgalloc(State), r, v, f)
             ng == With(pages, v, f)
  <1>1. /\ Typed /\ Created /\ todo = <<>> /\ v \notin DOMAIN pages
        /\ Cardinality(free) >= 10
        /\ Good(tab, held, r, vn, pages, todo, Depths(tab, r))
    BY DEF IInv, page_alloc, MaxGrowth, Quiet
  <1>2. /\ tab \in Holds /\ free \in SUBSET Frames /\ held \in SUBSET Frames
        /\ free \intersect held = {} /\ free \union held = Frames
        /\ State.tab = tab /\ State.free = free /\ State.held = held
    BY <1>1, StateIs DEF Typed
  <1>3. Pooled(State, 4)
    <2>1. Cardinality(free) \in Nat
      BY <1>2, PagingAssumption, FS_Subset, FS_CardinalityType
    <2>2. Cardinality(free) >= 4  BY <1>1, <2>1
    <2>. QED  BY <1>2, <2>2, PoolIs DEF State
  <1>4. f = pfalloc(free)  BY <1>2
  <1>5. /\ tab' = a.s.tab /\ free' = a.s.free /\ held' = a.s.held
        /\ todo' = Added(a.added) /\ pt' = pt /\ active' = active
    BY <1>4 DEF page_alloc, Becomes
  <1>6. pages' = ng  BY <1>4 DEF page_alloc, With
  <1> HIDE DEF r, vn, f, a, ng
  <1>7. Good(State.tab, State.held, r, vn, pages, <<>>, Depths(tab, r))
    BY <1>1, <1>2
  <1>8. Becoming(a, r, vn, ng, Added(a.added))
    <2>1. PagesOf(pages) /\ v \notin DOMAIN pages  BY <1>1 DEF Typed
    <2> DEFINE s == State
               L == Depths(tab, r)
    <2>2. Pooled(s, 4) /\ Good(s.tab, s.held, r, vn, pages, <<>>, L)  BY <1>3, <1>7
    <2>3. a = add_pte(pgalloc(s), r, v, f) /\ f = pfalloc(s.free)  BY DEF a, f
    <2> HIDE DEF s, L
    <2>. QED  BY <2>1, <2>2, <2>3, AllocTree DEF ng
  <1>9. Good(tab', held', r, vn, pages', todo', Depths(tab', r))
    BY <1>5, <1>6, <1>8, GoodIs DEF Becoming
  <1>10. Typed'
    <2>1. Pooled(State, 0)'  BY <1>5, <1>8 DEF State, Becoming
    <2>2. /\ pt' \in [proot : Frames \union {0}, vnext : Nat]
          /\ active' \in BOOLEAN /\ Created'
      BY <1>1, <1>5 DEF Typed, Created
    <2>3. PagesOf(pages)' /\ todo' \in Seq(Call)
      BY <1>5, <1>6, <1>8 DEF PagesOf, OneEach, Becoming
    <2>. QED  BY <2>1, <2>2, <2>3 DEF Typed
  <1>. QED  BY <1>5, <1>9, <1>10 DEF IInv, r, vn

\* The next call of add_pte keeps it.
LEMMA AddKeeps == IInv /\ add_table => IInv'
  <1> SUFFICES ASSUME IInv, add_table  PROVE IInv'
    OBVIOUS
  <1> DEFINE r == pt.proot
             vn == pt.vnext
             f == Head(todo).frame
             s == State
             a == add_pte(s, r, vn, f)
             nq == Added(a.added) \o [todo EXCEPT ![1].called = TRUE]
  <1>1. Typed /\ todo # <<>> /\ Cardinality(free) >= 3
    BY DEF IInv, add_table, MaxStep, Quiet
  <1>2. Created  BY <1>1 DEF Typed, Quiet
  <1>3. Good(tab, held, r, vn, pages, todo, Depths(tab, r))  BY <1>2 DEF IInv
  <1>4. /\ tab \in Holds /\ free \in SUBSET Frames /\ held \in SUBSET Frames
        /\ free \intersect held = {} /\ free \union held = Frames
        /\ s.tab = tab /\ s.free = free /\ s.held = held
    BY <1>1, StateIs DEF Typed
  <1>5. Pooled(s, 3)  BY <1>1, <1>4, PoolIs DEF State
  <1>6. /\ tab' = a.s.tab /\ free' = a.s.free /\ held' = a.s.held
        /\ todo' = nq /\ pt' = pt /\ pages' = pages /\ active' = active
    BY DEF add_table, Becomes
  <1> HIDE DEF r, vn, s
  <1>7. Becoming(a, r, vn, pages, nq)
    <2> DEFINE L == Depths(tab, r)
    <2>1. Good(s.tab, s.held, r, vn, pages, todo, L)  BY <1>3, <1>4
    <2>2. PagesOf(pages) /\ todo \in Seq(Call)  BY <1>1 DEF Typed
    <2> HIDE DEF L
    <2>. QED  BY <1>1, <1>5, <2>1, <2>2, AddTree
  <1> HIDE DEF f, a, nq
  <1>8. Good(tab', held', r, vn, pages', todo', Depths(tab', r))
    BY <1>6, <1>7, GoodIs DEF Becoming
  <1>9. Typed'
    <2>1. Pooled(State, 0)'  BY <1>6, <1>7 DEF State, Becoming
    <2>2. /\ pt' \in [proot : Frames \union {0}, vnext : Nat]
          /\ active' \in BOOLEAN /\ Created'
      BY <1>1, <1>2, <1>6 DEF Typed, Created
    <2>3. PagesOf(pages)' /\ todo' \in Seq(Call)
      BY <1>6, <1>7 DEF PagesOf, OneEach, Becoming
    <2>. QED  BY <2>1, <2>2, <2>3 DEF Typed
  <1>. QED  BY <1>6, <1>8, <1>9 DEF IInv, r, vn

\* The return of a call keeps it.
LEMMA NextKeeps == IInv /\ next_table => IInv'
  <1> SUFFICES ASSUME IInv, next_table  PROVE IInv'
    OBVIOUS
  <1> DEFINE r == pt.proot
             vn == pt.vnext
  <1>1. Typed /\ todo # <<>>  BY DEF IInv, next_table, Quiet
  <1>2. Created  BY <1>1 DEF Typed, Quiet
  <1>3. /\ Good(tab, held, r, vn, pages, todo, Depths(tab, r))
        /\ todo \in Seq(Call) /\ pt \in [proot : Frames \union {0}, vnext : Nat]
    BY <1>1, <1>2 DEF IInv, Typed
  <1>4. /\ tab' = tab /\ free' = free /\ held' = held /\ pages' = pages
        /\ todo' = Tail(todo) /\ active' = active
        /\ pt'.proot = r /\ pt'.vnext = vn + 1
        /\ pt' = [pt EXCEPT !.vnext = vn + 1]
    BY <1>3 DEF next_table
  <1> HIDE DEF r, vn
  <1>5. /\ Good(tab, held, r, vn + 1, pages, Tail(todo), Depths(tab, r))
        /\ Tail(todo) \in Seq(Call) /\ vn + 1 \in Nat
    BY <1>1, <1>3, NextTree
  <1>6. Good(tab', held', pt'.proot, pt'.vnext, pages', todo', Depths(tab', pt'.proot))
    BY <1>4, <1>5
  <1>7. Typed'
    <2>1. Pooled(State, 0)'  BY <1>1, <1>4 DEF Typed, State
    <2>2. pt' \in [proot : Frames \union {0}, vnext : Nat]  BY <1>3, <1>4, <1>5
    <2>3. Created'  BY <1>2, <1>4 DEF Created, r
    <2>4. /\ todo' \in Seq(Call) /\ PagesOf(pages)' /\ active' \in BOOLEAN
      BY <1>1, <1>4, <1>5 DEF Typed, PagesOf, OneEach
    <2>. QED  BY <2>1, <2>2, <2>3, <2>4 DEF Typed
  <1>. QED  BY <1>6, <1>7 DEF IInv

\* page_free keeps it.
LEMMA FreeKeeps ==
    ASSUME NEW v \in ClientPages  PROVE IInv /\ page_free(v) => IInv'
  <1> SUFFICES ASSUME IInv, page_free(v)  PROVE IInv'
    OBVIOUS
  <1> DEFINE r == pt.proot
             vn == pt.vnext
             L == Depths(tab, r)
             c == tab[tab[tab[r][PML4E(v)]][PDPTE(v)]][PDE(v)]
             ng == Without(pages, v)
  <1>1. Typed /\ Created /\ todo = <<>> /\ v \in DOMAIN pages
    BY DEF IInv, page_free, Quiet
  <1>2. Good(tab, held, r, vn, pages, todo, L)  BY <1>1 DEF IInv
  <1>3. /\ tab \in Holds /\ free \in SUBSET Frames /\ held \in SUBSET Frames
        /\ free \intersect held = {} /\ free \union held = Frames
    BY <1>1, StateIs DEF Typed
  <1>4. /\ tab' = [tab EXCEPT ![c][PTE(v)] = ABSENT]
        /\ free' = free \union {tab[c][PTE(v)]}
        /\ held' = held \ {tab[c][PTE(v)]}
        /\ pages' = ng /\ pt' = pt /\ todo' = todo /\ active' = active
    BY DEF page_free, Pool!GiveBack, Without
  <1> HIDE DEF L, r, vn, c
  <1>5. PICK e : At(tab, r, L, v, e) /\ tab[e][PTE(v)] = pages[v]
    BY <1>1, <1>2 DEF Good, PagesAre
  <1>6. c = e  BY <1>5, AtLeads DEF c
  <1>7. /\ At(tab, r, L, v, c) /\ tab[c][PTE(v)] = pages[v]
        /\ Puts(tab, c, PTE(v), ABSENT, tab')
    BY <1>4, <1>5, <1>6 DEF Puts
  <1>8. /\ Good(tab', held \ {pages[v]}, r, vn, ng, todo, L)
        /\ PagesOf(ng) /\ pages[v] \in held /\ tab' \in Holds
    <2>1. PagesOf(pages)  BY <1>1 DEF Typed
    <2>. QED  BY <1>1, <1>2, <1>7, <2>1, FreeTree
  <1>9. Good(tab', held', pt'.proot, pt'.vnext, pages', todo', Depths(tab', pt'.proot))
    BY <1>4, <1>7, <1>8, GoodIs DEF r, vn
  <1>10. Typed'
    <2>1. /\ free' \in SUBSET Frames /\ held' \in SUBSET Frames
          /\ free' \intersect held' = {} /\ free' \union held' = Frames
      BY <1>3, <1>4, <1>7, <1>8
    <2>2. Cardinality(free') >= 0
      BY <2>1, PagingAssumption, FS_Subset, FS_CardinalityType
    <2>3. Pooled(State, 0)'  BY <1>8, <2>1, <2>2, PoolIs DEF State
    <2>4. /\ pt' \in [proot : Frames \union {0}, vnext : Nat]
          /\ active' \in BOOLEAN /\ Created' /\ todo' \in Seq(Call)
      BY <1>1, <1>4 DEF Typed, Created
    <2>5. PagesOf(pages)'  BY <1>4, <1>8 DEF PagesOf, OneEach
    <2>. QED  BY <2>3, <2>4, <2>5 DEF Typed
  <1>. QED  BY <1>9, <1>10 DEF IInv

\* pagetable_destroy ends it: no tree is left to be sound.
LEMMA DestroyKeeps == IInv /\ pagetable_destroy => IInv'
  <1> SUFFICES ASSUME IInv, pagetable_destroy  PROVE IInv'
    OBVIOUS
  <1> DEFINE freed == Leaves(tab, pt.proot) \intersect held
  <1>1. Typed /\ todo = <<>> /\ active = FALSE
    BY DEF IInv, pagetable_destroy, Quiet, Typed
  <1>2. /\ tab \in Holds /\ free \in SUBSET Frames /\ held \in SUBSET Frames
        /\ free \intersect held = {} /\ free \union held = Frames
    BY <1>1, StateIs DEF Typed
  <1>3. /\ tab' = tab /\ free' = free \union freed /\ held' = held \ freed
        /\ pt' = [proot |-> 0, vnext |-> 0] /\ pages' = <<>>
        /\ todo' = todo /\ active' = active
    BY DEF pagetable_destroy
  <1>4. freed \subseteq held  OBVIOUS
  <1> HIDE DEF freed
  <1>5. /\ free' \in SUBSET Frames /\ held' \in SUBSET Frames
        /\ free' \intersect held' = {} /\ free' \union held' = Frames
    BY <1>2, <1>3, <1>4
  <1>6. Cardinality(free') >= 0
    BY <1>5, PagingAssumption, FS_Subset, FS_CardinalityType
  <1>7. Pooled(State, 0)'  BY <1>2, <1>3, <1>5, <1>6, PoolIs DEF State
  <1>8. pt'.proot = 0 /\ pt'.vnext = 0 /\ pt' \in [proot : Frames \union {0}, vnext : Nat]
    BY <1>3
  <1>9. ~Created' /\ Quiet' /\ todo' \in Seq(Call) /\ active' = FALSE
    BY <1>1, <1>3, <1>8 DEF Created, Quiet
  <1>10. DOMAIN pages' = {} /\ PagesOf(pages)'
    <2>1. DOMAIN pages' = {} /\ pages' \in [DOMAIN pages' -> Frames]  BY <1>3
    <2>. QED  BY <2>1 DEF PagesOf, OneEach
  <1>. QED  BY <1>7, <1>8, <1>9, <1>10 DEF IInv, Typed

\* The processor's doings leave the tree alone.
LEMMA ProcessorKeeps ==
    ASSUME pagetable_activate \/ (\E v \in ClientPages : Access(v))
    PROVE  IInv => IInv'
  <1> SUFFICES ASSUME IInv  PROVE IInv'
    OBVIOUS
  <1>1. /\ tab' = tab /\ free' = free /\ held' = held /\ pt' = pt /\ pages' = pages
        /\ todo' = todo /\ active' \in {active, ~active} /\ (active' => Created)
    BY DEF pagetable_activate, Access, IInv, Typed
  <1>2. active' \in BOOLEAN  BY <1>1 DEF IInv, Typed
  <1>. QED
    BY <1>1, <1>2 DEF IInv, Typed, State, Created, Quiet, PagesOf, OneEach

\* A stutter keeps it.
LEMMA StutterKeeps == IInv /\ UNCHANGED vars => IInv'
  BY DEF vars, IInv, Typed, State, Created, Quiet, PagesOf, OneEach

\* Every step keeps it.
LEMMA NextIInv == IInv /\ [Next]_vars => IInv'
  <1> SUFFICES ASSUME IInv, [Next]_vars  PROVE IInv'
    OBVIOUS
  <1>1. CASE pagetable_create  BY <1>1, CreateKeeps
  <1>2. CASE pagetable_activate  BY <1>2, ProcessorKeeps
  <1>3. CASE pagetable_destroy  BY <1>3, DestroyKeeps
  <1>4. CASE add_table  BY <1>4, AddKeeps
  <1>5. CASE next_table  BY <1>5, NextKeeps
  <1>6. ASSUME NEW v \in ClientPages, page_alloc(v)  PROVE IInv'
    BY <1>6, AllocKeeps
  <1>7. ASSUME NEW v \in ClientPages, Access(v)  PROVE IInv'
    BY <1>7, ProcessorKeeps
  <1>8. ASSUME NEW v \in ClientPages, page_free(v)  PROVE IInv'
    BY <1>8, FreeKeeps
  <1>9. CASE UNCHANGED vars  BY <1>9, StutterKeeps
  <1>. QED
    BY <1>1, <1>2, <1>3, <1>4, <1>5, <1>6, <1>7, <1>8, <1>9 DEF Next

-----------------------------------------------------------------------------
(* The theorems. *)

\* So it holds always.
LEMMA PagingInvariant == Spec => []IInv
  <1>. QED  BY InitIInv, NextIInv, PTL DEF Spec

\* The tables and leaves of the module are the depths' and their entries.
LEMMA TablesAre ==
    ASSUME NEW t, NEW h, NEW r, NEW L, NEW C, Sound(t, h, r, L, C)
    PROVE  /\ Tables(t, r).pdpts = L[1] /\ Tables(t, r).pdts = L[2]
           /\ Tables(t, r).ptts = L[3]
           /\ Leaves(t, r) = {t[f][i] : f \in L[3], i \in Index} \ {ABSENT}
  <1>1. IsTree(t, r, L)  BY DEF Sound
  <1>2. L[0] = {r} /\ L[1] = Below(t, {r})
    <2>1. 0 \in 0..2 /\ 0 + 1 = 1  OBVIOUS
    <2>. QED  BY <1>1, <2>1 DEF IsTree
  <1>3. L[2] = Below(t, L[1])
    <2>1. 1 \in 0..2 /\ 1 + 1 = 2  OBVIOUS
    <2>. QED  BY <1>1, <2>1 DEF IsTree
  <1>4. L[3] = Below(t, L[2])
    <2>1. 2 \in 0..2 /\ 2 + 1 = 3  OBVIOUS
    <2>. QED  BY <1>1, <2>1 DEF IsTree
  <1>5. Tables(t, r) = [pdpts |-> L[1], pdts |-> L[2], ptts |-> L[3]]
    BY <1>2, <1>3, <1>4 DEF Tables
  <1>6. /\ Tables(t, r).pdpts = L[1] /\ Tables(t, r).pdts = L[2]
        /\ Tables(t, r).ptts = L[3]
    BY <1>5
  <1>. QED  BY <1>6 DEF Leaves

\* What the client is told is where its pages lead.
LEMMA Translates ==
    IInv /\ Created => \A v \in DOMAIN pages : Leaf(tab, pt.proot, v) = pages[v]
  <1> SUFFICES ASSUME IInv, Created, NEW v \in DOMAIN pages
               PROVE  Leaf(tab, pt.proot, v) = pages[v]
    OBVIOUS
  <1>1. PICK c : At(tab, pt.proot, Depths(tab, pt.proot), v, c) /\ tab[c][PTE(v)] = pages[v]
    BY DEF IInv, Good, PagesAre
  <1>. QED  BY <1>1, AtLeads

\* The invariant is more than what the run checks.
LEMMA SoundNow == IInv => TreeSound
  <1> SUFFICES ASSUME IInv  PROVE TreeSound
    OBVIOUS
  <1> DEFINE r == pt.proot
             L == Depths(tab, r)
             C == Given(pages)
  <1>1. Typed  BY DEF IInv
  <1>2. /\ tab \in Holds /\ free \in SUBSET Frames /\ held \in SUBSET Frames
        /\ free \intersect held = {} /\ free \union held = Frames
    BY <1>1, StateIs DEF Typed
  <1>3. Created => /\ Sound(tab, held, r, L, C) /\ Counted(L, pt.vnext, todo)
    BY DEF IInv, Good
  <1> HIDE DEF L
  <1>4. TypeOK
    <2>1. pt.proot \in Frames \union {0}  BY <1>1 DEF Typed
    <2>2. pt.vnext \in 0..Vterm
      <3>1. Vterm \in Nat /\ Vroot \in Nat  BY PagingAssumption
      <3>2. CASE Created
        <4>1. pt.vnext \in Nat /\ pt.vnext <= Vterm  BY <1>3, <3>2, RegionSuffices
        <4>. QED  BY <3>1, <4>1
      <3>3. CASE ~Created
        <4>1. pt.vnext = 0  BY <1>1, <3>3 DEF Typed
        <4>. QED  BY <3>1, <4>1
      <3>. QED  BY <3>2, <3>3
    <2>3. /\ DOMAIN pages \subseteq ClientPages /\ (active => Created)
          /\ todo \in Seq([frame : Frames, called : BOOLEAN])
      BY <1>1 DEF Typed, PagesOf, Call
    <2>. QED  BY <1>2, <2>1, <2>2, <2>3 DEF TypeOK, Holds
  <1>5. PagesTranslate
    <2>1. Created => \A v \in DOMAIN pages : Leaf(tab, pt.proot, v) = pages[v]
      BY Translates
    <2>2. \A v, u \in DOMAIN pages : pages[v] = pages[u] => v = u
      BY <1>1 DEF Typed, PagesOf, OneEach
    <2>. QED  BY <2>1, <2>2 DEF PagesTranslate
  <1>6. NothingInUseIsFree
    <2> SUFFICES ASSUME Created
                 PROVE  LET ts == Tables(tab, r)
                        IN  ({r} \union ts.pdpts \union ts.pdts \union ts.ptts
                                \union Leaves(tab, r)) \subseteq held
      BY DEF NothingInUseIsFree
    <2>1. /\ Sound(tab, held, r, L, C)  BY <1>3
    <2>2. 0 \in Depth /\ 1 \in Depth /\ 2 \in Depth /\ 3 \in Depth  BY DEF Depth
    <2>3. /\ L[0] = {r} /\ L[0] \subseteq held /\ L[1] \subseteq held
          /\ L[2] \subseteq held /\ L[3] \subseteq held /\ C \subseteq held
      BY <2>1, <2>2 DEF Sound, IsTree, Owned
    <2>4. /\ Tables(tab, r).pdpts = L[1] /\ Tables(tab, r).pdts = L[2]
          /\ Tables(tab, r).ptts = L[3]
          /\ Leaves(tab, r) = {tab[f][i] : f \in L[3], i \in Index} \ {ABSENT}
      BY <2>1, TablesAre
    <2>5. Leaves(tab, r) \subseteq held
      <3>1. LeavesAre(tab, L, C)  BY <2>1 DEF Sound
      <3>2. Made(L) \subseteq held  BY <2>3 DEF Made
      <3>. QED  BY <2>3, <2>4, <3>1, <3>2 DEF LeavesAre
    <2>. QED  BY <2>3, <2>4, <2>5
  <1>. QED  BY <1>4, <1>5, <1>6 DEF TreeSound

\* At every moment the tree leads each of the client's pages to the frame it
\* was given, and no frame of the tree is in the pool, however often the tree
\* grew, mapped its own tables, gave pages back and was destroyed.
THEOREM TreeCorrect == Spec => []TreeSound
  <1>. QED  BY PagingInvariant, SoundNow, PTL

\* The processor's translation is the client's, if page_free tells it of the
\* page it frees.
LEMMA FreshStep ==
    ASSUME ~Inlined
    PROVE  IInv /\ NoStaleTranslation /\ [Next]_vars => NoStaleTranslation'
  <1> SUFFICES ASSUME IInv, NoStaleTranslation, [Next]_vars  PROVE NoStaleTranslation'
    OBVIOUS
  <1>0. /\ tlb # None => active /\ tlb.page \in DOMAIN pages /\ tlb.frame = pages[tlb.page]
        /\ active => Created
    BY DEF NoStaleTranslation, IInv, Typed
  <1>1. CASE pagetable_create
    <2>1. tlb' = tlb /\ ~active  BY <1>0, <1>1 DEF pagetable_create
    <2>. QED  BY <1>0, <2>1 DEF NoStaleTranslation
  <1>2. CASE pagetable_activate
    BY <1>2 DEF pagetable_activate, set_pagetable, NoStaleTranslation
  <1>3. CASE pagetable_destroy
    <2>1. tlb' = tlb /\ ~active  BY <1>3 DEF pagetable_destroy
    <2>. QED  BY <1>0, <2>1 DEF NoStaleTranslation
  <1>4. CASE add_table
    BY <1>0, <1>4 DEF add_table, NoStaleTranslation
  <1>5. CASE next_table
    BY <1>0, <1>5 DEF next_table, NoStaleTranslation
  <1>6. ASSUME NEW v \in ClientPages, page_alloc(v)  PROVE NoStaleTranslation'
    <2>1. tlb' = tlb /\ active' = active  BY <1>6 DEF page_alloc
    <2>2. \A p \in DOMAIN pages : p \in DOMAIN pages' /\ pages'[p] = pages[p]
      BY <1>6 DEF page_alloc
    <2>. QED  BY <1>0, <2>1, <2>2 DEF NoStaleTranslation
  <1>7. ASSUME NEW v \in ClientPages, Access(v)  PROVE NoStaleTranslation'
    <2>1. /\ active /\ active' = active /\ pages' = pages /\ v \in DOMAIN pages
          /\ tlb' = [page |-> v, frame |-> Leaf(tab, pt.proot, v)]
      BY <1>7 DEF Access
    <2>2. Leaf(tab, pt.proot, v) = pages[v]  BY <1>0, <2>1, Translates
    <2>3. tlb'.page = v /\ tlb'.frame = pages[v]  BY <2>1, <2>2
    <2>. QED  BY <2>1, <2>3 DEF NoStaleTranslation
  <1>8. ASSUME NEW v \in ClientPages, page_free(v)  PROVE NoStaleTranslation'
    <2>1. /\ active' = active /\ tlb' = IF active THEN invalidate_page(v) ELSE tlb
          /\ \A p \in DOMAIN pages : p # v => p \in DOMAIN pages' /\ pages'[p] = pages[p]
      BY <1>8 DEF page_free
    <2>2. CASE tlb = None
      <3>1. tlb' = None  BY <2>1, <2>2 DEF invalidate_page
      <3>. QED  BY <3>1 DEF NoStaleTranslation
    <2>3. CASE tlb # None
      <3>1. active /\ tlb.page \in DOMAIN pages /\ tlb.frame = pages[tlb.page]
        BY <1>0, <2>3
      <3>2. CASE tlb.page = v
        <4>1. tlb' = None  BY <2>1, <3>1, <3>2 DEF invalidate_page
        <4>. QED  BY <4>1 DEF NoStaleTranslation
      <3>3. CASE tlb.page # v
        <4>1. tlb' = tlb  BY <2>1, <3>3 DEF invalidate_page
        <4>. QED  BY <2>1, <3>1, <3>3, <4>1 DEF NoStaleTranslation
      <3>. QED  BY <3>2, <3>3
    <2>. QED  BY <2>2, <2>3
  <1>9. CASE UNCHANGED vars
    BY <1>9 DEF vars, NoStaleTranslation
  <1>. QED
    BY <1>1, <1>2, <1>3, <1>4, <1>5, <1>6, <1>7, <1>8, <1>9 DEF Next

\* As long as the build takes cpu.asm's invalidate_page, no translation
\* outlives the page: neither a freed page's, nor that of a table that was
\* changed for another or destroyed.
THEOREM TranslationCorrect ==
    ASSUME ~Inlined
    PROVE  Spec => []NoStaleTranslation
  <1>1. Init => NoStaleTranslation  BY DEF Init, NoStaleTranslation
  <1>2. IInv /\ NoStaleTranslation /\ [Next]_vars => NoStaleTranslation'  BY FreshStep
  <1>. QED  BY <1>1, <1>2, PagingInvariant, PTL DEF Spec

\* Destroying a page table brings every page of the client's back to the
\* pool: each is an entry of some table of the last depth.
THEOREM DestroyCorrect == Spec => DestroyReturnsPages
  <1>1. IInv /\ pagetable_destroy => \A v \in DOMAIN pages : pages[v] \in free'
    <2> SUFFICES ASSUME IInv, pagetable_destroy, NEW v \in DOMAIN pages
                 PROVE  pages[v] \in free'
      OBVIOUS
    <2> DEFINE r == pt.proot
               L == Depths(tab, r)
               C == Given(pages)
    <2>1. /\ Created /\ free' = free \union (Leaves(tab, r) \intersect held)
      BY DEF pagetable_destroy
    <2>2. Sound(tab, held, r, L, C) /\ PagesAre(tab, r, L, pages)
      BY <2>1 DEF IInv, Good
    <2> HIDE DEF L
    <2>3. PICK c : At(tab, r, L, v, c) /\ tab[c][PTE(v)] = pages[v]
      BY <2>2 DEF PagesAre
    <2>4. v \in Pages /\ pages[v] \in Frames
      BY PagingAssumption DEF IInv, Typed, PagesOf, Pages
    <2>5. PTE(v) \in Index /\ c \in L[3]  BY <2>3, <2>4, Indices DEF At
    <2>6. pages[v] # ABSENT  BY <2>4, PagingAssumption DEF ABSENT
    <2>7. Leaves(tab, r) = {tab[f][i] : f \in L[3], i \in Index} \ {ABSENT}
      BY <2>2, TablesAre
    <2>8. pages[v] \in Leaves(tab, r)  BY <2>3, <2>5, <2>6, <2>7
    <2>9. pages[v] \in held
      <3>1. pages[v] \in C  BY DEF Given
      <3>. QED  BY <2>2, <3>1 DEF Sound, Owned
    <2>. QED  BY <2>1, <2>8, <2>9
  <1>2. IInv /\ [Next]_vars
          => [pagetable_destroy => \A v \in DOMAIN pages : pages[v] \in free']_vars
    BY <1>1
  <1>. QED  BY <1>2, PagingInvariant, PTL DEF Spec, DestroyReturnsPages

-----------------------------------------------------------------------------
(* Numbers and addresses. *)

\* A nonempty set of natural numbers has a least element.
LEMMA Smallest ==
    ASSUME NEW S, S \subseteq Nat, S # {}
    PROVE  \E m \in S : \A k \in S : m <= k
PROOF
  <1>1. PICK m \in S : \A k \in S : ~ (<<k, m>> \in OpToRel(<, Nat))
    BY NatLessThanWellFounded, WFMin
  <1>2. \A k \in S : ~ (k < m)
    BY <1>1 DEF OpToRel
  <1> QED
    BY <1>2

\* It is the one that Least chooses.
LEMMA LeastIs ==
    ASSUME NEW S, S \subseteq Nat, S # {}
    PROVE  Least(S) \in S /\ \A k \in S : Least(S) <= k
PROOF
  BY Smallest DEF Least

\* Induction up to a number, for a set.
LEMMA UpTo ==
    ASSUME NEW n \in Nat, NEW S, 0 \in S,
           \A i \in 0..n : i \in S /\ i < n => i + 1 \in S
    PROVE  0..n \subseteq S
PROOF
  <1> DEFINE W == {i \in 0..n : i \notin S}
  <1>1. SUFFICES ASSUME W # {} PROVE FALSE
    OBVIOUS
  <1>2. PICK k \in W : \A i \in W : k <= i
    <2>1. W \subseteq Nat
      OBVIOUS
    <2> HIDE DEF W
    <2> QED
      BY <1>1, <2>1, Smallest
  <1>3. k \in 1..n /\ k \notin S
    BY <1>2
  <1>4. k - 1 \in 0..n /\ k - 1 < n /\ k - 1 \notin W
    BY <1>2, <1>3
  <1> QED
    BY <1>3, <1>4

\* The values w that come of repeating g, n times from x on.
Repeats(w, n, X, g, x) ==
    w \in [0..n -> X] /\ w[0] = x /\ \A i \in 1..n : w[i] = g[w[i - 1]]

\* There are such values.
LEMMA Iterates ==
    ASSUME NEW n \in Nat, NEW X, NEW g \in [X -> X], NEW x \in X
    PROVE  \E w : Repeats(w, n, X, g, x)
PROOF
  <1> USE DEF Repeats
  <1> DEFINE S == {k \in 0..n :
                      \E w \in [0..k -> X] :
                          w[0] = x /\ \A i \in 1..k : w[i] = g[w[i - 1]]}
  <1>1. 0 \in S
    <2> DEFINE z == [i \in 0..0 |-> x]
    <2>1. z \in [0..0 -> X] /\ z[0] = x
      OBVIOUS
    <2>2. \A i \in 1..0 : z[i] = g[z[i - 1]]
      OBVIOUS
    <2> HIDE DEF z
    <2> QED
      BY <2>1, <2>2
  <1>2. ASSUME NEW k \in 0..n, k \in S, k < n
        PROVE  k + 1 \in S
    <2>1. PICK w \in [0..k -> X] : w[0] = x /\ \A i \in 1..k : w[i] = g[w[i - 1]]
      BY <1>2
    <2> DEFINE u == [i \in 0..(k + 1) |-> IF i <= k THEN w[i] ELSE g[w[k]]]
    <2>2. u \in [0..(k + 1) -> X] /\ u[0] = x
      BY <2>1
    <2>3. ASSUME NEW i \in 1..(k + 1)
          PROVE  u[i] = g[u[i - 1]]
      <3>1. CASE i <= k
        BY <2>1, <3>1
      <3>2. CASE i = k + 1
        BY <2>1, <3>2
      <3> QED
        BY <3>1, <3>2
    <2>4. k + 1 \in 0..n
      BY <1>2
    <2> HIDE DEF u
    <2> QED
      BY <2>2, <2>3, <2>4
  <1>3. 0..n \subseteq S
    <2> HIDE DEF S
    <2> QED
      BY <1>1, <1>2, UpTo
  <1> QED
    BY <1>3

\* The heap's bytes, when it is as large as it may be.
Limit == maxpages * PAGE_SIZE

\* Multiples of sixteen.
LEMMA Sixteens ==
    ASSUME NEW p \in Nat
    PROVE  p * PAGE_SIZE \in Nat /\ (p * PAGE_SIZE) % 16 = 0
PROOF
  <1>1. PICK k \in Nat : PAGE_SIZE = 16 * k
    <2>1. PAGE_SIZE \div 16 \in Nat /\ PAGE_SIZE = 16 * (PAGE_SIZE \div 16)
      BY HeapAssumption
    <2> QED
      BY <2>1
  <1>2. p * k \in Nat /\ p * PAGE_SIZE = 16 * (p * k)
    BY <1>1
  <1> DEFINE q == p * k
  <1>3. q \in Nat /\ (16 * q) % 16 = 0
    <2> HIDE DEF q
    <2>1. q \in Nat
      BY <1>2 DEF q
    <2> QED
      BY <2>1
  <1> QED
    BY <1>2, <1>3

\* More pages are more bytes.
LEMMA PagesGrow ==
    ASSUME NEW p \in Nat, NEW q \in Nat, p <= q
    PROVE  p * PAGE_SIZE <= q * PAGE_SIZE
           /\ (q - p) * PAGE_SIZE = q * PAGE_SIZE - p * PAGE_SIZE
PROOF
  <1>1. PAGE_SIZE \in Nat
    BY HeapAssumption
  <1>2. PICK d \in Nat : q = p + d
    <2>1. q - p \in Nat /\ q = p + (q - p)
      OBVIOUS
    <2> QED
      BY <2>1
  <1>3. (p + d) * PAGE_SIZE = p * PAGE_SIZE + d * PAGE_SIZE /\ d * PAGE_SIZE \in Nat
        /\ p * PAGE_SIZE \in Nat
    BY <1>1
  <1>4. q - p = d
    BY <1>2
  <1> QED
    BY <1>2, <1>3, <1>4

\* The numbers of the module.
LEMMA Limits ==
    /\ maxpages \in Nat \ {0} /\ ALLOC_PAGES <= maxpages
    /\ Limit \in Nat /\ Limit % 16 = 0 /\ 96 <= Limit
    /\ MaxBlocks \in Nat \ {0} /\ Limit < 32 * MaxBlocks
PROOF
  <1>1. maxpages \in Nat \ {0} /\ ALLOC_PAGES <= maxpages
    BY HeapAssumption DEF maxpages, Greater
  <1>2. Limit \in Nat /\ Limit % 16 = 0
    BY <1>1, Sixteens DEF Limit
  <1>3. 1 * PAGE_SIZE <= Limit
    BY <1>1, PagesGrow DEF Limit
  <1>4. 96 <= Limit
    BY <1>2, <1>3, HeapAssumption
  <1>5. MaxBlocks = Limit \div 32 + 1
    BY DEF MaxBlocks, Limit
  <1>6. MaxBlocks \in Nat \ {0} /\ Limit < 32 * MaxBlocks
    BY <1>2, <1>5
  <1> QED
    BY <1>1, <1>2, <1>4, <1>6

\* The words are the multiples of eight below the limit.
LEMMA WordIs ==
    \A a \in Int : a \in Words <=> 0 <= a /\ a < Limit /\ a % 8 = 0
PROOF
  <1> DEFINE N == Limit \div 8
  <1>1. Words = {8 * i : i \in 0..(N - 1)}
    BY DEF Words, Limit
  <1>2. N \in Nat /\ Limit = 8 * N
    BY Limits
  <1> HIDE DEF N
  <1>3. ASSUME NEW a \in Int, 0 <= a, a < Limit, a % 8 = 0
        PROVE  a \in Words
    <2>1. a \div 8 \in 0..(N - 1) /\ a = 8 * (a \div 8)
      BY <1>2, <1>3
    <2> QED
      BY <1>1, <2>1
  <1>4. ASSUME NEW a \in Words
        PROVE  0 <= a /\ a < Limit /\ a % 8 = 0
    <2>1. PICK i \in 0..(N - 1) : a = 8 * i
      BY <1>1
    <2> QED
      BY <1>2, <2>1
  <1> QED
    BY <1>3, <1>4

-----------------------------------------------------------------------------
(* The blocks and the list. *)

\* Memory that keeps to its pages.
Paged(m) == m \in [Words -> Int] /\ m[PagesField] \in ALLOC_PAGES..maxpages

\* Where the block after b begins, or the heap ends.
Beyond(m, b) == b + m[b] + OVERHEAD

\* Block b is between addresses lo and hi, and is as large as it says on
\* both ends.
Formed(m, b, lo, hi) ==
    /\ b \in Nat /\ lo <= b /\ b % 16 = 0
    /\ m[b] \in Nat /\ m[b] % 16 = 8 /\ 24 <= m[b] /\ Beyond(m, b) <= hi
    /\ m[footer(b, m[b])] = m[b] /\ m[flags(b)] \in {0, 1}

\* The blocks B fill the heap from lo to hi.
Tiles(m, B, lo, hi) ==
    /\ \A b \in B : Formed(m, b, lo, hi) /\ Beyond(m, b) \in B \union {hi}
    /\ \A b, c \in B : b < c => Beyond(m, b) <= c

\* The free ones among them.
FreeOf(m, B) == {b \in B : IsFree(m, b)}

\* No two are adjacent.
Merged(m, B) == \A b \in FreeOf(m, B) : Beyond(m, b) \notin FreeOf(m, B)

\* y is the first of F at address a or behind it, or there is none.
FirstFrom(F, a, y) ==
    IF y = NULL THEN \A f \in F : f < a
    ELSE y \in F /\ a <= y /\ \A f \in F : f < a \/ y <= f

\* y is the last of F before address a, or there is none.
LastBefore(F, a, y) ==
    IF y = NULL THEN \A f \in F : a <= f
    ELSE y \in F /\ y < a /\ \A f \in F : f <= y \/ a <= f

\* What follows block b, or begins the list (NULL).
Successor(m, b) == m[IF b = NULL THEN FirstField ELSE next(b)]

\* The list is the free blocks in order, but for what comes after x.
ListedBut(m, B, x) ==
    /\ \A b \in FreeOf(m, B) \union {NULL} :
           b # x => FirstFrom(FreeOf(m, B), b + 1, Successor(m, b))
    /\ \A b \in FreeOf(m, B) : LastBefore(FreeOf(m, B), b, m[prev(b)])

\* A heap of the blocks B, in order but perhaps for what the list has after x.
Ordered(m, B, x) ==
    /\ Paged(m)
    /\ FirstBlock \in B
    /\ Tiles(m, B, FirstBlock, Term(m))
    /\ Merged(m, B)
    /\ ListedBut(m, B, x)

\* A heap of the blocks B.
Proper(m, B) ==
    /\ Ordered(m, B, NULL)
    /\ FirstFrom(FreeOf(m, B), 1, m[FirstField])

\* Which x does not matter in a heap that is in order.
LEMMA ProperOrdered ==
    ASSUME NEW m, NEW B, Proper(m, B), NEW x
    PROVE  Ordered(m, B, x)
PROOF
  <1>1. Successor(m, NULL) = m[FirstField]
    BY DEF Successor
  <1> QED
    BY <1>1 DEF Proper, Ordered, ListedBut, NULL

\* A heap is in order once what follows x is right as well.
LEMMA OrderedProper ==
    ASSUME NEW m, NEW B, NEW x, Ordered(m, B, x),
           x \in FreeOf(m, B) \union {NULL},
           FirstFrom(FreeOf(m, B), x + 1, Successor(m, x))
    PROVE  Proper(m, B)
PROOF
  <1>1. \A b \in FreeOf(m, B) \union {NULL} :
            FirstFrom(FreeOf(m, B), b + 1, Successor(m, b))
    BY DEF Ordered, ListedBut
  <1>2. Successor(m, NULL) = m[FirstField] /\ NULL + 1 = 1
    BY DEF Successor, NULL
  <1> QED
    BY <1>1, <1>2 DEF Proper, Ordered, ListedBut

\* The end of the heap.
LEMMA TermIs ==
    ASSUME NEW m, Paged(m)
    PROVE  /\ Term(m) \in Nat /\ Term(m) % 16 = 0
           /\ 96 <= Term(m) /\ Term(m) <= Limit
PROOF
  <1> DEFINE p == m[PagesField]
  <1>1. p \in Nat \ {0} /\ p <= maxpages
    BY Limits, HeapAssumption DEF Paged
  <1>2. Term(m) = p * PAGE_SIZE
    BY DEF Term
  <1> HIDE DEF p
  <1>3. Term(m) \in Nat /\ Term(m) % 16 = 0
    BY <1>1, <1>2, Sixteens
  <1>4. p * PAGE_SIZE <= maxpages * PAGE_SIZE /\ 1 * PAGE_SIZE <= p * PAGE_SIZE
    BY <1>1, Limits, PagesGrow
  <1> QED
    BY <1>2, <1>3, <1>4, HeapAssumption DEF Limit

\* The words of a block.
LEMMA FieldsAre ==
    ASSUME NEW m, NEW b, NEW lo \in Nat, NEW hi \in Nat, hi <= Limit,
           Formed(m, b, lo, hi)
    PROVE  /\ b \in Words /\ flags(b) \in Words /\ next(b) \in Words
           /\ prev(b) \in Words /\ footer(b, m[b]) \in Words
           /\ b + 48 <= Beyond(m, b) /\ Beyond(m, b) \in Nat
           /\ Beyond(m, b) % 16 = 0
PROOF
  <1>1. /\ b \in Nat /\ b % 16 = 0 /\ m[b] \in Nat /\ m[b] % 16 = 8 /\ 24 <= m[b]
        /\ b + m[b] + 24 <= Limit
    BY Limits DEF Formed, Beyond, OVERHEAD, HEADER, FOOTER
  <1> QED
    BY <1>1, WordIs, Limits DEF flags, next, prev, footer, Beyond, OVERHEAD, HEADER, FOOTER

-----------------------------------------------------------------------------
(* Replacing blocks by others. *)

\* Of the blocks B, those outside the addresses from lo to e.
Outside(B, lo, e) == {b \in B : b < lo \/ e <= b}

\* Where blocks may end that are replaced up to e, and the new ones at e2: at
\* a block that stays, or at the end of the heap, which may move.
Ends(m, B, u, e, e2) ==
    \/ e \in B /\ e2 = e /\ Term(u) = Term(m)
    \/ e = Term(m) /\ e2 = Term(u) /\ e <= e2

\* From m to u no words change but those from lo to e2, the heap's own, and
\* the links of the free blocks around, p and n.
KeptBut(m, u, lo, e2, p, n) ==
    /\ \A a \in Words : (a < lo \/ e2 <= a) /\ a # PagesField /\ a # FirstField
                        /\ (p # NULL => a # next(p)) /\ (n # NULL => a # prev(n))
                        => u[a] = m[a]
    /\ p # NULL => u[FirstField] = m[FirstField]

\* From m to u, the blocks from lo to e are replaced by N, of which only g is
\* free, or none (NULL).
Spliced(m, B, u, lo, e, e2, N, g, p, n) ==
    /\ Paged(u)
    /\ lo \in B \union {Term(m)} /\ lo <= e /\ Ends(m, B, u, e, e2)
    /\ lo \in N /\ Tiles(u, N, lo, e2) /\ FreeOf(u, N) = {g} \ {NULL}
    /\ LastBefore(FreeOf(m, B), lo, p) /\ FirstFrom(FreeOf(m, B), e, n)
    /\ g # NULL => /\ Beyond(u, g) = e2 /\ e \notin FreeOf(m, B)
                   /\ u[next(g)] = n /\ u[prev(g)] = p
                   /\ g = lo => \A c \in FreeOf(m, B) : Beyond(m, c) # lo
    /\ n # NULL => u[prev(n)] = IF g = NULL THEN p ELSE g
    /\ KeptBut(m, u, lo, e2, p, n)

\* The blocks that stay are below the replaced ones, or behind them.
LEMMA OutsideIs ==
    ASSUME NEW m, NEW B, NEW x, Ordered(m, B, x),
           NEW lo \in B \union {Term(m)}, NEW e, lo <= e,
           e \in B \union {Term(m)},
           NEW b \in Outside(B, lo, e)
    PROVE  /\ b \in B /\ b \in Nat /\ 48 <= b /\ b < Term(m)
           /\ Formed(m, b, FirstBlock, Term(m))
           /\ Beyond(m, b) \in Nat /\ b + 48 <= Beyond(m, b)
           /\ \/ Beyond(m, b) <= lo
              \/ e <= b
PROOF
  <1>1. Term(m) \in Nat /\ Term(m) <= Limit /\ Limit \in Nat
    BY TermIs, Limits DEF Ordered
  <1>2. b \in B /\ Formed(m, b, FirstBlock, Term(m)) /\ (b < lo \/ e <= b)
    BY DEF Outside, Ordered, Tiles
  <1>3. b \in Nat /\ 48 <= b /\ Beyond(m, b) \in Nat /\ b + 48 <= Beyond(m, b)
        /\ Beyond(m, b) <= Term(m)
    BY <1>1, <1>2, FieldsAre DEF Formed, FirstBlock
  <1>4. lo \in B => (b < lo => Beyond(m, b) <= lo)
    BY <1>2 DEF Ordered, Tiles
  <1> QED
    BY <1>1, <1>2, <1>3, <1>4

\* Their fields stay, but for the two links.
LEMMA OutsideKeeps ==
    ASSUME NEW m, NEW B, NEW u, NEW lo, NEW e, NEW e2, NEW N, NEW g, NEW p, NEW n,
           Ordered(m, B, p), Spliced(m, B, u, lo, e, e2, N, g, p, n),
           NEW b \in Outside(B, lo, e)
    PROVE  /\ u[b] = m[b] /\ u[flags(b)] = m[flags(b)]
           /\ u[footer(b, m[b])] = m[footer(b, m[b])]
           /\ b # p => u[next(b)] = m[next(b)]
           /\ b # n => u[prev(b)] = m[prev(b)]
           /\ b \notin FreeOf(m, B) =>
                \A a \in Words : b <= a /\ a < Beyond(m, b) => u[a] = m[a]
           /\ Beyond(u, b) = Beyond(m, b)
PROOF
  <1>1. Term(m) \in Nat /\ Term(m) <= Limit /\ Limit \in Nat
    BY TermIs, Limits DEF Ordered
  <1>2. /\ lo \in B \union {Term(m)} /\ e \in B \union {Term(m)} /\ lo <= e
        /\ LastBefore(FreeOf(m, B), lo, p) /\ FirstFrom(FreeOf(m, B), e, n)
        /\ KeptBut(m, u, lo, e2, p, n)
    BY DEF Spliced, Ends
  <1>3. \A c \in B : c \in Nat /\ Beyond(m, c) \in Nat /\ c + 48 <= Beyond(m, c)
                     /\ c < Term(m)
    BY <1>1, FieldsAre DEF Ordered, Tiles, Formed, FirstBlock
  <1>4. \A c, d \in B : c < d => Beyond(m, c) <= d
    BY DEF Ordered, Tiles
  <1>5. lo \in Nat /\ e \in Nat
    BY <1>1, <1>2, <1>3
  <1>6. (p # NULL => p \in B /\ p \in FreeOf(m, B) /\ p < lo)
        /\ (n # NULL => n \in B /\ n \in FreeOf(m, B) /\ e <= n)
    BY <1>2 DEF LastBefore, FirstFrom, FreeOf
  <1>7. /\ b \in B /\ b \in Nat /\ 48 <= b /\ Formed(m, b, FirstBlock, Term(m))
        /\ Beyond(m, b) <= lo \/ e <= b
    BY <1>2, OutsideIs
  <1>8. /\ b \in Words /\ flags(b) \in Words /\ next(b) \in Words
        /\ prev(b) \in Words /\ footer(b, m[b]) \in Words
    BY <1>1, <1>7, FieldsAre DEF FirstBlock
  <1>9. e <= b => e2 <= b
    <2>1. e \in B => e2 = e
      BY <1>1, <1>3 DEF Spliced, Ends
    <2> QED
      BY <1>1, <1>2, <1>3, <1>7, <2>1
  <1>10. \A a \in Words : b <= a /\ a < Beyond(m, b) => a < lo \/ e2 <= a
    <2>1. Beyond(m, b) \in Nat
      BY <1>3, <1>7
    <2>2. e2 \in Nat
      BY <1>3, TermIs DEF Spliced, Ends
    <2>3. \A a \in Words : a \in Int
      BY DEF Words
    <2> QED
      BY <1>5, <1>7, <1>9, <2>1, <2>2, <2>3
  <1>11. \A a \in Words :
            /\ b <= a /\ a < Beyond(m, b)
            /\ (b = p => a # next(b)) /\ (b = n => a # prev(b))
            => u[a] = m[a]
    <2> SUFFICES ASSUME NEW a \in Words, b <= a, a < Beyond(m, b),
                        b = p => a # next(b), b = n => a # prev(b)
                 PROVE  u[a] = m[a]
      OBVIOUS
    <2>1. a \in Nat
      BY WordIs DEF Words
    <2>2. a # PagesField /\ a # FirstField
      BY <1>7, <2>1 DEF PagesField, FirstField
    <2>3. ASSUME p # NULL, p # b
          PROVE  a # next(p)
      <3>1. p \in B /\ b \in B /\ p \in Nat /\ Beyond(m, p) \in Nat /\ p + 48 <= Beyond(m, p)
        BY <1>3, <1>6, <1>7, <2>3
      <3>2. (b < p => Beyond(m, b) <= p) /\ (p < b => Beyond(m, p) <= b)
        BY <1>4, <3>1
      <3>3. b \in Nat /\ Beyond(m, b) \in Nat
        BY <1>3, <1>7
      <3> QED
        BY <2>1, <2>3, <3>1, <3>2, <3>3 DEF next
    <2>4. ASSUME n # NULL, n # b
          PROVE  a # prev(n)
      <3>1. n \in B /\ b \in B /\ n \in Nat /\ Beyond(m, n) \in Nat /\ n + 48 <= Beyond(m, n)
        BY <1>3, <1>6, <1>7, <2>4
      <3>2. (b < n => Beyond(m, b) <= n) /\ (n < b => Beyond(m, n) <= b)
        BY <1>4, <3>1
      <3>3. b \in Nat /\ Beyond(m, b) \in Nat
        BY <1>3, <1>7
      <3> QED
        BY <2>1, <2>4, <3>1, <3>2, <3>3 DEF prev
    <2> QED
      BY <1>2, <1>10, <2>2, <2>3, <2>4 DEF KeptBut
  <1>12. /\ 24 <= m[b] /\ m[b] \in Nat /\ Beyond(m, b) = b + m[b] + 24
         /\ flags(b) = b + 8 /\ next(b) = b + 16 /\ prev(b) = b + 24
         /\ footer(b, m[b]) = b + 16 + m[b]
    BY <1>7 DEF Formed, flags, next, prev, footer, Beyond, OVERHEAD, HEADER, FOOTER
  <1>13. u[b] = m[b] /\ u[flags(b)] = m[flags(b)]
         /\ u[footer(b, m[b])] = m[footer(b, m[b])]
    BY <1>7, <1>8, <1>11, <1>12
  <1>14. (b # p => u[next(b)] = m[next(b)]) /\ (b # n => u[prev(b)] = m[prev(b)])
    BY <1>7, <1>8, <1>11, <1>12
  <1>15. b \notin FreeOf(m, B) =>
            \A a \in Words : b <= a /\ a < Beyond(m, b) => u[a] = m[a]
    <2>1. b \notin FreeOf(m, B) => b # p /\ b # n
      BY <1>6, <1>7 DEF NULL
    <2> QED
      BY <1>11, <2>1
  <1> QED
    BY <1>13, <1>14, <1>15 DEF Beyond

\* What lies around the replaced blocks, and between them.
LEMMA SpliceBounds ==
    ASSUME NEW m, NEW B, NEW u, NEW lo, NEW e, NEW e2, NEW N, NEW g, NEW p, NEW n,
           Ordered(m, B, p), Spliced(m, B, u, lo, e, e2, N, g, p, n)
    PROVE  /\ lo \in Nat /\ e \in Nat /\ e2 \in Nat /\ 48 <= lo /\ lo < e2
           /\ lo <= e /\ e <= e2 /\ e2 <= Term(u)
           /\ Term(m) \in Nat /\ Term(u) \in Nat /\ Term(u) <= Limit
           /\ \A b \in N : /\ b \in Nat /\ lo <= b /\ b < e2
                           /\ Beyond(u, b) \in Nat /\ b < Beyond(u, b)
                           /\ Formed(u, b, lo, e2)
           /\ \A b \in B : b \in Nat /\ b < Term(m)
           /\ e = Term(m) \/ (e \in B /\ e2 = e)
PROOF
  <1>1. Term(m) \in Nat /\ Term(u) \in Nat /\ Term(u) <= Limit /\ Term(m) <= Limit
        /\ 96 <= Term(m)
    BY TermIs DEF Ordered, Spliced
  <1>2. \A c \in B : c \in Nat /\ 48 <= c /\ c < Beyond(m, c) /\ Beyond(m, c) \in Nat
                     /\ Beyond(m, c) <= Term(m)
    BY <1>1, FieldsAre DEF Ordered, Tiles, Formed, FirstBlock
  <1>3. lo \in Nat /\ 48 <= lo /\ e \in Nat /\ e <= Term(m) /\ lo <= e
    BY <1>1, <1>2 DEF Spliced, Ends
  <1>4. e2 \in Nat /\ e <= e2 /\ e2 <= Term(u)
    BY <1>1, <1>2, <1>3 DEF Spliced, Ends
  <1>5. \A b \in N : Formed(u, b, lo, e2)
    BY DEF Spliced, Tiles
  <1>6. \A b \in N : /\ b \in Nat /\ lo <= b /\ Beyond(u, b) \in Nat
                     /\ b < Beyond(u, b) /\ Beyond(u, b) <= e2
    <2> SUFFICES ASSUME NEW b \in N
                 PROVE  /\ b \in Nat /\ lo <= b /\ Beyond(u, b) \in Nat
                        /\ b < Beyond(u, b) /\ Beyond(u, b) <= e2
      OBVIOUS
    <2>1. e2 <= Limit /\ Limit \in Nat
      BY <1>1, <1>4, Limits
    <2>2. b + 48 <= Beyond(u, b) /\ Beyond(u, b) \in Nat
      BY <1>3, <1>4, <1>5, <2>1, FieldsAre
    <2> QED
      BY <1>5, <2>2 DEF Formed
  <1>7. lo \in N /\ (e = Term(m) \/ (e \in B /\ e2 = e))
    BY DEF Spliced, Ends
  <1>8. lo < e2 /\ \A b \in N : b < e2
    BY <1>3, <1>4, <1>6, <1>7
  <1>9. \A c \in B : c \in Nat /\ c < Term(m)
    BY <1>1, <1>2
  <1> QED
    BY <1>1, <1>3, <1>4, <1>5, <1>6, <1>7, <1>8, <1>9

\* The new blocks fill the heap together with those that stay.
LEMMA SpliceTiles ==
    ASSUME NEW m, NEW B, NEW u, NEW lo, NEW e, NEW e2, NEW N, NEW g, NEW p, NEW n,
           Ordered(m, B, p), Spliced(m, B, u, lo, e, e2, N, g, p, n),
           NEW C, C = Outside(B, lo, e) \union N
    PROVE  /\ FirstBlock \in C /\ Tiles(u, C, FirstBlock, Term(u))
           /\ FreeOf(u, C) = (FreeOf(m, B) \intersect Outside(B, lo, e))
                                \union ({g} \ {NULL})
PROOF
  <1> DEFINE K == Outside(B, lo, e)
  <1>1. lo \in B \union {Term(m)} /\ e \in B \union {Term(m)} /\ lo <= e /\ lo \in N
        /\ Tiles(u, N, lo, e2)
    BY DEF Spliced, Ends
  <1>2. /\ lo \in Nat /\ e \in Nat /\ e2 \in Nat /\ 48 <= lo /\ lo < e2
        /\ lo <= e /\ e <= e2 /\ e2 <= Term(u)
        /\ Term(m) \in Nat /\ Term(u) \in Nat /\ Term(u) <= Limit
        /\ \A b \in N : /\ b \in Nat /\ lo <= b /\ b < e2
                        /\ Beyond(u, b) \in Nat /\ b < Beyond(u, b)
                        /\ Formed(u, b, lo, e2)
        /\ \A b \in B : b \in Nat /\ b < Term(m)
        /\ e = Term(m) \/ (e \in B /\ e2 = e)
    BY SpliceBounds
  <1>3. Term(m) <= Term(u) /\ (e = Term(m) => e2 = Term(u)) /\ (e \in B => Term(u) = Term(m))
    BY <1>2 DEF Spliced, Ends
  <1>4. \A b \in K : /\ b \in B /\ 48 <= b /\ b \in Nat
                     /\ Formed(m, b, FirstBlock, Term(m)) /\ Beyond(m, b) \in Nat
                     /\ b < Beyond(m, b)
                     /\ Beyond(m, b) <= lo \/ e <= b
    BY <1>1, OutsideIs
  <1>5. \A b \in K : /\ u[b] = m[b] /\ u[flags(b)] = m[flags(b)]
                     /\ u[footer(b, m[b])] = m[footer(b, m[b])]
                     /\ Beyond(u, b) = Beyond(m, b)
    BY OutsideKeeps
  <1>6. \A b \in K : Formed(u, b, FirstBlock, Term(u))
    BY <1>2, <1>3, <1>4, <1>5 DEF Formed
  <1>7. \A b \in N : Formed(u, b, FirstBlock, Term(u))
    BY <1>2 DEF Formed, FirstBlock
  <1>8. ASSUME NEW b \in K
        PROVE  Beyond(u, b) \in C \union {Term(u)}
    <2> DEFINE x == Beyond(m, b)
    <2>1. x \in B \union {Term(m)} /\ x \in Nat /\ b < x
      BY <1>4 DEF Ordered, Tiles
    <2>2. CASE x \in B
      <3>1. CASE x < lo \/ e <= x
        BY <1>5, <2>2, <3>1 DEF Outside
      <3>2. CASE lo <= x /\ x < e
        BY <1>1, <1>2, <1>4, <1>5, <2>1, <3>2
      <3> QED
        BY <1>2, <2>1, <3>1, <3>2
    <2>3. CASE x = Term(m)
      <3>1. CASE e \in B
        BY <1>3, <1>5, <2>3, <3>1
      <3>2. CASE e = Term(m)
        BY <1>1, <1>2, <1>4, <1>5, <2>3, <3>2
      <3> QED
        BY <1>1, <3>1, <3>2
    <2> QED
      BY <2>1, <2>2, <2>3
  <1>9. ASSUME NEW b \in N
        PROVE  Beyond(u, b) \in C \union {Term(u)}
    <2>1. Beyond(u, b) \in N \union {e2}
      BY <1>1 DEF Tiles
    <2>2. e \in B => e2 \in K
      BY <1>2, <1>3 DEF Outside
    <2> QED
      BY <1>1, <1>3, <2>1, <2>2
  <1>10. ASSUME NEW b \in C, NEW c \in C, b < c
         PROVE  Beyond(u, b) <= c
    <2>1. CASE b \in K /\ c \in K
      BY <1>4, <1>5, <1>10, <2>1 DEF Ordered, Tiles
    <2>2. CASE b \in K /\ c \in N
      <3>1. Beyond(m, b) <= lo
        BY <1>2, <1>4, <1>10, <2>2
      <3> QED
        BY <1>2, <1>4, <1>5, <2>2, <3>1
    <2>3. CASE b \in N /\ c \in K
      <3>1. e <= c /\ c \in B
        BY <1>2, <1>4, <1>10, <2>3 DEF Outside
      <3>2. e2 = e
        BY <1>2, <3>1
      <3> QED
        BY <1>2, <2>3, <3>1, <3>2 DEF Formed
    <2>4. CASE b \in N /\ c \in N
      BY <1>1, <1>10, <2>4 DEF Tiles
    <2> QED
      BY <2>1, <2>2, <2>3, <2>4
  <1>11. Tiles(u, C, FirstBlock, Term(u))
    BY <1>6, <1>7, <1>8, <1>9, <1>10 DEF Tiles
  <1>12. FirstBlock \in C
    <2>1. FirstBlock \in B
      BY DEF Ordered
    <2>2. FirstBlock < lo \/ FirstBlock = lo
      BY <1>2 DEF FirstBlock
    <2> QED
      BY <1>1, <2>1, <2>2 DEF Outside
  <1>13. FreeOf(u, C) = (FreeOf(m, B) \intersect K) \union ({g} \ {NULL})
    <2>1. FreeOf(u, N) = {g} \ {NULL}
      BY DEF Spliced
    <2>2. \A b \in K : b \in FreeOf(u, C) <=> b \in FreeOf(m, B)
      BY <1>4, <1>5 DEF FreeOf, IsFree
    <2>3. FreeOf(u, C) = FreeOf(u, N) \union {b \in K : b \in FreeOf(u, C)}
      BY DEF FreeOf
    <2> QED
      BY <2>1, <2>2, <2>3
  <1> QED
    BY <1>11, <1>12, <1>13

\* No two free blocks are adjacent after it.
LEMMA SpliceMerged ==
    ASSUME NEW m, NEW B, NEW u, NEW lo, NEW e, NEW e2, NEW N, NEW g, NEW p, NEW n,
           Ordered(m, B, p), Spliced(m, B, u, lo, e, e2, N, g, p, n),
           NEW C, C = Outside(B, lo, e) \union N
    PROVE  Merged(u, C)
PROOF
  <1> DEFINE K == Outside(B, lo, e)
             F == FreeOf(m, B)
             G == FreeOf(u, C)
  <1>1. G = (F \intersect K) \union ({g} \ {NULL})
    BY SpliceTiles
  <1>2. /\ lo \in Nat /\ e \in Nat /\ e2 \in Nat /\ lo < e2 /\ lo <= e /\ e <= e2
        /\ \A b \in N : b \in Nat /\ lo <= b /\ b < e2
        /\ \A b \in B : b \in Nat /\ b < Term(m)
        /\ e = Term(m) \/ (e \in B /\ e2 = e)
    BY SpliceBounds
  <1>3. g # NULL => /\ g \in N /\ Beyond(u, g) = e2 /\ e \notin F
                    /\ g = lo => \A c \in F : Beyond(m, c) # lo
    <2>1. g # NULL => g \in FreeOf(u, N)
      BY DEF Spliced
    <2> QED
      BY <2>1 DEF Spliced, FreeOf
  <1>4. lo \in B \union {Term(m)} /\ e \in B \union {Term(m)}
    BY DEF Spliced, Ends
  <1>5. \A b \in K : /\ b \in B /\ b \in Nat /\ Beyond(m, b) \in Nat /\ b < Beyond(m, b)
                     /\ Beyond(m, b) <= lo \/ e <= b
                     /\ Beyond(u, b) = Beyond(m, b)
    BY <1>2, <1>4, OutsideIs, OutsideKeeps
  <1>6. ASSUME NEW b \in G
        PROVE  Beyond(u, b) \notin G
    <2>1. CASE b \in F \intersect K
      <3>1. Beyond(u, b) \notin F
        BY <1>5, <2>1 DEF Ordered, Merged
      <3>2. ASSUME g # NULL, Beyond(m, b) = g
            PROVE  FALSE
        BY <1>2, <1>3, <1>5, <2>1, <3>2
      <3> QED
        BY <1>1, <1>5, <2>1, <3>1, <3>2
    <2>2. CASE b = g /\ g # NULL
      <3>1. Beyond(u, b) = e2 /\ e2 # g
        BY <1>2, <1>3, <2>2
      <3>2. e2 \notin F
        <4>1. F \subseteq B
          BY DEF FreeOf
        <4> QED
          BY <1>2, <1>3, <2>2, <4>1
      <3> QED
        BY <1>1, <3>1, <3>2
    <2> QED
      BY <1>1, <2>1, <2>2
  <1> QED
    BY <1>6 DEF Merged

\* The list has the new free block in the place of those replaced.
LEMMA SpliceListed ==
    ASSUME NEW m, NEW B, NEW u, NEW lo, NEW e, NEW e2, NEW N, NEW g, NEW p, NEW n,
           Ordered(m, B, p), Spliced(m, B, u, lo, e, e2, N, g, p, n),
           NEW C, C = Outside(B, lo, e) \union N
    PROVE  /\ ListedBut(u, C, p)
           /\ p \in FreeOf(u, C) \union {NULL}
           /\ FirstFrom(FreeOf(u, C), p + 1, IF g = NULL THEN n ELSE g)
PROOF
  <1> DEFINE K == Outside(B, lo, e)
             F == FreeOf(m, B)
             G == FreeOf(u, C)
  <1>1. G = (F \intersect K) \union ({g} \ {NULL})
    BY SpliceTiles
  <1>2. /\ lo \in Nat /\ e \in Nat /\ e2 \in Nat /\ lo < e2 /\ lo <= e /\ e <= e2
        /\ \A b \in N : b \in Nat /\ lo <= b /\ b < e2
        /\ \A b \in B : b \in Nat /\ b < Term(m)
        /\ e = Term(m) \/ (e \in B /\ e2 = e)
    BY SpliceBounds
  <1>3. g # NULL => /\ g \in N /\ u[next(g)] = n /\ u[prev(g)] = p
    <2>1. g # NULL => g \in FreeOf(u, N)
      BY DEF Spliced
    <2> QED
      BY <2>1 DEF Spliced, FreeOf
  <1>4. lo \in B \union {Term(m)} /\ e \in B \union {Term(m)}
    BY DEF Spliced, Ends
  <1>5. \A b \in K : /\ b \in B /\ b \in Nat /\ 48 <= b
                     /\ b # p => u[next(b)] = m[next(b)]
                     /\ b # n => u[prev(b)] = m[prev(b)]
    BY <1>2, <1>4, OutsideIs, OutsideKeeps
  <1>6. \A b \in F : b \in B /\ b \in Nat /\ (b \in K <=> b < lo \/ e <= b)
    BY <1>2 DEF FreeOf, Outside
  <1>7. LastBefore(F, lo, p) /\ FirstFrom(F, e, n)
        /\ (n # NULL => u[prev(n)] = IF g = NULL THEN p ELSE g)
        /\ (p # NULL => u[FirstField] = m[FirstField])
    BY DEF Spliced, KeptBut
  <1>8. (p # NULL => p \in F \intersect K /\ p \in Nat /\ p < lo)
        /\ (n # NULL => n \in F \intersect K /\ n \in Nat /\ e <= n)
    BY <1>6, <1>7 DEF LastBefore, FirstFrom
  <1>9. g # NULL => g \in Nat /\ g \in G /\ lo <= g
                    /\ \A b \in F \intersect K : g < b \/ b < lo
    BY <1>1, <1>2, <1>3, <1>6
  <1>10. \A b \in F \intersect K : b < lo \/ (e <= b /\ (g # NULL => g < b))
    BY <1>2, <1>3, <1>6
  <1>11. \A b \in F \union {NULL} :
            b # p => FirstFrom(F, b + 1, Successor(m, b))
    BY DEF Ordered, ListedBut
  <1>12. \A b \in F : LastBefore(F, b, m[prev(b)])
    BY DEF Ordered, ListedBut
  <1>13. \A b \in F : b > 0
    <2>1. \A b \in F : Formed(m, b, FirstBlock, Term(m))
      BY DEF Ordered, Tiles, FreeOf
    <2> QED
      BY <2>1 DEF Formed, FirstBlock
  <1>14. ASSUME NEW b \in G \union {NULL}, b # p
         PROVE  FirstFrom(G, b + 1, Successor(u, b))
    <2>1. CASE b = g /\ g # NULL
      <3>1. Successor(u, b) = n
        BY <1>3, <2>1 DEF Successor
      <3>0. g \in Nat /\ G = (F \intersect K) \union {g}
        BY <1>1, <1>9, <2>1
      <3> HIDE DEF K, F, G
      <3>2. CASE n = NULL
        <4>1. \A f \in F : f < e
          BY <1>7, <3>2 DEF FirstFrom
        <4>2. \A f \in F \intersect K : f < g + 1
          BY <1>2, <1>6, <1>9, <2>1, <4>1
        <4>3. \A f \in G : f < g + 1
          BY <3>0, <4>2
        <4> QED
          BY <2>1, <3>1, <3>2, <4>3 DEF FirstFrom
      <3>3. CASE n # NULL
        <4>1. \A f \in F : f < e \/ n <= f
          BY <1>7, <3>3 DEF FirstFrom
        <4>2. n \in G /\ g + 1 <= n
          <5>1. n \in F \intersect K /\ n \in Nat /\ e <= n /\ g \in Nat
            BY <1>8, <1>9, <2>1, <3>3
          <5>2. g < n
            BY <1>2, <1>10, <2>1, <5>1
          <5> QED
            BY <1>1, <5>1, <5>2
        <4>3. \A f \in F \intersect K : f < g + 1 \/ n <= f
          BY <1>2, <1>6, <1>9, <2>1, <4>1
        <4>4. \A f \in G : f < g + 1 \/ n <= f
          BY <3>0, <4>3
        <4> QED
          BY <2>1, <3>1, <3>3, <4>2, <4>4 DEF FirstFrom
      <3> QED
        BY <3>2, <3>3
    <2>2. CASE b = NULL
      <3>1. p # NULL
        BY <1>14, <2>2
      <3> DEFINE y == m[FirstField]
      <3>2. Successor(u, b) = y /\ Successor(m, b) = y
        BY <1>7, <2>2, <3>1 DEF Successor
      <3>3. FirstFrom(F, b + 1, y)
        BY <1>11, <2>2, <3>1, <3>2
      <3> HIDE DEF y
      <3>4. y # NULL /\ y \in F /\ y <= p /\ \A f \in F : y <= f
        BY <1>6, <1>8, <1>13, <2>2, <3>1, <3>3 DEF FirstFrom, NULL
      <3>5. y \in G /\ 1 <= y
        BY <1>1, <1>2, <1>6, <1>8, <1>13, <3>1, <3>4
      <3>6. \A f \in G : y <= f
        BY <1>1, <1>2, <1>6, <1>8, <1>9, <3>1, <3>4
      <3> QED
        BY <2>2, <3>2, <3>4, <3>5, <3>6 DEF FirstFrom, NULL
    <2>3. CASE b \in F \intersect K
      <3> DEFINE y == m[next(b)]
      <3>1. Successor(m, b) = y /\ Successor(u, b) = y
        BY <1>5, <1>13, <1>14, <2>3 DEF Successor, NULL
      <3>2. FirstFrom(F, b + 1, y)
        BY <1>11, <1>14, <2>3, <3>1
      <3> HIDE DEF y
      <3>3. CASE b < lo
        <4>1. p # NULL /\ b < p
          BY <1>7, <1>14, <1>6, <1>2, <1>8, <2>3, <3>3 DEF LastBefore
        <4>2. y # NULL /\ y \in F /\ b < y /\ y <= p
              /\ \A f \in F : f < b + 1 \/ y <= f
          BY <1>6, <1>8, <2>3, <3>2, <4>1 DEF FirstFrom
        <4>3. y \in G
          BY <1>1, <1>2, <1>6, <1>8, <4>1, <4>2
        <4>4. \A f \in G : f < b + 1 \/ y <= f
          BY <1>1, <1>2, <1>6, <1>8, <1>9, <4>1, <4>2
        <4>5. b + 1 <= y
          BY <1>6, <2>3, <4>2
        <4> QED
          BY <3>1, <4>2, <4>3, <4>4, <4>5 DEF FirstFrom
      <3>4. CASE e <= b /\ (g # NULL => g < b)
        <4>1. \A f \in G : f \in F \/ f < b
          BY <1>1, <3>4
        <4>2. \A f \in G : f \in Nat
          BY <1>1, <1>6, <1>9
        <4>3. CASE y = NULL
          <5>1. \A f \in F : f < b + 1
            BY <3>2, <4>3 DEF FirstFrom
          <5>2. \A f \in G : f < b + 1
            BY <1>6, <2>3, <4>1, <4>2, <5>1
          <5> QED
            BY <3>1, <4>3, <5>2 DEF FirstFrom
        <4>4. CASE y # NULL
          <5>1. y \in F /\ b + 1 <= y /\ \A f \in F : f < b + 1 \/ y <= f
            BY <3>2, <4>4 DEF FirstFrom
          <5>2. y \in G
            BY <1>1, <1>2, <1>6, <2>3, <3>4, <5>1
          <5>3. ASSUME NEW f \in G
                PROVE  f < b + 1 \/ y <= f
            <6>1. f \in Nat /\ b \in Nat
              BY <1>6, <2>3, <4>2
            <6>2. f \in F \/ f < b
              BY <4>1
            <6> QED
              BY <5>1, <6>1, <6>2
          <5> QED
            BY <3>1, <4>4, <5>1, <5>2, <5>3 DEF FirstFrom
        <4> QED
          BY <4>3, <4>4
      <3> QED
        BY <1>10, <2>3, <3>3, <3>4
    <2> QED
      BY <1>1, <1>14, <2>1, <2>2, <2>3
  <1>15. ASSUME NEW b \in G
         PROVE  LastBefore(G, b, u[prev(b)])
    <2>1. CASE b = g /\ g # NULL
      <3>1. u[prev(b)] = p
        BY <1>3, <2>1
      <3>2. CASE p = NULL
        <4>1. \A f \in F : lo <= f
          BY <1>7, <3>2 DEF LastBefore
        <4>2. \A f \in F \intersect K : g <= f
          BY <1>2, <1>6, <1>9, <2>1, <4>1
        <4> QED
          BY <1>1, <1>9, <2>1, <3>1, <3>2, <4>2 DEF LastBefore
      <3>3. CASE p # NULL
        <4>1. \A f \in F : f <= p \/ lo <= f
          BY <1>7, <3>3 DEF LastBefore
        <4>2. p \in G /\ p < g
          BY <1>1, <1>2, <1>8, <1>9, <2>1, <3>3
        <4>3. \A f \in F \intersect K : f <= p \/ g <= f
          BY <1>2, <1>6, <1>9, <2>1, <4>1
        <4> QED
          BY <1>1, <1>9, <2>1, <3>1, <3>3, <4>2, <4>3 DEF LastBefore
      <3> QED
        BY <3>2, <3>3
    <2>2. CASE b \in F \intersect K /\ b = n
      <3>0. n # NULL /\ e <= n
        BY <1>8, <1>13, <2>2 DEF NULL
      <3>1. u[prev(b)] = IF g = NULL THEN p ELSE g
        BY <1>7, <2>2, <3>0
      <3>2. \A f \in F : f < e \/ n <= f
        BY <1>7, <3>0 DEF FirstFrom
      <3>3. CASE g # NULL
        <4>1. \A f \in G : f <= g \/ n <= f
          BY <1>1, <1>2, <1>6, <1>9, <3>2, <3>3
        <4>2. g \in G /\ g < n
          BY <1>9, <1>10, <2>2, <3>3, <3>0, <1>2, <1>8
        <4> QED
          BY <2>2, <3>1, <3>3, <4>1, <4>2 DEF LastBefore
      <3>4. CASE g = NULL
        <4>1. G = F \intersect K
          BY <1>1, <3>4
        <4>2. CASE p = NULL
          <5>1. \A f \in G : n <= f
            BY <1>2, <1>6, <1>7, <3>2, <4>1, <4>2 DEF LastBefore
          <5> QED
            BY <2>2, <3>1, <3>4, <4>2, <5>1 DEF LastBefore
        <4>3. CASE p # NULL
          <5>1. \A f \in G : f <= p \/ n <= f
            BY <1>2, <1>6, <1>7, <1>8, <3>2, <4>1, <4>3 DEF LastBefore
          <5>2. p \in G /\ p < n
            BY <1>2, <1>8, <3>0, <4>1, <4>3
          <5> QED
            BY <2>2, <3>1, <3>4, <4>3, <5>1, <5>2 DEF LastBefore
        <4> QED
          BY <4>2, <4>3
      <3> QED
        BY <3>3, <3>4
    <2>3. CASE b \in F \intersect K /\ b # n
      <3> DEFINE y == m[prev(b)]
      <3>1. u[prev(b)] = y
        BY <1>5, <2>3
      <3>2. LastBefore(F, b, y)
        BY <1>12, <2>3
      <3> HIDE DEF y
      <3>3. CASE b < lo
        <4>1. \A f \in G : f \in F \/ b <= f
          BY <1>1, <1>2, <1>6, <1>9, <2>3, <3>3
        <4>2. CASE y = NULL
          BY <3>1, <3>2, <4>1, <4>2 DEF LastBefore
        <4>3. CASE y # NULL
          <5>1. y \in F /\ y < b /\ \A f \in F : f <= y \/ b <= f
            BY <3>2, <4>3 DEF LastBefore
          <5>2. y \in G
            BY <1>1, <1>2, <1>6, <2>3, <3>3, <5>1
          <5>3. \A f \in G : f <= y \/ b <= f
            BY <4>1, <5>1
          <5> QED
            BY <3>1, <4>3, <5>1, <5>2, <5>3 DEF LastBefore
        <4> QED
          BY <4>2, <4>3
      <3>4. CASE e <= b /\ (g # NULL => g < b)
        <4>1. n # NULL /\ n < b /\ n \in F
          BY <1>2, <1>6, <1>7, <1>8, <2>3, <3>4 DEF FirstFrom
        <4>2. y # NULL /\ y \in F /\ y < b /\ n <= y
              /\ \A f \in F : f <= y \/ b <= f
          BY <1>6, <2>3, <3>2, <4>1 DEF LastBefore
        <4>3. y \in G
          BY <1>1, <1>2, <1>6, <1>8, <4>1, <4>2
        <4>4. \A f \in G : f <= y \/ b <= f
          BY <1>1, <1>2, <1>6, <1>8, <1>9, <1>10, <4>1, <4>2
        <4> QED
          BY <3>1, <4>2, <4>3, <4>4 DEF LastBefore
      <3> QED
        BY <1>10, <2>3, <3>3, <3>4
    <2> QED
      BY <1>1, <2>1, <2>2, <2>3
  <1>16. ListedBut(u, C, p)
    BY <1>14, <1>15 DEF ListedBut
  <1>17. p \in G \union {NULL}
    BY <1>1, <1>8
  <1>18. FirstFrom(G, p + 1, IF g = NULL THEN n ELSE g)
    <2>0. p \in Nat /\ p < lo
      BY <1>2, <1>8, SpliceBounds DEF NULL
    <2>1. \A f \in F : f <= p \/ lo <= f
      BY <1>6, <1>7, <2>0, <1>2, <1>13 DEF LastBefore, NULL
    <2>2. CASE g # NULL
      <3>1. \A f \in G : f < p + 1 \/ g <= f
        BY <1>1, <1>2, <1>6, <1>9, <2>0, <2>1, <2>2
      <3>2. g \in G /\ p + 1 <= g
        BY <1>2, <1>9, <2>0, <2>2
      <3> QED
        BY <2>2, <3>1, <3>2 DEF FirstFrom
    <2>3. CASE g = NULL /\ n = NULL
      <3>1. \A f \in G : f < p + 1
        BY <1>1, <1>2, <1>6, <1>7, <2>0, <2>1, <2>3 DEF FirstFrom
      <3> QED
        BY <2>3, <3>1 DEF FirstFrom
    <2>4. CASE g = NULL /\ n # NULL
      <3>1. \A f \in G : f < p + 1 \/ n <= f
        BY <1>1, <1>2, <1>6, <1>7, <2>0, <2>1, <2>4 DEF FirstFrom
      <3>2. n \in G /\ p + 1 <= n
        BY <1>1, <1>2, <1>8, <2>0, <2>4
      <3> QED
        BY <2>4, <3>1, <3>2 DEF FirstFrom
    <2> QED
      BY <2>2, <2>3, <2>4
  <1> QED
    BY <1>16, <1>17, <1>18

\* So the heap of the new blocks is in order, and entirely so once the free
\* block before, or the heap, is told.
LEMMA Splice ==
    ASSUME NEW m, NEW B, NEW u, NEW lo, NEW e, NEW e2, NEW N, NEW g, NEW p, NEW n,
           Ordered(m, B, p), Spliced(m, B, u, lo, e, e2, N, g, p, n)
    PROVE  /\ Ordered(u, Outside(B, lo, e) \union N, p)
           /\ Successor(u, p) = (IF g = NULL THEN n ELSE g)
              => Proper(u, Outside(B, lo, e) \union N)
PROOF
  <1> DEFINE C == Outside(B, lo, e) \union N
  <1>1. Ordered(u, C, p)
    <2>1. Paged(u)
      BY DEF Spliced
    <2> QED
      BY <2>1, SpliceTiles, SpliceMerged, SpliceListed DEF Ordered
  <1>2. /\ p \in FreeOf(u, C) \union {NULL}
        /\ FirstFrom(FreeOf(u, C), p + 1, IF g = NULL THEN n ELSE g)
    BY SpliceListed
  <1> QED
    BY <1>1, <1>2, OrderedProper

-----------------------------------------------------------------------------
(* What the client holds. *)

\* The client's part of it is as it was left, and blocks A are what it holds.
Holding(m, A, L) ==
    /\ L \subseteq [ptr : Nat, size : Requests]
    /\ {l.ptr - HEADER : l \in L} = A
    /\ \A l, k \in L : l.ptr = k.ptr => l = k
    /\ \A l \in L : /\ l.ptr % 16 = 0 /\ l.size <= m[l.ptr - HEADER]
                    /\ \A a \in Words :
                          l.ptr <= a /\ a < l.ptr + l.size => m[a] = UserData

\* It keeps what it holds of blocks that do not change.
LEMMA HoldingKept ==
    ASSUME NEW m, NEW u, NEW A, NEW L, Holding(m, A, L),
           NEW D, D \subseteq A,
           \A b \in D : /\ b \in Nat /\ m[b] \in Nat /\ u[b] = m[b]
                        /\ \A a \in Words : b <= a /\ a < Beyond(m, b) => u[a] = m[a]
    PROVE  Holding(u, D, {l \in L : l.ptr - HEADER \in D})
PROOF
  <1> DEFINE M == {l \in L : l.ptr - HEADER \in D}
  <1>1. \A l \in L : l.ptr \in Nat /\ l.size \in Requests /\ l.size \in Nat
    BY HeapAssumption DEF Holding
  <1>2. {l.ptr - HEADER : l \in M} = D
    BY DEF Holding
  <1>3. ASSUME NEW l \in M, NEW a \in Words, l.ptr <= a, a < l.ptr + l.size
        PROVE  u[a] = UserData
    <2> DEFINE b == l.ptr - HEADER
    <2>1. b \in D /\ l.size <= m[b] /\ m[a] = UserData
      BY <1>3 DEF Holding
    <2>2. b \in Nat /\ m[b] \in Nat
      BY <2>1
    <2>3. a \in Nat /\ l.ptr = b + 16
      BY <1>1, <2>2, WordIs DEF Words, HEADER
    <2> HIDE DEF b
    <2>4. b <= a /\ a < Beyond(m, b)
      BY <1>1, <1>3, <2>1, <2>2, <2>3 DEF Beyond, OVERHEAD, HEADER, FOOTER
    <2> QED
      BY <2>1, <2>4
  <1>4. \A l \in M : l.ptr % 16 = 0 /\ l.size <= u[l.ptr - HEADER]
    BY DEF Holding
  <1> QED
    BY <1>2, <1>3, <1>4 DEF Holding

\* When blocks are replaced the client keeps the others.
LEMMA SpliceHolding ==
    ASSUME NEW m, NEW B, NEW u, NEW lo, NEW e, NEW e2, NEW N, NEW g, NEW p, NEW n,
           Ordered(m, B, p), Spliced(m, B, u, lo, e, e2, N, g, p, n),
           NEW L, Holding(m, B \ FreeOf(m, B), L),
           NEW D, D = Outside(B, lo, e) \ FreeOf(m, B)
    PROVE  Holding(u, D, {l \in L : l.ptr - HEADER \in D})
PROOF
  <1>1. lo \in B \union {Term(m)} /\ e \in B \union {Term(m)} /\ lo <= e
    BY DEF Spliced, Ends
  <1>2. D \subseteq B \ FreeOf(m, B)
    BY DEF Outside
  <1>3. \A b \in D : /\ b \in Nat /\ m[b] \in Nat /\ u[b] = m[b]
                     /\ \A a \in Words : b <= a /\ a < Beyond(m, b) => u[a] = m[a]
    BY <1>1, OutsideIs, OutsideKeeps DEF Formed
  <1> QED
    BY <1>2, <1>3, HoldingKept

\* Addresses of fields do not meet in two blocks, nor the heap's own.
LEMMA FieldsApart ==
    ASSUME NEW m, NEW B, NEW x, Ordered(m, B, x), NEW b \in B, NEW c \in B, b # c,
           NEW a \in Nat, b + HEADER <= a, a < b + HEADER + m[b]
    PROVE  /\ a # c /\ a # flags(c) /\ a # next(c) /\ a # prev(c)
           /\ a # footer(c, m[c])
PROOF
  <1>1. Term(m) \in Nat /\ Term(m) <= Limit
    BY TermIs DEF Ordered
  <1>2. \A d \in B : /\ d \in Nat /\ m[d] \in Nat /\ 24 <= m[d]
                     /\ Beyond(m, d) = d + m[d] + 24
    BY DEF Ordered, Tiles, Formed, Beyond, OVERHEAD, HEADER, FOOTER
  <1>3. Beyond(m, b) <= c \/ Beyond(m, c) <= b
    BY <1>2 DEF Ordered, Tiles
  <1> QED
    BY <1>2, <1>3 DEF flags, next, prev, footer, HEADER

\* What the client writes into a block of its own is not the heap's business.
LEMMA FillKeeps ==
    ASSUME NEW m, NEW B, Proper(m, B), NEW b \in B \ FreeOf(m, B),
           NEW size \in Nat, size <= m[b],
           NEW u, u = Fill(m, b + HEADER, size)
    PROVE  /\ Proper(u, B) /\ FreeOf(u, B) = FreeOf(m, B) /\ u[b] = m[b]
           /\ \A a \in Words : u[a] = IF b + HEADER <= a /\ a < b + HEADER + size
                                      THEN UserData ELSE m[a]
PROOF
  <1>1. Ordered(m, B, NULL) /\ Paged(m) /\ m \in [Words -> Int]
        /\ FirstFrom(FreeOf(m, B), 1, m[FirstField])
    BY DEF Proper, Ordered, Paged
  <1>2. Term(m) \in Nat /\ Term(m) <= Limit
    BY <1>1, TermIs
  <1>3. b \in Nat /\ m[b] \in Nat /\ 48 <= b /\ 24 <= m[b]
    BY <1>1 DEF Ordered, Tiles, Formed, FirstBlock
  <1>4. \A a \in Words : u[a] = IF b + HEADER <= a /\ a < b + HEADER + size
                                THEN UserData ELSE m[a]
    <2>1. \A a \in Words : a \in Int
      BY DEF Words
    <2> QED
      BY <1>1, <1>3, <2>1 DEF Fill, HEADER
  <1>5. u \in [Words -> Int]
    BY <1>1 DEF Fill, UserData
  <1>6. PagesField \in Words /\ FirstField \in Words
    BY Limits, WordIs DEF PagesField, FirstField
  <1>7. u[PagesField] = m[PagesField] /\ u[FirstField] = m[FirstField]
    BY <1>3, <1>4, <1>6 DEF PagesField, FirstField, HEADER
  <1>8. Paged(u) /\ Term(u) = Term(m)
    BY <1>1, <1>5, <1>7 DEF Paged, Term
  <1>9. \A c \in B : Formed(m, c, FirstBlock, Term(m))
    BY <1>1 DEF Ordered, Tiles
  <1>10. ASSUME NEW c \in B
         PROVE  /\ u[c] = m[c] /\ u[flags(c)] = m[flags(c)]
                /\ u[footer(c, m[c])] = m[footer(c, m[c])]
                /\ c # b => u[next(c)] = m[next(c)] /\ u[prev(c)] = m[prev(c)]
    <2>1. /\ c \in Words /\ flags(c) \in Words /\ next(c) \in Words
          /\ prev(c) \in Words /\ footer(c, m[c]) \in Words
      BY <1>2, <1>9, FieldsAre DEF FirstBlock
    <2>2. CASE c = b
      BY <1>3, <1>4, <2>1, <2>2 DEF flags, footer, HEADER
    <2>3. CASE c # b
      <3>1. \A a \in Nat : b + HEADER <= a /\ a < b + HEADER + size =>
                a # c /\ a # flags(c) /\ a # next(c) /\ a # prev(c)
                /\ a # footer(c, m[c])
        <4> SUFFICES ASSUME NEW a \in Nat, b + HEADER <= a, a < b + HEADER + size
                     PROVE  a # c /\ a # flags(c) /\ a # next(c) /\ a # prev(c)
                            /\ a # footer(c, m[c])
          OBVIOUS
        <4>1. a < b + HEADER + m[b]
          BY <1>3 DEF HEADER
        <4> QED
          BY <1>1, <2>3, <4>1, FieldsApart
      <3>2. \A a \in Words : a \in Nat
        BY DEF Words
      <3> QED
        BY <1>4, <2>1, <3>1, <3>2
    <2> QED
      BY <2>2, <2>3
  <1>11. FreeOf(u, B) = FreeOf(m, B) /\ \A c \in B : Beyond(u, c) = Beyond(m, c)
    BY <1>10 DEF FreeOf, IsFree, Beyond
  <1>12. Tiles(u, B, FirstBlock, Term(u))
    BY <1>1, <1>8, <1>10, <1>11 DEF Ordered, Tiles, Formed
  <1>13. Merged(u, B)
    BY <1>1, <1>11 DEF Ordered, Merged, FreeOf
  <1>14. ListedBut(u, B, NULL)
    <2>1. \A c \in FreeOf(m, B) : c \in B /\ c # b
      BY DEF FreeOf
    <2>2. \A c \in FreeOf(m, B) : u[prev(c)] = m[prev(c)]
      BY <1>10, <2>1
    <2>3. \A c \in FreeOf(m, B) \union {NULL} : Successor(u, c) = Successor(m, c)
      BY <1>7, <1>10, <2>1 DEF Successor
    <2> QED
      BY <1>1, <1>11, <2>2, <2>3 DEF Ordered, ListedBut
  <1> QED
    BY <1>1, <1>4, <1>7, <1>8, <1>10, <1>11, <1>12, <1>13, <1>14 DEF Proper, Ordered

\* It holds the block in which it has written, then.
LEMMA FillHolding ==
    ASSUME NEW m, NEW B, Proper(m, B), NEW b \in B \ FreeOf(m, B),
           NEW size \in Requests, size <= m[b], b % 16 = 0,
           NEW L, NEW A, A = (B \ FreeOf(m, B)) \ {b}, Holding(m, A, L),
           NEW u, u = Fill(m, b + HEADER, size)
    PROVE  Holding(u, A \union {b}, L \union {[ptr |-> b + HEADER, size |-> size]})
PROOF
  <1> DEFINE r == [ptr |-> b + HEADER, size |-> size]
  <1>1. size \in Nat
    BY HeapAssumption
  <1>2. /\ u[b] = m[b]
        /\ \A a \in Words : u[a] = IF b + HEADER <= a /\ a < b + HEADER + size
                                   THEN UserData ELSE m[a]
    BY <1>1, FillKeeps
  <1>3. \A c \in B : c \in Nat /\ m[c] \in Nat
                     /\ Beyond(m, c) = c + m[c] + 24
    BY DEF Proper, Ordered, Tiles, Formed, Beyond, OVERHEAD, HEADER, FOOTER
  <1>4. \A c \in B : c # b => Beyond(m, c) <= b \/ Beyond(m, b) <= c
    BY <1>3 DEF Proper, Ordered, Tiles
  <1>5. ASSUME NEW c \in A
        PROVE  /\ c \in Nat /\ m[c] \in Nat /\ u[c] = m[c]
               /\ \A a \in Words : c <= a /\ a < Beyond(m, c) => u[a] = m[a]
    <2>1. c \in B /\ c # b
      OBVIOUS
    <2>2. ASSUME NEW a \in Words, c <= a, a < Beyond(m, c)
          PROVE  u[a] = m[a]
      <3>1. a \in Nat
        BY DEF Words
      <3>2. ~ (b + HEADER <= a /\ a < b + HEADER + size)
        BY <1>1, <1>3, <1>4, <2>1, <2>2, <3>1 DEF HEADER
      <3> QED
        BY <1>2, <3>2
    <2>3. c \in Words
      <3>1. Term(m) \in Nat /\ Term(m) <= Limit
        BY TermIs DEF Proper, Ordered
      <3>2. Formed(m, c, FirstBlock, Term(m))
        BY <2>1 DEF Proper, Ordered, Tiles
      <3> QED
        BY <3>1, <3>2, FieldsAre DEF FirstBlock
    <2>4. u[c] = m[c]
      BY <1>3, <2>1, <2>2, <2>3
    <2> QED
      BY <1>3, <2>1, <2>2, <2>4
  <1>6. Holding(u, A, {l \in L : l.ptr - HEADER \in A})
    BY <1>5, HoldingKept
  <1>7. {l \in L : l.ptr - HEADER \in A} = L
    BY DEF Holding
  <1>8. Holding(u, A, L)
    BY <1>6, <1>7
  <1>9. r \in [ptr : Nat, size : Requests] /\ r.ptr - HEADER = b /\ r.ptr % 16 = 0
        /\ r.size <= u[b]
    BY <1>2, <1>3 DEF HEADER
  <1>10. \A a \in Words : r.ptr <= a /\ a < r.ptr + r.size => u[a] = UserData
    BY <1>2
  <1>11. \A l \in L : l.ptr # r.ptr
    BY <1>8, <1>9 DEF Holding
  <1> HIDE DEF r
  <1> DEFINE M == L \union {r}
  <1>12. M \subseteq [ptr : Nat, size : Requests]
    BY <1>8, <1>9 DEF Holding
  <1>13. {l.ptr - HEADER : l \in M} = A \union {b}
    BY <1>8, <1>9 DEF Holding
  <1>14. \A l, k \in M : l.ptr = k.ptr => l = k
    BY <1>8, <1>11 DEF Holding
  <1>15. \A l \in M : /\ l.ptr % 16 = 0 /\ l.size <= u[l.ptr - HEADER]
                     /\ \A a \in Words :
                           l.ptr <= a /\ a < l.ptr + l.size => u[a] = UserData
    BY <1>8, <1>9, <1>10 DEF Holding
  <1>16. Holding(u, A \union {b}, M)
    BY <1>12, <1>13, <1>14, <1>15 DEF Holding
  <1> QED
    BY <1>16 DEF r

-----------------------------------------------------------------------------
(* Walking through the heap. *)

\* The blocks of a heap in order.
LEMMA BlocksAre ==
    ASSUME NEW m, NEW B, NEW x, Ordered(m, B, x)
    PROVE  /\ Term(m) \in Nat /\ Term(m) <= Limit /\ Limit \in Nat
           /\ Term(m) < 32 * MaxBlocks /\ MaxBlocks \in Nat \ {0}
           /\ \A b \in B : /\ b \in Nat /\ 48 <= b /\ b < Term(m) /\ b % 16 = 0
                           /\ m[b] \in Nat /\ 24 <= m[b]
                           /\ Beyond(m, b) = b + m[b] + 24
                           /\ Beyond(m, b) = b + total_bytes(m, b)
                           /\ Beyond(m, b) \in Nat /\ b + 48 <= Beyond(m, b)
                           /\ Beyond(m, b) <= Term(m)
                           /\ Beyond(m, b) \in B \union {Term(m)}
                           /\ m[Beyond(m, b) - FOOTER] = m[b]
           /\ \A b, c \in B : b < c => Beyond(m, b) <= c
           /\ FirstBlock \in B /\ FreeOf(m, B) \subseteq B
PROOF
  <1>1. Term(m) \in Nat /\ Term(m) <= Limit /\ Limit \in Nat
        /\ Limit < 32 * MaxBlocks /\ MaxBlocks \in Nat \ {0}
    BY TermIs, Limits DEF Ordered
  <1>2. ASSUME NEW b \in B
        PROVE  /\ b \in Nat /\ 48 <= b /\ b < Term(m) /\ b % 16 = 0
               /\ m[b] \in Nat /\ 24 <= m[b]
               /\ Beyond(m, b) = b + m[b] + 24
               /\ Beyond(m, b) = b + total_bytes(m, b)
               /\ Beyond(m, b) \in Nat /\ b + 48 <= Beyond(m, b)
               /\ Beyond(m, b) <= Term(m)
               /\ Beyond(m, b) \in B \union {Term(m)}
               /\ m[Beyond(m, b) - FOOTER] = m[b]
    <2>1. Formed(m, b, FirstBlock, Term(m)) /\ Beyond(m, b) \in B \union {Term(m)}
      BY DEF Ordered, Tiles
    <2>2. /\ b \in Nat /\ 48 <= b /\ b % 16 = 0 /\ m[b] \in Nat /\ 24 <= m[b]
          /\ Beyond(m, b) <= Term(m) /\ m[footer(b, m[b])] = m[b]
      BY <2>1 DEF Formed, FirstBlock
    <2>3. Beyond(m, b) = b + m[b] + 24 /\ Beyond(m, b) = b + total_bytes(m, b)
      BY <2>2 DEF Beyond, total_bytes, OVERHEAD, HEADER, FOOTER
    <2>4. Beyond(m, b) - FOOTER = footer(b, m[b])
      BY <2>2, <2>3 DEF FOOTER, footer, HEADER
    <2> QED
      BY <1>1, <2>1, <2>2, <2>3, <2>4
  <1>3. (\A b, c \in B : b < c => Beyond(m, b) <= c) /\ FirstBlock \in B
    BY DEF Ordered, Tiles
  <1> QED
    BY <1>1, <1>2, <1>3 DEF FreeOf

\* Walking forwards meets blocks until it is at the end.
LEMMA WalkIs ==
    ASSUME NEW m, NEW B, NEW x, Ordered(m, B, x), NEW b \in B \union {Term(m)},
           NEW w, w = Walk(m, b)
    PROVE  /\ \A i \in 0..MaxBlocks : w[i] \in B \union {Term(m)}
           /\ w[0] = b
           /\ \A i \in 1..MaxBlocks :
                 w[i] = IF w[i - 1] = Term(m) THEN Term(m) ELSE Beyond(m, w[i - 1])
PROOF
  <1> DEFINE T == Term(m)
             X == B \union {T}
             F(v) == [i \in 0..MaxBlocks |->
                         IF i = 0 THEN b
                         ELSE LET a == v[i - 1]
                              IN  IF a >= Term(m) THEN a ELSE a + total_bytes(m, a)]
             g == [a \in X |-> IF a >= Term(m) THEN a ELSE a + total_bytes(m, a)]
  <1>1. \A a \in B : a \in Nat /\ a < T /\ Beyond(m, a) = a + total_bytes(m, a)
                     /\ Beyond(m, a) \in X
    BY BlocksAre
  <1>2. T \in Nat /\ MaxBlocks \in Nat
    BY BlocksAre
  <1>3. g \in [X -> X]
    BY <1>1, <1>2
  <1>4. \A a \in X : g[a] = IF a = T THEN T ELSE Beyond(m, a)
    BY <1>1, <1>2
  <1>5. PICK v \in [0..MaxBlocks -> X] :
            v[0] = b /\ \A i \in 1..MaxBlocks : v[i] = g[v[i - 1]]
    <2> HIDE DEF g, X, F
    <2>1. b \in X
      BY DEF X
    <2>2. MaxBlocks \in Nat
      BY <1>2
    <2>3. \E v : Repeats(v, MaxBlocks, X, g, b)
      BY <1>3, <2>1, <2>2, Iterates
    <2> QED
      BY <2>3 DEF Repeats
  <1>6. v = F(v)
    <2>1. ASSUME NEW i \in 0..MaxBlocks
          PROVE  v[i] = F(v)[i]
      <3>1. CASE i = 0
        BY <1>5, <3>1
      <3>2. CASE i # 0
        <4>1. i \in 1..MaxBlocks /\ i - 1 \in 0..MaxBlocks
          BY <1>2, <3>2
        <4>2. v[i - 1] \in X /\ v[i] = g[v[i - 1]]
          BY <1>5, <4>1
        <4> QED
          BY <3>2, <4>2
      <3> QED
        BY <3>1, <3>2
    <2> QED
      BY <1>5, <2>1
  <1>7. Walk(m, b) = CHOOSE v_1 : v_1 = F(v_1)
    BY DEF Walk
  <1>8. w = F(w)
    <2> HIDE DEF F
    <2> QED
      BY <1>6, <1>7
  <1>9. w[0] = b /\ \A i \in 1..MaxBlocks : w[i - 1] \in X => w[i] = g[w[i - 1]]
    <2>1. \A i \in 0..MaxBlocks : w[i] = F(w)[i]
      BY <1>8
    <2>2. 0 \in 0..MaxBlocks /\ \A i \in 1..MaxBlocks : i \in 0..MaxBlocks /\ i # 0
      BY <1>2
    <2> QED
      BY <2>1, <2>2
  <1>10. 0..MaxBlocks \subseteq {i \in 0..MaxBlocks : w[i] \in X}
    <2> DEFINE S == {i \in 0..MaxBlocks : w[i] \in X}
    <2>1. 0 \in S
      BY <1>2, <1>9
    <2>2. ASSUME NEW i \in 0..MaxBlocks, i \in S, i < MaxBlocks
          PROVE  i + 1 \in S
      <3>1. i + 1 \in 1..MaxBlocks /\ (i + 1) - 1 = i
        BY <1>2, <2>2
      <3>2. w[i] \in X
        BY <2>2
      <3> HIDE DEF g, X
      <3>3. w[i + 1] = g[w[i]]
        BY <1>9, <3>1, <3>2
      <3>4. g[w[i]] \in X
        BY <1>3, <3>2
      <3> QED
        BY <3>1, <3>3, <3>4
    <2> HIDE DEF S
    <2>3. 0..MaxBlocks \subseteq S
      BY <1>2, <2>1, <2>2, UpTo
    <2> QED
      BY <2>3 DEF S
  <1>11. \A i \in 1..MaxBlocks : i - 1 \in 0..MaxBlocks
    BY <1>2
  <1> HIDE DEF g
  <1>12. \A i \in 1..MaxBlocks : w[i] = IF w[i - 1] = T THEN T ELSE Beyond(m, w[i - 1])
    BY <1>4, <1>9, <1>10, <1>11
  <1> QED
    BY <1>9, <1>10, <1>12

\* It gets to the end, and passes over no block on the way.
LEMMA WalkEnds ==
    ASSUME NEW m, NEW B, NEW x, Ordered(m, B, x), NEW b \in B \union {Term(m)},
           NEW w, w = Walk(m, b)
    PROVE  /\ w[MaxBlocks] = Term(m)
           /\ \A c \in B : b <= c => \E i \in 0..MaxBlocks : w[i] = c
PROOF
  <1> DEFINE T == Term(m)
             X == B \union {T}
  <1>1. /\ \A i \in 0..MaxBlocks : w[i] \in X
        /\ w[0] = b
        /\ \A i \in 1..MaxBlocks : w[i] = IF w[i - 1] = T THEN T ELSE Beyond(m, w[i - 1])
    BY WalkIs
  <1>2. /\ T \in Nat /\ T < 32 * MaxBlocks /\ MaxBlocks \in Nat \ {0}
        /\ \A c \in B : /\ c \in Nat /\ 48 <= c /\ c < T /\ c + 48 <= Beyond(m, c)
                        /\ Beyond(m, c) \in Nat
        /\ \A c, d \in B : c < d => Beyond(m, c) <= d
    BY BlocksAre
  <1>3. \A i \in 0..MaxBlocks : i < MaxBlocks =>
            i + 1 \in 1..MaxBlocks /\ (i + 1) - 1 = i
    BY <1>2
  <1> HIDE DEF T
  <1>4. w[MaxBlocks] = T
    <2> DEFINE S == {i \in 0..MaxBlocks : w[i] = T \/ 48 * i + 48 <= w[i]}
    <2>1. 0 \in S
      BY <1>1, <1>2
    <2>2. ASSUME NEW i \in 0..MaxBlocks, i \in S, i < MaxBlocks
          PROVE  i + 1 \in S
      <3>1. w[i + 1] = IF w[i] = T THEN T ELSE Beyond(m, w[i])
        BY <1>1, <1>3, <2>2
      <3>2. w[i] = T \/ (w[i] \in B /\ 48 * i + 48 <= w[i])
        BY <1>1, <2>2
      <3>3. i + 1 \in 0..MaxBlocks
        BY <1>3, <2>2
      <3>4. CASE w[i] = T
        BY <3>1, <3>3, <3>4
      <3>5. CASE w[i] # T
        <4>1. w[i] \in Nat /\ w[i] + 48 <= Beyond(m, w[i]) /\ Beyond(m, w[i]) \in Nat
          BY <1>2, <3>2, <3>5
        <4>2. 48 * (i + 1) + 48 <= Beyond(m, w[i])
          BY <3>2, <3>5, <4>1
        <4> QED
          BY <3>1, <3>3, <3>5, <4>2
      <3> QED
        BY <3>4, <3>5
    <2> HIDE DEF S
    <2>3. 0..MaxBlocks \subseteq S
      BY <1>2, <2>1, <2>2, UpTo
    <2>4. MaxBlocks \in S
      BY <1>2, <2>3
    <2>5. w[MaxBlocks] = T \/ 48 * MaxBlocks + 48 <= w[MaxBlocks]
      BY <2>4 DEF S
    <2>6. w[MaxBlocks] \in Nat /\ w[MaxBlocks] <= T
      <3>1. w[MaxBlocks] \in X
        BY <1>1, <1>2
      <3> QED
        BY <1>2, <3>1
    <2> QED
      BY <1>2, <2>5, <2>6
  <1>5. ASSUME NEW c \in B, b <= c, \A i \in 0..MaxBlocks : w[i] # c
        PROVE  FALSE
    <2> DEFINE S == {i \in 0..MaxBlocks : w[i] < c}
    <2>1. 0 \in S
      <3>1. 0 \in 0..MaxBlocks
        BY <1>2
      <3>2. b # c /\ b \in Nat
        BY <1>1, <1>2, <1>5, <3>1
      <3> QED
        BY <1>1, <1>2, <1>5, <3>1, <3>2
    <2>2. ASSUME NEW i \in 0..MaxBlocks, i \in S, i < MaxBlocks
          PROVE  i + 1 \in S
      <3>1. w[i + 1] = IF w[i] = T THEN T ELSE Beyond(m, w[i])
        BY <1>1, <1>3, <2>2
      <3>2. w[i] < c /\ w[i] \in X
        BY <1>1, <2>2
      <3>3. w[i] \in B /\ w[i] # T
        BY <1>2, <3>2
      <3>4. Beyond(m, w[i]) <= c /\ Beyond(m, w[i]) \in Nat
        BY <1>2, <3>2, <3>3
      <3>5. i + 1 \in 0..MaxBlocks /\ w[i + 1] # c
        BY <1>3, <1>5, <2>2
      <3> QED
        BY <1>2, <3>1, <3>3, <3>4, <3>5
    <2> HIDE DEF S
    <2>3. 0..MaxBlocks \subseteq S
      BY <1>2, <2>1, <2>2, UpTo
    <2>4. MaxBlocks \in S
      BY <1>2, <2>3
    <2>5. w[MaxBlocks] < c
      BY <2>4 DEF S
    <2> QED
      BY <1>2, <1>4, <2>5
  <1> QED
    BY <1>4, <1>5 DEF T

\* next_fblock finds the first free block behind a block.
LEMMA NextFree ==
    ASSUME NEW m, NEW B, NEW x, Ordered(m, B, x), NEW b \in B
    PROVE  FirstFrom(FreeOf(m, B), b + 1, next_fblock(m, b))
PROOF
  <1> DEFINE w == Walk(m, b)
             T == Term(m)
             F == FreeOf(m, B)
             S == {j \in 1..MaxBlocks : w[j] >= Term(m) \/ IsFree(m, w[j])}
             k == Least(S)
  <1>1. /\ \A i \in 0..MaxBlocks : w[i] \in B \union {T}
        /\ w[0] = b
        /\ \A i \in 1..MaxBlocks : w[i] = IF w[i - 1] = T THEN T ELSE Beyond(m, w[i - 1])
        /\ w[MaxBlocks] = T
    BY WalkIs, WalkEnds
  <1>2. /\ T \in Nat /\ MaxBlocks \in Nat \ {0}
        /\ \A c \in B : /\ c \in Nat /\ 48 <= c /\ c < T /\ c + 48 <= Beyond(m, c)
                        /\ Beyond(m, c) \in Nat
        /\ \A c, d \in B : c < d => Beyond(m, c) <= d
        /\ F \subseteq B
    BY BlocksAre
  <1>3. next_fblock(m, b) = IF w[k] >= Term(m) THEN NULL ELSE w[k]
    BY DEF next_fblock
  <1>4. k \in S /\ \A j \in S : k <= j
    <2>1. MaxBlocks \in S
      BY <1>1, <1>2
    <2>2. S \subseteq Nat
      OBVIOUS
    <2> HIDE DEF S
    <2> QED
      BY <2>1, <2>2, LeastIs
  <1>5. /\ k \in 1..MaxBlocks /\ (w[k] = T \/ w[k] \in F)
        /\ \A j \in 1..MaxBlocks : j < k => w[j] < T /\ w[j] \notin F
    <2> HIDE DEF w, k
    <2>1. k \in 1..MaxBlocks /\ (w[k] >= T \/ IsFree(m, w[k]))
      BY <1>4
    <2>2. w[k] \in B \union {T}
      BY <1>1, <1>2, <2>1
    <2>3. \A j \in 1..MaxBlocks : j < k => j \notin S
      BY <1>2, <1>4, <2>1
    <2>4. \A j \in 1..MaxBlocks : w[j] \in B \union {T}
      BY <1>1, <1>2
    <2>5. \A j \in 1..MaxBlocks : w[j] \in Nat
      BY <1>2, <2>4
    <2> QED
      BY <1>2, <2>1, <2>2, <2>3, <2>4, <2>5 DEF FreeOf
  <1> HIDE DEF w, k, T, F
  <1> DEFINE P == {j \in 0..k : \A f \in F : f < b + 1 \/ w[j] <= f}
  <1>6. 0 \in P
    <2>1. \A f \in F : f \in Nat
      BY <1>2
    <2> QED
      BY <1>1, <1>2, <1>5, <2>1
  <1>7. ASSUME NEW j \in 0..k, j \in P, j < k
        PROVE  j + 1 \in P
    <2>1. /\ j + 1 \in 0..k /\ j \in 0..MaxBlocks /\ j + 1 \in 1..MaxBlocks
          /\ (j + 1) - 1 = j
      BY <1>2, <1>5, <1>7
    <2>2. w[j] \in B /\ w[j] # T
      <3>1. CASE j = 0
        BY <1>1, <1>2, <3>1
      <3>2. CASE j # 0
        BY <1>1, <1>2, <1>5, <1>7, <2>1, <3>2
      <3> QED
        BY <3>1, <3>2
    <2>3. w[j + 1] = Beyond(m, w[j])
      <3>1. w[j + 1] = IF w[(j + 1) - 1] = T THEN T ELSE Beyond(m, w[(j + 1) - 1])
        BY <1>1, <2>1
      <3> QED
        BY <2>1, <2>2, <3>1
    <2>4. ASSUME NEW f \in F, b + 1 <= f
          PROVE  w[j + 1] <= f
      <3>1. f \in B /\ f \in Nat /\ w[j] \in Nat
        BY <1>2, <2>2
      <3>2. w[j] <= f
        BY <1>2, <1>7, <2>4, <3>1
      <3>3. w[j] # f
        <4>1. CASE j = 0
          BY <1>1, <2>4, <3>1, <1>2, <4>1
        <4>2. CASE j # 0
          BY <1>5, <1>7, <2>1, <4>2
        <4> QED
          BY <4>1, <4>2
      <3>4. w[j] < f
        BY <3>1, <3>2, <3>3
      <3> QED
        BY <1>2, <2>2, <2>3, <3>1, <3>4
    <2>5. \A f \in F : f \in Nat
      BY <1>2
    <2> QED
      BY <1>2, <2>1, <2>4, <2>5
  <1>8. k \in P
    <2> HIDE DEF P
    <2> QED
      BY <1>5, <1>6, <1>7, UpTo
  <1>9. ASSUME NEW j \in 0..k, j # 0
        PROVE  b < w[j]
    <2> DEFINE Q == {i \in 0..k : b <= w[i] /\ (i # 0 => b < w[i])}
    <2>1. 0 \in Q
      BY <1>1, <1>2, <1>5
    <2>2. ASSUME NEW i \in 0..k, i \in Q, i < k
          PROVE  i + 1 \in Q
      <3>1. /\ i + 1 \in 0..k /\ i \in 0..MaxBlocks /\ i + 1 \in 1..MaxBlocks
            /\ (i + 1) - 1 = i
        BY <1>2, <1>5, <2>2
      <3>2. w[i + 1] = IF w[i] = T THEN T ELSE Beyond(m, w[i])
        BY <1>1, <3>1
      <3>3. w[i] \in B \union {T} /\ b <= w[i]
        BY <1>1, <2>2, <3>1
      <3>4. b < w[i + 1] /\ b <= w[i + 1]
        <4>1. CASE w[i] = T
          BY <1>2, <3>2, <4>1
        <4>2. CASE w[i] \in B /\ w[i] # T
          BY <1>2, <3>2, <3>3, <4>2
        <4> QED
          BY <3>3, <4>1, <4>2
      <3> QED
        BY <3>1, <3>4
    <2> HIDE DEF Q
    <2>3. j \in Q
      BY <1>5, <2>1, <2>2, UpTo
    <2> QED
      BY <1>9, <2>3 DEF Q
  <1>10. b < w[k]
    BY <1>2, <1>5, <1>9
  <1>11. CASE w[k] = T
    <2>1. \A f \in F : f < b + 1
      <3>1. \A f \in F : f \in Nat /\ f < T
        BY <1>2
      <3> QED
        BY <1>2, <1>8, <1>11, <3>1
    <2>2. next_fblock(m, b) = NULL
      BY <1>2, <1>3, <1>11 DEF T
    <2> QED
      BY <2>1, <2>2 DEF FirstFrom, F
  <1>12. CASE w[k] \in F
    <2>1. w[k] \in Nat /\ w[k] < T /\ 48 <= w[k]
      BY <1>2, <1>12
    <2>2. next_fblock(m, b) = w[k] /\ w[k] # NULL
      BY <1>2, <1>3, <2>1 DEF T, NULL
    <2>3. b + 1 <= w[k] /\ \A f \in F : f < b + 1 \/ w[k] <= f
      BY <1>2, <1>8, <1>10, <2>1
    <2> QED
      BY <1>12, <2>2, <2>3 DEF FirstFrom, F
  <1> QED
    BY <1>5, <1>11, <1>12

\* A set of numbers with a bound has a greatest element.
LEMMA Largest ==
    ASSUME NEW S, S \subseteq Nat, S # {}, NEW n \in Nat, \A k \in S : k <= n
    PROVE  \E m \in S : \A k \in S : k <= m
PROOF
  <1> DEFINE D == {n - k : k \in S}
  <1>1. D \subseteq Nat /\ D # {}
    <2>1. \A k \in S : n - k \in Nat
      OBVIOUS
    <2> QED
      BY <2>1
  <1>2. PICK d \in D : \A e \in D : d <= e
    <2> HIDE DEF D
    <2> QED
      BY <1>1, Smallest
  <1>3. PICK m \in S : d = n - m
    BY <1>2
  <1>4. ASSUME NEW k \in S
        PROVE  k <= m
    <2>1. n - k \in D
      OBVIOUS
    <2>2. n - m <= n - k
      BY <1>2, <1>3, <2>1
    <2> QED
      BY <2>2
  <1> QED
    BY <1>4

\* Each block but the first has one before it, and the end of the heap too;
\* its footer tells where.
LEMMA Preceding ==
    ASSUME NEW m, NEW B, NEW x, Ordered(m, B, x),
           NEW a \in B \union {Term(m)}, a # FirstBlock
    PROVE  /\ a - total_bytes(m, a - FOOTER) \in B
           /\ Beyond(m, a - total_bytes(m, a - FOOTER)) = a
           /\ a - total_bytes(m, a - FOOTER) = a - FOOTER - (m[a - FOOTER] + HEADER)
PROOF
  <1> DEFINE S == {c \in B : c < a}
  <1>1. /\ Term(m) \in Nat
        /\ \A b \in B : /\ b \in Nat /\ 48 <= b /\ b < Term(m)
                        /\ Beyond(m, b) = b + m[b] + 24 /\ m[b] \in Nat
                        /\ Beyond(m, b) \in Nat /\ b + 48 <= Beyond(m, b)
                        /\ Beyond(m, b) <= Term(m)
                        /\ Beyond(m, b) \in B \union {Term(m)}
                        /\ m[Beyond(m, b) - FOOTER] = m[b]
        /\ \A b, c \in B : b < c => Beyond(m, b) <= c
        /\ FirstBlock \in B
    BY BlocksAre
  <1>2. a \in Nat /\ FirstBlock \in S
    <2>1. a \in Nat /\ 48 <= a /\ FirstBlock = 48
      BY <1>1 DEF FirstBlock
    <2>2. FirstBlock < a
      BY <1>1, <2>1
    <2> QED
      BY <1>1, <2>1, <2>2
  <1>3. PICK c \in S : \A k \in S : k <= c
    <2>0. \A k \in B : k \in Nat
      BY <1>1
    <2>1. S # {}
      BY <1>2
    <2>2. S \subseteq Nat
      BY <2>0
    <2>3. \A k \in S : k <= a
      BY <1>2, <2>0
    <2> HIDE DEF S
    <2> QED
      BY <1>2, <2>1, <2>2, <2>3, Largest
  <1>4. c \in B /\ c < a /\ c \in Nat
    BY <1>1, <1>3
  <1>5. Beyond(m, c) <= a
    BY <1>1, <1>4
  <1>6. Beyond(m, c) = a
    <2>1. SUFFICES ASSUME Beyond(m, c) < a PROVE FALSE
      BY <1>1, <1>2, <1>4, <1>5
    <2>2. Beyond(m, c) \in B
      BY <1>1, <1>2, <1>4, <2>1
    <2>3. Beyond(m, c) <= c
      BY <1>3, <2>1, <2>2
    <2> QED
      BY <1>1, <1>4, <2>3
  <1>7. m[a - FOOTER] = m[c] /\ a = c + m[c] + 24 /\ m[c] \in Nat
    BY <1>1, <1>4, <1>6
  <1>8. a - total_bytes(m, a - FOOTER) = c
    BY <1>4, <1>7 DEF total_bytes, OVERHEAD, HEADER, FOOTER
  <1>9. a - FOOTER - (m[a - FOOTER] + HEADER) = c
    BY <1>2, <1>4, <1>7 DEF HEADER, FOOTER
  <1> QED
    BY <1>4, <1>6, <1>8, <1>9

\* Walking backwards meets blocks until it is at the first.
LEMMA WalkBackIs ==
    ASSUME NEW m, NEW B, NEW x, Ordered(m, B, x), NEW b \in B \union {Term(m)},
           NEW w, w = WalkBack(m, b)
    PROVE  /\ \A i \in 0..MaxBlocks : w[i] \in B \union {Term(m)}
           /\ w[0] = b
           /\ \A i \in 1..MaxBlocks :
                 IF w[i - 1] = FirstBlock THEN w[i] = FirstBlock
                 ELSE w[i] \in B /\ Beyond(m, w[i]) = w[i - 1]
PROOF
  <1> DEFINE X == B \union {Term(m)}
             Back(a) == IF a = FirstBlock THEN a ELSE a - total_bytes(m, a - FOOTER)
             F(v) == [i \in 0..MaxBlocks |->
                         IF i = 0 THEN b
                         ELSE LET a == v[i - 1]
                              IN  IF a = FirstBlock THEN a
                                  ELSE a - total_bytes(m, a - FOOTER)]
             g == [a \in X |-> Back(a)]
  <1>1. \A a \in X : IF a = FirstBlock THEN Back(a) = FirstBlock
                     ELSE Back(a) \in B /\ Beyond(m, Back(a)) = a
    BY Preceding
  <1>2. MaxBlocks \in Nat /\ FirstBlock \in B
    BY BlocksAre
  <1>3. g \in [X -> X]
    <2>1. \A a \in X : Back(a) \in X
      BY <1>1, <1>2
    <2> QED
      BY <2>1
  <1>4. \A a \in X : g[a] = Back(a)
    OBVIOUS
  <1>5. PICK v \in [0..MaxBlocks -> X] :
            v[0] = b /\ \A i \in 1..MaxBlocks : v[i] = g[v[i - 1]]
    <2> HIDE DEF g, X, F
    <2>1. b \in X
      BY DEF X
    <2>2. MaxBlocks \in Nat
      BY <1>2
    <2>3. \E v : Repeats(v, MaxBlocks, X, g, b)
      BY <1>3, <2>1, <2>2, Iterates
    <2> QED
      BY <2>3 DEF Repeats
  <1>6. v = F(v)
    <2>1. ASSUME NEW i \in 0..MaxBlocks
          PROVE  v[i] = F(v)[i]
      <3>1. CASE i = 0
        BY <1>5, <3>1
      <3>2. CASE i # 0
        <4>1. i \in 1..MaxBlocks /\ i - 1 \in 0..MaxBlocks
          BY <1>2, <3>2
        <4>2. v[i - 1] \in X /\ v[i] = g[v[i - 1]]
          BY <1>5, <4>1
        <4> QED
          BY <3>2, <4>2
      <3> QED
        BY <3>1, <3>2
    <2> QED
      BY <1>5, <2>1
  <1>7. WalkBack(m, b) = CHOOSE v_1 : v_1 = F(v_1)
    BY DEF WalkBack
  <1>8. w = F(w)
    <2> HIDE DEF F
    <2> QED
      BY <1>6, <1>7
  <1>9. w[0] = b /\ \A i \in 1..MaxBlocks : w[i] = Back(w[i - 1])
    <2>1. \A i \in 0..MaxBlocks : w[i] = F(w)[i]
      BY <1>8
    <2>2. 0 \in 0..MaxBlocks /\ \A i \in 1..MaxBlocks : i \in 0..MaxBlocks /\ i # 0
      BY <1>2
    <2> QED
      BY <2>1, <2>2
  <1> HIDE DEF g, F, Back
  <1>10. \A i \in 0..MaxBlocks : w[i] \in X
    <2> DEFINE S == {i \in 0..MaxBlocks : w[i] \in X}
    <2>1. 0 \in S
      BY <1>2, <1>9
    <2>2. ASSUME NEW i \in 0..MaxBlocks, i \in S, i < MaxBlocks
          PROVE  i + 1 \in S
      <3>1. i + 1 \in 1..MaxBlocks /\ (i + 1) - 1 = i /\ i + 1 \in 0..MaxBlocks
        BY <1>2, <2>2
      <3>2. w[i] \in X
        BY <2>2
      <3>3. w[i + 1] = Back(w[i])
        BY <1>9, <3>1
      <3>4. Back(w[i]) \in X
        BY <1>1, <1>2, <3>2
      <3> QED
        BY <3>1, <3>3, <3>4
    <2> HIDE DEF S
    <2>3. 0..MaxBlocks \subseteq S
      BY <1>2, <2>1, <2>2, UpTo
    <2> QED
      BY <2>3 DEF S
  <1>11. \A i \in 1..MaxBlocks : i - 1 \in 0..MaxBlocks
    BY <1>2
  <1>12. \A i \in 1..MaxBlocks :
            IF w[i - 1] = FirstBlock THEN w[i] = FirstBlock
            ELSE w[i] \in B /\ Beyond(m, w[i]) = w[i - 1]
    BY <1>1, <1>9, <1>10, <1>11
  <1> QED
    BY <1>9, <1>10, <1>12

\* prev_fblock finds the last free block before a block or the heap's end.
LEMMA PrevFree ==
    ASSUME NEW m, NEW B, NEW x, Ordered(m, B, x), NEW b \in B \union {Term(m)}
    PROVE  LastBefore(FreeOf(m, B), b, prev_fblock(m, b))
PROOF
  <1> DEFINE w == WalkBack(m, b)
             T == Term(m)
             F == FreeOf(m, B)
             S == {j \in 1..MaxBlocks : w[j - 1] = FirstBlock \/ IsFree(m, w[j])}
             k == Least(S)
  <1>1. /\ \A i \in 0..MaxBlocks : w[i] \in B \union {T}
        /\ w[0] = b
        /\ \A i \in 1..MaxBlocks :
              IF w[i - 1] = FirstBlock THEN w[i] = FirstBlock
              ELSE w[i] \in B /\ Beyond(m, w[i]) = w[i - 1]
    BY WalkBackIs
  <1>2. /\ T \in Nat /\ MaxBlocks \in Nat \ {0} /\ T < 32 * MaxBlocks
        /\ \A c \in B : /\ c \in Nat /\ 48 <= c /\ c < T /\ c + 48 <= Beyond(m, c)
                        /\ Beyond(m, c) \in Nat
        /\ \A c, d \in B : c < d => Beyond(m, c) <= d
        /\ F \subseteq B /\ FirstBlock \in B /\ FirstBlock = 48
    BY BlocksAre DEF FirstBlock
  <1>3. prev_fblock(m, b) = IF w[k - 1] = FirstBlock THEN NULL ELSE w[k]
    BY DEF prev_fblock
  <1>4. \A i \in 0..MaxBlocks : i < MaxBlocks =>
            i + 1 \in 1..MaxBlocks /\ (i + 1) - 1 = i /\ i + 1 \in 0..MaxBlocks
    BY <1>2
  <1> HIDE DEF w
  <1>5. MaxBlocks \in S
    <2> DEFINE Q == {i \in 0..MaxBlocks :
                        w[i] = FirstBlock \/ w[i] + 48 * i <= T}
    <2>1. 0 \in Q
      <3>1. 0 \in 0..MaxBlocks /\ b \in Nat /\ b <= T
        BY <1>2
      <3> QED
        BY <1>1, <3>1
    <2>2. ASSUME NEW i \in 0..MaxBlocks, i \in Q, i < MaxBlocks
          PROVE  i + 1 \in Q
      <3>1. IF w[i] = FirstBlock THEN w[i + 1] = FirstBlock
            ELSE w[i + 1] \in B /\ Beyond(m, w[i + 1]) = w[i]
        BY <1>1, <1>4, <2>2
      <3>2. i + 1 \in 0..MaxBlocks
        BY <1>4, <2>2
      <3>3. CASE w[i] = FirstBlock
        BY <3>1, <3>2, <3>3
      <3>4. CASE w[i] # FirstBlock
        <4>1. w[i + 1] \in Nat /\ w[i + 1] + 48 <= w[i] /\ w[i] \in Nat
          BY <1>2, <3>1, <3>4
        <4>2. w[i] + 48 * i <= T
          BY <2>2, <3>4
        <4>3. w[i + 1] + 48 * (i + 1) <= T
          BY <1>2, <4>1, <4>2
        <4> QED
          BY <3>2, <4>3
      <3> QED
        BY <3>3, <3>4
    <2>3. MaxBlocks - 1 \in 0..MaxBlocks /\ MaxBlocks \in 1..MaxBlocks
      BY <1>2
    <2> HIDE DEF Q
    <2>4. 0..MaxBlocks \subseteq Q
      BY <1>2, <2>1, <2>2, UpTo
    <2>5. MaxBlocks - 1 \in Q /\ w[MaxBlocks - 1] \in B \union {T}
      BY <1>1, <2>3, <2>4
    <2>6. w[MaxBlocks - 1] = FirstBlock \/ w[MaxBlocks - 1] + 48 * (MaxBlocks - 1) <= T
      BY <2>5 DEF Q
    <2>7. w[MaxBlocks - 1] \in Nat /\ 48 <= w[MaxBlocks - 1]
      <3>1. \A c \in B \union {T} : c \in Nat /\ 48 <= c
        BY <1>2
      <3> HIDE DEF T
      <3> QED
        BY <2>5, <3>1
    <2>8. w[MaxBlocks - 1] = FirstBlock
      BY <1>2, <2>6, <2>7
    <2> QED
      BY <2>3, <2>8
  <1>6. k \in S /\ \A j \in S : k <= j
    <2>1. S \subseteq Nat
      OBVIOUS
    <2> HIDE DEF S
    <2> QED
      BY <1>5, <2>1, LeastIs
  <1>7. k \in 1..MaxBlocks /\ k - 1 \in 0..MaxBlocks
        /\ (w[k - 1] = FirstBlock \/ IsFree(m, w[k]))
    BY <1>2, <1>6
  <1> HIDE DEF k
  <1>16. k \in Nat /\ 1 <= k /\ k <= MaxBlocks /\ MaxBlocks \in Nat
    BY <1>2, <1>7
  <1>8. \A j \in 1..MaxBlocks : j < k => w[j - 1] # FirstBlock /\ ~IsFree(m, w[j])
    BY <1>2, <1>6, <1>7
  <1>9. \A j \in 1..MaxBlocks : j < k => w[j] \in B /\ w[j] \notin F
                                         /\ Beyond(m, w[j]) = w[j - 1]
    BY <1>1, <1>8 DEF FreeOf
  <1> DEFINE P == {j \in 0..(k - 1) : \A f \in F : b <= f \/ f <= w[j]}
  <1>10. 0 \in P
    <2>1. \A f \in F : f \in Nat
      BY <1>2
    <2> QED
      BY <1>1, <1>2, <1>7, <2>1
  \* What is free and before w[j] is no later than the block before w[j].
  <1>11. ASSUME NEW j \in 0..(k - 1), \A f \in F : b <= f \/ f <= w[j],
                w[j] # FirstBlock
         PROVE  /\ w[j + 1] \in B /\ Beyond(m, w[j + 1]) = w[j]
                /\ \A f \in F : b <= f \/ f <= w[j + 1]
    <2>1. j \in 0..MaxBlocks /\ j < MaxBlocks /\ j < k
      BY <1>2, <1>7
    <2>2. w[j + 1] \in B /\ Beyond(m, w[j + 1]) = w[j]
      BY <1>1, <1>4, <1>11, <2>1
    <2>3. ASSUME NEW f \in F, f < b
          PROVE  f <= w[j + 1]
      <3>1. f \in B /\ f \in Nat /\ w[j + 1] \in Nat /\ w[j] \in Nat
        BY <1>2, <2>2
      <3>2. b \in Nat
        BY <1>2
      <3>3. f <= w[j]
        BY <1>11, <2>3, <3>1, <3>2
      <3>4. f # w[j]
        <4>1. CASE j = 0
          BY <1>1, <2>3, <3>1, <3>2, <4>1
        <4>2. CASE j # 0
          <5>1. j \in 1..MaxBlocks
            BY <2>1, <4>2
          <5> QED
            BY <1>9, <2>1, <5>1
        <4> QED
          BY <4>1, <4>2
      <3>5. w[j + 1] < f => Beyond(m, w[j + 1]) <= f
        BY <1>2, <2>2, <3>1
      <3> QED
        BY <2>2, <3>1, <3>3, <3>4, <3>5
    <2>4. \A f \in F : f \in Nat
      BY <1>2
    <2>5. b \in Nat
      BY <1>2
    <2> QED
      BY <2>2, <2>3, <2>4, <2>5
  <1>12. ASSUME NEW j \in 0..(k - 1), j \in P, j < k - 1
         PROVE  j + 1 \in P
    <2>1. j + 1 \in 0..(k - 1) /\ j + 1 \in 1..MaxBlocks /\ j + 1 < k /\ (j + 1) - 1 = j
      BY <1>16, <1>12
    <2>2. w[j] # FirstBlock
      BY <1>8, <2>1
    <2> QED
      BY <1>11, <1>12, <2>1, <2>2
  <1>13. k - 1 \in P
    <2> HIDE DEF P
    <2>1. k - 1 \in Nat
      BY <1>7
    <2> DEFINE h == k - 1
    <2> HIDE DEF h
    <2>2. h \in Nat /\ 0..h \subseteq P
      <3>1. h \in Nat
        BY <2>1 DEF h
      <3>2. \A j \in 0..h : j \in P /\ j < h => j + 1 \in P
        BY <1>12 DEF h
      <3> QED
        BY <1>10, <3>1, <3>2, UpTo
    <2> QED
      BY <2>2 DEF h
  <1>14. CASE w[k - 1] = FirstBlock
    <2>1. prev_fblock(m, b) = NULL
      BY <1>3, <1>14
    <2>2. ASSUME NEW f \in F, f < b
          PROVE  FALSE
      <3>1. f \in B /\ f \in Nat /\ 48 <= f /\ b \in Nat
        BY <1>2
      <3>2. f = FirstBlock
        BY <1>2, <1>13, <1>14, <2>2, <3>1
      <3>3. CASE k = 1
        BY <1>1, <1>14, <2>2, <3>1, <3>2, <3>3
      <3>4. CASE k # 1
        <4>1. k - 1 \in 1..MaxBlocks /\ k - 1 < k
          BY <1>7, <3>4
        <4> QED
          BY <1>9, <1>14, <3>2, <4>1
      <3> QED
        BY <3>3, <3>4
    <2>3. \A f \in F : f \in Nat /\ b \in Nat
      BY <1>2
    <2>4. \A f \in F : b <= f
      BY <2>2, <2>3
    <2> QED
      BY <2>1, <2>4 DEF LastBefore
  <1>15. CASE w[k - 1] # FirstBlock
    <2>1. k - 1 \in 0..(k - 1) /\ (k - 1) + 1 = k
      BY <1>7
    <2>2. w[k] \in B /\ \A f \in F : b <= f \/ f <= w[k]
      BY <1>11, <1>13, <1>15, <2>1
    <2>3. w[k] \in F
      BY <1>7, <1>15, <2>2 DEF FreeOf
    <2>4. w[k] \in Nat /\ 48 <= w[k]
      BY <1>2, <2>2
    <2>5. prev_fblock(m, b) = w[k] /\ w[k] # NULL
      BY <1>3, <1>15, <2>4 DEF NULL
    <2>6. w[k] < b
      <3> DEFINE Q == {i \in 0..k : w[i] <= b /\ (i # 0 => w[i] < b)}
      <3>1. b \in Nat
        BY <1>2
      <3>2. 0 \in Q
        BY <1>1, <1>7, <3>1
      <3>3. ASSUME NEW i \in 0..k, i \in Q, i < k
            PROVE  i + 1 \in Q
        <4>1. i + 1 \in 1..MaxBlocks /\ (i + 1) - 1 = i /\ i + 1 \in 0..k
          BY <1>16, <3>3
        <4>2. w[i] # FirstBlock
          <5>1. CASE i + 1 < k
            BY <1>8, <4>1, <5>1
          <5>2. CASE i + 1 = k
            BY <1>15, <4>1, <5>2
          <5> QED
            BY <1>7, <3>3, <5>1, <5>2
        <4>3. w[i + 1] \in B /\ Beyond(m, w[i + 1]) = w[i]
          BY <1>1, <4>1, <4>2
        <4> DEFINE c == w[i + 1]
        <4>6. c \in Nat /\ Beyond(m, c) \in Nat /\ c + 48 <= Beyond(m, c)
          BY <1>2, <4>3
        <4> HIDE DEF c
        <4>7. c < Beyond(m, c)
          BY <4>6
        <4>4. w[i + 1] \in Nat /\ w[i] \in Nat /\ w[i + 1] < w[i]
          BY <4>3, <4>6, <4>7 DEF c
        <4>5. w[i + 1] < b /\ w[i + 1] <= b
          BY <3>1, <3>3, <4>4
        <4> QED
          BY <4>1, <4>5
      <3> HIDE DEF Q
      <3>4. k \in Nat /\ k \in 0..k /\ k # 0
        BY <1>7
      <3>5. k \in Q
        BY <3>2, <3>3, <3>4, UpTo
      <3> QED
        BY <3>4, <3>5 DEF Q
    <2> QED
      BY <2>2, <2>3, <2>5, <2>6 DEF LastBefore
  <1> QED
    BY <1>14, <1>15

-----------------------------------------------------------------------------
(* Finding a free block, and growing. *)

\* Free blocks are apart, and none begins where NULL would be.
LEMMA FreeApart ==
    ASSUME NEW m, NEW B, NEW x, Ordered(m, B, x)
    PROVE  /\ \A b \in FreeOf(m, B) : b \in B /\ b \in Nat /\ 48 <= b /\ b # NULL
           /\ \A b, c \in FreeOf(m, B) : b < c => b + 48 <= c
PROOF
  <1>1. /\ \A b \in B : b \in Nat /\ 48 <= b /\ b + 48 <= Beyond(m, b)
                        /\ Beyond(m, b) \in Nat
        /\ \A b, c \in B : b < c => Beyond(m, b) <= c
        /\ FreeOf(m, B) \subseteq B
    BY BlocksAre
  <1>2. \A b \in FreeOf(m, B) : b \in B /\ b \in Nat /\ 48 <= b /\ b # NULL
    BY <1>1 DEF NULL
  <1>3. ASSUME NEW b \in FreeOf(m, B), NEW c \in FreeOf(m, B), b < c
        PROVE  b + 48 <= c
    <2>1. b \in B /\ c \in B /\ b \in Nat /\ c \in Nat
      BY <1>2
    <2>2. b + 48 <= Beyond(m, b) /\ Beyond(m, b) \in Nat /\ Beyond(m, b) <= c
      BY <1>1, <1>3, <2>1
    <2> QED
      BY <2>1, <2>2
  <1> QED
    BY <1>2, <1>3

\* The list is gone through to a free block that is large enough, or its end.
LEMMA FindIs ==
    ASSUME NEW m, NEW B, Proper(m, B), NEW n \in Nat
    PROVE  \/ \E b \in FreeOf(m, B) : /\ n <= m[b]
                                      /\ find_fblock(m, n) = [mem |-> m, fh |-> b]
           \/ find_fblock(m, n) = grow_heap(m, n)
PROOF
  <1> DEFINE X == FreeOf(m, B) \union {NULL}
             After(b) == IF b = NULL THEN NULL ELSE m[next(b)]
             F(v) == [i \in 0..MaxBlocks |->
                         IF i = 0 THEN m[FirstField]
                         ELSE LET b == v[i - 1]
                              IN  IF b = NULL THEN NULL ELSE m[next(b)]]
             g == [b \in X |-> After(b)]
             at == CHOOSE v : v = F(v)
             S == {j \in 0..MaxBlocks : at[j] = NULL \/ m[at[j]] >= n}
             k == Least(S)
  <1>1. /\ Ordered(m, B, NULL) /\ FirstFrom(FreeOf(m, B), 1, m[FirstField])
        /\ \A b \in FreeOf(m, B) : FirstFrom(FreeOf(m, B), b + 1, m[next(b)])
    <2>1. \A b \in FreeOf(m, B) : b # NULL
      BY FreeApart DEF Proper
    <2> QED
      BY <2>1 DEF Proper, Ordered, ListedBut, Successor
  <1>2. /\ MaxBlocks \in Nat \ {0} /\ Term(m) < 32 * MaxBlocks /\ Term(m) \in Nat
        /\ \A b \in FreeOf(m, B) : b < Term(m) /\ m[b] \in Nat
    BY <1>1, BlocksAre
  <1>3. /\ \A b \in FreeOf(m, B) : b \in Nat /\ 48 <= b /\ b # NULL
        /\ \A b, c \in FreeOf(m, B) : b < c => b + 48 <= c
    BY <1>1, FreeApart
  <1>4. \A b \in FreeOf(m, B) : After(b) = NULL \/ (After(b) \in FreeOf(m, B) /\ b < After(b))
    <2> SUFFICES ASSUME NEW b \in FreeOf(m, B), m[next(b)] # NULL
                 PROVE  m[next(b)] \in FreeOf(m, B) /\ b < m[next(b)]
      BY <1>3
    <2>1. m[next(b)] \in FreeOf(m, B) /\ b + 1 <= m[next(b)]
      BY <1>1 DEF FirstFrom
    <2> QED
      BY <1>3, <2>1
  <1>5. g \in [X -> X]
    BY <1>4
  <1>6. \A b \in X : g[b] = After(b)
    OBVIOUS
  <1>7. m[FirstField] \in X
    BY <1>1 DEF FirstFrom
  <1>8. PICK v \in [0..MaxBlocks -> X] :
            v[0] = m[FirstField] /\ \A i \in 1..MaxBlocks : v[i] = g[v[i - 1]]
    <2> HIDE DEF g, X, F
    <2>1. m[FirstField] \in X
      BY <1>7
    <2>2. MaxBlocks \in Nat
      BY <1>2
    <2>3. \E v : Repeats(v, MaxBlocks, X, g, m[FirstField])
      BY <1>5, <2>1, <2>2, Iterates
    <2> QED
      BY <2>3 DEF Repeats
  <1>9. v = F(v)
    <2>1. ASSUME NEW i \in 0..MaxBlocks
          PROVE  v[i] = F(v)[i]
      <3>1. CASE i = 0
        BY <1>8, <3>1
      <3>2. CASE i # 0
        <4>1. i \in 1..MaxBlocks /\ i - 1 \in 0..MaxBlocks
          BY <1>2, <3>2
        <4>2. v[i - 1] \in X /\ v[i] = g[v[i - 1]]
          BY <1>8, <4>1
        <4> QED
          BY <3>2, <4>2
      <3> QED
        BY <3>1, <3>2
    <2> QED
      BY <1>8, <2>1
  <1>10. at = F(at)
    <2> HIDE DEF F
    <2> QED
      BY <1>9
  <1>11. at[0] = m[FirstField] /\ \A i \in 1..MaxBlocks : at[i] = After(at[i - 1])
    <2> HIDE DEF at
    <2>1. \A i \in 0..MaxBlocks : at[i] = F(at)[i]
      BY <1>10
    <2>2. 0 \in 0..MaxBlocks /\ \A i \in 1..MaxBlocks : i \in 0..MaxBlocks /\ i # 0
      BY <1>2
    <2> QED
      BY <2>1, <2>2
  <1>12. find_fblock(m, n) = IF at[k] # NULL THEN [mem |-> m, fh |-> at[k]]
                                             ELSE grow_heap(m, n)
    BY DEF find_fblock
  <1> HIDE DEF g, F, at
  <1> DEFINE Q == {i \in 0..MaxBlocks :
                      at[i] = NULL \/ (at[i] \in FreeOf(m, B) /\ 48 * (i + 1) <= at[i])}
  <1>13. 0..MaxBlocks \subseteq Q
    <2>1. 0 \in Q
      BY <1>2, <1>3, <1>7, <1>11
    <2>2. ASSUME NEW i \in 0..MaxBlocks, i \in Q, i < MaxBlocks
          PROVE  i + 1 \in Q
      <3>1. i + 1 \in 1..MaxBlocks /\ (i + 1) - 1 = i /\ i + 1 \in 0..MaxBlocks
        BY <1>2, <2>2
      <3>2. at[i + 1] = After(at[i])
        BY <1>11, <3>1
      <3>3. CASE at[i] = NULL
        BY <3>1, <3>2, <3>3
      <3>4. CASE at[i] \in FreeOf(m, B) /\ 48 * (i + 1) <= at[i]
        <4> DEFINE b == at[i]
                   c == After(b)
        <4> HIDE DEF b, c
        <4>1. b \in FreeOf(m, B) /\ 48 * (i + 1) <= b /\ at[i + 1] = c
          BY <3>2, <3>4 DEF b, c
        <4>2. c = NULL \/ (c \in FreeOf(m, B) /\ b < c)
          BY <1>4, <4>1 DEF c
        <4>3. c = NULL \/ (c \in FreeOf(m, B) /\ b + 48 <= c /\ b \in Nat /\ c \in Nat)
          BY <1>3, <4>1, <4>2
        <4>4. c = NULL \/ (c \in FreeOf(m, B) /\ 48 * ((i + 1) + 1) <= c)
          BY <4>1, <4>3
        <4> QED
          BY <3>1, <4>1, <4>4
      <3> QED
        BY <2>2, <3>3, <3>4
    <2> HIDE DEF Q
    <2> QED
      BY <1>2, <2>1, <2>2, UpTo
  <1>14. at[MaxBlocks] = NULL
    <2>1. MaxBlocks \in Q
      BY <1>2, <1>13
    <2>2. at[MaxBlocks] = NULL
          \/ (at[MaxBlocks] \in FreeOf(m, B) /\ 48 * (MaxBlocks + 1) <= at[MaxBlocks])
      BY <2>1
    <2> DEFINE b == at[MaxBlocks]
    <2> HIDE DEF b
    <2>3. b \in FreeOf(m, B) => b \in Nat /\ b < Term(m)
      BY <1>2, <1>3
    <2>4. b = NULL \/ (b \in FreeOf(m, B) /\ 48 * (MaxBlocks + 1) <= b)
      BY <2>2 DEF b
    <2> QED
      BY <1>2, <2>3, <2>4 DEF b
  <1>15. k \in S
    <2>1. MaxBlocks \in S /\ S \subseteq Nat
      BY <1>2, <1>14
    <2> HIDE DEF S
    <2> QED
      BY <2>1, LeastIs
  <1>16. k \in 0..MaxBlocks /\ (at[k] = NULL \/ m[at[k]] >= n)
    BY <1>15
  <1> HIDE DEF k
  <1>17. at[k] = NULL \/ at[k] \in FreeOf(m, B)
    BY <1>13, <1>16
  <1>18. CASE at[k] = NULL
    BY <1>12, <1>18
  <1>19. CASE at[k] # NULL
    <2>1. at[k] \in FreeOf(m, B) /\ n <= m[at[k]]
      BY <1>2, <1>16, <1>17, <1>19
    <2> QED
      BY <1>12, <1>19, <2>1
  <1> QED
    BY <1>18, <1>19

\* Dividing leaves a remainder smaller than the divisor.
LEMMA Divided ==
    ASSUME NEW v \in Nat, NEW d \in Nat \ {0}
    PROVE  v \div d \in Nat /\ v % d \in 0..(d - 1) /\ v = (v \div d) * d + (v % d)
PROOF
  OBVIOUS

\* Rounded up, pages have room for the bytes asked for.
LEMMA RoundedUp ==
    ASSUME NEW n \in Nat, NEW d \in Nat \ {0}
    PROVE  div_up(n, d) \in Nat /\ n <= div_up(n, d) * d
PROOF
  <1> DEFINE v == n + d - 1
             q == v \div d
             r == v % d
  <1>1. v \in Nat
    OBVIOUS
  <1>2. q \in Nat /\ r \in 0..(d - 1) /\ v = q * d + r
    <2> HIDE DEF v
    <2> QED
      BY <1>1, Divided
  <1>3. div_up(n, d) = q
    BY DEF div_up
  <1> HIDE DEF q, r
  <1>4. q * d \in Nat
    BY <1>2
  <1>5. n <= q * d
    BY <1>2, <1>4
  <1> QED
    BY <1>2, <1>3, <1>5

\* The pages by which the heap grows: none, or enough, and no more than it may.
LEMMA GrowPagesAre ==
    ASSUME NEW m, Paged(m), NEW n \in Nat, NEW q, q = GrowPages(m, n), q # 0
    PROVE  /\ q \in Nat /\ m[PagesField] \in Nat /\ m[PagesField] + q <= maxpages
           /\ n + OVERHEAD <= q * PAGE_SIZE /\ q * PAGE_SIZE \in Nat
           /\ (q * PAGE_SIZE) % 16 = 0
PROOF
  <1> DEFINE need == n + OVERHEAD
             wanted == Greater(ALLOC_PAGES, div_up(need, PAGE_SIZE))
             left == maxpages - m[PagesField]
  <1>1. need \in Nat /\ PAGE_SIZE \in Nat \ {0} /\ ALLOC_PAGES \in Nat
    BY HeapAssumption DEF OVERHEAD, HEADER, FOOTER
  <1>2. m[PagesField] \in Nat /\ left \in Nat /\ maxpages \in Nat
    BY Limits, HeapAssumption DEF Paged
  <1>3. div_up(need, PAGE_SIZE) \in Nat /\ need <= div_up(need, PAGE_SIZE) * PAGE_SIZE
    <2> HIDE DEF need
    <2> QED
      BY <1>1, RoundedUp
  <1>4. q = IF wanted <= left THEN wanted
            ELSE IF left * PAGE_SIZE < need THEN 0 ELSE left
    BY DEF GrowPages
  <1> DEFINE d == div_up(need, PAGE_SIZE)
  <1>5. d \in Nat /\ need <= d * PAGE_SIZE
    BY <1>3
  <1> HIDE DEF d
  <1>6. wanted \in Nat /\ d <= wanted
    BY <1>1, <1>5 DEF Greater, d
  <1>7. d * PAGE_SIZE <= wanted * PAGE_SIZE /\ wanted * PAGE_SIZE \in Nat
        /\ d * PAGE_SIZE \in Nat
    <2> HIDE DEF wanted
    <2> QED
      BY <1>1, <1>5, <1>6, PagesGrow, Sixteens
  <1>8. left * PAGE_SIZE \in Nat
    <2> HIDE DEF left
    <2> QED
      BY <1>2, Sixteens
  <1> HIDE DEF wanted
  <1>9. CASE wanted <= left
    <2>1. q = wanted
      BY <1>4, <1>9
    <2>2. need <= q * PAGE_SIZE
      BY <1>1, <1>5, <1>7, <2>1
    <2> QED
      BY <1>2, <1>6, <1>9, <2>1, <2>2, Sixteens
  <1>10. CASE ~(wanted <= left)
    <2>1. q = left /\ ~(left * PAGE_SIZE < need)
      BY <1>4, <1>10
    <2>2. need <= q * PAGE_SIZE
      BY <1>1, <1>8, <2>1
    <2> QED
      BY <1>2, <2>1, <2>2, Sixteens
  <1> QED
    BY <1>9, <1>10

\* Stores into the list change one word each.
LEMMA FollowIs ==
    ASSUME NEW m \in [Words -> Int], NEW p, NEW b \in Int
    PROVE  /\ Follow(m, p, b) \in [Words -> Int]
           /\ \A a \in Words :
                 Follow(m, p, b)[a] =
                     IF a = (IF p = NULL THEN FirstField ELSE next(p)) THEN b ELSE m[a]
PROOF
  BY DEF Follow

\* So do those that tell the next block.
LEMMA PrecedeIs ==
    ASSUME NEW m \in [Words -> Int], NEW b \in Int, NEW n
    PROVE  /\ Precede(m, b, n) \in [Words -> Int]
           /\ \A a \in Words :
                 Precede(m, b, n)[a] = IF n # NULL /\ a = prev(n) THEN b ELSE m[a]
PROOF
  BY DEF Precede

\* The heap's own words, and those of the links, lie apart from a block's.
LEMMA OwnWords ==
    /\ PagesField \in Words /\ FirstField \in Words /\ PagesField < 48
    /\ FirstField < 48 /\ PagesField # FirstField /\ PagesField \in Nat
    /\ FirstField \in Nat
PROOF
  BY Limits, WordIs DEF PagesField, FirstField

\* What all uses of the list's neighbours of a free block b need of them.
Neighbours(m, B, b, p, n) ==
    /\ LastBefore(FreeOf(m, B), b, p)
    /\ FirstFrom(FreeOf(m, B), Beyond(m, b), n)
    /\ p # NULL => p \in B /\ p \in Nat /\ 48 <= p /\ p + 48 <= b /\ next(p) \in Words
    /\ n # NULL => n \in B /\ n \in Nat /\ Beyond(m, b) <= n /\ prev(n) \in Words
    /\ p \in Int /\ n \in Int

\* They are what the block's links say.
LEMMA NeighboursAre ==
    ASSUME NEW m, NEW B, NEW b \in FreeOf(m, B), Ordered(m, B, m[prev(b)])
    PROVE  Neighbours(m, B, b, m[prev(b)], m[next(b)])
PROOF
  <1> DEFINE p == m[prev(b)]
             n == m[next(b)]
             F == FreeOf(m, B)
  <1>1. /\ Term(m) \in Nat /\ Term(m) <= Limit
        /\ \A c \in B : /\ c \in Nat /\ 48 <= c /\ c + 48 <= Beyond(m, c)
                        /\ Beyond(m, c) \in Nat
        /\ \A c, d \in B : c < d => Beyond(m, c) <= d
        /\ F \subseteq B
    BY BlocksAre
  <1>2. \A c \in B : c \in Words /\ next(c) \in Words /\ prev(c) \in Words
    <2>1. \A c \in B : Formed(m, c, FirstBlock, Term(m))
      BY DEF Ordered, Tiles
    <2> QED
      BY <1>1, <2>1, FieldsAre DEF FirstBlock
  <1>3. b \in B /\ b \in Nat /\ b # NULL
    BY <1>1 DEF NULL
  <1>4. LastBefore(F, b, p)
    BY DEF Ordered, ListedBut
  <1>5. p \in Int /\ n \in Int
    BY <1>2, <1>3 DEF Ordered, Paged
  <1> HIDE DEF p
  <1>6. p # NULL => p \in F /\ p < b
    BY <1>4 DEF LastBefore
  <1>7. p # b
    BY <1>3, <1>6
  <1>8. FirstFrom(F, b + 1, n)
    <2>1. Successor(m, b) = n
      BY <1>3 DEF Successor
    <2>2. b # m[prev(b)]
      BY <1>7 DEF p
    <2> QED
      BY <2>1, <2>2 DEF Ordered, ListedBut
  <1> HIDE DEF n, F
  <1>9. \A f \in F : f \in Nat /\ (f < b + 1 => f < Beyond(m, b))
                     /\ (b + 1 <= f => Beyond(m, b) <= f)
    <2> SUFFICES ASSUME NEW f \in F
                 PROVE  f \in Nat /\ (f < b + 1 => f < Beyond(m, b))
                        /\ (b + 1 <= f => Beyond(m, b) <= f)
      OBVIOUS
    <2>1. f \in B /\ f \in Nat /\ b \in Nat /\ b + 48 <= Beyond(m, b)
          /\ Beyond(m, b) \in Nat
      BY <1>1, <1>3
    <2>2. b < f => Beyond(m, b) <= f
      BY <1>1, <1>3, <2>1
    <2> QED
      BY <2>1, <2>2
  <1>10. FirstFrom(F, Beyond(m, b), n)
    <2>1. CASE n = NULL
      BY <1>8, <1>9, <2>1 DEF FirstFrom
    <2>2. CASE n # NULL
      BY <1>8, <1>9, <2>2 DEF FirstFrom
    <2> QED
      BY <2>1, <2>2
  <1>11. p # NULL => p \in B /\ p \in Nat /\ 48 <= p /\ p + 48 <= b /\ next(p) \in Words
    <2> SUFFICES ASSUME p # NULL
                 PROVE  p \in B /\ p \in Nat /\ 48 <= p /\ p + 48 <= b /\ next(p) \in Words
      OBVIOUS
    <2>1. p \in B /\ p < b
      BY <1>1, <1>6
    <2>2. p \in Nat /\ 48 <= p /\ p + 48 <= Beyond(m, p) /\ Beyond(m, p) \in Nat
          /\ Beyond(m, p) <= b /\ next(p) \in Words
      BY <1>1, <1>2, <1>3, <2>1
    <2> QED
      BY <1>3, <2>1, <2>2
  <1>12. n # NULL => n \in B /\ n \in Nat /\ Beyond(m, b) <= n /\ prev(n) \in Words
    <2> SUFFICES ASSUME n # NULL
                 PROVE  n \in B /\ n \in Nat /\ Beyond(m, b) <= n /\ prev(n) \in Words
      OBVIOUS
    <2>1. n \in F /\ Beyond(m, b) <= n
      BY <1>10 DEF FirstFrom
    <2> QED
      BY <1>1, <1>2, <2>1
  <1> QED
    BY <1>4, <1>5, <1>10, <1>11, <1>12 DEF Neighbours, p, n, F

\* From m to u the free block b becomes an allocated one with s bytes, and a
\* free one g, if that is not NULL, between p and n.
Handing(m, B, u, b, s, g, p, n) ==
    /\ Spliced(m, B, u, b, Beyond(m, b), Beyond(m, b), {b} \union ({g} \ {NULL}),
               g, p, n)
    /\ Successor(u, p) = IF g = NULL THEN n ELSE g
    /\ u[b] = s
    /\ g # NULL => g \in Nat /\ b < g /\ g < Beyond(m, b)

\* Take replaces a free block by an allocated one.
LEMMA TakeHands ==
    ASSUME NEW m, NEW B, NEW b \in FreeOf(m, B), Ordered(m, B, m[prev(b)]),
           NEW u, u = Take(m, b)
    PROVE  Handing(m, B, u, b, m[b], NULL, m[prev(b)], m[next(b)])
PROOF
  <1> DEFINE p == m[prev(b)]
             n == m[next(b)]
             e == Beyond(m, b)
             s == [m EXCEPT ![flags(b)] = 1]
             h == IF p = NULL THEN FirstField ELSE next(p)
  <1>1. Neighbours(m, B, b, p, n)
    BY NeighboursAre
  <1>2. /\ Term(m) \in Nat /\ Term(m) <= Limit
        /\ b \in B /\ b \in Nat /\ 48 <= b /\ b % 16 = 0 /\ m[b] \in Nat
        /\ 24 <= m[b] /\ e = b + m[b] + 24 /\ e \in Nat
        /\ e \in B \union {Term(m)}
        /\ Formed(m, b, FirstBlock, Term(m))
    BY BlocksAre DEF FreeOf, Ordered, Tiles
  <1>3. /\ b \in Words /\ flags(b) \in Words /\ next(b) \in Words
        /\ prev(b) \in Words /\ footer(b, m[b]) \in Words
    BY <1>2, FieldsAre DEF FirstBlock
  <1>4. m \in [Words -> Int] /\ m[PagesField] \in ALLOC_PAGES..maxpages
    BY DEF Ordered, Paged
  <1>5. s \in [Words -> Int] /\ \A a \in Words : s[a] = IF a = flags(b) THEN 1 ELSE m[a]
    BY <1>3, <1>4
  <1>6. u = Precede(Follow(s, p, n), p, n)
    BY DEF Take
  <1> HIDE DEF p, n, e, s
  <1>7. h \in Words /\ h \in Nat /\ (p = NULL => h = FirstField)
        /\ (p # NULL => h = p + 16) /\ h + 32 <= b + 16 /\ h # PagesField
    BY <1>1, <1>2, OwnWords DEF Neighbours, next, PagesField, FirstField
  <1> HIDE DEF h
  <1>8. /\ Follow(s, p, n) \in [Words -> Int]
        /\ \A a \in Words : Follow(s, p, n)[a] = IF a = h THEN n ELSE s[a]
    BY <1>1, <1>5, FollowIs DEF Neighbours, h
  <1>9. u \in [Words -> Int]
        /\ \A a \in Words : u[a] = IF n # NULL /\ a = prev(n) THEN p
                                   ELSE IF a = h THEN n
                                   ELSE IF a = flags(b) THEN 1 ELSE m[a]
    BY <1>1, <1>5, <1>6, <1>8, PrecedeIs DEF Neighbours
  <1>10. n # NULL => /\ prev(n) \in Words /\ prev(n) = n + 24 /\ e <= n /\ n \in Nat
                     /\ prev(n) # h
    BY <1>1, <1>2, <1>7 DEF Neighbours, prev, e
  <1>11. u[h] = n /\ (n # NULL => u[prev(n)] = p)
    BY <1>2, <1>7, <1>9, <1>10 DEF flags
  <1>12. /\ u[b] = m[b] /\ u[flags(b)] = 1 /\ u[footer(b, m[b])] = m[footer(b, m[b])]
         /\ u[PagesField] = m[PagesField]
    BY <1>2, <1>3, <1>7, <1>9, <1>10, OwnWords DEF flags, footer, HEADER
  <1>13. Paged(u) /\ Term(u) = Term(m)
    BY <1>4, <1>9, <1>12 DEF Paged, Term
  <1>14. Beyond(u, b) = e
    BY <1>12 DEF Beyond, e
  <1>15. Tiles(u, {b}, b, e) /\ FreeOf(u, {b}) = {NULL} \ {NULL}
    <2>1. Formed(u, b, b, e)
      BY <1>2, <1>12, <1>14 DEF Formed
    <2>2. ~IsFree(u, b)
      BY <1>12 DEF IsFree
    <2> QED
      BY <1>2, <1>14, <2>1, <2>2 DEF Tiles, FreeOf
  <1>16. KeptBut(m, u, b, e, p, n)
    <2>1. \A a \in Words : a \in Nat
      BY DEF Words
    <2>2. ASSUME NEW a \in Words, a < b \/ e <= a, a # FirstField,
                 p # NULL => a # next(p), n # NULL => a # prev(n)
          PROVE  u[a] = m[a]
      <3>1. a # flags(b)
        BY <1>2, <2>1, <2>2 DEF flags
      <3>2. a # h
        BY <2>2 DEF h
      <3> QED
        BY <1>9, <2>2, <3>1, <3>2
    <2>3. p # NULL => u[FirstField] = m[FirstField]
      <3>1. p # NULL => FirstField # h
        BY <1>1, <1>7, OwnWords DEF Neighbours
      <3>2. n # NULL => FirstField # prev(n)
        BY <1>2, <1>10, OwnWords
      <3>3. FirstField # flags(b)
        BY <1>2, OwnWords DEF flags
      <3> QED
        BY <1>9, <3>1, <3>2, <3>3, OwnWords
    <2> QED
      BY <2>2, <2>3 DEF KeptBut
  <1>17. Ends(m, B, u, e, e)
    BY <1>2, <1>13 DEF Ends
  <1>18. Spliced(m, B, u, b, e, e, {b}, NULL, p, n)
    <2>1. b \in B \union {Term(m)} /\ b <= e /\ b \in {b}
      BY <1>2
    <2>2. LastBefore(FreeOf(m, B), b, p) /\ FirstFrom(FreeOf(m, B), e, n)
      BY <1>1 DEF Neighbours, e
    <2> QED
      BY <1>11, <1>13, <1>15, <1>16, <1>17, <2>1, <2>2 DEF Spliced
  <1>19. Successor(u, p) = n
    BY <1>11 DEF Successor, h
  <1>20. {b} = {b} \union ({NULL} \ {NULL})
    OBVIOUS
  <1>21. Spliced(m, B, u, b, e, e, {b} \union ({NULL} \ {NULL}), NULL, p, n)
    BY <1>18, <1>20
  <1> QED
    BY <1>12, <1>19, <1>21 DEF Handing, p, n, e

\* Split replaces a free block by an allocated one and a smaller free one.
LEMMA SplitHands ==
    ASSUME NEW m, NEW B, NEW b \in FreeOf(m, B), Ordered(m, B, m[prev(b)]),
           NEW size \in Nat, size % 16 = 8, 24 <= size, size + 48 <= m[b],
           NEW u, u = Split(m, b, size),
           NEW fb, fb = b + size + OVERHEAD
    PROVE  Handing(m, B, u, b, size, fb, m[prev(b)], m[next(b)])
PROOF
  <1> DEFINE p == m[prev(b)]
             n == m[next(b)]
             e == Beyond(m, b)
             fs == m[b] - size - OVERHEAD
             s == [m EXCEPT ![b] = size, ![flags(b)] = 1, ![footer(b, size)] = size,
                            ![fb] = fs, ![flags(fb)] = 0, ![footer(fb, fs)] = fs,
                            ![prev(fb)] = p, ![next(fb)] = n]
             h == IF p = NULL THEN FirstField ELSE next(p)
  <1>1. Neighbours(m, B, b, p, n)
    BY NeighboursAre
  <1>2. /\ Term(m) \in Nat /\ Term(m) <= Limit /\ Limit \in Nat
        /\ b \in B /\ b \in Nat /\ 48 <= b /\ b % 16 = 0 /\ m[b] \in Nat
        /\ 24 <= m[b] /\ e = b + m[b] + 24 /\ e \in Nat /\ m[b] % 16 = 8
        /\ e <= Term(m) /\ e \in B \union {Term(m)}
    <2>1. b \in B
      BY DEF FreeOf
    <2>2. Formed(m, b, FirstBlock, Term(m))
      BY <2>1 DEF Ordered, Tiles
    <2>3. m[b] % 16 = 8
      BY <2>2 DEF Formed
    <2> QED
      BY <2>1, <2>3, BlocksAre
  <1>3. m \in [Words -> Int] /\ m[PagesField] \in ALLOC_PAGES..maxpages
    BY DEF Ordered, Paged
  <1>4. u = Precede(Follow(s, p, fb), fb, n)
    BY DEF Split, Link
  <1>5. /\ fb = b + size + 24 /\ fs = m[b] - size - 24 /\ fb \in Nat /\ fs \in Nat
        /\ 24 <= fs /\ fb + fs + 24 = e /\ fb % 16 = 0 /\ fs % 16 = 8
        /\ b + 48 <= fb /\ fb + 48 <= e
    BY <1>2 DEF OVERHEAD, HEADER, FOOTER
  <1> HIDE DEF p, n, e, fs
  <1>6. /\ b \in Words /\ b + 8 \in Words /\ fb - 8 \in Words /\ fb \in Words
        /\ fb + 8 \in Words /\ fb + 16 \in Words /\ fb + 24 \in Words
        /\ e - 8 \in Words
    BY <1>2, <1>5, WordIs
  <1>7. /\ flags(b) = b + 8 /\ footer(b, size) = fb - 8 /\ flags(fb) = fb + 8
        /\ next(fb) = fb + 16 /\ prev(fb) = fb + 24 /\ footer(fb, fs) = e - 8
    BY <1>2, <1>5 DEF flags, footer, next, prev, HEADER
  <1>8. /\ s \in [Words -> Int]
        /\ \A a \in Words : s[a] = IF a = fb + 16 THEN n ELSE IF a = fb + 24 THEN p
                                   ELSE IF a = e - 8 THEN fs
                                   ELSE IF a = fb + 8 THEN 0 ELSE IF a = fb THEN fs
                                   ELSE IF a = fb - 8 THEN size
                                   ELSE IF a = b + 8 THEN 1 ELSE IF a = b THEN size
                                   ELSE m[a]
    <2>1. p \in Int /\ n \in Int
      BY <1>1 DEF Neighbours
    <2>2. s = [m EXCEPT ![b] = size, ![b + 8] = 1, ![fb - 8] = size,
                        ![fb] = fs, ![fb + 8] = 0, ![e - 8] = fs,
                        ![fb + 24] = p, ![fb + 16] = n]
      BY <1>7
    <2> HIDE DEF s
    <2> QED
      BY <1>3, <1>5, <1>6, <2>1, <2>2
  <1> HIDE DEF s
  <1>9. h \in Words /\ h \in Nat /\ (p = NULL => h = FirstField)
        /\ (p # NULL => h = p + 16) /\ h + 32 <= b + 16 /\ h # PagesField
    BY <1>1, <1>2, OwnWords DEF Neighbours, next, PagesField, FirstField
  <1> HIDE DEF h
  <1>10. /\ Follow(s, p, fb) \in [Words -> Int]
         /\ \A a \in Words : Follow(s, p, fb)[a] = IF a = h THEN fb ELSE s[a]
    BY <1>5, <1>8, FollowIs DEF h
  <1>11. u \in [Words -> Int]
         /\ \A a \in Words : u[a] = IF n # NULL /\ a = prev(n) THEN fb
                                    ELSE IF a = h THEN fb ELSE s[a]
    BY <1>4, <1>5, <1>10, PrecedeIs
  <1>12. n # NULL => /\ prev(n) \in Words /\ prev(n) = n + 24 /\ e <= n /\ n \in Nat
                     /\ prev(n) # h
    BY <1>1, <1>2, <1>9 DEF Neighbours, prev, e
  <1>13. u[h] = fb /\ (n # NULL => u[prev(n)] = fb)
    BY <1>9, <1>11, <1>12
  <1>14. \A a \in Words : b <= a /\ a < e => u[a] = s[a]
    <2> SUFFICES ASSUME NEW a \in Words, b <= a, a < e
                 PROVE  u[a] = s[a]
      OBVIOUS
    <2>1. a \in Nat
      BY DEF Words
    <2>2. a # h
      BY <1>2, <1>9, <2>1
    <2>3. n # NULL => a # prev(n)
      BY <1>2, <1>12, <2>1
    <2> QED
      BY <1>11, <2>2, <2>3
  <1>15. /\ u[b] = size /\ u[flags(b)] = 1 /\ u[footer(b, size)] = size
         /\ u[fb] = fs /\ u[flags(fb)] = 0 /\ u[footer(fb, fs)] = fs
         /\ u[prev(fb)] = p /\ u[next(fb)] = n
    <2>1. /\ b < e /\ b + 8 < e /\ b <= fb - 8 /\ fb - 8 < e /\ b <= fb /\ fb < e
          /\ b <= fb + 8 /\ fb + 8 < e /\ b <= e - 8 /\ e - 8 < e /\ b <= fb + 16
          /\ fb + 16 < e /\ b <= fb + 24 /\ fb + 24 < e /\ b <= b /\ b <= b + 8
      BY <1>2, <1>5
    <2>2. /\ u[b] = s[b] /\ u[b + 8] = s[b + 8] /\ u[fb - 8] = s[fb - 8]
          /\ u[fb] = s[fb] /\ u[fb + 8] = s[fb + 8] /\ u[e - 8] = s[e - 8]
          /\ u[fb + 24] = s[fb + 24] /\ u[fb + 16] = s[fb + 16]
      BY <1>6, <1>14, <2>1
    <2>3. /\ s[b] = size /\ s[b + 8] = 1 /\ s[fb - 8] = size
          /\ s[fb] = fs /\ s[fb + 8] = 0 /\ s[e - 8] = fs
          /\ s[fb + 24] = p /\ s[fb + 16] = n
      BY <1>2, <1>5, <1>6, <1>8
    <2> QED
      BY <1>7, <2>2, <2>3
  <1>16. u[PagesField] = m[PagesField]
    <2>1. PagesField # h /\ (n # NULL => PagesField # prev(n))
      BY <1>2, <1>9, <1>12, OwnWords
    <2>2. u[PagesField] = s[PagesField]
      BY <1>11, <2>1, OwnWords
    <2> QED
      BY <1>2, <1>5, <1>8, <2>2, OwnWords
  <1>17. Paged(u) /\ Term(u) = Term(m)
    BY <1>3, <1>11, <1>16 DEF Paged, Term
  <1>18. Beyond(u, b) = fb /\ Beyond(u, fb) = e
    BY <1>2, <1>5, <1>15 DEF Beyond, OVERHEAD, HEADER, FOOTER
  <1>19. Tiles(u, {b, fb}, b, e) /\ FreeOf(u, {b, fb}) = {fb} \ {NULL}
    <2>1. Formed(u, b, b, e)
      BY <1>2, <1>5, <1>15, <1>18 DEF Formed
    <2>2. Formed(u, fb, b, e)
      BY <1>2, <1>5, <1>15, <1>18 DEF Formed
    <2>3. ~IsFree(u, b) /\ IsFree(u, fb) /\ fb # NULL
      <3>1. ~IsFree(u, b)
        BY <1>15 DEF IsFree
      <3>2. IsFree(u, fb)
        BY <1>15 DEF IsFree
      <3>3. fb # NULL
        BY <1>2, <1>5 DEF NULL
      <3> QED
        BY <3>1, <3>2, <3>3
    <2>4. \A c, d \in {b, fb} : c < d => Beyond(u, c) <= d
      BY <1>2, <1>5, <1>18
    <2> QED
      BY <1>18, <2>1, <2>2, <2>3, <2>4 DEF Tiles, FreeOf
  <1>20. KeptBut(m, u, b, e, p, n)
    <2>1. \A a \in Words : a \in Nat
      BY DEF Words
    <2>2. ASSUME NEW a \in Words, a < b \/ e <= a
          PROVE  s[a] = m[a]
      BY <1>2, <1>5, <1>8, <2>1, <2>2
    <2>3. ASSUME NEW a \in Words, a < b \/ e <= a, a # FirstField,
                 p # NULL => a # next(p), n # NULL => a # prev(n)
          PROVE  u[a] = m[a]
      <3>1. a # h
        BY <2>3 DEF h
      <3> QED
        BY <1>11, <2>2, <2>3, <3>1
    <2>4. p # NULL => u[FirstField] = m[FirstField]
      <3>1. p # NULL => FirstField # h
        BY <1>1, <1>9, OwnWords DEF Neighbours
      <3>2. n # NULL => FirstField # prev(n)
        BY <1>2, <1>12, OwnWords
      <3>3. FirstField \in Words /\ FirstField < b
        BY <1>2, OwnWords
      <3> QED
        BY <1>11, <2>2, <3>1, <3>2, <3>3
    <2> QED
      BY <2>3, <2>4 DEF KeptBut
  <1>21. Ends(m, B, u, e, e)
    BY <1>2, <1>17 DEF Ends
  <1>22. Spliced(m, B, u, b, e, e, {b, fb}, fb, p, n)
    <2>1. b \in B \union {Term(m)} /\ b <= e /\ b \in {b, fb}
      BY <1>2
    <2>2. LastBefore(FreeOf(m, B), b, p) /\ FirstFrom(FreeOf(m, B), e, n)
      BY <1>1 DEF Neighbours, e
    <2>3. fb # NULL /\ fb # b
      BY <1>2, <1>5 DEF NULL
    <2>4. e \notin FreeOf(m, B)
      BY DEF e, Ordered, Merged
    <2> QED
      BY <1>13, <1>15, <1>17, <1>18, <1>19, <1>20, <1>21, <2>1, <2>2, <2>3, <2>4
      DEF Spliced
  <1>23. Successor(u, p) = fb
    BY <1>13 DEF Successor, h
  <1>24. fb # NULL /\ fb \in Nat /\ b < fb /\ fb < e
    BY <1>2, <1>5 DEF NULL
  <1>25. {b, fb} = {b} \union ({fb} \ {NULL})
    BY <1>24
  <1>26. Spliced(m, B, u, b, e, e, {b} \union ({fb} \ {NULL}), fb, p, n)
    BY <1>22, <1>25
  <1> QED
    BY <1>15, <1>23, <1>24, <1>26 DEF Handing, p, n, e

\* A heap u of blocks C in which b is free and has room for n bytes, with the
\* client's part as it was in m.
Room(m, B, L, n, u, b, C) ==
    /\ Ordered(u, C, u[prev(b)])
    /\ b \in FreeOf(u, C) /\ n <= u[b]
    /\ C \ FreeOf(u, C) = B \ FreeOf(m, B)
    /\ Holding(u, B \ FreeOf(m, B), L)

\* A block that is already free is room.
LEMMA RoomAlready ==
    ASSUME NEW m, NEW B, Proper(m, B), NEW L, Holding(m, B \ FreeOf(m, B), L),
           NEW n, NEW b \in FreeOf(m, B), n <= m[b]
    PROVE  Room(m, B, L, n, m, b, B)
PROOF
  BY ProperOrdered DEF Room

\* Growing gives room: a replaced last block, or one more.
LEMMA SplicedRoom ==
    ASSUME NEW m, NEW B, Proper(m, B), NEW L, Holding(m, B \ FreeOf(m, B), L),
           NEW n, NEW u, NEW g, NEW p, NEW e2, g # NULL,
           Spliced(m, B, u, g, Term(m), e2, {g}, g, p, NULL), n <= u[g],
           Outside(B, g, Term(m)) \ FreeOf(m, B) = B \ FreeOf(m, B)
    PROVE  Room(m, B, L, n, u, g, Outside(B, g, Term(m)) \union {g})
PROOF
  <1> DEFINE O == Outside(B, g, Term(m))
             F == FreeOf(m, B)
             C == O \union {g}
             A == B \ F
  <1>1. Ordered(m, B, p)
    BY ProperOrdered
  <1>2. Ordered(u, C, p)
    BY <1>1, Splice
  <1>3. u[prev(g)] = p
    BY DEF Spliced
  <1>4. FreeOf(u, C) = (F \intersect O) \union ({g} \ {NULL})
    BY <1>1, SpliceTiles
  <1>5. g \notin A
    <2>1. g \notin O \/ g \in F
      <3>1. SUFFICES ASSUME g \in O, g \notin F
                     PROVE  FALSE
        OBVIOUS
      <3>2. /\ \A b \in B : b \in Nat /\ b < Term(m)
            /\ Term(m) \in Nat
        BY <1>1, SpliceBounds
      <3>3. g \in Nat /\ g <= Term(m) /\ g \in B
        BY <1>1, <3>1, <3>2 DEF Outside, Spliced
      <3>4. g < Term(m)
        BY <3>2, <3>3
      <3> QED
        BY <3>1, <3>2, <3>3, <3>4 DEF Outside
    <2>2. O \ F = A
      OBVIOUS
    <2> HIDE DEF O, F
    <2> QED
      BY <2>1, <2>2
  <1>6. g \in FreeOf(u, C) /\ C \ FreeOf(u, C) = A
    <2>1. O \ F = A
      OBVIOUS
    <2> HIDE DEF O, F
    <2> QED
      BY <1>4, <1>5, <2>1
  <1>7. Holding(u, A, L)
    <2>1. Holding(u, A, {l \in L : l.ptr - HEADER \in A})
      BY <1>1, SpliceHolding
    <2>2. \A l \in L : l.ptr - HEADER \in A
      BY DEF Holding
    <2>3. {l \in L : l.ptr - HEADER \in A} = L
      BY <2>2
    <2> QED
      BY <2>1, <2>3
  <1> QED
    BY <1>2, <1>3, <1>6, <1>7 DEF Room

\* The last block of a heap that may be grown, and the grown memory.
LastBlock(m) == Term(m) - FOOTER - (m[Term(m) - FOOTER] + HEADER)

\* The last block ends where the heap does; its predecessor in the list is the
\* last free block when it is itself allocated.
LEMMA LastIs ==
    ASSUME NEW m, NEW B, Proper(m, B)
    PROVE  /\ LastBlock(m) \in B /\ Beyond(m, LastBlock(m)) = Term(m)
           /\ \A b \in B : b <= LastBlock(m) /\ b < Term(m)
           /\ \A b \in B : Beyond(m, b) = Term(m) => b = LastBlock(m)
PROOF
  <1>1. Ordered(m, B, NULL)
    BY ProperOrdered
  <1>2. /\ Term(m) \in Nat /\ 96 <= Term(m)
        /\ \A b \in B : /\ b \in Nat /\ b < Term(m) /\ Beyond(m, b) \in Nat
                        /\ b + 48 <= Beyond(m, b)
        /\ \A b, c \in B : b < c => Beyond(m, b) <= c
    BY <1>1, BlocksAre, TermIs DEF Ordered
  <1>3. Term(m) \in B \union {Term(m)} /\ Term(m) # FirstBlock
    BY <1>2 DEF FirstBlock
  <1>4. LastBlock(m) \in B /\ Beyond(m, LastBlock(m)) = Term(m)
    BY <1>1, <1>3, Preceding DEF LastBlock
  <1> DEFINE c == LastBlock(m)
  <1> HIDE DEF c
  <1>5. c \in B /\ Beyond(m, c) = Term(m)
    BY <1>4 DEF c
  <1>6. \A b \in B : b <= c /\ b < Term(m)
    BY <1>2, <1>5
  <1>7. \A b \in B : Beyond(m, b) = Term(m) => b = c
    BY <1>2, <1>5
  <1> QED
    BY <1>5, <1>6, <1>7 DEF c

\* The heap grows by at least a block's room.
LEMMA GrownEnd ==
    ASSUME NEW m, NEW B, Proper(m, B), NEW n \in Nat, NEW q, q = GrowPages(m, n), q # 0,
           NEW T2, T2 = Term(m) + q * PAGE_SIZE
    PROVE  /\ T2 \in Nat /\ T2 % 16 = 0 /\ Term(m) + 96 <= T2 /\ T2 <= Limit
           /\ Term(m) + n + 24 <= T2 /\ q * PAGE_SIZE \in Nat
           /\ (q * PAGE_SIZE) % 16 = 0
           /\ m[PagesField] + q \in ALLOC_PAGES..maxpages
           /\ \A u : u[PagesField] = m[PagesField] + q => Term(u) = T2
PROOF
  <1>1. Paged(m)
    BY DEF Proper, Ordered
  <1>2. /\ q \in Nat /\ m[PagesField] \in Nat /\ m[PagesField] + q <= maxpages
        /\ n + 24 <= q * PAGE_SIZE /\ q * PAGE_SIZE \in Nat
        /\ (q * PAGE_SIZE) % 16 = 0
    BY <1>1, GrowPagesAre DEF OVERHEAD, HEADER, FOOTER
  <1>3. m[PagesField] + q \in ALLOC_PAGES..maxpages
    BY <1>1, <1>2, Limits, HeapAssumption DEF Paged
  <1>4. 1 * PAGE_SIZE <= q * PAGE_SIZE
    BY <1>2, PagesGrow
  <1>5. Term(m) \in Nat /\ Term(m) % 16 = 0
    BY <1>1, TermIs
  <1> DEFINE P == m[PagesField]
  <1>6. (P + q) * PAGE_SIZE = P * PAGE_SIZE + q * PAGE_SIZE
    <2>1. P \in Nat /\ q \in Nat /\ PAGE_SIZE \in Nat
      BY <1>2, HeapAssumption
    <2> HIDE DEF P
    <2> QED
      BY <2>1
  <1>7. T2 = (P + q) * PAGE_SIZE /\ Term(m) = P * PAGE_SIZE
    BY <1>6 DEF Term
  <1>8. (P + q) * PAGE_SIZE <= maxpages * PAGE_SIZE
    <2>1. P + q \in Nat /\ P + q <= maxpages /\ maxpages \in Nat
      BY <1>2, Limits
    <2> HIDE DEF P
    <2> QED
      BY <2>1, PagesGrow
  <1>9. \A u : u[PagesField] = m[PagesField] + q => Term(u) = T2
    BY <1>7 DEF Term
  <1>10. 96 <= q * PAGE_SIZE
    <2>1. 1 * PAGE_SIZE = PAGE_SIZE /\ PAGE_SIZE \in Nat /\ 96 <= PAGE_SIZE
      BY HeapAssumption
    <2> QED
      BY <1>2, <1>4, <2>1
  <1>11. T2 <= Limit
    BY <1>7, <1>8 DEF Limit
  <1> HIDE DEF P
  <1> DEFINE d == q * PAGE_SIZE
             T == Term(m)
  <1>12. d \in Nat /\ T \in Nat /\ d % 16 = 0 /\ T % 16 = 0 /\ T2 = T + d
         /\ 96 <= d /\ n + 24 <= d
    BY <1>2, <1>5, <1>10
  <1> HIDE DEF d, T
  <1>13. T2 \in Nat /\ T2 % 16 = 0 /\ T + 96 <= T2 /\ T + n + 24 <= T2
    BY <1>12
  <1> QED
    BY <1>2, <1>3, <1>9, <1>11, <1>13 DEF T

\* A new block at the end of the heap, when the last one is allocated.
LEMMA GrowNew ==
    ASSUME NEW m, NEW B, Proper(m, B), NEW n \in Nat, GrowPages(m, n) # 0,
           ~IsFree(m, LastBlock(m)), NEW u, u = grow_heap(m, n).mem
    PROVE  /\ grow_heap(m, n).fh = Term(m) /\ n <= u[Term(m)] /\ Term(m) # NULL
           /\ Spliced(m, B, u, Term(m), Term(m), Term(u), {Term(m)}, Term(m),
                      prev_fblock(m, Term(m)), NULL)
PROOF
  <1> DEFINE q == GrowPages(m, n)
             T == Term(m)
             T2 == T + q * PAGE_SIZE
             F == FreeOf(m, B)
             p == prev_fblock(m, T)
             size == q * PAGE_SIZE - OVERHEAD
             grown == [m EXCEPT ![PagesField] = @ + q]
             new == [grown EXCEPT ![T] = size, ![flags(T)] = 0,
                                  ![next(T)] = NULL, ![prev(T)] = p]
             listed == IF p = NULL THEN Follow(new, NULL, T) ELSE new
  <1>1. /\ grow_heap(m, n).fh = T
        /\ u = [listed EXCEPT ![footer(T, size)] = size]
    BY DEF grow_heap, LastBlock
  <1>2. /\ T2 \in Nat /\ T2 % 16 = 0 /\ T + 96 <= T2 /\ T2 <= Limit
        /\ T + n + 24 <= T2 /\ q * PAGE_SIZE \in Nat
        /\ (q * PAGE_SIZE) % 16 = 0
        /\ m[PagesField] + q \in ALLOC_PAGES..maxpages
        /\ \A v : v[PagesField] = m[PagesField] + q => Term(v) = T2
    BY GrownEnd
  <1>3. Ordered(m, B, NULL) /\ Paged(m)
    BY ProperOrdered DEF Ordered
  <1>4. /\ T \in Nat /\ T % 16 = 0 /\ 96 <= T /\ T <= Limit /\ Limit \in Nat
        /\ \A b \in B : b \in Nat /\ b < T /\ 48 <= b
        /\ F \subseteq B
    BY <1>3, TermIs, BlocksAre
  <1>5. LastBefore(F, T, p)
    BY <1>3, PrevFree
  <1> HIDE DEF q, T, F, p
  <1>6. p \in Int /\ (p # NULL => p \in Nat /\ 48 <= p /\ p < T)
    <2>1. p = NULL \/ p \in B
      BY <1>4, <1>5 DEF LastBefore
    <2> QED
      BY <1>4, <2>1 DEF NULL
  <1> DEFINE d == q * PAGE_SIZE
  <1>7. d \in Nat /\ d % 16 = 0 /\ T2 = T + d /\ size = d - 24 /\ n + 24 <= d /\ 96 <= d
    BY <1>2, <1>4 DEF OVERHEAD, HEADER, FOOTER
  <1> HIDE DEF d, T2, size
  <1>8. size \in Nat /\ size % 16 = 8 /\ 24 <= size /\ T2 = T + size + 24 /\ n <= size
    <2>1. size \in Nat /\ 24 <= size /\ n <= size
      BY <1>7
    <2>2. size % 16 = 8
      <3>1. d \in Nat /\ d % 16 = 0 /\ 96 <= d /\ size = d - 24
        BY <1>7
      <3> QED
        BY <3>1
    <2>3. T2 = T + size + 24
      BY <1>4, <1>7
    <2> QED
      BY <2>1, <2>2, <2>3
  <1>9. /\ T \in Words /\ T + 8 \in Words /\ T + 16 \in Words /\ T + 24 \in Words
        /\ T2 - 8 \in Words
    BY <1>2, <1>4, <1>8, WordIs
  <1>10. /\ flags(T) = T + 8 /\ next(T) = T + 16 /\ prev(T) = T + 24
         /\ footer(T, size) = T2 - 8
    BY <1>4, <1>8 DEF flags, next, prev, footer, HEADER
  <1>11. m \in [Words -> Int] /\ m[PagesField] + q \in Int
    BY <1>2, <1>3, HeapAssumption, Limits DEF Paged
  <1>12. /\ new \in [Words -> Int]
         /\ \A a \in Words : new[a] = IF a = T + 24 THEN p ELSE IF a = T + 16 THEN NULL
                                      ELSE IF a = T + 8 THEN 0 ELSE IF a = T THEN size
                                      ELSE IF a = PagesField THEN m[PagesField] + q
                                      ELSE m[a]
    <2>1. grown \in [Words -> Int]
          /\ \A a \in Words : grown[a] = IF a = PagesField THEN m[PagesField] + q
                                         ELSE m[a]
      BY <1>11, OwnWords
    <2>2. new = [grown EXCEPT ![T] = size, ![T + 8] = 0, ![T + 16] = NULL, ![T + 24] = p]
      BY <1>10
    <2> HIDE DEF grown, new
    <2> QED
      BY <1>4, <1>6, <1>8, <1>9, <2>1, <2>2 DEF NULL
  <1> HIDE DEF new
  <1>13. /\ listed \in [Words -> Int]
         /\ \A a \in Words : listed[a] = IF p = NULL /\ a = FirstField THEN T ELSE new[a]
    BY <1>4, <1>12, FollowIs
  <1> HIDE DEF listed
  <1>14. /\ u \in [Words -> Int]
         /\ \A a \in Words : u[a] = IF a = T2 - 8 THEN size ELSE listed[a]
    BY <1>1, <1>8, <1>9, <1>10, <1>13
  <1>15. \A a \in Words :
             u[a] = IF a = T2 - 8 THEN size
                    ELSE IF p = NULL /\ a = FirstField THEN T
                    ELSE IF a = T + 24 THEN p ELSE IF a = T + 16 THEN NULL
                    ELSE IF a = T + 8 THEN 0 ELSE IF a = T THEN size
                    ELSE IF a = PagesField THEN m[PagesField] + q
                    ELSE m[a]
    BY <1>12, <1>13, <1>14
  <1>16. /\ u[T] = size /\ u[T + 8] = 0 /\ u[T + 16] = NULL /\ u[T + 24] = p
         /\ u[T2 - 8] = size /\ u[PagesField] = m[PagesField] + q
    <2>1. /\ T \in Nat /\ T2 \in Nat /\ T + 96 <= T2 /\ 96 <= T
          /\ PagesField \in Words /\ PagesField < 48 /\ FirstField < 48
          /\ PagesField \in Nat /\ FirstField \in Nat /\ PagesField # FirstField
      BY <1>2, <1>4, OwnWords
    <2>2. /\ FirstField # T /\ FirstField # T + 8 /\ FirstField # T + 16
          /\ FirstField # T + 24 /\ PagesField # T /\ PagesField # T + 8
          /\ PagesField # T + 16 /\ PagesField # T + 24 /\ PagesField # T2 - 8
          /\ T + 24 # T2 - 8 /\ T + 16 # T2 - 8 /\ T + 8 # T2 - 8 /\ T # T2 - 8
      BY <2>1
    <2> QED
      BY <1>4, <1>9, <1>15, <2>1, <2>2
  <1>17. Paged(u) /\ Term(u) = T2
    BY <1>2, <1>14, <1>16 DEF Paged
  <1>18. Beyond(u, T) = T2
    BY <1>8, <1>16 DEF Beyond, OVERHEAD, HEADER, FOOTER
  <1>19. Tiles(u, {T}, T, T2) /\ FreeOf(u, {T}) = {T} \ {NULL} /\ T # NULL
    <2>1. Formed(u, T, T, T2)
      BY <1>2, <1>4, <1>8, <1>10, <1>16, <1>18 DEF Formed
    <2>2. IsFree(u, T) /\ T # NULL
      BY <1>4, <1>10, <1>16 DEF IsFree, NULL
    <2>3. ~(T < T)
      BY <1>4
    <2> QED
      BY <1>18, <2>1, <2>2, <2>3 DEF Tiles, FreeOf
  <1>20. KeptBut(m, u, T, T2, p, NULL)
    <2>1. ASSUME NEW a \in Words, a < T \/ T2 <= a, a # PagesField,
                 a # FirstField \/ p # NULL
          PROVE  u[a] = m[a]
      <3>1. a \in Nat
        BY DEF Words
      <3>2. a # T2 - 8 /\ a # T + 24 /\ a # T + 16 /\ a # T + 8 /\ a # T
        BY <1>2, <1>4, <2>1, <3>1
      <3> QED
        BY <1>15, <2>1, <3>2
    <2>2. FirstField \in Words /\ FirstField < T /\ FirstField # PagesField
      BY <1>4, OwnWords
    <2> QED
      BY <2>1, <2>2 DEF KeptBut
  <1>21. FirstFrom(F, T, NULL) /\ T \notin F
    BY <1>4 DEF FirstFrom
  <1>22. \A c \in F : Beyond(m, c) # T
    <2>1. \A c \in F : IsFree(m, c) /\ c \in B
      BY DEF FreeOf, F
    <2>2. \A c \in F : Beyond(m, c) = T => c = LastBlock(m)
      BY <2>1, LastIs DEF T
    <2> QED
      BY <2>1, <2>2
  <1>23. Ends(m, B, u, T, T2)
    BY <1>2, <1>4, <1>17 DEF Ends, T
  <1>24. Spliced(m, B, u, T, T, T2, {T}, T, p, NULL)
    <2>1. T \in B \union {Term(m)} /\ T <= T /\ T \in {T}
      BY <1>4 DEF T
    <2>2. u[next(T)] = NULL /\ u[prev(T)] = p
      BY <1>10, <1>16
    <2> QED
      BY <1>5, <1>17, <1>18, <1>19, <1>20, <1>21, <1>22, <1>23, <2>1, <2>2
      DEF Spliced, F
  <1>25. n <= u[T]
    BY <1>8, <1>16
  <1> QED
    BY <1>1, <1>17, <1>19, <1>24, <1>25 DEF T, p

\* The last block is the larger when it is free.
LEMMA GrowLast ==
    ASSUME NEW m, NEW B, Proper(m, B), NEW n \in Nat, GrowPages(m, n) # 0,
           IsFree(m, LastBlock(m)), NEW u, u = grow_heap(m, n).mem,
           NEW c, c = LastBlock(m)
    PROVE  /\ grow_heap(m, n).fh = c /\ n <= u[c] /\ c # NULL
           /\ Spliced(m, B, u, c, Term(m), Term(u), {c}, c, m[prev(c)], NULL)
PROOF
  <1> DEFINE q == GrowPages(m, n)
             T == Term(m)
             T2 == T + q * PAGE_SIZE
             F == FreeOf(m, B)
             p == m[prev(c)]
             size == m[c] + q * PAGE_SIZE
             grown == [m EXCEPT ![PagesField] = @ + q]
  <1>1. /\ grow_heap(m, n).fh = c
        /\ u = [grown EXCEPT ![c] = size, ![footer(c, size)] = size]
    BY DEF grow_heap, LastBlock
  <1>2. /\ T2 \in Nat /\ T2 % 16 = 0 /\ T + 96 <= T2 /\ T2 <= Limit
        /\ T + n + 24 <= T2 /\ q * PAGE_SIZE \in Nat
        /\ (q * PAGE_SIZE) % 16 = 0
        /\ m[PagesField] + q \in ALLOC_PAGES..maxpages
        /\ \A v : v[PagesField] = m[PagesField] + q => Term(v) = T2
    BY GrownEnd
  <1>3. Ordered(m, B, p) /\ Paged(m)
    BY ProperOrdered DEF Ordered
  <1>4. c \in F /\ c \in B /\ Beyond(m, c) = T
    BY LastIs DEF FreeOf
  <1>5. /\ T \in Nat /\ T % 16 = 0 /\ 96 <= T /\ T <= Limit /\ Limit \in Nat
        /\ \A b \in B : b \in Nat /\ b < T /\ 48 <= b
        /\ F \subseteq B
        /\ m[c] \in Nat /\ 24 <= m[c] /\ T = c + m[c] + 24
        /\ Formed(m, c, FirstBlock, T)
    BY <1>3, <1>4, TermIs, BlocksAre DEF Ordered, Tiles
  <1>6. Neighbours(m, B, c, p, m[next(c)])
    BY <1>3, <1>4, NeighboursAre
  <1>7. m[next(c)] = NULL
    <2>1. m[next(c)] # NULL => m[next(c)] \in B /\ T <= m[next(c)]
      BY <1>4, <1>6 DEF Neighbours
    <2> HIDE DEF T
    <2> QED
      BY <1>5, <2>1
  <1>8. LastBefore(F, c, p) /\ FirstFrom(F, T, NULL)
    BY <1>4, <1>6, <1>7 DEF Neighbours
  <1>9. c % 16 = 0 /\ m[c] % 16 = 8 /\ m[flags(c)] \in {0, 1} /\ IsFree(m, c)
    BY <1>4, <1>5 DEF Formed, FreeOf
  <1> DEFINE d == q * PAGE_SIZE
  <1> HIDE DEF q, T, F
  <1>10. d \in Nat /\ d % 16 = 0 /\ T2 = T + d /\ size = m[c] + d /\ n + 24 <= d
    BY <1>2, <1>5
  <1> HIDE DEF d, T2, size
  <1>11. size \in Nat /\ size % 16 = 8 /\ 24 <= size /\ T2 = c + size + 24 /\ n <= size
         /\ c \in Nat /\ 48 <= c
    BY <1>4, <1>5, <1>9, <1>10
  <1>12. /\ c \in Words /\ c + 8 \in Words /\ c + 16 \in Words /\ c + 24 \in Words
         /\ T2 - 8 \in Words
    <2>1. c % 16 = 0 /\ c \in Nat /\ T2 % 16 = 0 /\ T2 \in Nat /\ c + 48 <= T2
          /\ T2 <= Limit /\ Limit \in Nat
      BY <1>2, <1>5, <1>9, <1>11
    <2>2. c % 8 = 0 /\ (c + 8) % 8 = 0 /\ (c + 16) % 8 = 0 /\ (c + 24) % 8 = 0
          /\ (T2 - 8) % 8 = 0
      BY <2>1
    <2> QED
      BY <2>1, <2>2, WordIs
  <1>13. /\ flags(c) = c + 8 /\ next(c) = c + 16 /\ prev(c) = c + 24
         /\ footer(c, size) = T2 - 8
    BY <1>11 DEF flags, next, prev, footer, HEADER
  <1>14. m \in [Words -> Int] /\ m[PagesField] + q \in Int
    BY <1>2, <1>3, HeapAssumption, Limits DEF Paged
  <1>15. /\ u \in [Words -> Int]
         /\ \A a \in Words : u[a] = IF a = T2 - 8 THEN size ELSE IF a = c THEN size
                                    ELSE IF a = PagesField THEN m[PagesField] + q
                                    ELSE m[a]
    <2>1. grown \in [Words -> Int]
          /\ \A a \in Words : grown[a] = IF a = PagesField THEN m[PagesField] + q
                                         ELSE m[a]
      BY <1>14, OwnWords
    <2> HIDE DEF grown
    <2> QED
      BY <1>1, <1>11, <1>12, <1>13, <2>1
  <1>16. /\ u[c] = size /\ u[c + 8] = m[c + 8] /\ u[c + 16] = NULL /\ u[c + 24] = p
         /\ u[T2 - 8] = size /\ u[PagesField] = m[PagesField] + q
    <2>1. /\ c \in Nat /\ T2 \in Nat /\ c + 48 <= T2 /\ 48 <= c
          /\ PagesField \in Words /\ PagesField < 48 /\ PagesField \in Nat
      BY <1>2, <1>11, OwnWords
    <2>2. /\ PagesField # c /\ PagesField # c + 8
          /\ PagesField # c + 16 /\ PagesField # c + 24 /\ PagesField # T2 - 8
          /\ c + 24 # T2 - 8 /\ c + 16 # T2 - 8 /\ c + 8 # T2 - 8 /\ c # T2 - 8
          /\ c + 24 # c /\ c + 16 # c /\ c + 8 # c
      BY <2>1
    <2> QED
      BY <1>7, <1>12, <1>13, <1>15, <2>1, <2>2
  <1>17. Paged(u) /\ Term(u) = T2
    BY <1>2, <1>15, <1>16 DEF Paged
  <1>18. Beyond(u, c) = T2
    BY <1>11, <1>16 DEF Beyond, OVERHEAD, HEADER, FOOTER
  <1>19. Tiles(u, {c}, c, T2) /\ FreeOf(u, {c}) = {c} \ {NULL} /\ c # NULL
    <2>1. Formed(u, c, c, T2)
      BY <1>2, <1>9, <1>11, <1>13, <1>16, <1>18 DEF Formed
    <2>2. IsFree(u, c) /\ c # NULL
      BY <1>9, <1>11, <1>13, <1>16 DEF IsFree, NULL
    <2>3. ~(c < c)
      BY <1>11
    <2> QED
      BY <1>18, <2>1, <2>2, <2>3 DEF Tiles, FreeOf
  <1>20. KeptBut(m, u, c, T2, p, NULL)
    <2>1. ASSUME NEW a \in Words, a < c \/ T2 <= a, a # PagesField
          PROVE  u[a] = m[a]
      <3>1. a \in Nat
        BY DEF Words
      <3>2. a # T2 - 8 /\ a # c
        BY <1>2, <1>11, <2>1, <3>1
      <3> QED
        BY <1>15, <2>1, <3>2
    <2>2. FirstField \in Words /\ FirstField < c /\ FirstField # PagesField
      BY <1>11, OwnWords
    <2> QED
      BY <2>1, <2>2 DEF KeptBut
  <1>21. T \notin F
    BY <1>5
  <1>22. \A b \in F : Beyond(m, b) # c
    BY <1>3, <1>4 DEF Ordered, Merged, F
  <1>23. Ends(m, B, u, T, T2)
    BY <1>2, <1>5, <1>17 DEF Ends, T
  <1>24. Spliced(m, B, u, c, T, T2, {c}, c, p, NULL)
    <2>1. c \in B \union {Term(m)} /\ c <= T /\ c \in {c}
      BY <1>4, <1>5
    <2>2. u[next(c)] = NULL /\ u[prev(c)] = p
      BY <1>13, <1>16
    <2> QED
      BY <1>8, <1>17, <1>18, <1>19, <1>20, <1>21, <1>22, <1>23, <2>1, <2>2
      DEF Spliced, F
  <1>25. n <= u[c]
    BY <1>11, <1>16
  <1> QED
    BY <1>1, <1>17, <1>19, <1>24, <1>25 DEF T, p

\* find_fblock gives room for the bytes asked for, if it finds a block at all.
LEMMA FindRoom ==
    ASSUME NEW m, NEW B, Proper(m, B), NEW L, Holding(m, B \ FreeOf(m, B), L),
           NEW n \in Nat, NEW f, f = find_fblock(m, n), f.fh # NULL
    PROVE  \E C : Room(m, B, L, n, f.mem, f.fh, C)
PROOF
  <1>1. CASE \E b \in FreeOf(m, B) : n <= m[b] /\ f = [mem |-> m, fh |-> b]
    <2>1. PICK b \in FreeOf(m, B) : n <= m[b] /\ f = [mem |-> m, fh |-> b]
      BY <1>1
    <2>2. f.mem = m /\ f.fh = b
      BY <2>1
    <2> QED
      BY <2>1, <2>2, RoomAlready
  <1>2. CASE f = grow_heap(m, n)
    <2> DEFINE u == grow_heap(m, n).mem
               T == Term(m)
               c == LastBlock(m)
               F == FreeOf(m, B)
    <2>1. GrowPages(m, n) # 0
      <3>1. GrowPages(m, n) = 0 => grow_heap(m, n) = [mem |-> m, fh |-> NULL]
        BY DEF grow_heap
      <3>2. GrowPages(m, n) = 0 => grow_heap(m, n).fh = NULL
        BY <3>1
      <3> QED
        BY <1>2, <3>2
    <2>2. c \in B /\ \A b \in B : b <= c /\ b < T
      BY LastIs
    <2>3. /\ T \in Nat
          /\ \A b \in B : b \in Nat
      BY ProperOrdered, BlocksAre
    <2>4. CASE ~IsFree(m, c)
      <3>1. f.mem = u /\ f.fh = T /\ n <= u[T] /\ T # NULL
            /\ Spliced(m, B, u, T, T, Term(u), {T}, T, prev_fblock(m, T), NULL)
        BY <1>2, <2>1, <2>4, GrowNew
      <3>2. Outside(B, T, T) \ F = B \ F
        BY <2>2 DEF Outside
      <3> HIDE DEF u, T, F, c
      <3>3. Room(m, B, L, n, u, T, Outside(B, T, T) \union {T})
        BY <3>1, <3>2, SplicedRoom DEF T, F
      <3> QED
        BY <3>1, <3>3
    <2>5. CASE IsFree(m, c)
      <3>1. f.mem = u /\ f.fh = c /\ n <= u[c] /\ c # NULL
            /\ Spliced(m, B, u, c, T, Term(u), {c}, c, m[prev(c)], NULL)
        BY <1>2, <2>1, <2>5, GrowLast
      <3>2. Outside(B, c, T) \ F = B \ F
        <4>1. c \in F
          BY <2>2, <2>5 DEF FreeOf
        <4> HIDE DEF c, T, F
        <4>2. \A b \in B : b < c \/ b = c
          BY <2>2, <2>3
        <4> QED
          BY <4>1, <4>2 DEF Outside
      <3> HIDE DEF u, T, F, c
      <3>3. Room(m, B, L, n, u, c, Outside(B, c, T) \union {c})
        BY <3>1, <3>2, SplicedRoom DEF T, F
      <3> QED
        BY <3>1, <3>3
    <2> QED
      BY <2>4, <2>5
  <1> QED
    BY <1>1, <1>2, FindIs

\* From m to u block b, which is free, goes to the client, with at least size
\* bytes; what it holds of the others stays.
Allots(m, B, L, size, u, b) ==
    \E C : /\ Proper(u, C)
           /\ C \ FreeOf(u, C) = (B \ FreeOf(m, B)) \union {b}
           /\ Holding(u, B \ FreeOf(m, B), L)
           /\ size <= u[b] /\ b % 16 = 0 /\ b \in Nat

\* A block that is handed out, whole or in part, goes to the client.
LEMMA HandedOut ==
    ASSUME NEW m, NEW B, NEW b \in FreeOf(m, B), NEW u, NEW s, NEW g, NEW p, NEW n,
           Ordered(m, B, p), Handing(m, B, u, b, s, g, p, n),
           NEW L, Holding(m, B \ FreeOf(m, B), L),
           NEW size, size <= s
    PROVE  Allots(m, B, L, size, u, b)
PROOF
  <1> DEFINE e == Beyond(m, b)
             N == {b} \union ({g} \ {NULL})
             C == Outside(B, b, e) \union N
             O == Outside(B, b, e)
             F == FreeOf(m, B)
             A == B \ F
  <1>0. /\ Spliced(m, B, u, b, e, e, N, g, p, n)
        /\ Successor(u, p) = IF g = NULL THEN n ELSE g
        /\ g # NULL => g \in Nat /\ b < g /\ g < e
    BY DEF Handing
  <1>1. Proper(u, C)
    <2> HIDE DEF e, N
    <2>1. Successor(u, p) = (IF g = NULL THEN n ELSE g)
          => Proper(u, Outside(B, b, e) \union N)
      BY <1>0, Splice
    <2> QED
      BY <1>0, <2>1
  <1>2. FreeOf(u, C) = (F \intersect O) \union ({g} \ {NULL})
    BY <1>0, SpliceTiles
  <1>3. /\ b \in B /\ b \in Nat /\ 48 <= b /\ e \in Nat /\ b + 48 <= e
        /\ \A c \in B : c \in Nat
        /\ \A c, d \in B : c < d => Beyond(m, c) <= d
        /\ b % 16 = 0
    BY BlocksAre DEF FreeOf
  <1>4. \A c \in B : c \in O \/ c = b
    <2> SUFFICES ASSUME NEW c \in B, c # b
                 PROVE  c < b \/ e <= c
      BY DEF Outside
    <2>1. c \in Nat /\ (b < c => e <= c)
      BY <1>3
    <2> QED
      BY <1>3, <2>1
  <1>5. b \notin O /\ (g # NULL => g \notin O) /\ g # b
    <2>1. b \notin O
      BY <1>3 DEF Outside
    <2>2. g # NULL => g \notin O
      BY <1>0, <1>3 DEF Outside
    <2> QED
      BY <1>0, <1>3, <2>1, <2>2 DEF NULL
  <1>6. O \subseteq B
    BY DEF Outside
  <1> HIDE DEF O, F, e
  <1>7. O \ F = A
    BY <1>4, <1>6 DEF F
  <1>8. C \ FreeOf(u, C) = A \union {b}
    <2>1. C = O \union N
      BY DEF O
    <2> QED
      BY <1>2, <1>5, <1>7, <2>1
  <1>9. Holding(u, A, L)
    <2>1. Holding(u, A, {l \in L : l.ptr - HEADER \in A})
      BY <1>0, <1>7, SpliceHolding DEF O, F
    <2>2. \A l \in L : l.ptr - HEADER \in A
      BY DEF Holding, F
    <2>3. {l \in L : l.ptr - HEADER \in A} = L
      BY <2>2
    <2> QED
      BY <2>1, <2>3
  <1>10. size <= u[b]
    BY DEF Handing
  <1> HIDE DEF C
  <1> QED
    BY <1>1, <1>3, <1>8, <1>9, <1>10 DEF Allots, F

\* The sizes of blocks that are handed out.
LEMMA Rounded ==
    ASSUME NEW n \in Nat, n > 8, NEW size, size = round16(n, 16 - FOOTER)
    PROVE  size \in Nat /\ size % 16 = 8 /\ 24 <= size /\ n <= size
PROOF
  <1> DEFINE k == (n + 23) \div 16
  <1>1. size = k * 16 - 8
    BY DEF round16, FOOTER
  <1>2. k \in Nat /\ (n + 23) % 16 \in 0..15 /\ n + 23 = k * 16 + ((n + 23) % 16)
    <2> DEFINE v == n + 23
    <2>1. v \in Nat
      OBVIOUS
    <2> HIDE DEF v
    <2>2. v \div 16 \in Nat /\ v % 16 \in 0..15 /\ v = (v \div 16) * 16 + (v % 16)
      BY <2>1
    <2> QED
      BY <2>2 DEF v
  <1> HIDE DEF k
  <1>3. 2 <= k
    BY <1>2
  <1>4. n + 8 <= k * 16
    BY <1>2
  <1> QED
    BY <1>1, <1>2, <1>3, <1>4

\* The block found is handed out whole or in part, and is as large as asked.
LEMMA AllocAllots ==
    ASSUME NEW m, NEW B, NEW b \in FreeOf(m, B), Ordered(m, B, m[prev(b)]),
           NEW L, Holding(m, B \ FreeOf(m, B), L),
           NEW size \in Nat, size % 16 = 8, 24 <= size, size <= m[b],
           m[b] - size # 32,
           NEW u, u = IF FillsBlock(m[b], size) THEN Take(m, b) ELSE Split(m, b, size)
    PROVE  Allots(m, B, L, size, u, b)
PROOF
  <1>1. b \in B /\ m[b] \in Nat /\ m[b] % 16 = 8
    BY BlocksAre DEF FreeOf, Ordered, Tiles, Formed
  <1>2. CASE FillsBlock(m[b], size)
    <2>1. u = Take(m, b)
      BY <1>2
    <2>2. Handing(m, B, u, b, m[b], NULL, m[prev(b)], m[next(b)])
      BY <2>1, TakeHands
    <2> QED
      BY <2>2, HandedOut
  <1>3. CASE ~FillsBlock(m[b], size)
    <2>1. u = Split(m, b, size)
      BY <1>3
    <2>2. size + 48 <= m[b]
      <3>1. m[b] - size >= 32
        BY <1>1, <1>3 DEF FillsBlock, HEADER, FOOTER
      <3> DEFINE s == m[b]
      <3>2. s \in Nat /\ s % 16 = 8 /\ s - size >= 32 /\ s - size # 32
        BY <1>1, <3>1
      <3> HIDE DEF s
      <3>3. (s - size) % 16 = 0 /\ s - size \in Nat
        BY <3>2
      <3>4. s - size >= 48
        BY <3>2, <3>3
      <3>5. size + 48 <= s
        BY <3>2, <3>4
      <3> QED
        BY <3>5 DEF s
    <2>3. Handing(m, B, u, b, size, b + size + OVERHEAD, m[prev(b)], m[next(b)])
      BY <2>1, <2>2, SplitHands
    <2>4. size <= size
      OBVIOUS
    <2> QED
      BY <2>3, <2>4, HandedOut
  <1> QED
    BY <1>2, <1>3

\* A heap in order whose client holds L.
Kept(m, L) == \E B : Proper(m, B) /\ Holding(m, B \ FreeOf(m, B), L)

\* An allocation keeps it so, and the client may fill what it is given.
LEMMA HeapAllocKeeps ==
    ASSUME NEW m, NEW L, Kept(m, L), NEW request \in Requests, request > 8,
           NEW size, size = round16(request, 16 - FOOTER),
           NEW f, f = find_fblock(m, size), f.fh # NULL, f.mem[f.fh] - size # 32
    PROVE  LET after == heap_alloc(m, request)
           IN  Kept(Fill(after.mem, after.ptr, request),
                    L \union {[ptr |-> after.ptr, size |-> request]})
PROOF
  <1> DEFINE after == heap_alloc(m, request)
             v == f.mem
             b == f.fh
             u == IF FillsBlock(v[b], size) THEN Take(v, b) ELSE Split(v, b, size)
  <1>1. PICK B : Proper(m, B) /\ Holding(m, B \ FreeOf(m, B), L)
    BY DEF Kept
  <1>2. request \in Nat /\ size \in Nat /\ size % 16 = 8 /\ 24 <= size /\ request <= size
    BY HeapAssumption, Rounded
  <1>3. PICK D : Room(m, B, L, size, v, b, D)
    BY <1>1, <1>2, FindRoom
  <1>4. after = [ptr |-> b + HEADER, mem |-> u]
    BY DEF heap_alloc
  <1>5. after.ptr = b + HEADER /\ after.mem = u
    BY <1>4
  <1> DEFINE A == B \ FreeOf(m, B)
  <1>6. A = D \ FreeOf(v, D)
    BY <1>3 DEF Room
  <1> HIDE DEF after, v, b, A
  <1>7. /\ Ordered(v, D, v[prev(b)]) /\ b \in FreeOf(v, D) /\ size <= v[b]
        /\ Holding(v, A, L) /\ v[b] - size # 32
    BY <1>3 DEF Room, v, b, A
  <1>8. PICK C : /\ Proper(u, C) /\ C \ FreeOf(u, C) = A \union {b}
                 /\ Holding(u, A, L) /\ size <= u[b] /\ b % 16 = 0 /\ b \in Nat
    <2>1. u = IF FillsBlock(v[b], size) THEN Take(v, b) ELSE Split(v, b, size)
      OBVIOUS
    <2> HIDE DEF u
    <2>2. Holding(v, D \ FreeOf(v, D), L)
      BY <1>6, <1>7
    <2>3. Allots(v, D, L, size, u, b)
      BY <1>2, <1>7, <2>1, <2>2, AllocAllots
    <2> QED
      BY <1>6, <2>3 DEF Allots
  <1> HIDE DEF u
  <1>9. b \notin A /\ b \in C \ FreeOf(u, C)
    BY <1>6, <1>7, <1>8
  <1>10. A = (C \ FreeOf(u, C)) \ {b}
    BY <1>8, <1>9
  <1>11. request <= u[b] /\ u[b] \in Nat
    <2>1. u[b] \in Nat
      BY <1>8, <1>9, ProperOrdered, BlocksAre
    <2> QED
      BY <1>2, <1>8, <2>1
  <1> DEFINE w == Fill(u, b + HEADER, request)
  <1>12. Proper(w, C) /\ FreeOf(w, C) = FreeOf(u, C)
    BY <1>2, <1>8, <1>9, <1>11, FillKeeps
  <1>13. Holding(w, A \union {b}, L \union {[ptr |-> b + HEADER, size |-> request]})
    BY <1>8, <1>9, <1>10, <1>11, FillHolding
  <1> HIDE DEF w
  <1>14. Kept(w, L \union {[ptr |-> b + HEADER, size |-> request]})
    BY <1>8, <1>12, <1>13 DEF Kept
  <1> QED
    BY <1>5, <1>14 DEF w, after

\* u is m but for a free block at h, up to e, between p and n in the list.
Freed(m, u, h, e, p, n) ==
    /\ u \in [Words -> Int]
    /\ \A a \in Words :
           u[a] = IF n # NULL /\ a = prev(n) THEN h
                  ELSE IF a = (IF p = NULL THEN FirstField ELSE next(p)) THEN h
                  ELSE IF a = next(h) THEN n ELSE IF a = prev(h) THEN p
                  ELSE IF a = flags(h) THEN 0
                  ELSE IF a = h \/ a = e - FOOTER THEN e - h - OVERHEAD ELSE m[a]

\* What a block may be freed in: h was allocated, and up to e only free blocks
\* follow it; those around are not adjacent to it, p and n are its neighbours in
\* the list.
Freeable(m, B, h, e, p, n) ==
    /\ h \in B \ FreeOf(m, B) /\ e \in B \union {Term(m)} /\ Beyond(m, h) <= e
    /\ \A c \in B : c < h \/ e <= c \/ c = h \/ c \in FreeOf(m, B)
    /\ e \notin FreeOf(m, B) /\ \A c \in FreeOf(m, B) : Beyond(m, c) # h
    /\ LastBefore(FreeOf(m, B), h, p) /\ FirstFrom(FreeOf(m, B), e, n)

\* Freeing replaces the blocks by one free block.
LEMMA FreedSplices ==
    ASSUME NEW m, NEW B, NEW u, NEW h, NEW e, NEW p, NEW n, Ordered(m, B, p),
           Freeable(m, B, h, e, p, n), Freed(m, u, h, e, p, n)
    PROVE  /\ Spliced(m, B, u, h, e, e, {h}, h, p, n)
           /\ Successor(u, p) = h /\ h # NULL
PROOF
  <1> DEFINE F == FreeOf(m, B)
             T == Term(m)
             k == IF p = NULL THEN FirstField ELSE next(p)
             size == e - h - OVERHEAD
  <1>1. /\ T \in Nat /\ T <= Limit /\ Limit \in Nat /\ T % 16 = 0
        /\ \A c \in B : /\ c \in Nat /\ 48 <= c /\ c < T /\ c % 16 = 0
                        /\ Beyond(m, c) \in Nat /\ c + 48 <= Beyond(m, c)
        /\ \A c, d \in B : c < d => Beyond(m, c) <= d
        /\ F \subseteq B
    BY BlocksAre, TermIs DEF Ordered
  <1>2. /\ h \in B /\ h \in Nat /\ 48 <= h /\ h % 16 = 0 /\ h \notin F
        /\ e \in Nat /\ h + 48 <= e /\ e <= T /\ e % 16 = 0
    BY <1>1 DEF Freeable
  <1>3. LastBefore(F, h, p) /\ FirstFrom(F, e, n)
    BY DEF Freeable
  <1>4. \A c \in B : c \in Words /\ next(c) \in Words /\ prev(c) \in Words
    <2>1. \A c \in B : Formed(m, c, FirstBlock, T)
      BY DEF Ordered, Tiles
    <2> QED
      BY <1>1, <2>1, FieldsAre DEF FirstBlock
  <1> HIDE DEF F, T
  <1>5. p # NULL => p \in B /\ p \in Nat /\ 48 <= p /\ p + 48 <= h /\ next(p) \in Words
    <2> SUFFICES ASSUME p # NULL
                 PROVE  p \in B /\ p \in Nat /\ 48 <= p /\ p + 48 <= h /\ next(p) \in Words
      OBVIOUS
    <2>1. p \in B /\ p < h
      BY <1>1, <1>3 DEF LastBefore
    <2>2. p \in Nat /\ 48 <= p /\ p + 48 <= Beyond(m, p) /\ Beyond(m, p) \in Nat
          /\ Beyond(m, p) <= h /\ next(p) \in Words
      BY <1>1, <1>2, <1>4, <2>1
    <2> QED
      BY <1>2, <2>1, <2>2
  <1>6. n # NULL => /\ n \in B /\ n \in Nat /\ e <= n
                    /\ prev(n) \in Words /\ prev(n) = n + 24
    <2>1. n # NULL => n \in B /\ e <= n
      BY <1>1, <1>3 DEF FirstFrom
    <2> QED
      BY <1>1, <1>4, <2>1 DEF prev
  <1>7. k \in Words /\ k \in Nat /\ (p = NULL => k = FirstField)
        /\ (p # NULL => k = p + 16) /\ k + 32 <= h + 16 /\ k # PagesField
    BY <1>2, <1>5, OwnWords DEF next, PagesField, FirstField
  <1>8. /\ next(h) = h + 16 /\ prev(h) = h + 24 /\ flags(h) = h + 8
        /\ size = e - h - 24 /\ e - FOOTER = e - 8 /\ footer(h, size) = e - 8
    BY <1>2 DEF next, prev, flags, OVERHEAD, HEADER, FOOTER, footer
  <1> HIDE DEF k, size
  <1>9. size \in Nat /\ size % 16 = 8 /\ 24 <= size
    BY <1>2, <1>8
  <1>10. /\ u \in [Words -> Int]
         /\ \A a \in Words :
                u[a] = IF n # NULL /\ a = prev(n) THEN h ELSE IF a = k THEN h
                       ELSE IF a = h + 16 THEN n ELSE IF a = h + 24 THEN p
                       ELSE IF a = h + 8 THEN 0
                       ELSE IF a = h \/ a = e - 8 THEN size ELSE m[a]
    BY <1>8 DEF Freed, k, size
  <1>11. /\ h \in Words /\ h + 8 \in Words /\ h + 16 \in Words /\ h + 24 \in Words
         /\ e - 8 \in Words
    BY <1>1, <1>2, WordIs
  <1>12. /\ u[h] = size /\ u[h + 8] = 0 /\ u[h + 16] = n /\ u[h + 24] = p
         /\ u[e - 8] = size /\ u[k] = h /\ (n # NULL => u[prev(n)] = h)
         /\ u[PagesField] = m[PagesField]
    <2>1. /\ k < h /\ PagesField < h /\ PagesField \in Nat /\ PagesField # k
          /\ h + 24 < e - 8
          /\ (n # NULL => e <= prev(n) /\ prev(n) \in Nat)
      BY <1>2, <1>6, <1>7, OwnWords
    <2>2. \A a \in Words : a < e => ~(n # NULL /\ a = prev(n))
      BY <1>2, <2>1
    <2>3. u[h] = size /\ u[h + 8] = 0
      BY <1>2, <1>7, <1>10, <1>11, <2>1, <2>2
    <2>4. u[h + 16] = n /\ u[h + 24] = p
      BY <1>2, <1>7, <1>10, <1>11, <2>1, <2>2
    <2>5. u[e - 8] = size
      BY <1>2, <1>7, <1>10, <1>11, <2>1, <2>2
    <2>6. u[k] = h /\ (n # NULL => u[prev(n)] = h)
      BY <1>6, <1>7, <1>10
    <2>7. u[PagesField] = m[PagesField]
      BY <1>2, <1>7, <1>10, <2>1, <2>2, OwnWords
    <2> QED
      BY <2>3, <2>4, <2>5, <2>6, <2>7
  <1>13. Paged(u) /\ Term(u) = Term(m)
    BY <1>10, <1>12 DEF Ordered, Paged, Term
  <1>14. Beyond(u, h) = e
    BY <1>2, <1>8, <1>12 DEF Beyond, OVERHEAD, HEADER, FOOTER
  <1>15. Tiles(u, {h}, h, e) /\ FreeOf(u, {h}) = {h} \ {NULL} /\ h # NULL
    <2>1. Formed(u, h, h, e)
      BY <1>2, <1>8, <1>9, <1>12, <1>14 DEF Formed
    <2>2. IsFree(u, h) /\ h # NULL
      BY <1>2, <1>8, <1>12 DEF IsFree, NULL
    <2>3. ~(h < h)
      BY <1>2
    <2> QED
      BY <1>14, <2>1, <2>2, <2>3 DEF Tiles, FreeOf
  <1>16. KeptBut(m, u, h, e, p, n)
    <2>1. ASSUME NEW a \in Words, a < h \/ e <= a, a # k,
                 n # NULL => a # prev(n)
          PROVE  u[a] = m[a]
      <3>1. a \in Nat
        BY DEF Words
      <3>2. a # h /\ a # h + 8 /\ a # h + 16 /\ a # h + 24 /\ a # e - 8
        BY <1>2, <2>1, <3>1
      <3> QED
        BY <1>10, <2>1, <3>2
    <2>2. ASSUME NEW a \in Words, a < h \/ e <= a, a # FirstField,
                 p # NULL => a # next(p), n # NULL => a # prev(n)
          PROVE  u[a] = m[a]
      <3>1. a # k
        BY <2>2 DEF k
      <3> QED
        BY <2>1, <2>2, <3>1
    <2>3. p # NULL => u[FirstField] = m[FirstField]
      <3>1. p # NULL => FirstField # k
        BY <1>5, <1>7, OwnWords
      <3>2. n # NULL => FirstField # prev(n)
        BY <1>2, <1>6, OwnWords
      <3>3. FirstField \in Words /\ FirstField < h
        BY <1>2, OwnWords
      <3> QED
        BY <2>1, <3>1, <3>2, <3>3
    <2> QED
      BY <2>2, <2>3 DEF KeptBut
  <1>17. Ends(m, B, u, e, e)
    BY <1>2, <1>13 DEF Ends, Freeable
  <1>18. Spliced(m, B, u, h, e, e, {h}, h, p, n)
    <2>1. h \in B \union {Term(m)} /\ h <= e /\ h \in {h}
      BY <1>2
    <2>2. e \notin F /\ \A c \in F : Beyond(m, c) # h
      BY DEF Freeable, F
    <2> QED
      BY <1>3, <1>8, <1>12, <1>13, <1>14, <1>15, <1>16, <1>17, <2>1, <2>2
      DEF Spliced, F
  <1> QED
    BY <1>12, <1>15, <1>18 DEF Successor, k

\* Afterwards the client holds the other blocks.
LEMMA FreedKept ==
    ASSUME NEW m, NEW B, NEW u, NEW h, NEW e, NEW p, NEW n, Proper(m, B),
           Freeable(m, B, h, e, p, n), Freed(m, u, h, e, p, n),
           NEW L, Holding(m, B \ FreeOf(m, B), L), NEW l \in L, l.ptr - HEADER = h
    PROVE  Kept(u, L \ {l})
PROOF
  <1> DEFINE O == Outside(B, h, e)
             F == FreeOf(m, B)
             C == O \union {h}
             A == B \ F
  <1>1. Ordered(m, B, p)
    BY ProperOrdered
  <1>2. /\ Spliced(m, B, u, h, e, e, {h}, h, p, n)
        /\ Successor(u, p) = h /\ h # NULL
    BY <1>1, FreedSplices
  <1>3. Proper(u, C)
    BY <1>1, <1>2, Splice
  <1>4. FreeOf(u, C) = (F \intersect O) \union ({h} \ {NULL})
    BY <1>1, <1>2, SpliceTiles
  <1>5. \A c \in A : c \in O \/ c = h
    BY DEF Freeable, Outside
  <1>6. h \in A /\ h \notin O
    <2>1. h \in Nat /\ e \in Nat /\ h < e
      BY <1>1, <1>2, SpliceBounds
    <2> QED
      BY <2>1 DEF Freeable, Outside
  <1>7. O \subseteq B
    BY DEF Outside
  <1> HIDE DEF O, F
  <1>8. O \ F = A \ {h}
    BY <1>5, <1>6, <1>7
  <1>9. C \ FreeOf(u, C) = O \ F
    BY <1>2, <1>4, <1>6
  <1>10. Holding(u, O \ F, {k \in L : k.ptr - HEADER \in O \ F})
    BY <1>1, <1>2, SpliceHolding DEF O, F
  <1>11. {k \in L : k.ptr - HEADER \in O \ F} = L \ {l}
    <2>1. \A k \in L : k.ptr - HEADER \in A
      BY DEF Holding, F
    <2>2. \A k \in L : k.ptr - HEADER = h => k = l
      <3>1. \A k \in L : k.ptr \in Nat
        BY DEF Holding
      <3>2. \A k \in L : k.ptr - HEADER = l.ptr - HEADER => k.ptr = l.ptr
        BY <3>1 DEF HEADER
      <3> QED
        BY <3>2 DEF Holding
    <2> QED
      BY <1>8, <2>1, <2>2
  <1>12. Holding(u, C \ FreeOf(u, C), L \ {l})
    BY <1>9, <1>10, <1>11
  <1> HIDE DEF C
  <1> QED
    BY <1>3, <1>12 DEF Kept

\* MergeNext frees a block together with the free one behind it.
LEMMA MergeNextFrees ==
    ASSUME NEW m, NEW B, Proper(m, B), NEW h \in B \ FreeOf(m, B),
           \A c \in FreeOf(m, B) : Beyond(m, c) # h,
           NEW b, b = Beyond(m, h), b \in FreeOf(m, B)
    PROVE  /\ Freeable(m, B, h, Beyond(m, b), m[prev(b)], m[next(b)])
           /\ Freed(m, MergeNext(m, h, b), h, Beyond(m, b), m[prev(b)], m[next(b)])
PROOF
  <1> DEFINE p == m[prev(b)]
             n == m[next(b)]
             e == Beyond(m, b)
             F == FreeOf(m, B)
             size == m[h] + total_bytes(m, b)
             v == [m EXCEPT ![h] = size, ![flags(h)] = 0, ![prev(h)] = p, ![next(h)] = n]
             u == MergeNext(m, h, b)
  <1>1. Ordered(m, B, p)
    BY ProperOrdered
  <1>2. Neighbours(m, B, b, p, n)
    BY <1>1, NeighboursAre
  <1>3. /\ Term(m) \in Nat /\ Term(m) <= Limit /\ Limit \in Nat
        /\ \A c \in B : /\ c \in Nat /\ 48 <= c /\ c < Term(m) /\ c % 16 = 0
                        /\ Beyond(m, c) \in Nat /\ c + 48 <= Beyond(m, c)
                        /\ Beyond(m, c) = c + m[c] + 24
                        /\ Beyond(m, c) <= Term(m)
                        /\ Beyond(m, c) = c + total_bytes(m, c)
                        /\ Beyond(m, c) \in B \union {Term(m)} /\ m[c] \in Nat
        /\ \A c, d \in B : c < d => Beyond(m, c) <= d
        /\ F \subseteq B
    BY <1>1, BlocksAre DEF Ordered, Tiles, Formed
  <1>4. /\ h \in B /\ h \notin F /\ b \in B /\ h \in Nat /\ b \in Nat /\ 48 <= h
        /\ h % 16 = 0 /\ h + 48 <= b /\ b + 48 <= e /\ e \in Nat
        /\ b = h + m[h] + 24 /\ e = b + m[b] + 24 /\ total_bytes(m, b) = m[b] + 24
        /\ e <= Term(m) /\ m[h] \in Nat /\ m[b] \in Nat
        /\ e \in B \union {Term(m)}
    BY <1>3 DEF total_bytes, OVERHEAD, HEADER, FOOTER
  <1>5. m \in [Words -> Int]
    BY <1>1 DEF Ordered, Paged
  <1>6. u = [Link(v, p, h, n) EXCEPT ![footer(h, size)] = size]
    BY DEF MergeNext
  <1> HIDE DEF p, n, e, F, size, u
  <1>7. size = e - h - 24 /\ size \in Nat /\ footer(h, size) = e - 8 /\ e - 8 \in Nat
        /\ size = e - h - OVERHEAD /\ e - 8 = e - FOOTER
    BY <1>4 DEF size, footer, HEADER, FOOTER, OVERHEAD
  <1>8. Freeable(m, B, h, e, p, n)
    <2>1. \A c \in B : c < h \/ e <= c \/ c = h \/ c \in F
      <3> SUFFICES ASSUME NEW c \in B, ~(c < h), ~(e <= c), c # h
                   PROVE  c = b
        BY DEF F
      <3>1. c \in Nat /\ (h < c => b <= c) /\ (b < c => e <= c)
        BY <1>3, <1>4 DEF e
      <3> QED
        BY <1>4, <3>1
    <2>2. e \notin F
      BY DEF Proper, Ordered, Merged, e, F
    <2>3. \A f \in F : f \in B /\ f \in Nat
      BY <1>3
    <2>4. \A f \in F : f < b <=> f < h
      BY <1>3, <1>4, <2>3
    <2>5. LastBefore(F, h, p)
      <3>1. LastBefore(F, b, p)
        BY <1>2 DEF Neighbours, F
      <3>2. CASE p = NULL
        <4>1. \A f \in F : b <= f
          BY <3>1, <3>2 DEF LastBefore
        <4>2. \A f \in F : h <= f
          BY <1>4, <2>3, <4>1
        <4> QED
          BY <3>2, <4>2 DEF LastBefore
      <3>3. CASE p # NULL
        <4>1. p \in F /\ p < b /\ \A f \in F : f <= p \/ b <= f
          BY <3>1, <3>3 DEF LastBefore
        <4>2. p < h
          BY <2>4, <4>1
        <4>3. \A f \in F : f <= p \/ h <= f
          BY <1>4, <2>3, <4>1
        <4> QED
          BY <3>3, <4>1, <4>2, <4>3 DEF LastBefore
      <3> QED
        BY <3>2, <3>3
    <2>6. FirstFrom(F, e, n)
      BY <1>2 DEF Neighbours, e, F
    <2>7. Beyond(m, h) <= e
      BY <1>4
    <2> QED
      BY <1>4, <2>1, <2>2, <2>5, <2>6, <2>7 DEF Freeable, F
  <1>9. p \in Int /\ n \in Int
    BY <1>2 DEF Neighbours
  <1>10. /\ flags(h) = h + 8 /\ next(h) = h + 16 /\ prev(h) = h + 24
         /\ h \in Words /\ h + 8 \in Words /\ h + 16 \in Words /\ h + 24 \in Words
         /\ e - 8 \in Words
    <2>1. e % 8 = 0
      <3>1. Formed(m, b, FirstBlock, Term(m))
        BY <1>1, <1>4 DEF Ordered, Tiles
      <3>2. b % 16 = 0 /\ m[b] % 16 = 8
        BY <3>1 DEF Formed
      <3> QED
        BY <1>4, <3>2
    <2>2. h % 8 = 0 /\ (h + 8) % 8 = 0 /\ (h + 16) % 8 = 0 /\ (h + 24) % 8 = 0
          /\ (e - 8) % 8 = 0
      BY <1>4, <2>1
    <2>3. h + 96 <= e /\ e <= Limit /\ Limit \in Nat
      BY <1>3, <1>4
    <2> QED
      BY <1>4, <2>2, <2>3, WordIs DEF flags, next, prev
  <1>11. /\ v \in [Words -> Int]
         /\ \A a \in Words : v[a] = IF a = h + 16 THEN n ELSE IF a = h + 24 THEN p
                                    ELSE IF a = h + 8 THEN 0 ELSE IF a = h THEN size
                                    ELSE m[a]
    <2>1. v = [m EXCEPT ![h] = size, ![h + 8] = 0, ![h + 24] = p, ![h + 16] = n]
      BY <1>10
    <2> HIDE DEF v
    <2> QED
      BY <1>4, <1>5, <1>7, <1>9, <1>10, <2>1
  <1> HIDE DEF v
  <1> DEFINE k == IF p = NULL THEN FirstField ELSE next(p)
             w == Link(v, p, h, n)
  <1>12. /\ w \in [Words -> Int]
         /\ \A a \in Words : w[a] = IF n # NULL /\ a = prev(n) THEN h
                                    ELSE IF a = k THEN h ELSE v[a]
    <2>1. /\ Follow(v, p, h) \in [Words -> Int]
          /\ \A a \in Words : Follow(v, p, h)[a] = IF a = k THEN h ELSE v[a]
      BY <1>4, <1>11, FollowIs
    <2>2. w = Precede(Follow(v, p, h), h, n)
      BY DEF Link
    <2> HIDE DEF w, k
    <2> QED
      BY <1>4, <2>1, <2>2, PrecedeIs
  <1> HIDE DEF w
  <1>13. /\ u \in [Words -> Int]
         /\ \A a \in Words : u[a] = IF a = e - 8 THEN size ELSE w[a]
    <2>1. u = [w EXCEPT ![e - 8] = size]
      BY <1>6, <1>7 DEF w
    <2> QED
      BY <1>7, <1>10, <1>12, <2>1
  <1>14. k \in Nat /\ k + 32 <= b /\ (n # NULL => prev(n) \in Nat /\ e <= prev(n))
    <2>1. (p # NULL => p \in Nat /\ p + 48 <= b) /\ (n # NULL => n \in Nat /\ e <= n)
      BY <1>2 DEF Neighbours, e
    <2> QED
      BY <1>4, <2>1 DEF FirstField, next, prev
  <1> HIDE DEF k
  <1>15. Freed(m, u, h, e, p, n)
    <2>1. /\ k # e - 8 /\ (n # NULL => prev(n) # e - 8)
          /\ h + 16 # e - 8 /\ h + 24 # e - 8 /\ h + 8 # e - 8
      BY <1>4, <1>14
    <2>2. ASSUME NEW a \in Words
          PROVE  u[a] = IF n # NULL /\ a = prev(n) THEN h ELSE IF a = k THEN h
                        ELSE IF a = h + 16 THEN n ELSE IF a = h + 24 THEN p
                        ELSE IF a = h + 8 THEN 0
                        ELSE IF a = h \/ a = e - 8 THEN size ELSE m[a]
      <3>1. CASE a = e - 8
        BY <1>13, <2>1, <3>1
      <3>2. CASE a # e - 8
        <4>1. u[a] = w[a]
          BY <1>13, <3>2
        <4> QED
          BY <1>11, <1>12, <3>2, <4>1
      <3> QED
        BY <3>1, <3>2
    <2> QED
      BY <1>7, <1>10, <1>13, <2>2 DEF Freed, k
  <1> QED
    BY <1>8, <1>15 DEF p, n, e, u

\* MergeNone frees a block that lies between allocated ones.
LEMMA MergeNoneFrees ==
    ASSUME NEW m, NEW B, Proper(m, B), NEW h \in B \ FreeOf(m, B),
           \A c \in FreeOf(m, B) : Beyond(m, c) # h,
           NEW e, e = Beyond(m, h), e \notin FreeOf(m, B)
    PROVE  \E p, n : /\ Freeable(m, B, h, e, p, n)
                     /\ Freed(m, MergeNone(m, h), h, e, p, n)
PROOF
  <1> DEFINE n == next_fblock(m, h)
             p == IF n = NULL THEN prev_fblock(m, h) ELSE m[prev(n)]
             F == FreeOf(m, B)
             v == [m EXCEPT ![flags(h)] = 0, ![next(h)] = n, ![prev(h)] = p]
             u == MergeNone(m, h)
  <1>1. Ordered(m, B, NULL)
    BY ProperOrdered
  <1>2. /\ Term(m) \in Nat /\ Term(m) <= Limit /\ Limit \in Nat
        /\ \A c \in B : /\ c \in Nat /\ 48 <= c /\ c < Term(m) /\ c % 16 = 0
                        /\ Beyond(m, c) \in Nat /\ c + 48 <= Beyond(m, c)
                        /\ Beyond(m, c) = c + m[c] + 24
                        /\ Beyond(m, c) <= Term(m)
                        /\ Beyond(m, c) \in B \union {Term(m)} /\ m[c] \in Nat
                        /\ m[Beyond(m, c) - FOOTER] = m[c]
        /\ \A c, d \in B : c < d => Beyond(m, c) <= d
        /\ F \subseteq B
    BY <1>1, BlocksAre
  <1>3. /\ h \in B /\ h \notin F /\ h \in Nat /\ 48 <= h /\ h % 16 = 0
        /\ h + 48 <= e /\ e \in Nat /\ e <= Term(m) /\ e = h + m[h] + 24
        /\ m[h] \in Nat /\ m[e - 8] = m[h] /\ e \in B \union {Term(m)}
    BY <1>2 DEF FOOTER
  <1>4. m \in [Words -> Int]
    BY <1>1 DEF Ordered, Paged
  <1>5. u = Link(v, p, h, n)
    BY DEF MergeNone
  <1>6. FirstFrom(F, h + 1, n)
    BY <1>1, <1>3, NextFree
  <1>7. n # NULL => n \in F /\ h + 1 <= n /\ LastBefore(F, n, m[prev(n)])
    <2>1. n # NULL => n \in F /\ h + 1 <= n
      BY <1>6 DEF FirstFrom
    <2> HIDE DEF n
    <2> QED
      BY <1>1, <2>1 DEF Ordered, ListedBut, F
  <1>8. n = NULL => LastBefore(F, h, prev_fblock(m, h))
    BY <1>1, <1>3, PrevFree
  <1>9. n = NULL => p = prev_fblock(m, h)
    OBVIOUS
  <1>10. n # NULL => p = m[prev(n)]
    OBVIOUS
  <1> HIDE DEF n, p, F, u
  <1>11. \A f \in F : f \in B /\ f \in Nat /\ f # h
    BY <1>2, <1>3
  <1>12. LastBefore(F, h, p)
    <2>1. CASE n = NULL
      BY <1>8, <1>9, <2>1
    <2>2. CASE n # NULL
      <3>1. LastBefore(F, n, p) /\ n \in Nat /\ h < n
        BY <1>3, <1>7, <1>10, <1>11, <2>2
      <3>2. \A f \in F : f < h + 1 \/ n <= f
        BY <1>6, <2>2 DEF FirstFrom
      <3>3. CASE p = NULL
        <4>1. \A f \in F : n <= f
          BY <3>1, <3>3 DEF LastBefore
        <4>2. \A f \in F : h <= f
          BY <1>3, <1>11, <3>1, <4>1
        <4> QED
          BY <3>3, <4>2 DEF LastBefore
      <3>4. CASE p # NULL
        <4>1. p \in F /\ p < n /\ \A f \in F : f <= p \/ n <= f
          BY <3>1, <3>4 DEF LastBefore
        <4>2. p < h
          BY <1>3, <1>11, <3>1, <3>2, <4>1
        <4>3. \A f \in F : f <= p \/ h <= f
          BY <1>3, <1>11, <3>1, <4>1
        <4> QED
          BY <3>4, <4>1, <4>2, <4>3 DEF LastBefore
      <3> QED
        BY <3>3, <3>4
    <2> QED
      BY <2>1, <2>2
  <1>13. FirstFrom(F, e, n)
    <2>1. \A f \in F : (f < h + 1 => f < e) /\ (h + 1 <= f => e <= f)
      <3> SUFFICES ASSUME NEW f \in F
                   PROVE  (f < h + 1 => f < e) /\ (h + 1 <= f => e <= f)
        OBVIOUS
      <3>1. f \in B /\ f \in Nat /\ (h < f => e <= f)
        BY <1>2, <1>3, <1>11
      <3> QED
        BY <1>3, <3>1
    <2>2. CASE n = NULL
      BY <1>6, <2>1, <2>2 DEF FirstFrom
    <2>3. CASE n # NULL
      <3>1. n \in F /\ h + 1 <= n /\ \A f \in F : f < h + 1 \/ n <= f
        BY <1>6, <2>3 DEF FirstFrom
      <3> QED
        BY <2>1, <2>3, <3>1 DEF FirstFrom
    <2> QED
      BY <2>2, <2>3
  <1>14. Freeable(m, B, h, e, p, n)
    <2>1. \A c \in B : c < h \/ e <= c \/ c = h \/ c \in F
      <3> SUFFICES ASSUME NEW c \in B, ~(c < h), c # h
                   PROVE  e <= c
        OBVIOUS
      <3>1. c \in Nat /\ (h < c => e <= c)
        BY <1>2, <1>3
      <3> QED
        BY <1>3, <3>1
    <2>2. Beyond(m, h) <= e
      BY <1>3
    <2> QED
      BY <1>3, <1>12, <1>13, <2>1, <2>2 DEF Freeable, F
  <1>15. /\ flags(h) = h + 8 /\ next(h) = h + 16 /\ prev(h) = h + 24
         /\ h \in Words /\ h + 8 \in Words /\ h + 16 \in Words /\ h + 24 \in Words
         /\ e - 8 \in Words
    <2>1. e % 8 = 0
      <3>1. Formed(m, h, FirstBlock, Term(m))
        BY <1>1, <1>3 DEF Ordered, Tiles
      <3>2. m[h] % 16 = 8
        BY <3>1 DEF Formed
      <3> QED
        BY <1>3, <3>2
    <2>2. h % 8 = 0 /\ (h + 8) % 8 = 0 /\ (h + 16) % 8 = 0 /\ (h + 24) % 8 = 0
          /\ (e - 8) % 8 = 0
      BY <1>3, <2>1
    <2>3. h + 48 <= e /\ e <= Limit /\ Limit \in Nat
      BY <1>2, <1>3
    <2> QED
      BY <1>3, <2>2, <2>3, WordIs DEF flags, next, prev
  <1>16. n \in Int /\ p \in Int
    <2>1. (n = NULL \/ n \in F) /\ (p = NULL \/ p \in F)
      BY <1>7, <1>12 DEF LastBefore
    <2> QED
      BY <1>11, <2>1 DEF NULL
  <1>17. /\ v \in [Words -> Int]
         /\ \A a \in Words : v[a] = IF a = h + 24 THEN p ELSE IF a = h + 16 THEN n
                                    ELSE IF a = h + 8 THEN 0 ELSE m[a]
    <2>1. v = [m EXCEPT ![h + 8] = 0, ![h + 16] = n, ![h + 24] = p]
      BY <1>15
    <2> HIDE DEF v
    <2> QED
      BY <1>3, <1>4, <1>15, <1>16, <2>1
  <1> HIDE DEF v
  <1> DEFINE k == IF p = NULL THEN FirstField ELSE next(p)
  <1>18. /\ u \in [Words -> Int]
         /\ \A a \in Words : u[a] = IF n # NULL /\ a = prev(n) THEN h
                                    ELSE IF a = k THEN h ELSE v[a]
    <2>1. /\ Follow(v, p, h) \in [Words -> Int]
          /\ \A a \in Words : Follow(v, p, h)[a] = IF a = k THEN h ELSE v[a]
      BY <1>3, <1>17, FollowIs
    <2>2. u = Precede(Follow(v, p, h), h, n)
      BY <1>5 DEF Link
    <2> HIDE DEF k
    <2> QED
      BY <1>3, <2>1, <2>2, PrecedeIs
  <1> HIDE DEF k
  <1>19. Freed(m, u, h, e, p, n)
    <2>1. ASSUME NEW a \in Words
          PROVE  u[a] = IF n # NULL /\ a = prev(n) THEN h ELSE IF a = k THEN h
                        ELSE IF a = h + 16 THEN n ELSE IF a = h + 24 THEN p
                        ELSE IF a = h + 8 THEN 0
                        ELSE IF a = h \/ a = e - 8 THEN m[h] ELSE m[a]
      BY <1>3, <1>17, <1>18
    <2>2. e - h - OVERHEAD = m[h] /\ e - FOOTER = e - 8
      BY <1>3 DEF OVERHEAD, HEADER, FOOTER
    <2> QED
      BY <1>15, <1>18, <2>1, <2>2 DEF Freed, k
  <1> QED
    BY <1>14, <1>19 DEF u

\* The first block is freed with the next one, if that is free, or alone.
LEMMA HeapFreeKeeps ==
    ASSUME NEW m, NEW L, Kept(m, L), NEW l \in L, l.ptr = FirstBlock + HEADER
    PROVE  Kept(heap_free(m, l.ptr), L \ {l})
PROOF
  <1> DEFINE h == l.ptr - HEADER
             e == h + total_bytes(m, h)
             b == next_fblock_adj(m, h)
  <1>1. PICK B : Proper(m, B) /\ Holding(m, B \ FreeOf(m, B), L)
    BY DEF Kept
  <1> DEFINE F == FreeOf(m, B)
  <1>2. h = FirstBlock /\ h = 48
    BY DEF FirstBlock, HEADER
  <1>3. h \in B \ F
    BY <1>1 DEF Holding
  <1>4. /\ Term(m) \in Nat
        /\ \A c \in B : /\ c \in Nat /\ 48 <= c /\ c < Term(m)
                        /\ Beyond(m, c) \in Nat /\ c + 48 <= Beyond(m, c)
                        /\ Beyond(m, c) = c + total_bytes(m, c)
                        /\ Beyond(m, c) \in B \union {Term(m)}
                        /\ Beyond(m, c) <= Term(m)
        /\ F \subseteq B
    BY <1>1, ProperOrdered, BlocksAre
  <1>5. \A c \in F : Beyond(m, c) # h
    BY <1>2, <1>4
  <1>6. prev_fblock_adj(m, h) = NULL
    BY <1>2 DEF prev_fblock_adj
  <1>7. b = IF e >= Term(m) \/ ~IsFree(m, e) THEN NULL ELSE e
    BY DEF next_fblock_adj
  <1>8. e = Beyond(m, h) /\ e \in Nat /\ e # NULL
    BY <1>2, <1>3, <1>4 DEF NULL
  <1>9. heap_free(m, l.ptr) = IF b # NULL THEN MergeNext(m, h, b) ELSE MergeNone(m, h)
    BY <1>6 DEF heap_free
  <1> HIDE DEF h, e, b, F
  <1>10. CASE e \in F
    <2>1. e \in B /\ IsFree(m, e) /\ e < Term(m)
      BY <1>4, <1>10 DEF FreeOf, F
    <2>2. b = e
      BY <1>4, <1>7, <1>8, <2>1
    <2>3. heap_free(m, l.ptr) = MergeNext(m, h, e)
      BY <1>8, <1>9, <2>2
    <2>4. /\ Freeable(m, B, h, Beyond(m, e), m[prev(e)], m[next(e)])
          /\ Freed(m, MergeNext(m, h, e), h, Beyond(m, e), m[prev(e)], m[next(e)])
      BY <1>1, <1>3, <1>5, <1>8, <1>10, MergeNextFrees DEF F
    <2> QED
      BY <1>1, <2>3, <2>4, FreedKept DEF h
  <1>11. CASE e \notin F
    <2>1. b = NULL
      <3>1. e \in B \/ e = Term(m)
        BY <1>3, <1>4, <1>8
      <3>2. e \in B => ~IsFree(m, e)
        BY <1>11 DEF FreeOf, F
      <3> QED
        BY <1>4, <1>7, <3>1, <3>2
    <2>2. heap_free(m, l.ptr) = MergeNone(m, h)
      BY <1>9, <2>1
    <2>3. PICK p, n : /\ Freeable(m, B, h, e, p, n)
                      /\ Freed(m, MergeNone(m, h), h, e, p, n)
      BY <1>1, <1>3, <1>5, <1>8, <1>11, MergeNoneFrees DEF F
    <2> QED
      BY <1>1, <2>2, <2>3, FreedKept DEF h
  <1> QED
    BY <1>10, <1>11

-----------------------------------------------------------------------------
(* The theorems. *)

\* A new heap is one free block.
LEMMA NewKept ==
    HeapInit => Kept(mem, live)
PROOF
  <1> SUFFICES ASSUME HeapInit
               PROVE  Kept(mem, live)
    OBVIOUS
  <1> DEFINE end == ALLOC_PAGES * PAGE_SIZE
             size == end - FirstBlock - OVERHEAD
             zero == [a \in Words |-> 0]
             B == {FirstBlock}
  <1>1. /\ mem = [zero EXCEPT ![PagesField] = ALLOC_PAGES, ![FirstField] = FirstBlock,
                              ![FirstBlock] = size, ![footer(FirstBlock, size)] = size]
        /\ live = {}
    BY DEF HeapInit
  <1>2. end \in Nat /\ end % 16 = 0 /\ 96 <= end /\ end <= Limit
    <2>1. ALLOC_PAGES \in Nat /\ 1 <= ALLOC_PAGES /\ ALLOC_PAGES <= maxpages
          /\ maxpages \in Nat /\ PAGE_SIZE \in Nat /\ 96 <= PAGE_SIZE
      BY HeapAssumption, Limits
    <2>2. 1 * PAGE_SIZE <= end /\ end <= maxpages * PAGE_SIZE
      BY <2>1, PagesGrow
    <2>3. end \in Nat /\ end % 16 = 0
      BY <2>1, Sixteens
    <2>4. 1 * PAGE_SIZE = PAGE_SIZE
      BY <2>1
    <2> HIDE DEF end
    <2> QED
      BY <2>1, <2>2, <2>3, <2>4 DEF Limit
  <1> HIDE DEF end
  <1>3. size = end - 72 /\ size \in Nat /\ size % 16 = 8 /\ 24 <= size
    BY <1>2 DEF FirstBlock, OVERHEAD, HEADER, FOOTER
  <1> HIDE DEF size
  <1>4. footer(FirstBlock, size) = end - 8 /\ FirstBlock = 48
    BY <1>2, <1>3 DEF footer, FirstBlock, HEADER
  <1>5. /\ 16 \in Words /\ 32 \in Words /\ 48 \in Words /\ 56 \in Words
        /\ 64 \in Words /\ 72 \in Words /\ end - 8 \in Words
    BY <1>2, Limits, WordIs
  <1>6. /\ mem \in [Words -> Int]
        /\ \A a \in Words : mem[a] = IF a = end - 8 THEN size ELSE IF a = 48 THEN size
                                     ELSE IF a = 32 THEN 48
                                     ELSE IF a = 16 THEN ALLOC_PAGES ELSE 0
    <2>1. mem = [zero EXCEPT ![16] = ALLOC_PAGES, ![32] = 48,
                             ![48] = size, ![end - 8] = size]
      BY <1>1, <1>4 DEF PagesField, FirstField
    <2>2. zero \in [Words -> Int] /\ ALLOC_PAGES \in Int
      BY HeapAssumption
    <2>3. \A a \in Words : zero[a] = 0
      OBVIOUS
    <2> HIDE DEF zero
    <2> QED
      BY <1>3, <1>5, <2>1, <2>2, <2>3
  <1>7. /\ mem[16] = ALLOC_PAGES /\ mem[32] = 48 /\ mem[48] = size /\ mem[56] = 0
        /\ mem[64] = 0 /\ mem[72] = 0 /\ mem[end - 8] = size
    BY <1>2, <1>5, <1>6
  <1>8. Paged(mem) /\ Term(mem) = end
    <2>1. mem[PagesField] = ALLOC_PAGES
      BY <1>7 DEF PagesField
    <2> QED
      BY <1>6, <2>1, Limits, HeapAssumption DEF Paged, Term, end
  <1>9. Beyond(mem, FirstBlock) = end
    BY <1>2, <1>3, <1>4, <1>7 DEF Beyond, OVERHEAD, HEADER, FOOTER
  <1>10. Tiles(mem, B, FirstBlock, Term(mem))
    <2>1. Formed(mem, FirstBlock, FirstBlock, end)
      <3>1. mem[footer(FirstBlock, mem[FirstBlock])] = mem[FirstBlock]
        BY <1>4, <1>7
      <3>2. mem[flags(FirstBlock)] = 0
        BY <1>4, <1>7 DEF flags
      <3> QED
        BY <1>2, <1>3, <1>4, <1>7, <1>9, <3>1, <3>2 DEF Formed
    <2> QED
      BY <1>4, <1>8, <1>9, <2>1 DEF Tiles
  <1>11. FreeOf(mem, B) = B
    BY <1>4, <1>7 DEF FreeOf, IsFree, flags
  <1>12. Merged(mem, B)
    BY <1>2, <1>4, <1>9, <1>11 DEF Merged
  <1>13. mem[FirstField] = 48 /\ mem[next(FirstBlock)] = NULL /\ mem[prev(FirstBlock)] = NULL
    BY <1>4, <1>7 DEF FirstField, next, prev, NULL
  <1>14. ListedBut(mem, B, NULL)
    <2>1. Successor(mem, FirstBlock) = NULL
      BY <1>4, <1>13 DEF Successor, NULL
    <2>2. FirstFrom(B, FirstBlock + 1, NULL) /\ LastBefore(B, FirstBlock, NULL)
      BY <1>4 DEF FirstFrom, LastBefore
    <2> QED
      BY <1>11, <1>13, <2>1, <2>2 DEF ListedBut
  <1>15. FirstFrom(B, 1, mem[FirstField])
    BY <1>4, <1>13 DEF FirstFrom, NULL
  <1>16. Proper(mem, B)
    BY <1>8, <1>10, <1>11, <1>12, <1>14, <1>15 DEF Proper, Ordered
  <1>17. Holding(mem, {}, {})
    BY DEF Holding
  <1> QED
    BY <1>1, <1>11, <1>16, <1>17 DEF Kept

\* What holds of every state: there are blocks that tile the heap, in a list in
\* order, and the allocated ones are those the client holds.
HeapIInv == Kept(mem, live)

\* It holds when the client leaves no block of eight bytes free (heap.c:242-246
\* makes one of 32 bytes left over) and frees no block but the first, before
\* which no footer is read (heap.c:115-118).
LEMMA HeapIInvHolds ==
    ASSUME ~TinyBlocks, ~FreeAny
    PROVE  HeapSpec => []HeapIInv
PROOF
  <1>1. HeapInit => HeapIInv
    BY NewKept DEF HeapIInv
  <1>2. HeapIInv /\ [HeapNext]_heapVars => HeapIInv'
    <2> SUFFICES ASSUME HeapIInv, [HeapNext]_heapVars
                 PROVE  HeapIInv'
      OBVIOUS
    <2>1. Kept(mem, live)
      BY DEF HeapIInv
    <2>2. ASSUME NEW request \in Requests, Alloc(request)
          PROVE  HeapIInv'
      <3> DEFINE size == round16(request, 16 - FOOTER)
                 f == find_fblock(mem, size)
                 after == heap_alloc(mem, request)
      <3>1. /\ Remainder(request) # 32 /\ request > 8 /\ after.ptr # NULL
            /\ mem' = Fill(after.mem, after.ptr, request)
            /\ live' = live \union {[ptr |-> after.ptr, size |-> request]}
        BY <2>2 DEF Alloc, OVERHEAD, HEADER, FOOTER
      <3>2. f.fh # NULL
        <4>1. f.fh = NULL => after = [mem |-> mem, ptr |-> NULL]
          BY DEF heap_alloc
        <4> HIDE DEF f, after
        <4> QED
          BY <3>1, <4>1
      <3>3. f.mem[f.fh] - size # 32
        BY <3>1, <3>2 DEF Remainder
      <3>4. Kept(Fill(after.mem, after.ptr, request),
                 live \union {[ptr |-> after.ptr, size |-> request]})
        BY <2>1, <3>1, <3>2, <3>3, HeapAllocKeeps
      <3> QED
        BY <3>1, <3>4 DEF HeapIInv
    <2>3. ASSUME NEW request \in Requests, AllocFails(request)
          PROVE  HeapIInv'
      BY <2>1, <2>3 DEF AllocFails, heapVars, HeapIInv
    <2>4. ASSUME NEW l \in live, Free(l)
          PROVE  HeapIInv'
      <3>1. /\ l.ptr = FirstBlock + HEADER /\ mem' = heap_free(mem, l.ptr)
            /\ live' = live \ {l}
        BY <2>4 DEF Free
      <3>2. Kept(heap_free(mem, l.ptr), live \ {l})
        BY <2>1, <3>1, HeapFreeKeeps
      <3> QED
        BY <3>1, <3>2 DEF HeapIInv
    <2>5. CASE UNCHANGED heapVars
      BY <2>1, <2>5 DEF heapVars, HeapIInv
    <2> QED
      BY <2>2, <2>3, <2>4, <2>5 DEF HeapNext
  <1> QED
    BY <1>1, <1>2, PTL DEF HeapSpec

\* The blocks met by walking are those of the heap.
LEMMA BlocksMet ==
    ASSUME NEW B, Proper(mem, B)
    PROVE  /\ Blocks = B /\ FreeBlocks = FreeOf(mem, B)
           /\ \E i \in 0..MaxBlocks : Walk(mem, FirstBlock)[i] = Term(mem)
PROOF
  <1> DEFINE w == Walk(mem, FirstBlock)
  <1>1. Ordered(mem, B, NULL)
    BY ProperOrdered
  <1>2. /\ FirstBlock \in B /\ MaxBlocks \in Nat
        /\ \A b \in B : b \in Nat /\ FirstBlock <= b /\ b < Term(mem)
        /\ Term(mem) \in Nat
    BY <1>1, BlocksAre DEF FirstBlock
  <1>3. \A i \in 0..MaxBlocks : w[i] \in B \union {Term(mem)}
    BY <1>1, <1>2, WalkIs
  <1>4. w[MaxBlocks] = Term(mem)
        /\ \A b \in B : \E i \in 0..MaxBlocks : w[i] = b
    BY <1>1, <1>2, WalkEnds
  <1>5. Blocks = {w[i] : i \in 0..MaxBlocks} \ {Term(mem)}
    BY DEF Blocks
  <1> HIDE DEF w
  <1>6. Term(mem) \notin B
    BY <1>2
  <1>7. Blocks = B
    <2>1. Blocks \subseteq B
      BY <1>3, <1>5
    <2>2. B \subseteq Blocks
      BY <1>4, <1>5, <1>6
    <2> QED
      BY <2>1, <2>2
  <1>8. FreeBlocks = FreeOf(mem, B)
    BY <1>7 DEF FreeBlocks, FreeOf
  <1>9. MaxBlocks \in 0..MaxBlocks
    BY <1>2
  <1> QED
    BY <1>4, <1>7, <1>8, <1>9 DEF w

\* The tiling follows from the invariant.
LEMMA TiledThen ==
    HeapIInv => HeapTiled
PROOF
  <1> SUFFICES ASSUME HeapIInv
               PROVE  HeapTiled
    OBVIOUS
  <1>1. PICK B : Proper(mem, B) /\ Holding(mem, B \ FreeOf(mem, B), live)
    BY DEF HeapIInv, Kept
  <1>2. /\ Blocks = B /\ FreeBlocks = FreeOf(mem, B)
        /\ \E i \in 0..MaxBlocks : Walk(mem, FirstBlock)[i] = Term(mem)
    BY <1>1, BlocksMet
  <1>3. HeapTypeOK
    <2>1. mem \in [Words -> Int] /\ mem[PagesField] \in ALLOC_PAGES..maxpages
      BY <1>1 DEF Proper, Ordered, Paged
    <2>2. \A l \in live : l.size \in Requests /\ l.ptr % 16 = 0
      BY <1>1 DEF Holding
    <2> QED
      BY <2>1, <2>2 DEF HeapTypeOK
  <1>4. ASSUME NEW b \in B
        PROVE  mem[b] % 16 = 8 /\ mem[b] > 0 /\ mem[footer(b, mem[b])] = mem[b]
    BY <1>1 DEF Proper, Ordered, Tiles, Formed
  <1>5. \A b \in FreeOf(mem, B) : b + total_bytes(mem, b) \notin FreeOf(mem, B)
    <2>1. \A b \in B : Beyond(mem, b) = b + total_bytes(mem, b)
      BY <1>1, ProperOrdered, BlocksAre
    <2>2. \A b \in FreeOf(mem, B) : b \in B /\ Beyond(mem, b) \notin FreeOf(mem, B)
      BY <1>1 DEF Proper, Ordered, Merged, FreeOf
    <2> QED
      BY <2>1, <2>2
  <1> QED
    BY <1>2, <1>3, <1>4, <1>5 DEF HeapTiled

\* The order of the list follows from it.
LEMMA ListedThen ==
    HeapIInv => FreeListExact
PROOF
  <1> SUFFICES ASSUME HeapIInv
               PROVE  FreeListExact
    OBVIOUS
  <1> DEFINE After(b)  == {f \in FreeBlocks : f > b}
             Before(b) == {f \in FreeBlocks : f < b}
             first(S)  == IF S = {} THEN NULL ELSE Least(S)
             last(S)   == IF S = {} THEN NULL
                          ELSE CHOOSE x \in S : \A y \in S : y <= x
  <1>1. PICK B : Proper(mem, B)
    BY DEF HeapIInv, Kept
  <1> DEFINE F == FreeOf(mem, B)
  <1>2. FreeBlocks = F
    BY <1>1, BlocksMet
  <1>3. \A f \in F : f \in Nat /\ 48 <= f /\ f # NULL
    BY <1>1, ProperOrdered, FreeApart
  <1>4. /\ FirstFrom(F, 1, mem[FirstField])
        /\ \A b \in F : /\ FirstFrom(F, b + 1, mem[next(b)])
                        /\ LastBefore(F, b, mem[prev(b)])
    <2>1. FirstFrom(F, 1, mem[FirstField])
      BY <1>1 DEF Proper
    <2>2. ListedBut(mem, B, NULL)
      BY <1>1 DEF Proper, Ordered
    <2>3. \A b \in F : Successor(mem, b) = mem[next(b)]
      BY <1>3 DEF Successor
    <2> QED
      BY <1>3, <2>1, <2>2, <2>3 DEF ListedBut
  <1> HIDE DEF F
  <1>5. ASSUME NEW a \in Nat, NEW y, FirstFrom(F, a + 1, y)
        PROVE  y = first({f \in F : f > a})
    <2> DEFINE S == {f \in F : f > a}
    <2>1. CASE y = NULL
      <3>1. \A f \in F : f < a + 1
        BY <1>5, <2>1 DEF FirstFrom
      <3>2. S = {}
        BY <1>3, <3>1
      <3> QED
        BY <2>1, <3>2
    <2>2. CASE y # NULL
      <3>1. y \in F /\ a + 1 <= y /\ \A f \in F : f < a + 1 \/ y <= f
        BY <1>5, <2>2 DEF FirstFrom
      <3>2. y \in S /\ S \subseteq Nat /\ \A f \in S : y <= f
        BY <1>3, <3>1
      <3> HIDE DEF S
      <3>3. Least(S) \in S /\ \A f \in S : Least(S) <= f
        BY <3>2, LeastIs
      <3>4. Least(S) <= y /\ y <= Least(S) /\ y \in Nat /\ Least(S) \in Nat
        BY <3>2, <3>3
      <3>5. y = Least(S) /\ S # {}
        BY <3>2, <3>4
      <3> QED
        BY <3>5 DEF S
    <2> QED
      BY <2>1, <2>2
  <1>6. ASSUME NEW a \in Nat, NEW y, LastBefore(F, a, y)
        PROVE  y = last({f \in F : f < a})
    <2> DEFINE S == {f \in F : f < a}
               x == CHOOSE z \in S : \A f \in S : f <= z
    <2>1. CASE y = NULL
      <3>1. \A f \in F : a <= f
        BY <1>6, <2>1 DEF LastBefore
      <3>2. S = {}
        BY <1>3, <3>1
      <3> QED
        BY <2>1, <3>2
    <2>2. CASE y # NULL
      <3>1. y \in F /\ y < a /\ \A f \in F : f <= y \/ a <= f
        BY <1>6, <2>2 DEF LastBefore
      <3>2. y \in S /\ S \subseteq Nat /\ \A f \in S : f <= y
        BY <1>3, <3>1
      <3> HIDE DEF S
      <3>3. x \in S /\ \A f \in S : f <= x
        BY <3>2
      <3> HIDE DEF x
      <3>4. x <= y /\ y <= x /\ y \in Nat /\ x \in Nat
        BY <3>2, <3>3
      <3>5. y = x /\ S # {}
        BY <3>2, <3>4
      <3> QED
        BY <3>5 DEF S, x
    <2> QED
      BY <2>1, <2>2
  <1>7. mem[FirstField] = first(FreeBlocks)
    <2>1. mem[FirstField] = first({f \in F : f > 0})
      <3>1. FirstFrom(F, 0 + 1, mem[FirstField])
        BY <1>4
      <3> HIDE DEF first
      <3> QED
        BY <1>5, <3>1
    <2>2. {f \in F : f > 0} = F
      BY <1>3
    <2> HIDE DEF first
    <2> QED
      BY <1>2, <2>1, <2>2
  <1>8. ASSUME NEW b \in FreeBlocks
        PROVE  mem[next(b)] = first(After(b)) /\ mem[prev(b)] = last(Before(b))
    <2>1. b \in F /\ b \in Nat
      BY <1>2, <1>3
    <2>2. mem[next(b)] = first({f \in F : f > b})
      <3> HIDE DEF first
      <3> QED
        BY <1>4, <1>5, <2>1
    <2>3. mem[prev(b)] = last({f \in F : f < b})
      <3> HIDE DEF last
      <3> QED
        BY <1>4, <1>6, <2>1
    <2> HIDE DEF first, last
    <2> QED
      BY <1>2, <2>2, <2>3
  <1> QED
    BY <1>7, <1>8 DEF FreeListExact

\* So does what the client holds.
LEMMA HeldThen ==
    HeapIInv => LiveDataIntact
PROOF
  <1> SUFFICES ASSUME HeapIInv
               PROVE  LiveDataIntact
    OBVIOUS
  <1>1. PICK B : Proper(mem, B) /\ Holding(mem, B \ FreeOf(mem, B), live)
    BY DEF HeapIInv, Kept
  <1>2. Blocks = B /\ FreeBlocks = FreeOf(mem, B)
    BY <1>1, BlocksMet
  <1>3. {l.ptr - HEADER : l \in live} = Blocks \ FreeBlocks
    BY <1>1, <1>2 DEF Holding
  <1>4. ASSUME NEW l \in live
        PROVE  /\ l.size <= mem[l.ptr - HEADER]
               /\ \A a \in Words :
                      a \in l.ptr..(l.ptr + l.size - 1) => mem[a] = UserData
    <2>1. /\ l.size <= mem[l.ptr - HEADER] /\ l.ptr \in Nat /\ l.size \in Requests
          /\ \A a \in Words : l.ptr <= a /\ a < l.ptr + l.size => mem[a] = UserData
      BY <1>1 DEF Holding
    <2>2. l.size \in Nat
      BY <2>1, HeapAssumption
    <2>3. \A a \in Words : a \in l.ptr..(l.ptr + l.size - 1) =>
                               l.ptr <= a /\ a < l.ptr + l.size
      BY <2>1, <2>2
    <2> QED
      BY <2>1, <2>3
  <1> QED
    BY <1>3, <1>4 DEF LiveDataIntact

\* Whatever is asked for and freed, the blocks tile the heap from its first to
\* its last byte, both ends of each give its size, and freed neighbours have
\* been made one (heap_alloc and heap_free, heap.c:228-389).
THEOREM TiledAlways ==
    ASSUME ~TinyBlocks, ~FreeAny
    PROVE  HeapSpec => []HeapTiled
PROOF
  <1>1. HeapSpec => []HeapIInv
    BY HeapIInvHolds
  <1> QED
    BY <1>1, TiledThen, PTL

\* The list of free blocks holds them all and only them, by address and in both
\* directions (heap.c:139-189, 257-311, 338-389).
THEOREM FreeListAlways ==
    ASSUME ~TinyBlocks, ~FreeAny
    PROVE  HeapSpec => []FreeListExact
PROOF
  <1>1. HeapSpec => []HeapIInv
    BY HeapIInvHolds
  <1> QED
    BY <1>1, ListedThen, PTL

\* What the client holds is what the heap has as allocated, with the room asked
\* for, and neither an allocation nor a call of heap_free writes into it.
THEOREM LiveDataAlways ==
    ASSUME ~TinyBlocks, ~FreeAny
    PROVE  HeapSpec => []LiveDataIntact
PROOF
  <1>1. HeapSpec => []HeapIInv
    BY HeapIInvHolds
  <1> QED
    BY <1>1, HeldThen, PTL
=============================================================================
