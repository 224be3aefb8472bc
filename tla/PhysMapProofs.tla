----------------------------- MODULE PhysMapProofs -----------------------------
(***************************************************************************)
(* For every number of addresses and every list of regions of which none   *)
(* is empty but at address 0: the sort ends inside its list, the sweep     *)
(* goes through it in order, the strongest type wins at every address, and *)
(* the map that results has neither gaps nor overlaps.                     *)
(***************************************************************************)
EXTENDS PhysMap, SequenceTheorems, WellFoundedInduction, TLAPS

\* The regions of the machine's memory; an empty one is at its beginning.
Reg == {r \in Region : End(r) <= Bytes /\ (r.size = 0 => r.addr = 0)}

\* The order in which the sort puts two regions.
Leq(r, s) == ~cmp_region(s, r)

-----------------------------------------------------------------------------
(* Numbers, orders and sequences. *)

LEMMA LeastNat ==
    ASSUME NEW S, S \subseteq Nat, S # {}
    PROVE  \E m \in S : \A k \in S : m <= k
  <1>1. PICK m \in S : \A k \in S : ~ (<<k, m>> \in OpToRel(<, Nat))
    BY NatLessThanWellFounded, WFMin
  <1>2. \A k \in S : ~ (k < m)
    BY <1>1 DEF OpToRel
  <1>. QED  BY <1>2

LEMMA MinIs ==
    ASSUME NEW S, S \subseteq Nat, S # {}
    PROVE  Min(S) \in S /\ \A k \in S : Min(S) <= k
  <1>1. \E m \in S : \A k \in S : m <= k
    BY LeastNat
  <1>. QED  BY <1>1, Zenon DEF Min

LEMMA MaxIs ==
    ASSUME NEW b \in Int, NEW S, S \subseteq Int, \A k \in S : k <= b, S # {}
    PROVE  Max(S) \in S /\ \A k \in S : Max(S) >= k
  <1> DEFINE T == {b - k : k \in S}
  <1>1. T \subseteq Nat /\ T # {}
    <2>1. \A k \in S : b - k \in Nat  OBVIOUS
    <2>. QED  BY <2>1, Zenon
  <1>2. PICK n \in T : \A k \in T : n <= k
    BY <1>1, LeastNat
  <1>3. PICK m \in S : n = b - m  BY <1>2
  <1>4. ASSUME NEW k \in S  PROVE m >= k
    <2>1. b - k \in T /\ m \in Int /\ k \in Int  OBVIOUS
    <2>2. b - m <= b - k  BY <1>2, <1>3, <2>1
    <2>. QED  BY <2>1, <2>2
  <1>. QED  BY <1>3, <1>4, Zenon DEF Max

LEMMA MaxOfTwo ==
    ASSUME NEW a \in Int, NEW b \in Int
    PROVE  Max({a, b}) = IF a >= b THEN a ELSE b
  <1> DEFINE S == {a, b}
             c == IF a >= b THEN a ELSE b
  <1>1. c \in Int /\ S \subseteq Int /\ S # {} /\ \A k \in S : k <= c  OBVIOUS
  <1> HIDE DEF S, c
  <1>2. Max(S) \in S /\ \A k \in S : Max(S) >= k
    BY <1>1, MaxIs
  <1>. QED  BY <1>2 DEF S, c

LEMMA MinOfTwo ==
    ASSUME NEW a \in Nat, NEW b \in Nat
    PROVE  Min({a, b}) = IF a <= b THEN a ELSE b
  <1> DEFINE S == {a, b}
  <1>1. S \subseteq Nat /\ S # {}  OBVIOUS
  <1> HIDE DEF S
  <1>2. Min(S) \in S /\ \A k \in S : Min(S) <= k
    BY <1>1, MinIs
  <1>. QED  BY <1>2 DEF S

LEMMA RegFacts ==
    ASSUME NEW r \in Reg
    PROVE  /\ r.addr \in Nat /\ r.size \in Nat /\ r.type \in 1..7 /\ End(r) \in Nat
           /\ r.addr + r.size <= Bytes /\ End(r) = r.addr + r.size
           /\ r = [addr |-> r.addr, size |-> r.size, type |-> r.type]
           /\ r.size = 0 => r.addr = 0
  BY PhysMapAssumption DEF Reg, Region, Types, End

LEMMA RegIs ==
    ASSUME NEW a \in Nat, NEW n \in Nat, a + n <= Bytes, n = 0 => a = 0, NEW t \in 1..7
    PROVE  [addr |-> a, size |-> n, type |-> t] \in Reg
  BY PhysMapAssumption DEF Reg, Region, Types, End

LEMMA LeqOrder ==
    ASSUME NEW r \in Reg, NEW s \in Reg, NEW t \in Reg
    PROVE  /\ Leq(r, r) /\ (Leq(r, s) \/ Leq(s, r))
           /\ Leq(r, s) /\ Leq(s, t) => Leq(r, t)
           /\ cmp_region(r, s) => Leq(r, s)
           /\ Leq(r, s) => r.addr <= s.addr
           /\ Leq(r, s) <=> r.addr < s.addr \/ (r.addr = s.addr /\ r.size <= s.size)
  <1>1. /\ r.addr \in Nat /\ r.size \in Nat /\ s.addr \in Nat /\ s.size \in Nat
        /\ t.addr \in Nat /\ t.size \in Nat
    BY RegFacts
  <1>. QED  BY <1>1 DEF Leq, cmp_region

LEMMA SeqFacts ==
    ASSUME NEW S, NEW s \in Seq(S)
    PROVE  /\ Len(s) \in Nat /\ DOMAIN s = 1..Len(s)
           /\ \A k \in 1..Len(s) : s[k] \in S
           /\ \A m \in Int, n \in Int : m >= 1 /\ n <= Len(s) =>
                 /\ SubSeq(s, m, n) \in Seq(S)
                 /\ Len(SubSeq(s, m, n)) = IF m <= n THEN n - m + 1 ELSE 0
                 /\ \A k \in 1..(n - m + 1) : SubSeq(s, m, n)[k] = s[m + k - 1]
  <1>1. Len(s) \in Nat /\ DOMAIN s = 1..Len(s) /\ \A k \in 1..Len(s) : s[k] \in S
    BY LenProperties, ElementOfSeq
  <1>2. ASSUME NEW m \in Int, NEW n \in Int, m >= 1, n <= Len(s)
        PROVE  /\ SubSeq(s, m, n) \in Seq(S)
               /\ Len(SubSeq(s, m, n)) = IF m <= n THEN n - m + 1 ELSE 0
               /\ \A k \in 1..(n - m + 1) : SubSeq(s, m, n)[k] = s[m + k - 1]
    <2>1. \A k \in m..n : s[k] \in S  BY <1>1, <1>2
    <2>. QED  BY <2>1, SubSeqProperties
  <1>. QED  BY <1>1, <1>2

LEMMA RemoveIs ==
    ASSUME NEW S, NEW s \in Seq(S), NEW i \in 1..Len(s)
    PROVE  /\ RemoveAt(s, i) \in Seq(S) /\ Len(RemoveAt(s, i)) = Len(s) - 1
           /\ \A k \in 1..(Len(s) - 1) :
                  RemoveAt(s, i)[k] = IF k < i THEN s[k] ELSE s[k + 1]
  <1> DEFINE p == SubSeq(s, 1, i - 1)
             q == SubSeq(s, i + 1, Len(s))
  <1>1. Len(s) \in Nat /\ i \in Int  BY SeqFacts
  <1>2. p \in Seq(S) /\ Len(p) = i - 1 /\ \A k \in 1..(i - 1) : p[k] = s[k]
    BY <1>1, SeqFacts
  <1>3. q \in Seq(S) /\ Len(q) = Len(s) - i /\ \A k \in 1..(Len(s) - i) : q[k] = s[i + k]
    BY <1>1, SeqFacts
  <1> HIDE DEF p, q
  <1>4. /\ p \o q \in Seq(S) /\ Len(p \o q) = Len(p) + Len(q)
        /\ \A k \in 1..(Len(p) + Len(q)) :
               (p \o q)[k] = IF k <= Len(p) THEN p[k] ELSE q[k - Len(p)]
    BY <1>2, <1>3, ConcatProperties
  <1> DEFINE t == p \o q
  <1>5. RemoveAt(s, i) = t  BY DEF RemoveAt, p, q
  <1>6. /\ t \in Seq(S) /\ Len(t) = Len(s) - 1
        /\ \A k \in 1..(Len(s) - 1) : t[k] = IF k <= i - 1 THEN p[k] ELSE q[k - (i - 1)]
    BY <1>1, <1>2, <1>3, <1>4, SMTT(30)
  <1> HIDE DEF t
  <1>7. ASSUME NEW k \in 1..(Len(s) - 1)
        PROVE  t[k] = IF k < i THEN s[k] ELSE s[k + 1]
    <2>1. CASE k < i  BY <1>1, <1>2, <1>6, <2>1
    <2>2. CASE ~(k < i)
      <3> DEFINE m == k - (i - 1)
      <3>1. m \in 1..(Len(s) - i) /\ i + m = k + 1 /\ ~(k <= i - 1)  BY <1>1, <2>2
      <3>2. t[k] = q[m]  BY <1>6, <3>1
      <3> HIDE DEF m
      <3>3. q[m] = s[i + m]  BY <1>3, <3>1
      <3>. QED  BY <2>2, <3>1, <3>2, <3>3
    <2>. QED  BY <2>1, <2>2
  <1>. QED  BY <1>5, <1>6, <1>7

LEMMA InsertIs ==
    ASSUME NEW S, NEW s \in Seq(S), NEW i \in 1..(Len(s) + 1), NEW e \in S
    PROVE  /\ InsertAt(s, i, e) \in Seq(S) /\ Len(InsertAt(s, i, e)) = Len(s) + 1
           /\ \A k \in 1..(Len(s) + 1) :
                  InsertAt(s, i, e)[k] = IF k < i THEN s[k] ELSE IF k = i THEN e ELSE s[k - 1]
  <1> DEFINE p == SubSeq(s, 1, i - 1)
             q == SubSeq(s, i, Len(s))
             o == <<e>>
  <1>1. Len(s) \in Nat /\ i \in Int  BY SeqFacts
  <1>2. p \in Seq(S) /\ Len(p) = i - 1 /\ \A k \in 1..(i - 1) : p[k] = s[k]
    BY <1>1, SeqFacts
  <1>3. /\ q \in Seq(S) /\ Len(q) = Len(s) - i + 1
        /\ \A k \in 1..(Len(s) - i + 1) : q[k] = s[i + k - 1]
    BY <1>1, SeqFacts
  <1>4. o \in Seq(S) /\ Len(o) = 1 /\ o[1] = e  OBVIOUS
  <1>5. InsertAt(s, i, e) = (p \o o) \o q  BY DEF InsertAt
  <1> HIDE DEF p, q, o
  <1>6. /\ p \o o \in Seq(S) /\ Len(p \o o) = i
        /\ \A k \in 1..i : (p \o o)[k] = IF k < i THEN s[k] ELSE e
    <2>1. /\ p \o o \in Seq(S) /\ Len(p \o o) = Len(p) + Len(o)
          /\ \A k \in 1..(Len(p) + Len(o)) :
                 (p \o o)[k] = IF k <= Len(p) THEN p[k] ELSE o[k - Len(p)]
      BY <1>2, <1>4, ConcatProperties
    <2>. QED  BY <1>1, <1>2, <1>4, <2>1
  <1> DEFINE g == p \o o
  <1>7. g \in Seq(S) /\ Len(g) = i /\ \A k \in 1..i : g[k] = IF k < i THEN s[k] ELSE e
    BY <1>6
  <1>8. InsertAt(s, i, e) = g \o q  BY <1>5
  <1> HIDE DEF g
  <1>9. /\ g \o q \in Seq(S) /\ Len(g \o q) = Len(g) + Len(q)
        /\ \A k \in 1..(Len(g) + Len(q)) :
               (g \o q)[k] = IF k <= Len(g) THEN g[k] ELSE q[k - Len(g)]
    BY <1>3, <1>7, ConcatProperties
  <1> DEFINE t == g \o q
  <1>10. /\ t \in Seq(S) /\ Len(t) = Len(s) + 1
         /\ \A k \in 1..(Len(s) + 1) : t[k] = IF k <= i THEN g[k] ELSE q[k - i]
    BY <1>1, <1>3, <1>7, <1>9
  <1>11. InsertAt(s, i, e) = t  BY <1>8
  <1> HIDE DEF t
  <1>12. ASSUME NEW k \in 1..(Len(s) + 1)
         PROVE  t[k] = IF k < i THEN s[k] ELSE IF k = i THEN e ELSE s[k - 1]
    <2>1. CASE k <= i  BY <1>1, <1>7, <1>10, <2>1
    <2>2. CASE ~(k <= i)
      <3> DEFINE m == k - i
      <3>1. m \in 1..(Len(s) - i + 1) /\ i + m - 1 = k - 1 /\ ~(k < i) /\ k # i
        BY <1>1, <2>2
      <3>2. t[k] = q[m]  BY <1>10, <2>2
      <3> HIDE DEF m
      <3>3. q[m] = s[i + m - 1]  BY <1>3, <3>1
      <3>. QED  BY <3>1, <3>2, <3>3
    <2>. QED  BY <2>1, <2>2
  <1>. QED  BY <1>10, <1>11, <1>12

\* Element i moved to position m, the elements between them one down.
MovedTo(s, i, m) ==
    SubSeq(s, 1, i - 1) \o SubSeq(s, i + 1, m) \o <<s[i]>> \o SubSeq(s, m + 1, Len(s))

LEMMA MovedIs ==
    ASSUME NEW S, NEW s \in Seq(S), NEW i \in 1..Len(s), NEW m \in i..Len(s)
    PROVE  /\ MovedTo(s, i, m) \in Seq(S) /\ Len(MovedTo(s, i, m)) = Len(s)
           /\ MovedTo(s, i, m)[m] = s[i]
           /\ \A k \in 1..Len(s) : k < i \/ k > m => MovedTo(s, i, m)[k] = s[k]
           /\ \A k \in i..(m - 1) : MovedTo(s, i, m)[k] = s[k + 1]
  <1> DEFINE n == Len(s)
             p == SubSeq(s, 1, i - 1)
             q == SubSeq(s, i + 1, m)
             o == <<s[i]>>
             r == SubSeq(s, m + 1, n)
  <1>1. n \in Nat /\ i \in Int /\ m \in Int /\ 1 <= i /\ i <= m /\ m <= n /\ s[i] \in S
    BY SeqFacts
  <1>2. p \in Seq(S) /\ Len(p) = i - 1 /\ \A k \in 1..(i - 1) : p[k] = s[k]
    BY <1>1, SeqFacts
  <1>3. q \in Seq(S) /\ Len(q) = m - i /\ \A k \in 1..(m - i) : q[k] = s[i + k]
    BY <1>1, SeqFacts
  <1>4. o \in Seq(S) /\ Len(o) = 1 /\ o[1] = s[i]  BY <1>1
  <1>5. r \in Seq(S) /\ Len(r) = n - m /\ \A k \in 1..(n - m) : r[k] = s[m + k]
    BY <1>1, SeqFacts
  <1>6. MovedTo(s, i, m) = ((p \o q) \o o) \o r  BY DEF MovedTo
  <1> HIDE DEF n, p, q, o, r
  <1> DEFINE a == p \o q
  <1>7. /\ a \in Seq(S) /\ Len(a) = m - 1
        /\ \A k \in 1..(m - 1) : a[k] = IF k <= i - 1 THEN p[k] ELSE q[k - (i - 1)]
    <2>1. /\ p \o q \in Seq(S) /\ Len(p \o q) = Len(p) + Len(q)
          /\ \A k \in 1..(Len(p) + Len(q)) :
                 (p \o q)[k] = IF k <= Len(p) THEN p[k] ELSE q[k - Len(p)]
      BY <1>2, <1>3, ConcatProperties
    <2>. QED  BY <1>1, <1>2, <1>3, <2>1, SMTT(30)
  <1>8. MovedTo(s, i, m) = (a \o o) \o r  BY <1>6
  <1> HIDE DEF a
  <1> DEFINE b == a \o o
  <1>9. /\ b \in Seq(S) /\ Len(b) = m
        /\ \A k \in 1..m : b[k] = IF k <= m - 1 THEN a[k] ELSE s[i]
    <2>1. /\ a \o o \in Seq(S) /\ Len(a \o o) = Len(a) + Len(o)
          /\ \A k \in 1..(Len(a) + Len(o)) :
                 (a \o o)[k] = IF k <= Len(a) THEN a[k] ELSE o[k - Len(a)]
      BY <1>4, <1>7, ConcatProperties
    <2>. QED  BY <1>1, <1>4, <1>7, <2>1
  <1>10. MovedTo(s, i, m) = b \o r  BY <1>8
  <1> HIDE DEF b
  <1> DEFINE t == b \o r
  <1>11. /\ t \in Seq(S) /\ Len(t) = n
         /\ \A k \in 1..n : t[k] = IF k <= m THEN b[k] ELSE r[k - m]
    <2>1. /\ b \o r \in Seq(S) /\ Len(b \o r) = Len(b) + Len(r)
          /\ \A k \in 1..(Len(b) + Len(r)) :
                 (b \o r)[k] = IF k <= Len(b) THEN b[k] ELSE r[k - Len(b)]
      BY <1>5, <1>9, ConcatProperties
    <2>. QED  BY <1>1, <1>5, <1>9, <2>1, SMTT(30)
  <1>12. MovedTo(s, i, m) = t  BY <1>10
  <1> HIDE DEF t
  <1>13. t[m] = s[i]  BY <1>1, <1>9, <1>11
  <1>14. ASSUME NEW k \in 1..n, k < i  PROVE t[k] = s[k]
    <2>1. t[k] = b[k] /\ b[k] = a[k] /\ a[k] = p[k] /\ p[k] = s[k]
      BY <1>1, <1>2, <1>7, <1>9, <1>11, <1>14
    <2>. QED  BY <2>1
  <1>15. ASSUME NEW k \in 1..n, k > m  PROVE t[k] = s[k]
    <2> DEFINE l == k - m
    <2>1. l \in 1..(n - m) /\ m + l = k /\ t[k] = r[l]  BY <1>1, <1>11, <1>15
    <2> HIDE DEF l
    <2>2. r[l] = s[m + l]  BY <1>5, <2>1
    <2>. QED  BY <2>1, <2>2
  <1>16. ASSUME NEW k \in i..(m - 1)  PROVE t[k] = s[k + 1]
    <2> DEFINE l == k - (i - 1)
    <2>1. l \in 1..(m - i) /\ i + l = k + 1 /\ t[k] = b[k] /\ b[k] = a[k] /\ a[k] = q[l]
      BY <1>1, <1>7, <1>9, <1>11
    <2> HIDE DEF l
    <2>2. q[l] = s[i + l]  BY <1>3, <2>1
    <2>. QED  BY <2>1, <2>2
  <1>. QED  BY <1>11, <1>12, <1>13, <1>14, <1>15, <1>16 DEF n

\* From position f on the list is in order.
InOrder(s, f) == \A i, j \in f..Len(s) : i <= j => Leq(s[i], s[j])

LEMMA ResortInOrder ==
    ASSUME NEW s \in Seq(Reg), NEW i \in 1..Len(s), InOrder(s, i + 1)
    PROVE  \E m \in i..Len(s) :
               resort(s, i) = MovedTo(s, i, m) /\ InOrder(MovedTo(s, i, m), i)
  <1> DEFINE n == Len(s)
             T == {n + 1} \union {j \in (i + 1)..n : cmp_region(s[i], s[j])}
             stop == Min(T)
             m == stop - 1
             t == MovedTo(s, i, m)
  <1>1. n \in Nat /\ i \in Int /\ 1 <= i /\ i <= n /\ \A k \in 1..n : s[k] \in Reg
    BY SeqFacts
  <1>2. T \subseteq Nat /\ T # {}  BY <1>1
  <1>3. stop \in T /\ \A j \in T : stop <= j
    <2> HIDE DEF T
    <2>. QED  BY <1>2, MinIs
  <1>4. stop \in Int /\ i < stop /\ stop <= n + 1 /\ (stop <= n => cmp_region(s[i], s[stop]))
    BY <1>1, <1>3
  <1>5. \A j \in (i + 1)..n : j < stop => ~cmp_region(s[i], s[j])
    BY <1>1, <1>3
  <1>6. resort(s, i) = MovedTo(s, i, m)
    <2>1. m + 1 = stop  BY <1>4
    <2>2. resort(s, i) = SubSeq(s, 1, i - 1) \o SubSeq(s, i + 1, stop - 1)
                             \o <<s[i]>> \o SubSeq(s, stop, n)
      BY DEF resort
    <2> HIDE DEF stop, T
    <2>. QED  BY <2>1, <2>2 DEF MovedTo
  <1> HIDE DEF stop, T
  <1>7. m \in i..n  BY <1>1, <1>4
  <1>8. /\ t[m] = s[i]
        /\ \A k \in i..(m - 1) : t[k] = s[k + 1]
        /\ \A k \in (m + 1)..n : t[k] = s[k]
        /\ Len(t) = n
    <2>1. m \in Int /\ m \in i..Len(s)  BY <1>7
    <2> HIDE DEF m, n
    <2>2. /\ MovedTo(s, i, m)[m] = s[i]
          /\ \A k \in 1..Len(s) : k < i \/ k > m => MovedTo(s, i, m)[k] = s[k]
          /\ \A k \in i..(m - 1) : MovedTo(s, i, m)[k] = s[k + 1]
          /\ Len(MovedTo(s, i, m)) = Len(s)
      BY <2>1, MovedIs
    <2>. QED  BY <1>1, <1>7, <2>1, <2>2 DEF n
  <1> HIDE DEF t
  <1>9. \A k, l \in (i + 1)..n : k <= l => Leq(s[k], s[l])
    BY DEF InOrder
  <1>10. ASSUME NEW k \in i..n, NEW l \in i..n, k <= l  PROVE Leq(t[k], t[l])
    <2>1. CASE k < m
      <3>1. t[k] = s[k + 1] /\ k + 1 \in (i + 1)..n /\ k + 1 < stop
        <4>1. k \in i..(m - 1) /\ k + 1 \in (i + 1)..n /\ k + 1 < stop
          BY <1>1, <1>4, <1>7, <2>1
        <4>2. t[k] = s[k + 1]  BY <1>8, <4>1
        <4>. QED  BY <4>1, <4>2
      <3>2. CASE l < m
        <4>1. t[l] = s[l + 1] /\ l + 1 \in (i + 1)..n  BY <1>1, <1>7, <1>8, <3>2
        <4>2. k + 1 <= l + 1  BY <1>10
        <4>. QED  BY <1>9, <3>1, <4>1, <4>2
      <3>3. CASE l = m
        <4>1. ~cmp_region(s[i], s[k + 1])  BY <1>5, <3>1
        <4>. QED  BY <1>8, <3>1, <3>3, <4>1 DEF Leq
      <3>4. CASE l > m
        <4>1. t[l] = s[l] /\ l \in (i + 1)..n /\ k + 1 <= l  BY <1>1, <1>7, <1>8, <2>1, <3>4
        <4>. QED  BY <1>9, <3>1, <4>1
      <3>. QED  BY <1>7, <3>2, <3>3, <3>4
    <2>2. CASE k = m
      <3>1. CASE l = m
        <4>1. Leq(s[i], s[i])  BY <1>1, LeqOrder
        <4>. QED  BY <1>8, <2>2, <3>1, <4>1
      <3>2. CASE l # m
        <4>1. t[l] = s[l] /\ l \in (i + 1)..n /\ stop <= l /\ stop \in (i + 1)..n /\ stop <= n
          BY <1>1, <1>4, <1>7, <1>8, <1>10, <2>2, <3>2
        <4>2. Leq(s[stop], s[l])  BY <1>9, <4>1
        <4>3. cmp_region(s[i], s[stop])  BY <1>4, <4>1
        <4>4. s[i] \in Reg /\ s[stop] \in Reg /\ s[l] \in Reg  BY <1>1, <1>4, <4>1
        <4>5. Leq(s[i], s[l])  BY <4>2, <4>3, <4>4, LeqOrder
        <4>. QED  BY <1>8, <2>2, <4>1, <4>5
      <3>. QED  BY <3>1, <3>2
    <2>3. CASE k > m
      <3>1. t[k] = s[k] /\ t[l] = s[l] /\ k \in (i + 1)..n /\ l \in (i + 1)..n
        BY <1>1, <1>7, <1>8, <1>10, <2>3
      <3>. QED  BY <1>9, <1>10, <3>1
    <2>. QED  BY <1>7, <2>1, <2>2, <2>3
  <1>11. InOrder(t, i)  BY <1>8, <1>10 DEF InOrder
  <1>. QED  BY <1>6, <1>7, <1>11 DEF t

-----------------------------------------------------------------------------
(* The strongest type at an address. *)

LEMMA TypeAtIs ==
    ASSUME NEW s \in Seq(Reg), NEW x
    PROVE  /\ TypeAt(s, x) \in 0..7
           /\ \A i \in 1..Len(s) : Covers(s[i], x) => s[i].type <= TypeAt(s, x)
           /\ TypeAt(s, x) # 0 => \E i \in 1..Len(s) : Covers(s[i], x)
                                                         /\ s[i].type = TypeAt(s, x)
  <1> DEFINE over == {i \in 1..Len(s) : Covers(s[i], x)}
             types == {s[i].type : i \in over}
  <1>1. DOMAIN s = 1..Len(s) /\ \A i \in 1..Len(s) : s[i].type \in 1..7
    BY SeqFacts, RegFacts
  <1>2. TypeAt(s, x) = IF over = {} THEN 0 ELSE Max(types)
    BY <1>1 DEF TypeAt
  <1>3. types \subseteq Int /\ \A k \in types : k \in 1..7 /\ k <= 7
    BY <1>1
  <1>4. CASE over = {}  BY <1>2, <1>4
  <1>5. CASE over # {}
    <2> DEFINE b == 7
    <2>1. types # {}  BY <1>5
    <2>2. TypeAt(s, x) = Max(types)  BY <1>2, <1>5
    <2>3. b \in Int /\ \A k \in types : k <= b  BY <1>3
    <2>4. Max(types) \in types /\ \A k \in types : Max(types) >= k
      <3> HIDE DEF types, b
      <3>. QED  BY <1>3, <2>1, <2>3, MaxIs
    <2>5. \A i \in over : s[i].type \in types  OBVIOUS
    <2>6. PICK i \in over : s[i].type = Max(types)  BY <2>4
    <2> DEFINE m == Max(types)
    <2>7. \A k \in over : s[k].type <= m  BY <1>1, <1>3, <2>4, <2>5
    <2>8. m \in 1..7 /\ m = s[i].type  BY <1>1, <2>6
    <2> HIDE DEF m, types
    <2>. QED  BY <2>2, <2>6, <2>7, <2>8 DEF m
  <1>. QED  BY <1>4, <1>5

\* What covers an address in one list has its match in the other.
Matched(s, t, x) ==
    \A i \in 1..Len(s) : Covers(s[i], x) =>
        \E j \in 1..Len(t) : Covers(t[j], x) /\ s[i].type <= t[j].type

LEMMA TypeAtSame ==
    ASSUME NEW s \in Seq(Reg), NEW t \in Seq(Reg), NEW x, Matched(s, t, x), Matched(t, s, x)
    PROVE  TypeAt(s, x) = TypeAt(t, x)
  <1>1. /\ \A i \in 1..Len(s) : s[i].type \in 1..7
        /\ \A i \in 1..Len(t) : t[i].type \in 1..7
    BY SeqFacts, RegFacts
  <1>2. /\ TypeAt(s, x) \in 0..7
        /\ \A i \in 1..Len(s) : Covers(s[i], x) => s[i].type <= TypeAt(s, x)
        /\ TypeAt(s, x) # 0 => \E i \in 1..Len(s) : Covers(s[i], x)
                                                      /\ s[i].type = TypeAt(s, x)
    BY TypeAtIs
  <1>3. /\ TypeAt(t, x) \in 0..7
        /\ \A i \in 1..Len(t) : Covers(t[i], x) => t[i].type <= TypeAt(t, x)
        /\ TypeAt(t, x) # 0 => \E i \in 1..Len(t) : Covers(t[i], x)
                                                      /\ t[i].type = TypeAt(t, x)
    BY TypeAtIs
  <1> DEFINE a == TypeAt(s, x)
             b == TypeAt(t, x)
  <1>4. a <= b
    <2>1. CASE a = 0  BY <1>3, <2>1
    <2>2. CASE a # 0
      <3>1. PICK i \in 1..Len(s) : Covers(s[i], x) /\ s[i].type = a
        BY <1>2, <2>2
      <3>2. PICK j \in 1..Len(t) : Covers(t[j], x) /\ s[i].type <= t[j].type
        BY <3>1, Zenon DEF Matched
      <3> DEFINE c == s[i].type
                 d == t[j].type
      <3>3. c \in Int /\ d \in Int /\ b \in Int /\ c = a /\ c <= d /\ d <= b
        BY <1>1, <1>3, <3>1, <3>2, SMTT(30)
      <3> HIDE DEF a, b, c, d
      <3>. QED  BY <3>3
    <2>. QED  BY <2>1, <2>2
  <1>5. b <= a
    <2>1. CASE b = 0  BY <1>2, <2>1
    <2>2. CASE b # 0
      <3>1. PICK i \in 1..Len(t) : Covers(t[i], x) /\ t[i].type = b
        BY <1>3, <2>2
      <3>2. PICK j \in 1..Len(s) : Covers(s[j], x) /\ t[i].type <= s[j].type
        BY <3>1, Zenon DEF Matched
      <3> DEFINE c == t[i].type
                 d == s[j].type
      <3>3. c \in Int /\ d \in Int /\ a \in Int /\ c = b /\ c <= d /\ d <= a
        BY <1>1, <1>2, <3>1, <3>2, SMTT(60)
      <3> HIDE DEF a, b, c, d
      <3>. QED  BY <3>3
    <2>. QED  BY <2>1, <2>2
  <1>6. a \in Int /\ b \in Int  BY <1>2, <1>3
  <1> HIDE DEF a, b
  <1>7. a = b  BY <1>4, <1>5, <1>6
  <1>. QED  BY <1>7 DEF a, b

\* Lists with the same regions at other positions.
LEMMA TypeAtMoved ==
    ASSUME NEW s \in Seq(Reg), NEW t \in Seq(Reg), NEW x,
           \A i \in 1..Len(s) : \E j \in 1..Len(t) : t[j] = s[i],
           \A j \in 1..Len(t) : \E i \in 1..Len(s) : s[i] = t[j]
    PROVE  TypeAt(s, x) = TypeAt(t, x)
  <1>1. /\ \A i \in 1..Len(s) : s[i].type <= s[i].type
        /\ \A i \in 1..Len(t) : t[i].type <= t[i].type
    <2>1. \A r \in Reg : r.type <= r.type
      <3> SUFFICES ASSUME NEW r \in Reg  PROVE r.type <= r.type  OBVIOUS
      <3>1. r.type \in 1..7  BY RegFacts
      <3>. QED  BY <3>1
    <2>2. (\A i \in 1..Len(s) : s[i] \in Reg) /\ (\A i \in 1..Len(t) : t[i] \in Reg)
      BY SeqFacts
    <2>. QED  BY <2>1, <2>2, Zenon
  <1>2. Matched(s, t, x)
    <2> SUFFICES ASSUME NEW i \in 1..Len(s), Covers(s[i], x)
                 PROVE  \E j \in 1..Len(t) : Covers(t[j], x) /\ s[i].type <= t[j].type
      BY DEF Matched
    <2>1. PICK j \in 1..Len(t) : t[j] = s[i]  OBVIOUS
    <2>2. s[i].type <= s[i].type  BY <1>1, Zenon
    <2>. QED  BY <2>1, <2>2, Zenon
  <1>3. Matched(t, s, x)
    <2> SUFFICES ASSUME NEW j \in 1..Len(t), Covers(t[j], x)
                 PROVE  \E i \in 1..Len(s) : Covers(s[i], x) /\ t[j].type <= s[i].type
      BY DEF Matched
    <2>1. PICK i \in 1..Len(s) : s[i] = t[j]  OBVIOUS
    <2>2. t[j].type <= t[j].type  BY <1>1, Zenon
    <2>. QED  BY <2>1, <2>2, Zenon
  <1>. QED  BY <1>2, <1>3, TypeAtSame

LEMMA TypeAtMovedTo ==
    ASSUME NEW s \in Seq(Reg), NEW i \in 1..Len(s), NEW m \in i..Len(s), NEW x
    PROVE  TypeAt(MovedTo(s, i, m), x) = TypeAt(s, x)
  <1> DEFINE t == MovedTo(s, i, m)
  <1>1. Len(s) \in Nat /\ i \in Int /\ m \in Int /\ 1 <= i /\ i <= m /\ m <= Len(s)
    BY SeqFacts
  <1>2. /\ t \in Seq(Reg) /\ Len(t) = Len(s) /\ t[m] = s[i]
        /\ \A k \in 1..Len(s) : k < i \/ k > m => t[k] = s[k]
        /\ \A k \in i..(m - 1) : t[k] = s[k + 1]
    BY MovedIs
  <1> HIDE DEF t
  <1>3. ASSUME NEW k \in 1..Len(s)  PROVE \E j \in 1..Len(t) : t[j] = s[k]
    <2>1. CASE k < i \/ k > m  BY <1>2, <2>1
    <2>2. CASE k = i  BY <1>1, <1>2, <2>2
    <2>3. CASE i < k /\ k <= m
      <3>1. k - 1 \in i..(m - 1) /\ k - 1 \in 1..Len(t) /\ (k - 1) + 1 = k
        BY <1>1, <1>2, <2>3
      <3>2. t[k - 1] = s[(k - 1) + 1]  BY <1>2, <3>1
      <3>. QED  BY <3>1, <3>2
    <2>. QED  BY <1>1, <2>1, <2>2, <2>3
  <1>4. ASSUME NEW j \in 1..Len(t)  PROVE \E k \in 1..Len(s) : s[k] = t[j]
    <2>1. CASE j < i \/ j > m  BY <1>2, <2>1
    <2>2. CASE j = m  BY <1>1, <1>2, <2>2
    <2>3. CASE i <= j /\ j < m
      <3>1. t[j] = s[j + 1] /\ j + 1 \in 1..Len(s)  BY <1>1, <1>2, <2>3
      <3>. QED  BY <3>1
    <2>. QED  BY <1>1, <1>2, <2>1, <2>2, <2>3
  <1>5. TypeAt(s, x) = TypeAt(t, x)  BY <1>2, <1>3, <1>4, TypeAtMoved
  <1>. QED  BY <1>5 DEF t

-----------------------------------------------------------------------------
(* One region of a list changed. *)

LEMMA SpanIs ==
    ASSUME NEW s \in Seq(Reg), NEW i \in 1..Len(s), NEW a \in Nat, NEW b \in Nat,
           a < b, b <= Bytes
    PROVE  /\ SetSpan(s, i, a, b) \in Seq(Reg) /\ Len(SetSpan(s, i, a, b)) = Len(s)
           /\ \A k \in 1..Len(s) : k # i => SetSpan(s, i, a, b)[k] = s[k]
           /\ SetSpan(s, i, a, b)[i]
                  = [addr |-> a, size |-> b - a, type |-> s[i].type]
           /\ End(SetSpan(s, i, a, b)[i]) = b
  <1> DEFINE r == [addr |-> a, size |-> b - a, type |-> s[i].type]
             t == [s EXCEPT ![i] = r]
  <1>1. s[i] \in Reg /\ s \in [1..Len(s) -> Reg]  BY SeqFacts, LenProperties
  <1>2. /\ s[i].type \in 1..7
        /\ s[i] = [addr |-> s[i].addr, size |-> s[i].size, type |-> s[i].type]
    BY <1>1, RegFacts
  <1>3. r \in Reg
    <2>1. b - a \in Nat /\ a + (b - a) <= Bytes /\ b - a # 0
      BY PhysMapAssumption
    <2>. QED  BY <1>2, <2>1, RegIs
  <1>4. SetSpan(s, i, a, b) = t
    <2>1. [s[i] EXCEPT !.addr = a, !.size = b - a] = r
      <3>1. s[i] \in Region  BY <1>1 DEF Reg
      <3> DEFINE e == b - a
                 g == [s[i] EXCEPT !.addr = a, !.size = e]
      <3>2. e \in 0..Bytes /\ a \in 0..Bytes  BY PhysMapAssumption
      <3> HIDE DEF e
      <3>3. g \in Region  BY <3>1, <3>2 DEF Region
      <3>4. g.addr = a /\ g.size = e /\ g.type = s[i].type  BY <3>1 DEF Region
      <3> HIDE DEF g
      <3>5. g = [addr |-> a, size |-> e, type |-> s[i].type]  BY <3>3, <3>4 DEF Region
      <3>. QED  BY <3>5 DEF g, e
    <2>2. SetSpan(s, i, a, b) = [s EXCEPT ![i] = [s[i] EXCEPT !.addr = a, !.size = b - a]]
      BY <1>1 DEF SetSpan
    <2>. QED  BY <2>1, <2>2
  <1>5. /\ t \in Seq(Reg) /\ Len(t) = Len(s)
        /\ \A k \in 1..Len(s) : t[k] = IF k = i THEN r ELSE s[k]
    <2> HIDE DEF r
    <2>. QED  BY <1>3, ExceptSeq
  <1>6. End(r) = b  BY DEF End
  <1> HIDE DEF t, r
  <1>. QED  BY <1>4, <1>5, <1>6 DEF r

LEMMA SizeIs ==
    ASSUME NEW s \in Seq(Reg), NEW i \in 1..Len(s), NEW n \in Nat,
           n # 0, s[i].addr + n <= Bytes
    PROVE  SetSize(s, i, n) = SetSpan(s, i, s[i].addr, s[i].addr + n)
  <1>1. s[i] \in Reg /\ s \in [1..Len(s) -> Reg]  BY SeqFacts, LenProperties
  <1>2. /\ s[i].addr \in Nat
        /\ s[i] = [addr |-> s[i].addr, size |-> s[i].size, type |-> s[i].type]
    BY <1>1, RegFacts
  <1>3. (s[i].addr + n) - s[i].addr = n  BY <1>2
  <1>4. [s[i] EXCEPT !.addr = s[i].addr, !.size = n] = [s[i] EXCEPT !.size = n]
    <2>1. s[i] \in Region  BY <1>1 DEF Reg
    <2>2. \A c \in Region : [c EXCEPT !.addr = c.addr, !.size = n] = [c EXCEPT !.size = n]
      BY DEF Region
    <2>. QED  BY <2>1, <2>2, Zenon
  <1>5. SetSpan(s, i, s[i].addr, s[i].addr + n)
            = [s EXCEPT ![i] = [s[i] EXCEPT !.addr = s[i].addr, !.size = n]]
    BY <1>1, <1>3 DEF SetSpan
  <1>6. SetSize(s, i, n) = [s EXCEPT ![i] = [s[i] EXCEPT !.size = n]]
    BY <1>1 DEF SetSize
  <1>. QED  BY <1>4, <1>5, <1>6

LEMMA ResortIs ==
    ASSUME NEW s \in Seq(Reg), NEW i \in 1..Len(s), InOrder(s, i + 1)
    PROVE  /\ resort(s, i) \in Seq(Reg) /\ Len(resort(s, i)) = Len(s)
           /\ InOrder(resort(s, i), i)
           /\ \A k \in 1..(i - 1) : resort(s, i)[k] = s[k]
           /\ \A k \in i..Len(s) : \E j \in i..Len(s) : resort(s, i)[k] = s[j]
           /\ \A x : TypeAt(resort(s, i), x) = TypeAt(s, x)
  <1>1. PICK m \in i..Len(s) :
            resort(s, i) = MovedTo(s, i, m) /\ InOrder(MovedTo(s, i, m), i)
    BY ResortInOrder
  <1> DEFINE t == MovedTo(s, i, m)
  <1>2. Len(s) \in Nat /\ i \in Int /\ m \in Int /\ 1 <= i /\ i <= m /\ m <= Len(s)
    BY SeqFacts
  <1>3. /\ t \in Seq(Reg) /\ Len(t) = Len(s) /\ t[m] = s[i]
        /\ \A k \in 1..Len(s) : k < i \/ k > m => t[k] = s[k]
        /\ \A k \in i..(m - 1) : t[k] = s[k + 1]
    BY MovedIs
  <1>4. \A x : TypeAt(t, x) = TypeAt(s, x)  BY TypeAtMovedTo
  <1> HIDE DEF t
  <1>5. ASSUME NEW k \in i..Len(s)  PROVE \E j \in i..Len(s) : t[k] = s[j]
    <2>1. CASE k < m
      <3>1. t[k] = s[k + 1] /\ k + 1 \in i..Len(s)  BY <1>2, <1>3, <2>1
      <3>. QED  BY <3>1
    <2>2. CASE k = m  BY <1>2, <1>3, <2>2
    <2>3. CASE k > m  BY <1>2, <1>3, <2>3
    <2>. QED  BY <1>2, <2>1, <2>2, <2>3
  <1>6. \A k \in 1..(i - 1) : t[k] = s[k]  BY <1>2, <1>3
  <1>7. resort(s, i) = t /\ InOrder(t, i)  BY <1>1 DEF t
  <1>. QED  BY <1>3, <1>4, <1>5, <1>6, <1>7

-----------------------------------------------------------------------------
(* What the steps of the loops do to the types. *)

LEMMA RemoveSame ==
    ASSUME NEW s \in Seq(Reg), NEW i \in 1..Len(s), NEW x,
           Covers(s[i], x) => \E k \in 1..Len(s) : k # i /\ Covers(s[k], x)
                                                         /\ s[i].type <= s[k].type
    PROVE  TypeAt(RemoveAt(s, i), x) = TypeAt(s, x)
  <1> DEFINE t == RemoveAt(s, i)
  <1>1. Len(s) \in Nat /\ i \in Int /\ \A k \in 1..Len(s) : s[k] \in Reg
    BY SeqFacts
  <1>2. /\ t \in Seq(Reg) /\ Len(t) = Len(s) - 1
        /\ \A k \in 1..(Len(s) - 1) : t[k] = IF k < i THEN s[k] ELSE s[k + 1]
    BY RemoveIs
  <1> HIDE DEF t
  <1>3. \A k \in 1..Len(s) : s[k].type <= s[k].type
    <2> SUFFICES ASSUME NEW k \in 1..Len(s)  PROVE s[k].type <= s[k].type  OBVIOUS
    <2>1. s[k].type \in 1..7  BY <1>1, RegFacts
    <2>. QED  BY <2>1
  <1>4. ASSUME NEW k \in 1..Len(s), k # i  PROVE \E j \in 1..Len(t) : t[j] = s[k]
    <2>1. CASE k < i
      <3>1. t[k] = s[k] /\ k \in 1..Len(t)  BY <1>1, <1>2, <2>1
      <3>. QED  BY <3>1
    <2>2. CASE k > i
      <3>1. k - 1 \in 1..(Len(s) - 1) /\ ~(k - 1 < i) /\ (k - 1) + 1 = k
        BY <1>1, <2>2
      <3>2. t[k - 1] = s[(k - 1) + 1]  BY <1>2, <3>1
      <3>. QED  BY <1>2, <3>1, <3>2
    <2>. QED  BY <1>1, <1>4, <2>1, <2>2
  <1>5. Matched(s, t, x)
    <2> SUFFICES ASSUME NEW k \in 1..Len(s), Covers(s[k], x)
                 PROVE  \E j \in 1..Len(t) : Covers(t[j], x) /\ s[k].type <= t[j].type
      BY DEF Matched
    <2>1. PICK l \in 1..Len(s) : l # i /\ Covers(s[l], x) /\ s[k].type <= s[l].type
      BY <1>3
    <2>2. PICK j \in 1..Len(t) : t[j] = s[l]  BY <1>4, <2>1
    <2>. QED  BY <2>1, <2>2
  <1>6. Matched(t, s, x)
    <2> SUFFICES ASSUME NEW k \in 1..Len(t), Covers(t[k], x)
                 PROVE  \E j \in 1..Len(s) : Covers(s[j], x) /\ t[k].type <= s[j].type
      BY DEF Matched
    <2>1. PICK j \in 1..Len(s) : t[k] = s[j]
      <3>1. k \in 1..Len(s) /\ k + 1 \in 1..Len(s)  BY <1>1, <1>2
      <3>. QED  BY <1>2, <3>1
    <2>. QED  BY <1>3, <2>1
  <1>7. TypeAt(s, x) = TypeAt(t, x)  BY <1>2, <1>5, <1>6, TypeAtSame
  <1>. QED  BY <1>7 DEF t

LEMMA SpanSame ==
    ASSUME NEW s \in Seq(Reg), NEW i \in 1..Len(s), NEW a \in Nat, NEW b \in Nat,
           a < b, s[i].addr <= a, b <= End(s[i]), NEW x \in Int,
           Covers(s[i], x) => \/ a <= x /\ x < b
                              \/ \E k \in 1..Len(s) : k # i /\ Covers(s[k], x)
                                                            /\ s[i].type <= s[k].type
    PROVE  TypeAt(SetSpan(s, i, a, b), x) = TypeAt(s, x)
  <1> DEFINE t == SetSpan(s, i, a, b)
  <1>1. Len(s) \in Nat /\ i \in Int /\ \A k \in 1..Len(s) : s[k] \in Reg
    BY SeqFacts
  <1>2. s[i].addr \in Nat /\ End(s[i]) \in Nat /\ End(s[i]) <= Bytes
    BY <1>1, RegFacts, PhysMapAssumption
  <1>3. /\ t \in Seq(Reg) /\ Len(t) = Len(s)
        /\ \A k \in 1..Len(s) : k # i => t[k] = s[k]
        /\ t[i].addr = a /\ t[i].type = s[i].type /\ End(t[i]) = b
    <2>1. b <= Bytes  BY <1>2, PhysMapAssumption
    <2>2. /\ t \in Seq(Reg) /\ Len(t) = Len(s)
          /\ \A k \in 1..Len(s) : k # i => t[k] = s[k]
          /\ t[i] = [addr |-> a, size |-> b - a, type |-> s[i].type] /\ End(t[i]) = b
      BY <2>1, SpanIs, ZenonT(60)
    <2> HIDE DEF t
    <2>3. t[i].addr = a /\ t[i].type = s[i].type  BY <2>2
    <2>. QED  BY <2>2, <2>3
  <1> HIDE DEF t
  <1>4. \A k \in 1..Len(s) : s[k].type <= s[k].type
    <2> SUFFICES ASSUME NEW k \in 1..Len(s)  PROVE s[k].type <= s[k].type  OBVIOUS
    <2>1. s[k].type \in 1..7  BY <1>1, RegFacts
    <2>. QED  BY <2>1, SMTT(30)
  <1>5. Covers(t[i], x) <=> a <= x /\ x < b  BY <1>3 DEF Covers
  <1>6. Covers(t[i], x) => Covers(s[i], x)  BY <1>2, <1>5 DEF Covers
  <1>7. Matched(s, t, x)
    <2> SUFFICES ASSUME NEW k \in 1..Len(s), Covers(s[k], x)
                 PROVE  \E j \in 1..Len(s) : Covers(t[j], x) /\ s[k].type <= t[j].type
      BY <1>3 DEF Matched
    <2>1. CASE k # i  BY <1>3, <1>4, <2>1
    <2>2. CASE k = i /\ Covers(t[i], x)  BY <1>3, <1>4, <2>2
    <2>3. CASE k = i /\ ~Covers(t[i], x)
      <3>1. PICK l \in 1..Len(s) : l # i /\ Covers(s[l], x) /\ s[i].type <= s[l].type
        BY <1>5, <2>3
      <3>. QED  BY <1>3, <2>3, <3>1
    <2>. QED  BY <2>1, <2>2, <2>3
  <1>8. Matched(t, s, x)
    <2> SUFFICES ASSUME NEW k \in 1..Len(s), Covers(t[k], x)
                 PROVE  \E j \in 1..Len(s) : Covers(s[j], x) /\ t[k].type <= s[j].type
      BY <1>3 DEF Matched
    <2>1. CASE k # i  BY <1>3, <1>4, <2>1
    <2>2. CASE k = i  BY <1>3, <1>4, <1>6, <2>2
    <2>. QED  BY <2>1, <2>2
  <1>9. TypeAt(s, x) = TypeAt(t, x)  BY <1>3, <1>7, <1>8, TypeAtSame
  <1>. QED  BY <1>9 DEF t

\* Region c, of which a .. b - 1 is before and d .. e - 1 behind the next one.
SticksOut(s, c, a, b, d, e) ==
    /\ s[c].addr = a /\ s[c + 1].addr = b /\ End(s[c + 1]) = d /\ End(s[c]) = e
    /\ a < b /\ b < d /\ d < e
    /\ s[c].type <= s[c + 1].type

SplitAt(s, c, a, b, d, e) ==
    InsertAt(SetSize(s, c, b - a), c + 2,
             [addr |-> d, size |-> e - d, type |-> s[c].type])

\* u is s with what remains of region c on both sides of the next one.
CutIn3(s, u, c, a, d) ==
    /\ u \in Seq(Reg) /\ Len(u) = Len(s) + 1
    /\ u[c].addr = a /\ u[c + 2].addr = d
    /\ \A k \in 1..Len(s) : k < c + 2 /\ k # c => u[k] = s[k]
    /\ \A k \in (c + 2)..Len(s) : u[k + 1] = s[k]
    /\ \A x \in Int : TypeAt(u, x) = TypeAt(s, x)

LEMMA InsertReg ==
    ASSUME NEW s \in Seq(Reg), NEW i \in 1..(Len(s) + 1), NEW e \in Reg
    PROVE  /\ InsertAt(s, i, e) \in Seq(Reg) /\ Len(InsertAt(s, i, e)) = Len(s) + 1
           /\ \A k \in 1..(Len(s) + 1) :
                  InsertAt(s, i, e)[k] = IF k < i THEN s[k] ELSE IF k = i THEN e ELSE s[k - 1]
  <1> DEFINE S == Reg
  <1>1. s \in Seq(S) /\ e \in S  OBVIOUS
  <1> HIDE DEF S
  <1>2. /\ InsertAt(s, i, e) \in Seq(S) /\ Len(InsertAt(s, i, e)) = Len(s) + 1
        /\ \A k \in 1..(Len(s) + 1) :
               InsertAt(s, i, e)[k] = IF k < i THEN s[k] ELSE IF k = i THEN e ELSE s[k - 1]
    BY <1>1, InsertIs, SMTT(20)
  <1>. QED  BY <1>2 DEF S

LEMMA SplitSame ==
    ASSUME NEW s \in Seq(Reg), NEW c \in 1..(Len(s) - 1),
           NEW a \in Nat, NEW b \in Nat, NEW d \in Nat, NEW e \in Nat,
           SticksOut(s, c, a, b, d, e)
    PROVE  CutIn3(s, SplitAt(s, c, a, b, d, e), c, a, d)
  <1> DEFINE n == Len(s)
             u == SplitAt(s, c, a, b, d, e)
             r == [addr |-> d, size |-> e - d, type |-> s[c].type]
             t == SetSpan(s, c, a, b)
  <1>1. n \in Nat /\ c \in Int /\ 1 <= c /\ c + 1 <= n /\ \A k \in 1..n : s[k] \in Reg
    BY SeqFacts
  <1>2. s[c] \in Reg /\ s[c + 1] \in Reg  BY <1>1
  <1>3. /\ e <= Bytes /\ Bytes \in Nat /\ a < b /\ b < d /\ d < e
        /\ s[c].addr = a /\ s[c].type <= s[c + 1].type
        /\ s[c + 1].addr = b /\ End(s[c + 1]) = d /\ End(s[c]) = e
        /\ s[c].type \in 1..7 /\ s[c].size = e - a /\ s[c].size \in Nat
    <2>1. /\ s[c].addr \in Nat /\ s[c].size \in Nat /\ s[c].type \in 1..7
          /\ s[c].addr + s[c].size <= Bytes /\ End(s[c]) = s[c].addr + s[c].size
      BY <1>2, RegFacts
    <2>2. /\ s[c + 1].addr \in Nat /\ s[c + 1].size \in Nat
          /\ End(s[c + 1]) = s[c + 1].addr + s[c + 1].size
      BY <1>2, RegFacts
    <2>3. /\ s[c].addr = a /\ End(s[c]) = e
          /\ a < b /\ b < d /\ d < e /\ s[c].type <= s[c + 1].type
          /\ s[c + 1].addr = b /\ End(s[c + 1]) = d
      BY DEF SticksOut
    <2> DEFINE z == s[c].size
    <2>4. z \in Nat /\ e = a + z /\ e <= Bytes  BY <2>1, <2>3
    <2> HIDE DEF z
    <2>5. z = e - a  BY <2>4
    <2>. QED  BY <2>1, <2>3, <2>4, <2>5, PhysMapAssumption DEF z
  <1>4. r \in Reg
    <2> DEFINE z == e - d
    <2>1. z \in Nat /\ d + z <= Bytes /\ z # 0  BY <1>3
    <2> HIDE DEF z
    <2>2. [addr |-> d, size |-> z, type |-> s[c].type] \in Reg  BY <1>3, <2>1, RegIs
    <2>. QED  BY <2>2 DEF z
  <1>5. SetSize(s, c, b - a) = t
    <2> DEFINE z == b - a
    <2>1. z \in Nat /\ z # 0 /\ a + z <= Bytes /\ a + z = b  BY <1>3, SMTT(30)
    <2> HIDE DEF z
    <2>2. c \in 1..Len(s) /\ s[c].addr + z <= Bytes  BY <1>1, <1>3, <2>1
    <2>3. SetSize(s, c, z) = SetSpan(s, c, s[c].addr, s[c].addr + z)  BY <2>1, <2>2, SizeIs
    <2>. QED  BY <1>3, <2>1, <2>3 DEF z
  <1>6. /\ t \in Seq(Reg) /\ Len(t) = n
        /\ \A k \in 1..n : k # c => t[k] = s[k]
        /\ t[c].addr = a /\ t[c].size = b - a /\ t[c].type = s[c].type /\ End(t[c]) = b
    <2>1. c \in 1..Len(s) /\ b <= Bytes  BY <1>1, <1>3
    <2>2. /\ t \in Seq(Reg) /\ Len(t) = Len(s)
          /\ \A k \in 1..Len(s) : k # c => t[k] = s[k]
          /\ t[c] = [addr |-> a, size |-> b - a, type |-> s[c].type] /\ End(t[c]) = b
      BY <1>3, <2>1, SpanIs, SMTT(30)
    <2> HIDE DEF t
    <2>3. t[c].addr = a /\ t[c].size = b - a /\ t[c].type = s[c].type  BY <2>2
    <2>. QED  BY <2>2, <2>3
  <1> HIDE DEF t
  <1>7. u = InsertAt(t, c + 2, r)  BY <1>5 DEF SplitAt
  <1> HIDE DEF u
  <1>8. /\ r.addr = d /\ r.type = s[c].type /\ End(r) = e
    BY <1>3 DEF End
  <1> HIDE DEF r
  <1>9. /\ u \in Seq(Reg) /\ Len(u) = n + 1
        /\ \A k \in 1..(n + 1) : u[k] = IF k < c + 2 THEN t[k]
                                        ELSE IF k = c + 2 THEN r ELSE t[k - 1]
    <2> DEFINE q == c + 2
    <2>1. q \in 1..(Len(t) + 1)  BY <1>1, <1>6, SMTT(30)
    <2> HIDE DEF q
    <2>2. /\ InsertAt(t, q, r) \in Seq(Reg) /\ Len(InsertAt(t, q, r)) = Len(t) + 1
          /\ \A k \in 1..(Len(t) + 1) : InsertAt(t, q, r)[k]
                 = IF k < q THEN t[k] ELSE IF k = q THEN r ELSE t[k - 1]
      <3>1. t \in Seq(Reg)  BY <1>6
      <3>. QED  BY <1>4, <2>1, <3>1, InsertReg, ZenonT(120)
    <2>. QED  BY <1>6, <1>7, <2>2 DEF q
  <1>10. u[c] = t[c] /\ u[c + 2] = r  BY <1>1, <1>9
  <1>11. ASSUME NEW k \in 1..n, k < c + 2, k # c  PROVE u[k] = s[k]
    <2>1. k \in 1..(n + 1)  BY <1>1
    <2>2. u[k] = t[k]  BY <1>9, <1>11, <2>1
    <2>. QED  BY <1>6, <1>11, <2>2
  <1>12. ASSUME NEW k \in (c + 2)..n  PROVE u[k + 1] = s[k]
    <2>1. k + 1 \in 1..(n + 1) /\ ~(k + 1 < c + 2) /\ k + 1 # c + 2 /\ (k + 1) - 1 = k
          /\ k \in 1..n /\ k # c
      BY <1>1
    <2>2. u[k + 1] = t[(k + 1) - 1]  BY <1>9, <2>1
    <2>. QED  BY <1>6, <2>1, <2>2
  <1>13. ASSUME NEW x \in Int  PROVE TypeAt(u, x) = TypeAt(s, x)
    <2>1. \A k \in 1..n : s[k].type <= s[k].type
      <3> SUFFICES ASSUME NEW k \in 1..n  PROVE s[k].type <= s[k].type  OBVIOUS
      <3>1. s[k].type \in 1..7  BY <1>1, RegFacts
      <3>. QED  BY <3>1, SMTT(30)
    <2>2. /\ Covers(u[c], x) <=> a <= x /\ x < b
          /\ Covers(s[c + 1], x) <=> b <= x /\ x < d
          /\ Covers(u[c + 2], x) <=> d <= x /\ x < e
          /\ Covers(s[c], x) <=> a <= x /\ x < e
      BY <1>3, <1>6, <1>8, <1>10 DEF Covers
    <2>3. /\ u[c + 1] = s[c + 1] /\ u[c].type = s[c].type /\ u[c + 2].type = s[c].type
          /\ c \in 1..Len(u) /\ c + 1 \in 1..Len(u) /\ c + 2 \in 1..Len(u)
          /\ c \in 1..n /\ s[c].type <= s[c].type /\ s[c].type <= s[c + 1].type
      BY <1>3, <1>1, <1>6, <1>8, <1>9, <1>10, <1>11, <2>1
    <2>4. Matched(s, u, x)
      <3> SUFFICES ASSUME NEW k \in 1..n, Covers(s[k], x)
                   PROVE  \E j \in 1..Len(u) : Covers(u[j], x) /\ s[k].type <= u[j].type
        BY DEF Matched
      <3>1. CASE k = c
        <4>1. Covers(u[c], x) \/ Covers(u[c + 1], x) \/ Covers(u[c + 2], x)
          <5>1. Covers(s[c], x)  BY <3>1
          <5>2. (a <= x /\ x < b) \/ (b <= x /\ x < d) \/ (d <= x /\ x < e)
            BY <1>3, <2>2, <5>1
          <5>. QED  BY <2>2, <2>3, <5>2
        <4>. QED  BY <2>3, <3>1, <4>1
      <3>2. CASE k # c /\ k < c + 2
        <4>1. k \in 1..Len(u) /\ u[k] = s[k]  BY <1>9, <1>11, <3>2
        <4>. QED  BY <2>1, <4>1
      <3>3. CASE ~(k < c + 2)
        <4>1. k + 1 \in 1..Len(u) /\ u[k + 1] = s[k]  BY <1>1, <1>9, <1>12, <3>3, SMTT(30)
        <4>. QED  BY <2>1, <4>1
      <3>. QED  BY <3>1, <3>2, <3>3
    <2>5. Matched(u, s, x)
      <3> SUFFICES ASSUME NEW k \in 1..Len(u), Covers(u[k], x)
                   PROVE  \E j \in 1..n : Covers(s[j], x) /\ u[k].type <= s[j].type
        BY DEF Matched
      <3>1. CASE k = c \/ k = c + 2
        <4>1. Covers(s[c], x)  BY <1>3, <2>2, <3>1, SMTT(30)
        <4>. QED  BY <2>3, <3>1, <4>1
      <3>2. CASE k # c /\ k < c + 2
        <4>1. k \in 1..n /\ u[k] = s[k]  BY <1>1, <1>9, <1>11, <3>2
        <4>. QED  BY <2>1, <4>1
      <3>3. CASE k > c + 2
        <4> DEFINE l == k - 1
        <4>1. l \in (c + 2)..n /\ l \in 1..n /\ l + 1 = k  BY <1>1, <1>9, <3>3, SMTT(30)
        <4> HIDE DEF l
        <4>2. u[k] = s[l]  BY <1>12, <4>1
        <4>. QED  BY <2>1, <4>1, <4>2
      <3>. QED  BY <1>1, <3>1, <3>2, <3>3
    <2>6. TypeAt(s, x) = TypeAt(u, x)  BY <1>9, <2>4, <2>5, TypeAtSame
    <2>. QED  BY <2>6
  <1>14. CutIn3(s, u, c, a, d)
    BY <1>6, <1>8, <1>9, <1>10, <1>11, <1>12, <1>13 DEF CutIn3
  <1>. QED  BY <1>14 DEF u

-----------------------------------------------------------------------------
(* A turn of the sweep: what is before position c stays as it is. *)

\* The regions up to position m are not empty and end before all behind them.
Clear(s, m) ==
    \A i \in 1..m : /\ s[i].size # 0
                    /\ \A j \in (i + 1)..Len(s) : End(s[i]) <= s[j].addr

\* t is what a turn at position c leaves of s.
Swept(s, t, c) ==
    /\ t \in Seq(Reg) /\ c \in 1..Len(t)
    /\ Clear(t, c - 1) /\ InOrder(t, c)
    /\ \A x \in Int : TypeAt(t, x) = TypeAt(s, x)

LEMMA ClearKept ==
    ASSUME NEW s \in Seq(Reg), NEW t \in Seq(Reg), NEW c \in Nat, c <= Len(s) + 1,
           Clear(s, c - 1),
           \A i \in 1..(c - 1) : t[i] = s[i],
           \A j \in c..Len(t) : \E k \in c..Len(s) : s[k].addr <= t[j].addr
    PROVE  Clear(t, c - 1)
  <1>1. Len(s) \in Nat /\ Len(t) \in Nat /\ \A k \in 1..Len(s) : s[k] \in Reg
    BY SeqFacts
  <1>2. \A k \in 1..Len(t) : t[k] \in Reg  BY SeqFacts
  <1> SUFFICES ASSUME NEW i \in 1..(c - 1)
               PROVE  /\ t[i].size # 0
                      /\ \A j \in (i + 1)..Len(t) : End(t[i]) <= t[j].addr
    BY DEF Clear
  <1>3. /\ t[i] = s[i] /\ s[i].size # 0
        /\ \A j \in (i + 1)..Len(s) : End(s[i]) <= s[j].addr
    BY DEF Clear
  <1>4. ASSUME NEW j \in (i + 1)..Len(t)  PROVE End(s[i]) <= t[j].addr
    <2>1. CASE j < c
      <3>1. t[j] = s[j] /\ j \in (i + 1)..Len(s)  BY <1>1, <2>1
      <3>. QED  BY <1>3, <3>1
    <2>2. CASE ~(j < c)
      <3>1. j \in c..Len(t) /\ j \in 1..Len(t)  BY <1>1, <2>2
      <3>2. PICK k \in c..Len(s) : s[k].addr <= t[j].addr  BY <3>1
      <3>3. k \in (i + 1)..Len(s) /\ k \in 1..Len(s) /\ i \in 1..Len(s)  BY <1>1
      <3>4. End(s[i]) <= s[k].addr  BY <1>3, <3>3
      <3> DEFINE p == End(s[i])
                 q == s[k].addr
                 r == t[j].addr
      <3>5. p \in Int /\ q \in Int /\ r \in Int /\ p <= q /\ q <= r
        <4>1. s[i] \in Reg /\ s[k] \in Reg /\ t[j] \in Reg  BY <1>1, <1>2, <3>1, <3>3
        <4>2. End(s[i]) \in Nat /\ s[k].addr \in Nat /\ t[j].addr \in Nat  BY <4>1, RegFacts
        <4>. QED  BY <3>2, <3>4, <4>2, SMTT(30)
      <3> HIDE DEF p, q, r
      <3>6. p <= r  BY <3>5
      <3>. QED  BY <3>6 DEF p, r
    <2>. QED  BY <2>1, <2>2
  <1>. QED  BY <1>3, <1>4

LEMMA SweepRemove ==
    ASSUME NEW s \in Seq(Reg), NEW c \in 1..(Len(s) - 1), Clear(s, c - 1), InOrder(s, c),
           NEW i \in c..(c + 1),
           \A x \in Int : Covers(s[i], x) =>
               \E k \in 1..Len(s) : k # i /\ Covers(s[k], x) /\ s[i].type <= s[k].type
    PROVE  Swept(s, RemoveAt(s, i), c)
  <1> DEFINE t == RemoveAt(s, i)
  <1>1. /\ Len(s) \in Nat /\ c \in Nat /\ 1 <= c /\ c + 1 <= Len(s)
        /\ i \in Nat /\ c <= i /\ i <= c + 1 /\ \A k \in 1..Len(s) : s[k] \in Reg
    BY SeqFacts
  <1>2. i \in 1..Len(s)  BY <1>1
  <1>3. /\ t \in Seq(Reg) /\ Len(t) = Len(s) - 1
        /\ \A k \in 1..(Len(s) - 1) : t[k] = IF k < i THEN s[k] ELSE s[k + 1]
    BY <1>2, RemoveIs
  <1>4. \A x \in Int : TypeAt(t, x) = TypeAt(s, x)  BY <1>2, RemoveSame
  <1> HIDE DEF t
  <1>5. \A k \in 1..(c - 1) : t[k] = s[k]  BY <1>1, <1>3
  <1>6. ASSUME NEW k \in c..Len(t)
        PROVE  \E l \in c..Len(s) : t[k] = s[l] /\ l = IF k < i THEN k ELSE k + 1
    BY <1>1, <1>3
  <1>7. InOrder(t, c)
    <2> SUFFICES ASSUME NEW k \in c..Len(t), NEW l \in c..Len(t), k <= l
                 PROVE  Leq(t[k], t[l])
      BY DEF InOrder
    <2>1. PICK p \in c..Len(s) : t[k] = s[p] /\ p = IF k < i THEN k ELSE k + 1  BY <1>6
    <2>2. PICK q \in c..Len(s) : t[l] = s[q] /\ q = IF l < i THEN l ELSE l + 1  BY <1>6
    <2>3. p <= q  BY <1>1, <2>1, <2>2
    <2>. QED  BY <2>1, <2>2, <2>3 DEF InOrder
  <1>8. Clear(t, c - 1)
    <2>1. ASSUME NEW k \in c..Len(t)
          PROVE  \E l \in c..Len(s) : s[l].addr <= t[k].addr
      <3>1. PICK l \in c..Len(s) : t[k] = s[l]  BY <1>6
      <3>2. l \in 1..Len(s)  BY <1>1
      <3>3. s[l].addr \in Nat  BY <1>1, <3>2, RegFacts
      <3>4. s[l].addr <= s[l].addr  BY <3>3
      <3>. QED  BY <3>1, <3>4
    <2>2. c <= Len(s) + 1  BY <1>1
    <2>. QED  BY <1>1, <1>3, <1>5, <2>1, <2>2, ClearKept
  <1>9. c \in 1..Len(t)  BY <1>1, <1>3
  <1>10. Swept(s, t, c)  BY <1>3, <1>4, <1>7, <1>8, <1>9 DEF Swept
  <1>. QED  BY <1>10 DEF t

LEMMA PairFacts ==
    ASSUME NEW s \in Seq(Reg), NEW c \in 1..(Len(s) - 1), InOrder(s, c)
    PROVE  /\ s[c] \in Reg /\ s[c + 1] \in Reg
           /\ s[c].addr \in Nat /\ s[c].size \in Nat /\ End(s[c]) \in Nat
           /\ s[c + 1].addr \in Nat /\ s[c + 1].size \in Nat /\ End(s[c + 1]) \in Nat
           /\ s[c].type \in 1..7 /\ s[c + 1].type \in 1..7
           /\ End(s[c]) = s[c].addr + s[c].size /\ End(s[c]) <= Bytes
           /\ End(s[c + 1]) = s[c + 1].addr + s[c + 1].size /\ End(s[c + 1]) <= Bytes
           /\ s[c].addr <= s[c + 1].addr
           /\ s[c].addr = s[c + 1].addr => s[c].size <= s[c + 1].size
           /\ s[c].size # 0 => s[c + 1].size # 0
           /\ \A j \in (c + 1)..Len(s) : s[c + 1].addr <= s[j].addr
  <1>1. /\ Len(s) \in Nat /\ c \in Int /\ 1 <= c /\ c + 1 <= Len(s)
        /\ \A k \in 1..Len(s) : s[k] \in Reg
    BY SeqFacts
  <1>2. s[c] \in Reg /\ s[c + 1] \in Reg  BY <1>1
  <1>3. /\ s[c].addr \in Nat /\ s[c].size \in Nat /\ End(s[c]) \in Nat
        /\ s[c].type \in 1..7 /\ s[c].addr + s[c].size <= Bytes
        /\ End(s[c]) = s[c].addr + s[c].size
    BY <1>2, RegFacts
  <1>4. /\ s[c + 1].addr \in Nat /\ s[c + 1].size \in Nat /\ End(s[c + 1]) \in Nat
        /\ s[c + 1].type \in 1..7 /\ s[c + 1].addr + s[c + 1].size <= Bytes
        /\ End(s[c + 1]) = s[c + 1].addr + s[c + 1].size
        /\ s[c + 1].size = 0 => s[c + 1].addr = 0
    BY <1>2, RegFacts
  <1>5. Leq(s[c], s[c + 1])  BY <1>1 DEF InOrder
  <1>6. \/ s[c].addr < s[c + 1].addr
        \/ s[c].addr = s[c + 1].addr /\ s[c].size <= s[c + 1].size
    BY <1>2, <1>5, LeqOrder
  <1>7. ASSUME NEW j \in (c + 1)..Len(s)  PROVE s[c + 1].addr <= s[j].addr
    <2>1. Leq(s[c + 1], s[j]) /\ s[j] \in Reg  BY <1>1 DEF InOrder
    <2>. QED  BY <1>2, <2>1, LeqOrder
  <1>8. s[c].size # 0 => s[c + 1].size # 0
    <2> DEFINE a == s[c].addr
               b == s[c + 1].addr
               m == s[c].size
               n == s[c + 1].size
    <2>1. /\ a \in Nat /\ b \in Nat /\ m \in Nat /\ n \in Nat
          /\ a < b \/ (a = b /\ m <= n)
      BY <1>3, <1>4, <1>6
    <2>2. n = 0 => b = 0  BY <1>4
    <2> HIDE DEF a, b, m, n
    <2>3. m # 0 => n # 0  BY <2>1, <2>2
    <2>. QED  BY <2>3 DEF m, n
  <1>9. s[c].addr <= s[c + 1].addr /\ (s[c].addr = s[c + 1].addr => s[c].size <= s[c + 1].size)
    <2> DEFINE a == s[c].addr
               b == s[c + 1].addr
    <2>1. a \in Nat /\ b \in Nat /\ (a < b \/ a = b)  BY <1>3, <1>4, <1>6
    <2>2. a < b => a # b  BY <2>1
    <2> HIDE DEF a, b
    <2>3. a <= b  BY <2>1
    <2>. QED  BY <1>6, <2>2, <2>3 DEF a, b
  <1>10. End(s[c]) <= Bytes /\ End(s[c + 1]) <= Bytes  BY <1>3, <1>4
  <1>. QED  BY <1>2, <1>3, <1>4, <1>7, <1>8, <1>9, <1>10

LEMMA SweepTrimNext ==
    ASSUME NEW s \in Seq(Reg), NEW c \in 1..(Len(s) - 1), Clear(s, c - 1), InOrder(s, c),
           NEW e \in Nat, NEW d \in Nat, End(s[c]) = e, End(s[c + 1]) = d,
           s[c].addr < e, s[c + 1].addr <= e, e < d, s[c + 1].type <= s[c].type
    PROVE  Swept(s, resort(SetSpan(s, c + 1, e, d), c + 1), c)
  <1> DEFINE n == Len(s)
             p == SetSpan(s, c + 1, e, d)
             t == resort(p, c + 1)
  <1>1. /\ n \in Nat /\ c \in Nat /\ 1 <= c /\ c + 1 <= n
        /\ \A k \in 1..n : s[k] \in Reg
    BY SeqFacts
  <1>2. /\ s[c] \in Reg /\ s[c].addr \in Nat /\ s[c + 1].addr \in Nat /\ d <= Bytes
        /\ s[c].addr <= s[c + 1].addr
    BY PairFacts
  <1>3. /\ p \in Seq(Reg) /\ Len(p) = n
        /\ \A k \in 1..n : k # c + 1 => p[k] = s[k]
        /\ p[c + 1].addr = e
    <2>1. c + 1 \in 1..Len(s)  BY <1>1
    <2>2. /\ p \in Seq(Reg) /\ Len(p) = Len(s)
          /\ \A k \in 1..Len(s) : k # c + 1 => p[k] = s[k]
          /\ p[c + 1] = [addr |-> e, size |-> d - e, type |-> s[c + 1].type]
      <3> DEFINE q == c + 1
      <3> HIDE DEF q
      <3>1. /\ SetSpan(s, q, e, d) \in Seq(Reg) /\ Len(SetSpan(s, q, e, d)) = Len(s)
            /\ \A k \in 1..Len(s) : k # q => SetSpan(s, q, e, d)[k] = s[k]
            /\ SetSpan(s, q, e, d)[q] = [addr |-> e, size |-> d - e, type |-> s[q].type]
        BY <1>2, <2>1, SpanIs DEF q
      <3>. QED  BY <3>1 DEF q
    <2> HIDE DEF p
    <2>3. p[c + 1].addr = e  BY <2>2
    <2>. QED  BY <2>2, <2>3
  <1>4. \A x \in Int : TypeAt(p, x) = TypeAt(s, x)
    <2> SUFFICES ASSUME NEW x \in Int  PROVE TypeAt(p, x) = TypeAt(s, x)  OBVIOUS
    <2> DEFINE q == c + 1
    <2>1. q \in 1..Len(s) /\ s[q].addr <= e /\ d <= End(s[q])  BY <1>1
    <2>2. Covers(s[q], x) => \/ e <= x /\ x < d
                             \/ \E k \in 1..Len(s) : k # q /\ Covers(s[k], x)
                                                           /\ s[q].type <= s[k].type
      <3> SUFFICES ASSUME Covers(s[q], x), ~(e <= x /\ x < d)
                   PROVE  \E k \in 1..Len(s) : k # q /\ Covers(s[k], x)
                                                     /\ s[q].type <= s[k].type
        OBVIOUS
      <3>1. s[q].addr <= x /\ x < d  BY DEF Covers
      <3>2. Covers(s[c], x)  BY <1>2, <3>1 DEF Covers
      <3>3. c \in 1..Len(s) /\ c # q /\ s[q].type <= s[c].type  BY <1>1
      <3>. QED  BY <3>2, <3>3
    <2> HIDE DEF q
    <2>3. TypeAt(SetSpan(s, q, e, d), x) = TypeAt(s, x)  BY <2>1, <2>2, SpanSame, SMTT(30)
    <2>. QED  BY <2>3 DEF q
  <1> HIDE DEF p
  <1>5. InOrder(p, (c + 1) + 1)
    <2> SUFFICES ASSUME NEW k \in ((c + 1) + 1)..n, NEW l \in ((c + 1) + 1)..n, k <= l
                 PROVE  Leq(p[k], p[l])
      BY <1>3 DEF InOrder
    <2>1. /\ k \in 1..n /\ l \in 1..n /\ k # c + 1 /\ l # c + 1
          /\ k \in c..n /\ l \in c..n
      BY <1>1
    <2>2. Leq(s[k], s[l])  BY <2>1 DEF InOrder
    <2>. QED  BY <1>3, <2>1, <2>2
  <1>6. /\ t \in Seq(Reg) /\ Len(t) = n /\ InOrder(t, c + 1)
        /\ \A k \in 1..c : t[k] = p[k]
        /\ \A k \in (c + 1)..n : \E j \in (c + 1)..n : t[k] = p[j]
        /\ \A x : TypeAt(t, x) = TypeAt(p, x)
    <2> DEFINE q == c + 1
    <2>1. q \in 1..Len(p) /\ InOrder(p, q + 1)  BY <1>1, <1>3, <1>5
    <2>2. q - 1 = c  BY <1>1
    <2> HIDE DEF q
    <2>3. /\ resort(p, q) \in Seq(Reg) /\ Len(resort(p, q)) = Len(p)
          /\ InOrder(resort(p, q), q)
          /\ \A k \in 1..(q - 1) : resort(p, q)[k] = p[k]
          /\ \A k \in q..Len(p) : \E j \in q..Len(p) : resort(p, q)[k] = p[j]
          /\ \A x : TypeAt(resort(p, q), x) = TypeAt(p, x)
      BY <1>3, <2>1, ResortIs
    <2>. QED  BY <1>3, <2>2, <2>3 DEF q
  <1> HIDE DEF t
  <1>7. \A k \in 1..c : t[k] = s[k]  BY <1>1, <1>3, <1>6
  <1>8. ASSUME NEW j \in c..n  PROVE Leq(s[c], t[j]) /\ t[j] \in Reg
    <2>1. CASE j = c
      <3>1. Leq(s[c], s[c])  BY <1>2, LeqOrder
      <3>. QED  BY <1>1, <1>2, <1>7, <2>1, <3>1
    <2>2. CASE j # c
      <3>1. j \in (c + 1)..n  BY <1>1, <2>2
      <3>2. PICK k \in (c + 1)..n : t[j] = p[k]  BY <1>6, <3>1
      <3>3. p[k] \in Reg
        <4>1. k \in 1..Len(p)  BY <1>1, <1>3
        <4>. QED  BY <1>3, <4>1, SeqFacts
      <3>4. CASE k = c + 1
        <4>1. s[c].addr < p[k].addr  BY <1>3, <3>4
        <4>2. Leq(s[c], p[k])  BY <1>2, <3>3, <4>1, LeqOrder
        <4>. QED  BY <3>2, <3>3, <4>2
      <3>5. CASE k # c + 1
        <4>1. k \in 1..n /\ k \in c..n /\ c \in c..n /\ c <= k  BY <1>1, SMTT(30)
        <4>2. Leq(s[c], s[k]) /\ p[k] = s[k]  BY <1>3, <3>5, <4>1 DEF InOrder
        <4>. QED  BY <3>2, <3>3, <4>2
      <3>. QED  BY <3>4, <3>5
    <2>. QED  BY <2>1, <2>2
  <1>9. InOrder(t, c)
    <2> SUFFICES ASSUME NEW k \in c..n, NEW l \in c..n, k <= l  PROVE Leq(t[k], t[l])
      BY <1>6 DEF InOrder
    <2>1. CASE k = c
      <3>1. t[k] = s[c]  BY <1>1, <1>7, <2>1
      <3>. QED  BY <1>8, <3>1
    <2>2. CASE k # c
      <3>1. k \in (c + 1)..n /\ l \in (c + 1)..n  BY <1>1, <2>2
      <3>. QED  BY <1>6, <3>1 DEF InOrder
    <2>. QED  BY <2>1, <2>2
  <1>10. Clear(t, c - 1)
    <2>1. ASSUME NEW j \in c..Len(t)  PROVE \E k \in c..Len(s) : s[k].addr <= t[j].addr
      <3>1. s[c].addr <= t[j].addr  BY <1>2, <1>6, <1>8, LeqOrder
      <3>. QED  BY <1>1, <3>1, SMTT(30)
    <2>2. \A i \in 1..(c - 1) : t[i] = s[i]  BY <1>1, <1>7, SMTT(30)
    <2>3. c \in Nat /\ c <= Len(s) + 1  BY <1>1
    <2>. QED  BY <1>6, <2>1, <2>2, <2>3, ClearKept
  <1>11. c \in 1..Len(t)  BY <1>1, <1>6
  <1>12. Swept(s, t, c)  BY <1>4, <1>6, <1>9, <1>10, <1>11 DEF Swept
  <1>. QED  BY <1>12 DEF t, p

LEMMA SweepTrimCurr ==
    ASSUME NEW s \in Seq(Reg), NEW c \in 1..(Len(s) - 1), Clear(s, c - 1), InOrder(s, c),
           NEW a \in Nat, NEW b \in Nat, s[c].addr = a, s[c + 1].addr = b,
           a < b, b < End(s[c]), End(s[c]) <= End(s[c + 1]), s[c].type <= s[c + 1].type
    PROVE  Swept(s, SetSize(s, c, b - a), c)
  <1> DEFINE n == Len(s)
             t == SetSpan(s, c, a, b)
             e == End(s[c])
             d == End(s[c + 1])
  <1>1. /\ n \in Nat /\ c \in Nat /\ 1 <= c /\ c + 1 <= n /\ c \in 1..n
        /\ \A k \in 1..n : s[k] \in Reg
    BY SeqFacts
  <1>2. /\ s[c] \in Reg /\ e \in Nat /\ e <= Bytes /\ d \in Nat
        /\ \A j \in (c + 1)..n : b <= s[j].addr
    BY PairFacts
  <1>3. b < e /\ e <= d /\ b <= Bytes /\ Bytes \in Nat  BY <1>2, PhysMapAssumption
  <1>4. SetSize(s, c, b - a) = t
    <2> DEFINE z == b - a
    <2>1. z \in Nat /\ z # 0 /\ a + z = b  BY <1>3
    <2> HIDE DEF z
    <2>2. s[c].addr + z <= Bytes /\ s[c].addr + z = b /\ s[c].addr = a  BY <1>3, <2>1
    <2>3. SetSize(s, c, z) = SetSpan(s, c, s[c].addr, s[c].addr + z)
      BY <1>1, <2>1, <2>2, SizeIs
    <2>. QED  BY <2>2, <2>3 DEF z
  <1>5. /\ t \in Seq(Reg) /\ Len(t) = n
        /\ \A k \in 1..n : k # c => t[k] = s[k]
        /\ t[c].addr = a
    <2>1. /\ t \in Seq(Reg) /\ Len(t) = Len(s)
          /\ \A k \in 1..Len(s) : k # c => t[k] = s[k]
          /\ t[c] = [addr |-> a, size |-> b - a, type |-> s[c].type]
      BY <1>1, <1>3, SpanIs
    <2> HIDE DEF t
    <2>2. t[c].addr = a  BY <2>1
    <2>. QED  BY <2>1, <2>2
  <1>6. \A x \in Int : TypeAt(t, x) = TypeAt(s, x)
    <2> SUFFICES ASSUME NEW x \in Int  PROVE TypeAt(t, x) = TypeAt(s, x)  OBVIOUS
    <2>1. Covers(s[c], x) => \/ a <= x /\ x < b
                             \/ \E k \in 1..Len(s) : k # c /\ Covers(s[k], x)
                                                           /\ s[c].type <= s[k].type
      <3> SUFFICES ASSUME Covers(s[c], x), ~(a <= x /\ x < b)
                   PROVE  \E k \in 1..Len(s) : k # c /\ Covers(s[k], x)
                                                     /\ s[c].type <= s[k].type
        OBVIOUS
      <3>1. a <= x /\ x < e  BY DEF Covers
      <3>2. b <= x /\ x < d  BY <1>2, <1>3, <3>1
      <3>3. Covers(s[c + 1], x)  BY <3>2 DEF Covers
      <3>4. c + 1 \in 1..Len(s) /\ c + 1 # c /\ s[c].type <= s[c + 1].type  BY <1>1
      <3>. QED  BY <3>3, <3>4
    <2>2. s[c].addr <= a /\ b <= End(s[c])  BY <1>2, <1>3
    <2>3. c \in 1..Len(s) /\ a < b  BY <1>1
    <2> HIDE DEF e
    <2>4. TypeAt(SetSpan(s, c, a, b), x) = TypeAt(s, x)  BY <2>1, <2>2, <2>3, SpanSame
    <2>. QED  BY <2>4
  <1> HIDE DEF t
  <1>7. \A k \in 1..n : t[k] \in Reg  BY <1>5, SeqFacts
  <1>8. InOrder(t, c)
    <2> SUFFICES ASSUME NEW k \in c..n, NEW l \in c..n, k <= l  PROVE Leq(t[k], t[l])
      BY <1>5 DEF InOrder
    <2>1. k \in 1..n /\ l \in 1..n  BY <1>1
    <2>2. CASE l = c
      <3>1. k = c  BY <1>1, <2>2
      <3>. QED  BY <1>7, <2>1, <2>2, <3>1, LeqOrder
    <2>3. CASE k = c /\ l # c
      <3>1. t[l] = s[l] /\ l \in (c + 1)..n  BY <1>1, <1>5, <2>1, <2>3
      <3>2. b <= s[l].addr  BY <1>2, <3>1
      <3>3. t[k] \in Reg /\ t[l] \in Reg  BY <1>7, <2>1
      <3>4. t[k].addr \in Nat /\ t[l].addr \in Nat  BY <3>3, RegFacts
      <3>5. t[k].addr < t[l].addr  BY <1>5, <2>3, <3>1, <3>2, <3>4
      <3>. QED  BY <3>3, <3>5, LeqOrder
    <2>4. CASE k # c /\ l # c
      <3>1. t[k] = s[k] /\ t[l] = s[l]  BY <1>5, <2>1, <2>4
      <3>. QED  BY <3>1 DEF InOrder
    <2>. QED  BY <2>2, <2>3, <2>4
  <1>9. Clear(t, c - 1)
    <2>1. ASSUME NEW j \in c..Len(t)  PROVE \E k \in c..Len(s) : s[k].addr <= t[j].addr
      <3>1. j \in c..n /\ j \in 1..n  BY <1>1, <1>5
      <3>2. t[j].addr \in Nat  BY <1>7, <3>1, RegFacts
      <3>3. s[j].addr = t[j].addr
        <4>1. CASE j = c  BY <1>5, <4>1
        <4>2. CASE j # c  BY <1>5, <3>1, <4>2
        <4>. QED  BY <4>1, <4>2
      <3>4. s[j].addr <= t[j].addr  BY <3>2, <3>3
      <3>. QED  BY <3>1, <3>4
    <2>2. \A i \in 1..(c - 1) : t[i] = s[i]  BY <1>1, <1>5
    <2>3. c <= Len(s) + 1  BY <1>1
    <2>. QED  BY <1>1, <1>5, <2>1, <2>2, <2>3, ClearKept
  <1>10. c \in 1..Len(t)  BY <1>1, <1>5
  <1>11. Swept(s, t, c)  BY <1>5, <1>6, <1>8, <1>9, <1>10 DEF Swept
  <1>. QED  BY <1>4, <1>11

LEMMA SweepSplit ==
    ASSUME NEW s \in Seq(Reg), NEW c \in 1..(Len(s) - 1), Clear(s, c - 1), InOrder(s, c),
           NEW a \in Nat, NEW b \in Nat, NEW d \in Nat, NEW e \in Nat,
           SticksOut(s, c, a, b, d, e)
    PROVE  Swept(s, resort(SplitAt(s, c, a, b, d, e), c + 2), c)
  <1> DEFINE n == Len(s)
             u == SplitAt(s, c, a, b, d, e)
             t == resort(u, c + 2)
  <1>1. /\ n \in Nat /\ c \in Nat /\ 1 <= c /\ c + 1 <= n /\ c \in 1..n /\ c + 1 \in 1..n
        /\ \A k \in 1..n : s[k] \in Reg
    BY SeqFacts
  <1>2. /\ s[c] \in Reg /\ s[c + 1] \in Reg
        /\ \A j \in (c + 1)..n : b <= s[j].addr
    <2>1. s[c + 1].addr = b  BY DEF SticksOut
    <2>. QED  BY <2>1, PairFacts
  <1>3. a < b /\ b < d /\ s[c].addr = a /\ s[c + 1].addr = b  BY DEF SticksOut
  <1>4. /\ u \in Seq(Reg) /\ Len(u) = n + 1
        /\ u[c].addr = a /\ u[c + 2].addr = d
        /\ \A k \in 1..n : k < c + 2 /\ k # c => u[k] = s[k]
        /\ \A k \in (c + 2)..n : u[k + 1] = s[k]
        /\ \A x \in Int : TypeAt(u, x) = TypeAt(s, x)
    <2>1. CutIn3(s, u, c, a, d)  BY SplitSame
    <2> HIDE DEF u
    <2>. QED  BY <2>1 DEF CutIn3
  <1> HIDE DEF u
  <1>5. ASSUME NEW k \in (c + 3)..(n + 1)  PROVE k - 1 \in (c + 2)..n /\ u[k] = s[k - 1]
    <2> DEFINE l == k - 1
    <2>1. l \in (c + 2)..n /\ l + 1 = k  BY <1>1
    <2> HIDE DEF l
    <2>2. u[l + 1] = s[l]  BY <1>4, <2>1
    <2>. QED  BY <2>1, <2>2 DEF l
  <1>6. InOrder(u, (c + 2) + 1)
    <2>1. (c + 2) + 1 = c + 3  BY <1>1
    <2>2. ASSUME NEW k \in (c + 3)..(n + 1), NEW l \in (c + 3)..(n + 1), k <= l
          PROVE  Leq(u[k], u[l])
      <3>1. /\ u[k] = s[k - 1] /\ u[l] = s[l - 1]
            /\ k - 1 \in (c + 2)..n /\ l - 1 \in (c + 2)..n
        BY <1>5
      <3>2. k - 1 \in c..n /\ l - 1 \in c..n /\ k - 1 <= l - 1  BY <1>1, <2>2
      <3>3. Leq(s[k - 1], s[l - 1])  BY <3>2 DEF InOrder
      <3>. QED  BY <3>1, <3>3
    <2>. QED  BY <1>4, <2>1, <2>2 DEF InOrder
  <1>7. /\ t \in Seq(Reg) /\ Len(t) = n + 1 /\ InOrder(t, c + 2)
        /\ \A k \in 1..(c + 1) : t[k] = u[k]
        /\ \A k \in (c + 2)..(n + 1) : \E j \in (c + 2)..(n + 1) : t[k] = u[j]
        /\ \A x : TypeAt(t, x) = TypeAt(u, x)
    <2> DEFINE q == c + 2
    <2>1. q \in 1..Len(u) /\ InOrder(u, q + 1)  BY <1>1, <1>4, <1>6, SMTT(30)
    <2>2. q - 1 = c + 1  BY <1>1
    <2> HIDE DEF q
    <2>3. /\ resort(u, q) \in Seq(Reg) /\ Len(resort(u, q)) = Len(u)
          /\ InOrder(resort(u, q), q)
          /\ \A k \in 1..(q - 1) : resort(u, q)[k] = u[k]
          /\ \A k \in q..Len(u) : \E j \in q..Len(u) : resort(u, q)[k] = u[j]
          /\ \A x : TypeAt(resort(u, q), x) = TypeAt(u, x)
      BY <1>4, <2>1, ResortIs
    <2>. QED  BY <1>4, <2>2, <2>3 DEF q
  <1> HIDE DEF t
  <1>8. t[c].addr = a /\ t[c + 1] = s[c + 1] /\ \A k \in 1..(c - 1) : t[k] = s[k]
    <2>1. t[c] = u[c] /\ t[c + 1] = u[c + 1]  BY <1>1, <1>7
    <2>2. u[c + 1] = s[c + 1]  BY <1>1, <1>4
    <2>3. \A k \in 1..(c - 1) : t[k] = u[k] /\ u[k] = s[k]  BY <1>1, <1>4, <1>7, SMTT(60)
    <2>. QED  BY <1>4, <2>1, <2>2, <2>3
  <1>9. \A k \in 1..(n + 1) : t[k] \in Reg  BY <1>7, SeqFacts
  <1>10. ASSUME NEW j \in (c + 1)..(n + 1)
         PROVE  b <= t[j].addr /\ a < t[j].addr /\ Leq(s[c + 1], t[j])
    <2>1. CASE j = c + 1
      <3>1. Leq(s[c + 1], s[c + 1])  BY <1>2, LeqOrder
      <3>. QED  BY <1>3, <1>8, <2>1, <3>1
    <2>2. CASE j # c + 1
      <3>1. j \in (c + 2)..(n + 1)  BY <1>1, <2>2
      <3>2. PICK k \in (c + 2)..(n + 1) : t[j] = u[k]  BY <1>7, <3>1
      <3>3. t[j] \in Reg
        <4>1. j \in 1..(n + 1)  BY <1>1
        <4>. QED  BY <1>9, <4>1
      <3>4. CASE k = c + 2
        <4>1. t[j].addr = d  BY <1>4, <3>2, <3>4
        <4>2. s[c + 1].addr < t[j].addr /\ b <= t[j].addr /\ a < t[j].addr
          BY <1>3, <4>1, SMTT(60)
        <4>. QED  BY <1>2, <3>3, <4>2, LeqOrder
      <3>5. CASE k # c + 2
        <4> DEFINE l == k - 1
        <4>1. k \in (c + 3)..(n + 1)  BY <1>1, <3>5
        <4>2. l \in (c + 2)..n /\ u[k] = s[l]  BY <1>5, <4>1
        <4>3. l \in (c + 1)..n /\ l \in c..n /\ c + 1 \in c..n /\ c + 1 <= l
          BY <1>1, <4>2
        <4> HIDE DEF l
        <4>4. t[j] = s[l]  BY <3>2, <4>2
        <4>5. b <= t[j].addr  BY <1>2, <4>3, <4>4
        <4>6. Leq(s[c + 1], t[j])  BY <4>3, <4>4 DEF InOrder
        <4>7. t[j].addr \in Nat  BY <3>3, RegFacts
        <4>8. a < t[j].addr  BY <1>3, <4>5, <4>7, SMTT(30)
        <4>. QED  BY <4>5, <4>6, <4>8
      <3>. QED  BY <3>4, <3>5
    <2>. QED  BY <2>1, <2>2
  <1>11. InOrder(t, c)
    <2> SUFFICES ASSUME NEW k \in c..(n + 1), NEW l \in c..(n + 1), k <= l
                 PROVE  Leq(t[k], t[l])
      BY <1>7 DEF InOrder
    <2>1. t[k] \in Reg /\ t[l] \in Reg
      <3>1. k \in 1..(n + 1) /\ l \in 1..(n + 1)  BY <1>1
      <3>. QED  BY <1>9, <3>1
    <2>2. CASE l = c
      <3>1. k = l  BY <1>1, <2>2
      <3>. QED  BY <2>1, <3>1, LeqOrder
    <2>3. CASE k = c /\ l # c
      <3>1. l \in (c + 1)..(n + 1)  BY <1>1, <2>3
      <3>2. t[k].addr < t[l].addr  BY <1>8, <1>10, <2>3, <3>1
      <3>. QED  BY <2>1, <3>2, LeqOrder
    <2>4. CASE k = c + 1
      <3>1. l \in (c + 1)..(n + 1)  BY <1>1, <2>4
      <3>. QED  BY <1>8, <1>10, <2>4, <3>1
    <2>5. CASE k # c /\ k # c + 1
      <3>1. k \in (c + 2)..(n + 1) /\ l \in (c + 2)..(n + 1)  BY <1>1, <2>5
      <3>. QED  BY <1>7, <3>1 DEF InOrder
    <2>. QED  BY <1>1, <2>2, <2>3, <2>4, <2>5
  <1>12. Clear(t, c - 1)
    <2>1. ASSUME NEW j \in c..Len(t)  PROVE \E k \in c..Len(s) : s[k].addr <= t[j].addr
      <3>1. CASE j = c
        <4>1. c \in c..Len(s) /\ s[c].addr <= t[c].addr  BY <1>1, <1>3, <1>8
        <4>. QED  BY <3>1, <4>1
      <3>2. CASE j # c
        <4>1. c + 1 \in c..Len(s) /\ j \in (c + 1)..(n + 1)  BY <1>1, <1>7, <3>2
        <4>2. s[c + 1].addr <= t[j].addr  BY <1>3, <1>10, <4>1
        <4>. QED  BY <4>1, <4>2
      <3>. QED  BY <3>1, <3>2
    <2>2. c <= Len(s) + 1  BY <1>1
    <2>. QED  BY <1>1, <1>7, <1>8, <2>1, <2>2, ClearKept
  <1>13. c \in 1..Len(t)  BY <1>1, <1>7
  <1>14. \A x \in Int : TypeAt(t, x) = TypeAt(s, x)  BY <1>4, <1>7
  <1>15. Swept(s, t, c)  BY <1>7, <1>11, <1>12, <1>13, <1>14 DEF Swept
  <1>. QED  BY <1>15 DEF t, u

-----------------------------------------------------------------------------
(* The inductive invariant. *)

\* Every region up to position m ends where the next one begins.
Adjoin(s, m) == \A i \in 1..m : End(s[i]) = s[i + 1].addr

\* No region up to position m has the type of the next one.
Differ(s, m) == \A i \in 1..m : s[i].type # s[i + 1].type

\* What the sort and the sweep preserve, and what the gaps filled may change.
TypesListed == \A x \in 0..(Bytes - 1) : TypeAt(region, x) = wanted[x]
TypesKept   == \A x \in 0..(Bytes - 1) :
                   \/ TypeAt(region, x) = wanted[x]
                   \/ wanted[x] = 0 /\ TypeAt(region, x) = PMEMTYPE_RESERVED

MapTyped ==
    /\ region \in Seq(Reg)
    /\ last_usable \in 0..Bytes
    /\ pc \in {"boot", "sort", "collapse", "fill", "consolidate", "ready"}
    /\ curr \in Nat /\ 1 <= curr /\ (curr = 1 \/ curr <= Len(region))
    /\ wanted \in [0..(Bytes - 1) -> Types \union {0}]
    /\ adds \in 0..MaxAdds

\* Up to curr the sweep leaves the regions apart, from there on in order; the
\* loop behind it makes those up to curr adjoin, the last joins those of a type.
LoopInv ==
    /\ pc \in {"sort", "collapse"} => TypesListed
    /\ pc \in {"fill", "consolidate", "ready"} =>
           TypesKept /\ Clear(region, Len(region) - 1)
    /\ pc = "collapse" => Clear(region, curr - 1) /\ InOrder(region, curr)
    /\ pc = "fill" => Adjoin(region, curr - 1)
    /\ pc \in {"consolidate", "ready"} => Adjoin(region, Len(region) - 1)
    /\ pc = "consolidate" => Differ(region, curr - 1)
    /\ pc = "ready" =>
           /\ Differ(region, Len(region) - 1)
           /\ \A i \in 1..Len(region) :
                  region[i].type = PMEMTYPE_USABLE => End(region[i]) <= last_usable
           /\ last_usable # 0 =>
                  \E i \in 1..Len(region) : region[i].type = PMEMTYPE_USABLE
                                                /\ End(region[i]) = last_usable

\* Position p is in range k of those to sort.
Within(R, k, p) == R[k][1] <= p /\ p <= R[k][2]

\* The ranges to sort have two elements or more; the innermost is leftmost.
RangesIn(R, n) ==
    /\ R \in Seq(Nat \X Nat)
    /\ \A k \in 1..Len(R) : 1 <= R[k][1] /\ R[k][1] < R[k][2] /\ R[k][2] <= n
    /\ \A k, l \in 1..Len(R) : k < l => R[l][2] < R[k][1]

\* Elements that are not in one range are in order already.
SortedApart(s, R) ==
    \A p, q \in 1..Len(s) :
        p < q => \/ Leq(s[p], s[q])
                 \/ \E k \in 1..Len(R) : Within(R, k, p) /\ Within(R, k, q)

\* What the scans have passed is on the side of the pivot where it belongs,
\* and an element stops each of them: at first the pivot's own.
Scanned(s, f, l, i, j, v) ==
    /\ i \in Nat /\ j \in Nat /\ v \in Reg
    /\ \A k \in f..i : Leq(s[k], v)
    /\ \A k \in j..l : Leq(v, s[k])
    /\ \/ i = f - 1 /\ j = l + 1 /\ s[f] = v
       \/ f <= i /\ i < j /\ j <= l

SortInv ==
    /\ pc = "sort" <=> ranges # <<>>
    /\ RangesIn(ranges, Len(region))
    /\ pc = "sort" =>
           /\ SortedApart(region, ranges)
           /\ scan \in [i : Nat, j : Nat, pivot : Reg]
           /\ Scanned(region, Q!first, Q!last, scan.i, scan.j, scan.pivot)

MapInv == MapTyped /\ LoopInv /\ SortInv

-----------------------------------------------------------------------------
(* The turns of the sweep. *)

LEMMA TurnFacts ==
    ASSUME region \in Seq(Reg), curr \in Nat, 1 <= curr, curr < Len(region),
           InOrder(region, curr)
    PROVE  /\ curr \in 1..(Len(region) - 1)
           /\ cl \in Nat /\ cr \in Nat /\ nl \in Nat /\ nr \in Nat
           /\ C.type \in 1..7 /\ N.type \in 1..7
           /\ cl <= nl /\ (cl = nl => cr <= nr)
           /\ C.size # 0 => cl < cr /\ nl < nr /\ (Apart <=> cr <= nl)
           /\ C.size = 0 => cl = cr
           /\ nl <= nr
  <1>1. Len(region) \in Nat  BY SeqFacts
  <1>2. curr \in 1..(Len(region) - 1)  BY <1>1
  <1> DEFINE m == C.size
             n == N.size
  <1>3. /\ cl \in Nat /\ m \in Nat /\ cr \in Nat /\ nl \in Nat /\ n \in Nat /\ nr \in Nat
        /\ cr = cl + m /\ nr = nl + n /\ cl <= nl
        /\ (cl = nl => m <= n)
        /\ (m # 0 => n # 0)
        /\ C.type \in 1..7 /\ N.type \in 1..7
    BY <1>2, PairFacts DEF C, N, cl, cr, nl, nr
  <1>4. Max({cl, nl}) = nl
    <2>1. Max({cl, nl}) = IF cl >= nl THEN cl ELSE nl
      <3> HIDE DEF cl, nl
      <3>1. cl \in Int /\ nl \in Int  BY <1>3
      <3>. QED  BY <3>1, MaxOfTwo
    <2>. QED  BY <1>3, <2>1
  <1>5. Min({cr, nr}) = IF cr <= nr THEN cr ELSE nr
    BY <1>3, MinOfTwo
  <1> HIDE DEF m, n
  <1>6. Apart <=> (IF cr <= nr THEN cr ELSE nr) <= nl  BY <1>4, <1>5 DEF Apart
  <1>7. m # 0 => cl < cr /\ nl < nr /\ (Apart <=> cr <= nl)  BY <1>3, <1>6
  <1>8. (m = 0 => cl = cr) /\ nl <= nr /\ (cl = nl => cr <= nr)  BY <1>3
  <1>. QED  BY <1>2, <1>3, <1>7, <1>8 DEF m

LEMMA SweepTurn ==
    ASSUME region \in Seq(Reg), curr \in Nat, 1 <= curr, Clear(region, curr - 1),
           InOrder(region, curr), collapse_overlaps
    PROVE  /\ pc = "collapse" /\ UNCHANGED <<last_usable, sortVars, pc, wanted, adds>>
           /\ \/ curr' = curr /\ Swept(region, region', curr)
              \/ /\ region' = region /\ curr' = curr + 1 /\ curr < Len(region)
                 /\ C.size # 0 /\ cr <= nl
  <1>1. pc = "collapse" /\ curr < Len(region)
    BY DEF collapse_overlaps, CollapseEmpty, SkipDisjoint, DropCurr, DropNext,
           TrimNext, TrimCurr, SplitCurr, Overlap, Looping
  <1>2. /\ curr \in 1..(Len(region) - 1)
        /\ cl \in Nat /\ cr \in Nat /\ nl \in Nat /\ nr \in Nat
        /\ C.type \in 1..7 /\ N.type \in 1..7
        /\ cl <= nl /\ (cl = nl => cr <= nr)
        /\ C.size # 0 => cl < cr /\ nl < nr /\ (Apart <=> cr <= nl)
        /\ C.size = 0 => cl = cr
        /\ nl <= nr
    BY <1>1, TurnFacts
  <1>3. Len(region) \in Nat  BY SeqFacts
  <1>4. curr \in 1..Len(region) /\ curr + 1 \in 1..Len(region)
    BY <1>1, <1>3
  <1>5. CASE CollapseEmpty
    <2>1. ASSUME NEW x \in Int  PROVE ~Covers(region[curr], x)
      BY <1>2, <1>5 DEF CollapseEmpty, Covers, cl, cr, C
    <2>2. curr \in curr..(curr + 1)  BY <1>2
    <2>3. Swept(region, RemoveAt(region, curr), curr)
      BY <1>2, <2>1, <2>2, SweepRemove
    <2>. QED  BY <1>1, <1>5, <2>3 DEF CollapseEmpty, Change
  <1>6. CASE SkipDisjoint
    BY <1>1, <1>2, <1>6 DEF SkipDisjoint, Advance
  <1>7. ASSUME Overlap  PROVE C.size # 0 /\ cl < cr /\ nl < nr /\ nl < cr
    <2>1. C.size # 0 /\ ~Apart  BY <1>7 DEF Overlap
    <2>. QED  BY <1>2, <2>1
  <1>8. CASE DropCurr
    <2>1. nl < nr /\ C.type < N.type /\ cl = nl /\ cr <= nr
      BY <1>2, <1>7, <1>8 DEF DropCurr, Stronger
    <2>2. ASSUME NEW x \in Int, Covers(region[curr], x)
          PROVE  \E k \in 1..Len(region) : k # curr /\ Covers(region[k], x)
                                            /\ region[curr].type <= region[k].type
      <3>1. cl <= x /\ x < cr  BY <2>2 DEF Covers, cl, cr, C
      <3>2. nl <= x /\ x < nr  BY <1>2, <2>1, <3>1
      <3>3. Covers(region[curr + 1], x)  BY <3>2 DEF Covers, nl, nr, N
      <3>4. C.type <= N.type  BY <1>2, <2>1, SMTT(30)
      <3>5. curr + 1 # curr  BY <1>2
      <3>. QED  BY <1>4, <3>3, <3>4, <3>5 DEF C, N
    <2>3. curr \in curr..(curr + 1)  BY <1>2
    <2>4. Swept(region, RemoveAt(region, curr), curr)
      BY <1>2, <2>2, <2>3, SweepRemove
    <2>. QED  BY <1>1, <1>8, <2>4 DEF DropCurr, Change
  <1>9. CASE DropNext
    <2>1. nl < nr /\ N.type <= C.type /\ cr >= nr
      BY <1>2, <1>7, <1>9, SMTT(30) DEF DropNext, Stronger
    <2>2. ASSUME NEW x \in Int, Covers(region[curr + 1], x)
          PROVE  \E k \in 1..Len(region) : k # curr + 1 /\ Covers(region[k], x)
                                            /\ region[curr + 1].type <= region[k].type
      <3>1. nl <= x /\ x < nr  BY <2>2 DEF Covers, nl, nr, N
      <3>2. cl <= x /\ x < cr  BY <1>2, <2>1, <3>1
      <3>3. Covers(region[curr], x)  BY <3>2 DEF Covers, cl, cr, C
      <3>4. curr + 1 # curr  BY <1>2
      <3>. QED  BY <1>4, <2>1, <3>3, <3>4 DEF C, N
    <2>3. curr + 1 \in curr..(curr + 1)  BY <1>2
    <2>4. Swept(region, RemoveAt(region, curr + 1), curr)
      <3> DEFINE i == curr + 1
      <3>1. i \in curr..(curr + 1)  BY <2>3
      <3>2. \A x \in Int : Covers(region[i], x) =>
               \E k \in 1..Len(region) : k # i /\ Covers(region[k], x)
                                            /\ region[i].type <= region[k].type
        BY <2>2
      <3> HIDE DEF i
      <3>3. Swept(region, RemoveAt(region, i), curr)  BY <1>2, <3>1, <3>2, SweepRemove
      <3>. QED  BY <3>3 DEF i
    <2>. QED  BY <1>1, <1>9, <2>4 DEF DropNext, Change
  <1>10. CASE TrimNext
    <2>1. /\ N.type <= C.type /\ cr < nr /\ cl < cr /\ nl <= cr
      BY <1>2, <1>7, <1>10, SMTT(60) DEF TrimNext, Stronger
    <2>2. /\ End(region[curr]) = cr /\ End(region[curr + 1]) = nr
          /\ region[curr].addr < cr /\ region[curr + 1].addr <= cr
          /\ region[curr + 1].type <= region[curr].type
      BY <2>1 DEF cl, cr, nl, nr, C, N
    <2>3. Swept(region, resort(SetSpan(region, curr + 1, cr, nr), curr + 1), curr)
      <3> DEFINE e == cr
                 d == nr
      <3>1. /\ e \in Nat /\ d \in Nat /\ e < d
            /\ End(region[curr]) = e /\ End(region[curr + 1]) = d
            /\ region[curr].addr < e /\ region[curr + 1].addr <= e
        BY <1>2, <2>1, <2>2
      <3> HIDE DEF e, d
      <3>2. Swept(region, resort(SetSpan(region, curr + 1, e, d), curr + 1), curr)
        BY <1>2, <2>2, <3>1, SweepTrimNext
      <3>. QED  BY <3>2 DEF e, d
    <2>. QED  BY <1>1, <1>10, <2>3 DEF TrimNext, Change, Overlap
  <1>11. CASE TrimCurr
    <2>1. /\ C.type <= N.type /\ cl < nl /\ nl < cr /\ cr <= nr
      BY <1>2, <1>7, <1>11, SMTT(30) DEF TrimCurr, Stronger
    <2>2. Swept(region, SetSize(region, curr, nl - cl), curr)
      <3> DEFINE a == cl
                 b == nl
      <3>1. /\ a \in Nat /\ b \in Nat /\ a < b
            /\ region[curr].addr = a /\ region[curr + 1].addr = b
            /\ b < End(region[curr]) /\ End(region[curr]) <= End(region[curr + 1])
            /\ region[curr].type <= region[curr + 1].type
        BY <1>2, <2>1 DEF cl, cr, nl, nr, C, N
      <3> HIDE DEF a, b
      <3>2. Swept(region, SetSize(region, curr, b - a), curr)
        BY <1>2, <3>1, SweepTrimCurr
      <3>. QED  BY <3>2 DEF a, b
    <2>. QED  BY <1>1, <1>11, <2>2 DEF TrimCurr, Change, Overlap
  <1>12. CASE SplitCurr
    <2>1. /\ C.type <= N.type /\ cl < nl /\ nl < nr /\ nr < cr
      <3>1. Overlap /\ Stronger /\ cl # nl /\ cr > nr  BY <1>12 DEF SplitCurr
      <3>2. nl < nr  BY <1>7, <3>1
      <3>3. N.type > C.type  BY <3>1 DEF Stronger
      <3> HIDE DEF cl, cr, nl, nr, C, N
      <3>. QED  BY <1>2, <3>1, <3>2, <3>3, SMTT(30)
    <2>2. SticksOut(region, curr, cl, nl, nr, cr)
      BY <2>1 DEF SticksOut, cl, cr, nl, nr, C, N
    <2>3. Swept(region, resort(SplitAt(region, curr, cl, nl, nr, cr), curr + 2), curr)
      <3> HIDE DEF cl, cr, nl, nr
      <3>. QED  BY <1>2, <2>2, SweepSplit
    <2>4. region' = resort(SplitAt(region, curr, cl, nl, nr, cr), curr + 2)
      BY <1>12 DEF SplitCurr, Change, SplitAt, C
    <2>. QED  BY <1>1, <1>12, <2>3, <2>4 DEF SplitCurr, Change, Overlap
  <1>. QED
    BY <1>5, <1>6, <1>8, <1>9, <1>10, <1>11, <1>12 DEF collapse_overlaps

-----------------------------------------------------------------------------
(* The turns of the loop that fills the gaps. *)

LEMMA ClearFacts ==
    ASSUME NEW s \in Seq(Reg), NEW c \in 1..(Len(s) - 1), Clear(s, Len(s) - 1)
    PROVE  /\ s[c] \in Reg /\ s[c + 1] \in Reg
           /\ s[c].addr \in Nat /\ s[c].size \in Nat /\ End(s[c]) \in Nat
           /\ s[c + 1].addr \in Nat /\ s[c + 1].size \in Nat /\ End(s[c + 1]) \in Nat
           /\ s[c].type \in 1..7 /\ s[c + 1].type \in 1..7
           /\ End(s[c]) = s[c].addr + s[c].size /\ s[c].size # 0
           /\ End(s[c + 1]) = s[c + 1].addr + s[c + 1].size /\ End(s[c + 1]) <= Bytes
           /\ s[c].addr < End(s[c]) /\ End(s[c]) <= s[c + 1].addr
           /\ s[c + 1].addr <= End(s[c + 1])
           /\ \A i \in 1..c : End(s[i]) <= End(s[c])
           /\ \A j \in (c + 1)..Len(s) : s[c + 1].addr <= s[j].addr
  <1>1. /\ Len(s) \in Nat /\ c \in Int /\ 1 <= c /\ c + 1 <= Len(s)
        /\ \A k \in 1..Len(s) : s[k] \in Reg
    BY SeqFacts
  <1>2. s[c] \in Reg /\ s[c + 1] \in Reg  BY <1>1
  <1>3. /\ s[c].addr \in Nat /\ s[c].size \in Nat /\ End(s[c]) \in Nat
        /\ s[c].type \in 1..7 /\ End(s[c]) = s[c].addr + s[c].size
    BY <1>2, RegFacts
  <1>4. /\ s[c + 1].addr \in Nat /\ s[c + 1].size \in Nat /\ End(s[c + 1]) \in Nat
        /\ s[c + 1].type \in 1..7 /\ s[c + 1].addr + s[c + 1].size <= Bytes
        /\ End(s[c + 1]) = s[c + 1].addr + s[c + 1].size
    BY <1>2, RegFacts
  <1>5. \A i \in 1..(Len(s) - 1) :
            s[i].size # 0 /\ \A j \in (i + 1)..Len(s) : End(s[i]) <= s[j].addr
    BY DEF Clear
  <1>6. s[c].size # 0 /\ End(s[c]) <= s[c + 1].addr  BY <1>1, <1>5
  <1>7. s[c].addr < End(s[c]) /\ s[c + 1].addr <= End(s[c + 1]) /\ End(s[c + 1]) <= Bytes
    BY <1>3, <1>4, <1>6, SMTT(30)
  <1>8. ASSUME NEW i \in 1..c  PROVE End(s[i]) <= End(s[c])
    <2>1. CASE i = c  BY <1>3, <2>1
    <2>2. CASE i # c
      <3>1. i \in 1..(Len(s) - 1) /\ c \in (i + 1)..Len(s) /\ i \in 1..Len(s)
        BY <1>1, <2>2
      <3>2. End(s[i]) <= s[c].addr  BY <1>5, <3>1
      <3>3. End(s[i]) \in Nat  BY <1>1, <3>1, RegFacts
      <3>. QED  BY <1>3, <1>7, <3>2, <3>3
    <2>. QED  BY <2>1, <2>2
  <1>9. ASSUME NEW j \in (c + 1)..Len(s)  PROVE s[c + 1].addr <= s[j].addr
    <2>1. CASE j = c + 1  BY <1>4, <2>1
    <2>2. CASE j # c + 1
      <3> DEFINE d == c + 1
      <3>1. d \in 1..(Len(s) - 1) /\ j \in (d + 1)..Len(s) /\ j \in 1..Len(s)
        BY <1>1, <2>2
      <3>2. s[d].addr \in Nat /\ End(s[d]) \in Nat /\ s[d].addr <= End(s[d])
        BY <1>4, <1>7
      <3> HIDE DEF d
      <3>3. End(s[d]) <= s[j].addr  BY <1>5, <3>1
      <3>4. s[j].addr \in Nat  BY <1>1, <3>1, RegFacts
      <3>5. s[d].addr <= s[j].addr  BY <3>2, <3>3, <3>4
      <3>. QED  BY <3>5 DEF d
    <2>. QED  BY <2>1, <2>2
  <1>. QED  BY <1>2, <1>3, <1>4, <1>6, <1>7, <1>8, <1>9

\* t covers what s covers, with the same types, and the gap g .. h - 1 besides.
Filled(s, t, g, h) ==
    /\ \A x \in Int : g <= x /\ x < h =>
           TypeAt(s, x) = 0 /\ TypeAt(t, x) = PMEMTYPE_RESERVED
    /\ \A x \in Int : ~(g <= x /\ x < h) => TypeAt(t, x) = TypeAt(s, x)

LEMMA TypeAtNone ==
    ASSUME NEW s \in Seq(Reg), NEW x, \A i \in 1..Len(s) : ~Covers(s[i], x)
    PROVE  TypeAt(s, x) = 0
  BY TypeAtIs

LEMMA TypeAtOnly ==
    ASSUME NEW s \in Seq(Reg), NEW x, NEW k \in 1..Len(s), Covers(s[k], x),
           \A i \in 1..Len(s) : Covers(s[i], x) => i = k
    PROVE  TypeAt(s, x) = s[k].type
  <1>1. s[k].type \in 1..7  BY SeqFacts, RegFacts
  <1>2. TypeAt(s, x) \in 0..7 /\ s[k].type <= TypeAt(s, x)  BY TypeAtIs
  <1>3. TypeAt(s, x) # 0  BY <1>1, <1>2
  <1>4. PICK i \in 1..Len(s) : Covers(s[i], x) /\ s[i].type = TypeAt(s, x)
    BY <1>3, TypeAtIs
  <1>. QED  BY <1>4

LEMMA GapFree ==
    ASSUME NEW s \in Seq(Reg), NEW c \in 1..(Len(s) - 1), Clear(s, Len(s) - 1),
           NEW x \in Int, End(s[c]) <= x, x < s[c + 1].addr
    PROVE  /\ \A i \in 1..Len(s) : ~Covers(s[i], x)
           /\ TypeAt(s, x) = 0
  <1>1. /\ Len(s) \in Nat /\ c \in Int /\ 1 <= c /\ c + 1 <= Len(s)
        /\ \A k \in 1..Len(s) : s[k] \in Reg
    BY SeqFacts
  <1>2. /\ End(s[c]) \in Nat /\ s[c + 1].addr \in Nat
        /\ \A i \in 1..c : End(s[i]) <= End(s[c])
        /\ \A j \in (c + 1)..Len(s) : s[c + 1].addr <= s[j].addr
    BY ClearFacts
  <1>3. ASSUME NEW i \in 1..Len(s)  PROVE ~Covers(s[i], x)
    <2>1. s[i].addr \in Nat /\ End(s[i]) \in Nat  BY <1>1, RegFacts
    <2>2. CASE i <= c
      <3>1. End(s[i]) <= End(s[c])  BY <1>2, <2>2
      <3>2. ~(x < End(s[i]))  BY <1>2, <2>1, <3>1
      <3>. QED  BY <3>2 DEF Covers
    <2>3. CASE ~(i <= c)
      <3>1. i \in (c + 1)..Len(s)  BY <1>1, <2>3
      <3>2. s[c + 1].addr <= s[i].addr  BY <1>2, <3>1
      <3>3. ~(s[i].addr <= x)  BY <1>2, <2>1, <3>2
      <3>. QED  BY <3>3 DEF Covers
    <2>. QED  BY <2>2, <2>3
  <1>4. TypeAt(s, x) = 0  BY <1>3, TypeAtNone
  <1>. QED  BY <1>3, <1>4

LEMMA SpanFills ==
    ASSUME NEW s \in Seq(Reg), NEW i \in 1..Len(s), NEW a \in Nat, NEW b \in Nat,
           a < b, b <= Bytes, NEW g \in Nat, NEW h \in Nat,
           s[i].type = PMEMTYPE_RESERVED,
           \A x \in Int : a <= x /\ x < b <=> Covers(s[i], x) \/ (g <= x /\ x < h),
           \A x \in Int : g <= x /\ x < h => \A k \in 1..Len(s) : ~Covers(s[k], x)
    PROVE  Filled(s, SetSpan(s, i, a, b), g, h)
  <1> DEFINE t == SetSpan(s, i, a, b)
  <1>1. Len(s) \in Nat /\ i \in Int /\ \A k \in 1..Len(s) : s[k].type <= s[k].type
    <2>1. Len(s) \in Nat /\ i \in Int /\ \A k \in 1..Len(s) : s[k] \in Reg  BY SeqFacts
    <2>2. ASSUME NEW k \in 1..Len(s)  PROVE s[k].type <= s[k].type
      <3>1. s[k].type \in 1..7  BY <2>1, RegFacts
      <3>. QED  BY <3>1
    <2>. QED  BY <2>1, <2>2
  <1>2. /\ t \in Seq(Reg) /\ Len(t) = Len(s)
        /\ \A k \in 1..Len(s) : k # i => t[k] = s[k]
        /\ t[i].addr = a /\ t[i].type = s[i].type /\ End(t[i]) = b
    <2>1. /\ t \in Seq(Reg) /\ Len(t) = Len(s)
          /\ \A k \in 1..Len(s) : k # i => t[k] = s[k]
          /\ t[i] = [addr |-> a, size |-> b - a, type |-> s[i].type] /\ End(t[i]) = b
      BY SpanIs
    <2> HIDE DEF t
    <2>2. t[i].addr = a /\ t[i].type = s[i].type  BY <2>1
    <2>. QED  BY <2>1, <2>2
  <1> HIDE DEF t
  <1>3. \A x \in Int : Covers(t[i], x) <=> Covers(s[i], x) \/ (g <= x /\ x < h)
    BY <1>2 DEF Covers
  <1>4. \A k \in 1..Len(s) : t[k].type = s[k].type  BY <1>2
  <1>5. ASSUME NEW x \in Int, g <= x, x < h
        PROVE  TypeAt(s, x) = 0 /\ TypeAt(t, x) = PMEMTYPE_RESERVED
    <2>1. \A k \in 1..Len(s) : ~Covers(s[k], x)  BY <1>5
    <2>2. Covers(t[i], x)  BY <1>3, <1>5
    <2>3. \A k \in 1..Len(t) : Covers(t[k], x) => k = i  BY <1>2, <2>1
    <2>4. TypeAt(t, x) = t[i].type  BY <1>2, <2>2, <2>3, TypeAtOnly
    <2>5. TypeAt(s, x) = 0  BY <2>1, TypeAtNone
    <2>. QED  BY <1>2, <2>4, <2>5
  <1>6. ASSUME NEW x \in Int, ~(g <= x /\ x < h)  PROVE TypeAt(t, x) = TypeAt(s, x)
    <2>1. \A k \in 1..Len(s) : Covers(t[k], x) <=> Covers(s[k], x)
      BY <1>2, <1>3, <1>6
    <2>2. Matched(s, t, x) /\ Matched(t, s, x)
      BY <1>1, <1>2, <1>4, <2>1 DEF Matched
    <2>. QED  BY <1>2, <2>2, TypeAtSame
  <1>7. Filled(s, t, g, h)  BY <1>5, <1>6 DEF Filled
  <1>. QED  BY <1>7 DEF t

\* t is s with the gap behind region c filled, the regions before it the same.
FilledBehind(s, t, c) ==
    /\ t \in Seq(Reg) /\ Len(t) >= Len(s)
    /\ Clear(t, Len(t) - 1)
    /\ \A i \in 1..(c - 1) : End(t[i]) = End(s[i])
    /\ \A i \in 1..c : t[i].addr = s[i].addr
    /\ Filled(s, t, End(s[c]), s[c + 1].addr)

LEMMA FillCurr ==
    ASSUME NEW s \in Seq(Reg), NEW c \in 1..(Len(s) - 1), Clear(s, Len(s) - 1),
           NEW a \in Nat, NEW h \in Nat, s[c].addr = a, s[c + 1].addr = h,
           End(s[c]) # h, s[c].type = PMEMTYPE_RESERVED
    PROVE  FilledBehind(s, SetSize(s, c, h - a), c)
  <1> DEFINE n == Len(s)
             t == SetSpan(s, c, a, h)
             g == End(s[c])
  <1>1. /\ n \in Nat /\ c \in Nat /\ 1 <= c /\ c + 1 <= n /\ c \in 1..n
        /\ \A k \in 1..n : s[k] \in Reg
    BY SeqFacts
  <1>2. /\ g \in Nat /\ a < g /\ g <= h
        /\ s[c + 1].addr + s[c + 1].size <= Bytes /\ s[c + 1].size \in Nat
        /\ \A i \in 1..c : End(s[i]) <= g
        /\ \A j \in (c + 1)..n : h <= s[j].addr
    BY ClearFacts
  <1>3. h <= Bytes /\ a < h /\ g < h /\ Bytes \in Nat  BY <1>2, PhysMapAssumption, SMTT(30)
  <1> HIDE DEF g
  <1>4. SetSize(s, c, h - a) = t
    <2> DEFINE z == h - a
    <2>1. z \in Nat /\ z # 0 /\ a + z = h  BY <1>3
    <2> HIDE DEF z
    <2>2. s[c].addr + z <= Bytes /\ s[c].addr + z = h /\ s[c].addr = a  BY <1>3, <2>1
    <2>3. SetSize(s, c, z) = SetSpan(s, c, s[c].addr, s[c].addr + z)
      BY <1>1, <2>1, <2>2, SizeIs
    <2>. QED  BY <2>2, <2>3 DEF z
  <1>5. /\ t \in Seq(Reg) /\ Len(t) = n
        /\ \A k \in 1..n : k # c => t[k] = s[k]
        /\ t[c].addr = a /\ t[c].size # 0 /\ End(t[c]) = h
    <2>1. /\ t \in Seq(Reg) /\ Len(t) = Len(s)
          /\ \A k \in 1..Len(s) : k # c => t[k] = s[k]
          /\ t[c] = [addr |-> a, size |-> h - a, type |-> s[c].type] /\ End(t[c]) = h
      BY <1>1, <1>3, SpanIs
    <2> HIDE DEF t
    <2>2. t[c].addr = a /\ t[c].size = h - a  BY <2>1
    <2>3. t[c].size # 0  BY <1>3, <2>2
    <2>. QED  BY <2>1, <2>2, <2>3
  <1>6. Filled(s, t, g, h)
    <2>1. \A x \in Int : Covers(s[c], x) <=> a <= x /\ x < g  BY DEF Covers, g
    <2>2. \A x \in Int : a <= x /\ x < h <=> Covers(s[c], x) \/ (g <= x /\ x < h)
      BY <1>2, <1>3, <2>1
    <2>3. \A x \in Int : g <= x /\ x < h => \A k \in 1..Len(s) : ~Covers(s[k], x)
      BY GapFree DEF g
    <2>. QED  BY <1>1, <1>2, <1>3, <2>2, <2>3, SpanFills
  <1> HIDE DEF t
  <1>7. ASSUME NEW i \in 1..(n - 1)
        PROVE  t[i].size # 0 /\ \A j \in (i + 1)..n : End(t[i]) <= t[j].addr
    <2>1. i \in 1..n /\ s[i].size # 0 /\ \A j \in (i + 1)..n : End(s[i]) <= s[j].addr
      BY <1>1 DEF Clear
    <2>2. \A j \in 1..n : t[j].addr = s[j].addr  BY <1>5
    <2>3. \A j \in (i + 1)..n : j \in 1..n  BY <1>1
    <2>4. CASE i = c  BY <1>2, <1>5, <2>2, <2>3, <2>4
    <2>5. CASE i # c  BY <1>5, <2>1, <2>2, <2>3, <2>5
    <2>. QED  BY <2>4, <2>5
  <1>8. Clear(t, Len(t) - 1)  BY <1>5, <1>7 DEF Clear
  <1>9. /\ \A i \in 1..(c - 1) : End(t[i]) = End(s[i])
        /\ \A i \in 1..c : t[i].addr = s[i].addr
    BY <1>1, <1>5
  <1>10. FilledBehind(s, t, c)
    BY <1>1, <1>5, <1>6, <1>8, <1>9 DEF FilledBehind, g
  <1>. QED  BY <1>4, <1>10

LEMMA FillNext ==
    ASSUME NEW s \in Seq(Reg), NEW c \in 1..(Len(s) - 1), Clear(s, Len(s) - 1),
           NEW g \in Nat, NEW b \in Nat, End(s[c]) = g, End(s[c + 1]) = b,
           g # s[c + 1].addr, s[c + 1].type = PMEMTYPE_RESERVED
    PROVE  FilledBehind(s, SetSpan(s, c + 1, g, b), c)
  <1> DEFINE n == Len(s)
             d == c + 1
             t == SetSpan(s, d, g, b)
             h == s[d].addr
  <1>1. /\ n \in Nat /\ c \in Nat /\ 1 <= c /\ d <= n /\ d \in 1..n /\ d # c /\ d \in Nat
        /\ \A k \in 1..n : s[k] \in Reg
    BY SeqFacts
  <1>2. /\ h \in Nat /\ g <= h /\ h <= b /\ b <= Bytes
        /\ \A i \in 1..c : End(s[i]) <= g
    BY ClearFacts
  <1>3. g < h /\ g < b /\ Bytes \in Nat  BY <1>2, PhysMapAssumption, SMTT(60)
  <1>4. c + 1 = d /\ \A i \in 1..n : i # d => i \in 1..c \/ i \in (d + 1)..n  BY <1>1
  <1>5. s[d].type = PMEMTYPE_RESERVED /\ End(s[d]) = b  OBVIOUS
  <1> HIDE DEF d
  <1>6. /\ t \in Seq(Reg) /\ Len(t) = n
        /\ \A k \in 1..n : k # d => t[k] = s[k]
        /\ t[d].addr = g /\ t[d].size # 0 /\ End(t[d]) = b
    <2>1. /\ t \in Seq(Reg) /\ Len(t) = Len(s)
          /\ \A k \in 1..Len(s) : k # d => t[k] = s[k]
          /\ t[d] = [addr |-> g, size |-> b - g, type |-> s[d].type] /\ End(t[d]) = b
      BY <1>1, <1>2, <1>3, SpanIs
    <2> HIDE DEF t
    <2>2. t[d].addr = g /\ t[d].size = b - g  BY <2>1
    <2>3. t[d].size # 0  BY <1>3, <2>2
    <2>. QED  BY <2>1, <2>2, <2>3
  <1>7. Filled(s, t, g, h)
    <2>1. \A x \in Int : Covers(s[d], x) <=> h <= x /\ x < b  BY <1>5 DEF Covers
    <2>2. \A x \in Int : g <= x /\ x < b <=> Covers(s[d], x) \/ (g <= x /\ x < h)
      BY <1>2, <1>3, <2>1
    <2>3. \A x \in Int : g <= x /\ x < h => \A k \in 1..Len(s) : ~Covers(s[k], x)
      BY <1>4, GapFree
    <2> HIDE DEF h, t
    <2>4. Filled(s, SetSpan(s, d, g, b), g, h)
      BY <1>1, <1>2, <1>3, <1>5, <2>2, <2>3, SpanFills
    <2>. QED  BY <2>4 DEF t
  <1> HIDE DEF t
  <1>8. ASSUME NEW i \in 1..(n - 1)
        PROVE  t[i].size # 0 /\ \A j \in (i + 1)..n : End(t[i]) <= t[j].addr
    <2>1. i \in 1..n /\ s[i].size # 0 /\ \A j \in (i + 1)..n : End(s[i]) <= s[j].addr
      BY <1>1, SMTT(30) DEF Clear
    <2>2. t[i].size # 0 /\ End(t[i]) = End(s[i])  BY <1>5, <1>6, <2>1
    <2>3. ASSUME NEW j \in (i + 1)..n  PROVE End(s[i]) <= t[j].addr
      <3>1. j \in 1..n  BY <1>1
      <3>2. CASE j = d
        <4>1. i \in 1..c  BY <1>4, <3>2, <2>1
        <4>. QED  BY <1>2, <1>6, <3>2, <4>1
      <3>3. CASE j # d  BY <1>6, <2>1, <3>1, <3>3
      <3>. QED  BY <3>2, <3>3
    <2>. QED  BY <2>2, <2>3
  <1>9. Clear(t, Len(t) - 1)  BY <1>6, <1>8 DEF Clear
  <1>10. /\ \A i \in 1..(c - 1) : End(t[i]) = End(s[i])
         /\ \A i \in 1..c : t[i].addr = s[i].addr
    BY <1>1, <1>4, <1>6
  <1>11. FilledBehind(s, t, c)
    BY <1>1, <1>4, <1>6, <1>7, <1>9, <1>10 DEF FilledBehind
  <1>. QED  BY <1>4, <1>11 DEF t

LEMMA FillInsert ==
    ASSUME NEW s \in Seq(Reg), NEW c \in 1..(Len(s) - 1), Clear(s, Len(s) - 1),
           NEW g \in Nat, NEW h \in Nat, End(s[c]) = g, s[c + 1].addr = h, g # h
    PROVE  FilledBehind(s, InsertAt(s, c + 1,
                [addr |-> g, size |-> h - g, type |-> PMEMTYPE_RESERVED]), c)
  <1> DEFINE n == Len(s)
             d == c + 1
             r == [addr |-> g, size |-> h - g, type |-> PMEMTYPE_RESERVED]
             t == InsertAt(s, d, r)
  <1>1. /\ n \in Nat /\ c \in Nat /\ 1 <= c /\ d <= n /\ d \in 1..(n + 1) /\ d \in Nat
        /\ \A k \in 1..n : s[k] \in Reg
    BY SeqFacts
  <1>2. /\ g <= h /\ \A i \in 1..c : End(s[i]) <= g
        /\ \A j \in d..n : h <= s[j].addr
        /\ s[d].addr + s[d].size <= Bytes /\ s[d].size \in Nat
    BY ClearFacts
  <1>3. g < h /\ h <= Bytes /\ Bytes \in Nat /\ s[d].addr = h
    BY <1>2, PhysMapAssumption, SMTT(30)
  <1>4. r \in Reg
    <2> DEFINE z == h - g
    <2>1. z \in Nat /\ z # 0 /\ g + z <= Bytes  BY <1>3
    <2> HIDE DEF z
    <2>2. PMEMTYPE_RESERVED \in 1..7  BY DEF PMEMTYPE_RESERVED
    <2>3. [addr |-> g, size |-> z, type |-> PMEMTYPE_RESERVED] \in Reg
      BY <2>1, <2>2, RegIs
    <2>. QED  BY <2>3 DEF z
  <1>5. r.addr = g /\ End(r) = h /\ r.size # 0 /\ r.type = PMEMTYPE_RESERVED
    BY <1>3 DEF End
  <1>6. d = c + 1  OBVIOUS
  <1> HIDE DEF r, d
  <1>7. /\ t \in Seq(Reg) /\ Len(t) = n + 1
        /\ \A k \in 1..(n + 1) : t[k] = IF k < d THEN s[k] ELSE IF k = d THEN r ELSE s[k - 1]
    BY <1>1, <1>4, InsertReg, ZenonT(60)
  <1> HIDE DEF t
  <1>8. /\ t[d] = r /\ d \in 1..Len(t)
        /\ \A k \in 1..c : t[k] = s[k]
    BY <1>1, <1>6, <1>7
  <1>9. ASSUME NEW k \in (d + 1)..(n + 1)  PROVE k - 1 \in d..n /\ t[k] = s[k - 1]
    BY <1>1, <1>7
  <1>10. ASSUME NEW k \in d..n  PROVE k + 1 \in 1..(n + 1) /\ t[k + 1] = s[k]
    <2>1. /\ k + 1 \in 1..(n + 1) /\ ~(k + 1 < d) /\ k + 1 # d /\ (k + 1) - 1 = k
      BY <1>1
    <2>2. t[k + 1] = s[(k + 1) - 1]  BY <1>7, <2>1
    <2>. QED  BY <2>1, <2>2
  <1>11. \A k \in 1..(n + 1) : k \in 1..c \/ k = d \/ k \in (d + 1)..(n + 1)
    BY <1>1, <1>6
  <1>12. \A k \in 1..n : k \in 1..c \/ k \in d..n  BY <1>1, <1>6
  <1>13. \A x \in Int : g <= x /\ x < h => \A k \in 1..n : ~Covers(s[k], x)
    BY GapFree
  <1>14. \A x \in Int : Covers(t[d], x) <=> g <= x /\ x < h
    BY <1>5, <1>8 DEF Covers
  <1>15. ASSUME NEW k \in 1..(n + 1), k # d  PROVE \E j \in 1..n : t[k] = s[j]
    <2>1. CASE k \in 1..c
      <3>1. k \in 1..n  BY <1>1, <1>6, <2>1
      <3>. QED  BY <1>8, <2>1, <3>1
    <2>2. CASE k \in (d + 1)..(n + 1)
      <3>1. k - 1 \in d..n /\ t[k] = s[k - 1]  BY <1>9, <2>2
      <3>2. k - 1 \in 1..n  BY <1>1, <3>1
      <3>. QED  BY <3>1, <3>2
    <2>. QED  BY <1>11, <1>15, <2>1, <2>2
  <1>16. ASSUME NEW k \in 1..n  PROVE \E j \in 1..(n + 1) : t[j] = s[k]
    <2>1. CASE k \in 1..c
      <3>1. k \in 1..(n + 1)  BY <1>1
      <3>. QED  BY <1>8, <2>1, <3>1
    <2>2. CASE k \in d..n  BY <1>10, <2>2
    <2>. QED  BY <1>12, <2>1, <2>2
  <1>17. \A k \in 1..n : s[k].type <= s[k].type
    <2>1. ASSUME NEW k \in 1..n  PROVE s[k].type <= s[k].type
      <3>1. s[k].type \in 1..7  BY <1>1, RegFacts
      <3>. QED  BY <3>1
    <2>. QED  BY <2>1
  <1>18. ASSUME NEW x \in Int, g <= x, x < h
         PROVE  TypeAt(s, x) = 0 /\ TypeAt(t, x) = PMEMTYPE_RESERVED
    <2>1. \A k \in 1..Len(s) : ~Covers(s[k], x)  BY <1>13, <1>18
    <2>2. Covers(t[d], x)  BY <1>14, <1>18
    <2>3. \A k \in 1..Len(t) : Covers(t[k], x) => k = d  BY <1>7, <1>15, <2>1
    <2>4. TypeAt(t, x) = t[d].type  BY <1>7, <1>8, <2>2, <2>3, TypeAtOnly
    <2>5. TypeAt(s, x) = 0  BY <2>1, TypeAtNone
    <2>. QED  BY <1>5, <1>8, <2>4, <2>5
  <1>19. ASSUME NEW x \in Int, ~(g <= x /\ x < h)  PROVE TypeAt(t, x) = TypeAt(s, x)
    <2>1. ASSUME NEW k \in 1..n, Covers(s[k], x)
          PROVE  \E j \in 1..(n + 1) : Covers(t[j], x) /\ s[k].type <= t[j].type
      <3>1. PICK j \in 1..(n + 1) : t[j] = s[k]  BY <1>16
      <3>. QED  BY <1>17, <2>1, <3>1
    <2>2. ASSUME NEW k \in 1..(n + 1), Covers(t[k], x)
          PROVE  \E j \in 1..n : Covers(s[j], x) /\ t[k].type <= s[j].type
      <3>1. k # d  BY <1>14, <1>19, <2>2
      <3>2. PICK j \in 1..n : t[k] = s[j]  BY <1>15, <3>1
      <3>. QED  BY <1>17, <2>2, <3>2
    <2>3. Matched(s, t, x) /\ Matched(t, s, x)  BY <1>7, <2>1, <2>2 DEF Matched
    <2>. QED  BY <1>7, <2>3, TypeAtSame
  <1>20. Filled(s, t, g, h)  BY <1>18, <1>19 DEF Filled
  <1>21. \A j \in (d + 1)..(n + 1) : h <= t[j].addr  BY <1>2, <1>6, <1>9
  <1>22. ASSUME NEW i \in 1..n
         PROVE  t[i].size # 0 /\ \A j \in (i + 1)..(n + 1) : End(t[i]) <= t[j].addr
    <2>1. CASE i \in 1..c
      <3>1. i \in 1..(n - 1)  BY <1>1, <1>6, <2>1
      <3>2. s[i].size # 0 /\ \A j \in (i + 1)..n : End(s[i]) <= s[j].addr
        BY <3>1 DEF Clear
      <3>3. t[i] = s[i]  BY <1>8, <2>1
      <3>4. ASSUME NEW j \in (i + 1)..(n + 1)  PROVE End(s[i]) <= t[j].addr
        <4>1. CASE j \in 1..c
          <5>1. j \in (i + 1)..n  BY <1>1, <1>6, <4>1
          <5>. QED  BY <1>8, <3>2, <4>1, <5>1
        <4>2. CASE j = d  BY <1>2, <1>5, <1>8, <2>1, <4>2
        <4>3. CASE j \in (d + 1)..(n + 1)
          <5>1. j - 1 \in d..n /\ t[j] = s[j - 1]  BY <1>9, <4>3
          <5>2. j - 1 \in (i + 1)..n  BY <1>1, <1>6, <2>1, <5>1
          <5>. QED  BY <3>2, <5>1, <5>2
        <4>4. j \in 1..(n + 1)  BY <1>1
        <4>. QED  BY <1>11, <4>1, <4>2, <4>3, <4>4
      <3>. QED  BY <3>2, <3>3, <3>4
    <2>2. CASE i = d  BY <1>5, <1>8, <1>21, <2>2
    <2>3. CASE i \in (d + 1)..(n + 1)
      <3> DEFINE k == i - 1
      <3>1. k \in d..n /\ t[i] = s[k]  BY <1>9, <2>3
      <3>2. k \in 1..(n - 1) /\ i = k + 1 /\ k \in Nat  BY <1>1, <2>3
      <3> HIDE DEF k
      <3>3. s[k].size # 0 /\ \A j \in (k + 1)..n : End(s[k]) <= s[j].addr
        BY <3>2 DEF Clear
      <3>4. ASSUME NEW j \in (i + 1)..(n + 1)  PROVE End(s[k]) <= t[j].addr
        <4>1. j \in (d + 1)..(n + 1)  BY <1>1, <2>3
        <4>2. j - 1 \in d..n /\ t[j] = s[j - 1]  BY <1>9, <4>1
        <4>3. j - 1 \in (k + 1)..n  BY <1>1, <3>2, <4>2
        <4>. QED  BY <3>3, <4>2, <4>3
      <3>. QED  BY <3>1, <3>3, <3>4
    <2>4. i \in 1..(n + 1)  BY <1>1
    <2>. QED  BY <1>11, <2>1, <2>2, <2>3, <2>4
  <1>23. Clear(t, Len(t) - 1)
    <2>1. Len(t) - 1 = n  BY <1>1, <1>7
    <2>. QED  BY <1>7, <1>22, <2>1 DEF Clear
  <1>24. /\ \A i \in 1..(c - 1) : End(t[i]) = End(s[i])
         /\ \A i \in 1..c : t[i].addr = s[i].addr
    BY <1>1, <1>8
  <1>25. Len(t) >= Len(s)  BY <1>1, <1>7
  <1>26. FilledBehind(s, t, c)
    BY <1>3, <1>6, <1>7, <1>20, <1>23, <1>24, <1>25 DEF FilledBehind
  <1>. QED  BY <1>26 DEF t, r, d

LEMMA FillTurn ==
    ASSUME region \in Seq(Reg), curr \in Nat, 1 <= curr, Clear(region, Len(region) - 1),
           fill_gaps
    PROVE  /\ pc = "fill" /\ UNCHANGED <<last_usable, sortVars, pc, wanted, adds>>
           /\ curr \in 1..(Len(region) - 1)
           /\ \/ curr' = curr /\ FilledBehind(region, region', curr)
              \/ region' = region /\ curr' = curr + 1 /\ cr = nl
  <1>1. pc = "fill" /\ curr < Len(region)  BY DEF fill_gaps, FillNone, FillGap, Looping
  <1>2. curr \in 1..(Len(region) - 1)
    <2>1. Len(region) \in Nat  BY SeqFacts
    <2>. QED  BY <1>1, <2>1
  <1>3. /\ cl \in Nat /\ cr \in Nat /\ nl \in Nat /\ nr \in Nat
    BY <1>2, ClearFacts DEF C, N, cl, cr, nl, nr
  <1>4. CASE FillNone  BY <1>1, <1>2, <1>4 DEF FillNone, Advance
  <1>5. CASE FillGap
    <2>1. cr # nl /\ curr' = curr /\ UNCHANGED <<last_usable, sortVars, pc, wanted, adds>>
      BY <1>5 DEF FillGap, Change
    <2>2. CASE C.type = PMEMTYPE_RESERVED
      <3> DEFINE a == cl
                 h == nl
      <3>1. /\ a \in Nat /\ h \in Nat /\ region[curr].addr = a /\ region[curr + 1].addr = h
            /\ End(region[curr]) # h /\ region[curr].type = PMEMTYPE_RESERVED
        BY <1>3, <2>1, <2>2 DEF cl, cr, nl, C, N
      <3>2. region' = SetSize(region, curr, h - a)
        BY <1>5, <2>2 DEF FillGap, Change
      <3> HIDE DEF a, h
      <3>3. FilledBehind(region, SetSize(region, curr, h - a), curr)
        BY <1>2, <3>1, FillCurr
      <3>. QED  BY <1>1, <1>2, <2>1, <3>2, <3>3
    <2>3. CASE C.type # PMEMTYPE_RESERVED /\ N.type = PMEMTYPE_RESERVED
      <3> DEFINE g == cr
                 b == nr
      <3>1. /\ g \in Nat /\ b \in Nat /\ End(region[curr]) = g /\ End(region[curr + 1]) = b
            /\ g # region[curr + 1].addr /\ region[curr + 1].type = PMEMTYPE_RESERVED
        BY <1>3, <2>1, <2>3 DEF cr, nl, nr, C, N
      <3>2. region' = SetSpan(region, curr + 1, g, b)
        BY <1>5, <2>3 DEF FillGap, Change
      <3> HIDE DEF g, b
      <3>3. FilledBehind(region, SetSpan(region, curr + 1, g, b), curr)
        BY <1>2, <3>1, FillNext
      <3>. QED  BY <1>1, <1>2, <2>1, <3>2, <3>3
    <2>4. CASE C.type # PMEMTYPE_RESERVED /\ N.type # PMEMTYPE_RESERVED
      <3> DEFINE g == cr
                 h == nl
      <3>1. /\ g \in Nat /\ h \in Nat /\ End(region[curr]) = g
            /\ region[curr + 1].addr = h /\ g # h
        BY <1>3, <2>1 DEF cr, nl, C, N
      <3>2. region' = InsertAt(region, curr + 1,
                  [addr |-> g, size |-> h - g, type |-> PMEMTYPE_RESERVED])
        BY <1>5, <2>4 DEF FillGap, Change
      <3> HIDE DEF g, h
      <3>3. FilledBehind(region, InsertAt(region, curr + 1,
                  [addr |-> g, size |-> h - g, type |-> PMEMTYPE_RESERVED]), curr)
        BY <1>2, <3>1, FillInsert
      <3>. QED  BY <1>1, <1>2, <2>1, <3>2, <3>3
    <2>. QED  BY <2>2, <2>3, <2>4
  <1>. QED  BY <1>4, <1>5 DEF fill_gaps

-----------------------------------------------------------------------------
(* The turns of the loop that joins neighbours of one type. *)

\* t is s with regions c and c + 1 joined.
Joined(s, t, c) ==
    /\ t \in Seq(Reg) /\ Len(t) = Len(s) - 1
    /\ \A k \in 1..Len(t) :
           /\ t[k].size # 0 \/ (k # c /\ t[k] = s[IF k < c THEN k ELSE k + 1])
           /\ t[k].addr = s[IF k <= c THEN k ELSE k + 1].addr
           /\ t[k].type = s[IF k <= c THEN k ELSE k + 1].type
           /\ End(t[k]) = End(s[IF k < c THEN k ELSE k + 1])

LEMMA JoinIs ==
    ASSUME NEW s \in Seq(Reg), NEW c \in 1..(Len(s) - 1), Clear(s, Len(s) - 1),
           Adjoin(s, Len(s) - 1)
    PROVE  Joined(s, RemoveAt(SetSize(s, c, s[c].size + s[c + 1].size), c + 1), c)
  <1> DEFINE n == Len(s)
             d == c + 1
             a == s[c].addr
             b == End(s[d])
             z == s[c].size + s[d].size
             p == SetSpan(s, c, a, b)
             t == RemoveAt(p, d)
  <1>1. /\ n \in Nat /\ c \in Nat /\ 1 <= c /\ d <= n /\ c \in 1..n /\ d \in 1..n /\ d \in Nat
        /\ \A k \in 1..n : s[k] \in Reg
    BY SeqFacts
  <1>2. /\ a \in Nat /\ b \in Nat /\ b <= Bytes /\ z \in Nat /\ z # 0 /\ a + z = b
    <2> DEFINE m == s[c].size
               o == s[d].size
    <2>1. /\ a \in Nat /\ m \in Nat /\ m # 0 /\ o \in Nat /\ b \in Nat /\ b <= Bytes
          /\ End(s[c]) = a + m /\ b = s[d].addr + o /\ s[d].addr \in Nat
      BY ClearFacts
    <2>2. End(s[c]) = s[d].addr  BY DEF Adjoin
    <2>3. b = (a + m) + o  BY <2>1, <2>2
    <2>4. z = m + o  OBVIOUS
    <2> HIDE DEF a, b, z, m, o
    <2>. QED  BY <2>1, <2>3, <2>4
  <1>3. d = c + 1 /\ s[c].addr = a /\ End(s[d]) = b  OBVIOUS
  <1> HIDE DEF d, a, b, z
  <1>4. SetSize(s, c, z) = p
    <2>1. s[c].addr + z <= Bytes /\ s[c].addr + z = b /\ s[c].addr = a  BY <1>2, <1>3
    <2>2. SetSize(s, c, z) = SetSpan(s, c, s[c].addr, s[c].addr + z)
      BY <1>1, <1>2, <2>1, SizeIs
    <2>. QED  BY <2>1, <2>2
  <1>5. /\ p \in Seq(Reg) /\ Len(p) = n
        /\ \A k \in 1..n : k # c => p[k] = s[k]
        /\ p[c].addr = a /\ p[c].type = s[c].type /\ p[c].size # 0 /\ End(p[c]) = b
    <2>0. a < b  BY <1>2
    <2>1. /\ p \in Seq(Reg) /\ Len(p) = Len(s)
          /\ \A k \in 1..Len(s) : k # c => p[k] = s[k]
          /\ p[c] = [addr |-> a, size |-> b - a, type |-> s[c].type] /\ End(p[c]) = b
      BY <1>1, <1>2, <2>0, SpanIs
    <2> HIDE DEF p
    <2>2. p[c].addr = a /\ p[c].size = b - a /\ p[c].type = s[c].type  BY <2>1
    <2>3. p[c].size # 0  BY <1>2, <2>2
    <2>. QED  BY <2>1, <2>2, <2>3
  <1> HIDE DEF p
  <1>6. /\ t \in Seq(Reg) /\ Len(t) = n - 1
        /\ \A k \in 1..(n - 1) : t[k] = IF k < d THEN p[k] ELSE p[k + 1]
    <2>1. d \in 1..Len(p)  BY <1>1, <1>5
    <2>2. /\ t \in Seq(Reg) /\ Len(t) = Len(p) - 1
          /\ \A k \in 1..(Len(p) - 1) : t[k] = IF k < d THEN p[k] ELSE p[k + 1]
      BY <1>5, <2>1, RemoveIs
    <2>. QED  BY <1>5, <2>2
  <1> HIDE DEF t
  <1>7. ASSUME NEW k \in 1..Len(t)
        PROVE  /\ t[k].size # 0 \/ (k # c /\ t[k] = s[IF k < c THEN k ELSE k + 1])
               /\ t[k].addr = s[IF k <= c THEN k ELSE k + 1].addr
               /\ t[k].type = s[IF k <= c THEN k ELSE k + 1].type
               /\ End(t[k]) = End(s[IF k < c THEN k ELSE k + 1])
    <2>1. CASE k < c
      <3>1. t[k] = s[k]  BY <1>1, <1>3, <1>5, <1>6, <2>1
      <3>. QED  BY <1>1, <2>1, <3>1
    <2>2. CASE k = c
      <3>1. t[k] = p[c]  BY <1>1, <1>3, <1>6, <2>2
      <3>. QED  BY <1>1, <1>3, <1>5, <2>2, <3>1
    <2>3. CASE k > c
      <3>1. k + 1 \in 1..n /\ k + 1 # c /\ ~(k < d)  BY <1>1, <1>3, <1>6, <2>3
      <3>2. t[k] = s[k + 1]  BY <1>5, <1>6, <3>1
      <3>. QED  BY <1>1, <2>3, <3>2
    <2>. QED  BY <1>1, <2>1, <2>2, <2>3
  <1>8. Joined(s, t, c)  BY <1>6, <1>7 DEF Joined
  <1>. QED  BY <1>4, <1>8 DEF t, z, d

LEMMA JoinKeeps ==
    ASSUME NEW s \in Seq(Reg), NEW c \in 1..(Len(s) - 1), Clear(s, Len(s) - 1),
           Adjoin(s, Len(s) - 1), Differ(s, c - 1), s[c].type = s[c + 1].type,
           NEW t, Joined(s, t, c)
    PROVE  /\ t \in Seq(Reg) /\ c <= Len(t)
           /\ Clear(t, Len(t) - 1) /\ Adjoin(t, Len(t) - 1) /\ Differ(t, c - 1)
           /\ \A x \in Int : TypeAt(t, x) = TypeAt(s, x)
  <1> DEFINE n == Len(s)
  <1>1. /\ n \in Nat /\ c \in Nat /\ 1 <= c /\ c + 1 <= n
        /\ \A k \in 1..n : s[k] \in Reg
    BY SeqFacts
  <1>2. /\ t \in Seq(Reg) /\ Len(t) = n - 1
        /\ \A k \in 1..(n - 1) :
               /\ t[k].size # 0 \/ (k # c /\ t[k] = s[IF k < c THEN k ELSE k + 1])
               /\ t[k].addr = s[IF k <= c THEN k ELSE k + 1].addr
               /\ t[k].type = s[IF k <= c THEN k ELSE k + 1].type
               /\ End(t[k]) = End(s[IF k < c THEN k ELSE k + 1])
    BY DEF Joined
  <1>3. \A i \in 1..(n - 1) :
            s[i].size # 0 /\ \A j \in (i + 1)..n : End(s[i]) <= s[j].addr
    BY DEF Clear
  <1>4. Clear(t, Len(t) - 1)
    <2>1. ASSUME NEW i \in 1..(n - 2)
          PROVE  t[i].size # 0 /\ \A j \in (i + 1)..(n - 1) : End(t[i]) <= t[j].addr
      <3> DEFINE e == IF i < c THEN i ELSE i + 1
      <3>1. i \in 1..(n - 1) /\ e \in 1..(n - 1)  BY <1>1
      <3>2. End(t[i]) = End(s[e])  BY <1>2, <3>1
      <3>3. t[i].size # 0 \/ t[i] = s[e]  BY <1>2, <3>1
      <3>4. i + 1 <= n - 1 /\ i \in Int /\ n \in Int  BY <1>1
      <3>5. ASSUME NEW j \in (i + 1)..(n - 1)  PROVE End(s[e]) <= t[j].addr
        <4> DEFINE f == IF j <= c THEN j ELSE j + 1
        <4>1. j \in 1..(n - 1) /\ f \in (e + 1)..n  BY <1>1
        <4>2. t[j].addr = s[f].addr  BY <1>2, <4>1
        <4> HIDE DEF e, f
        <4>3. End(s[e]) <= s[f].addr  BY <1>3, <3>1, <4>1
        <4>. QED  BY <4>2, <4>3
      <3> HIDE DEF e
      <3>6. s[e].size # 0  BY <1>3, <3>1
      <3>. QED  BY <3>2, <3>3, <3>5, <3>6
    <2>2. Len(t) - 1 = n - 2  BY <1>1, <1>2
    <2>. QED  BY <1>2, <2>1, <2>2 DEF Clear
  <1>5. Adjoin(t, Len(t) - 1)
    <2>1. ASSUME NEW i \in 1..(n - 2)  PROVE End(t[i]) = t[i + 1].addr
      <3> DEFINE e == IF i < c THEN i ELSE i + 1
                 f == IF i + 1 <= c THEN i + 1 ELSE (i + 1) + 1
      <3>1. i \in 1..(n - 1) /\ i + 1 \in 1..(n - 1) /\ e \in 1..(n - 1) /\ f = e + 1
        BY <1>1
      <3>2. End(t[i]) = End(s[e]) /\ t[i + 1].addr = s[f].addr  BY <1>2, <3>1
      <3> HIDE DEF e, f
      <3>3. End(s[e]) = s[e + 1].addr  BY <3>1 DEF Adjoin
      <3>. QED  BY <3>1, <3>2, <3>3
    <2>2. Len(t) - 1 = n - 2  BY <1>1, <1>2
    <2>. QED  BY <2>1, <2>2 DEF Adjoin
  <1>6. Differ(t, c - 1)
    <2> SUFFICES ASSUME NEW i \in 1..(c - 1)  PROVE t[i].type # t[i + 1].type
      BY DEF Differ
    <2>1. i \in 1..(n - 1) /\ i + 1 \in 1..(n - 1) /\ i <= c /\ i + 1 <= c  BY <1>1
    <2>2. t[i].type = s[i].type /\ t[i + 1].type = s[i + 1].type  BY <1>2, <2>1
    <2>. QED  BY <2>2 DEF Differ
  <1>7. ASSUME NEW x \in Int  PROVE TypeAt(t, x) = TypeAt(s, x)
    <2>1. \A k \in 1..n : s[k].type <= s[k].type /\ s[k].addr \in Nat /\ End(s[k]) \in Nat
      <3>1. ASSUME NEW k \in 1..n
            PROVE  s[k].type <= s[k].type /\ s[k].addr \in Nat /\ End(s[k]) \in Nat
        <4>1. s[k].type \in 1..7 /\ s[k].addr \in Nat /\ End(s[k]) \in Nat
          BY <1>1, RegFacts
        <4>. QED  BY <4>1
      <3>. QED  BY <3>1
    <2>2. /\ s[c].addr <= s[c + 1].addr /\ End(s[c]) <= End(s[c + 1])
          /\ End(s[c]) = s[c + 1].addr
      <3>1. /\ s[c].addr \in Nat /\ End(s[c]) \in Nat /\ s[c + 1].addr \in Nat
            /\ End(s[c + 1]) \in Nat /\ s[c].addr < End(s[c])
            /\ End(s[c]) <= s[c + 1].addr /\ s[c + 1].addr <= End(s[c + 1])
        BY ClearFacts
      <3>2. End(s[c]) = s[c + 1].addr  BY DEF Adjoin
      <3>. QED  BY <3>1, <3>2
    <2>3. /\ c \in 1..n /\ c + 1 \in 1..n /\ c \in 1..(n - 1)  BY <1>1
    <2>4. t[c].addr = s[c].addr /\ t[c].type = s[c].type /\ End(t[c]) = End(s[c + 1])
      BY <1>1, <1>2, <2>3
    <2>5. Covers(t[c], x) <=> Covers(s[c], x) \/ Covers(s[c + 1], x)
      BY <2>1, <2>2, <2>3, <2>4 DEF Covers
    <2>6. ASSUME NEW k \in 1..(n - 1), k < c
          PROVE  t[k].type = s[k].type /\ (Covers(t[k], x) <=> Covers(s[k], x))
      <3>1. k <= c  BY <1>1, <2>6
      <3>2. t[k].type = s[k].type /\ t[k].addr = s[k].addr /\ End(t[k]) = End(s[k])
        BY <1>2, <2>6, <3>1
      <3>. QED  BY <3>2 DEF Covers
    <2>7. ASSUME NEW k \in 1..(n - 1), k > c
          PROVE  t[k].type = s[k + 1].type /\ (Covers(t[k], x) <=> Covers(s[k + 1], x))
      <3>1. ~(k <= c) /\ ~(k < c)  BY <1>1, <2>7
      <3>2. /\ t[k].type = s[k + 1].type /\ t[k].addr = s[k + 1].addr
            /\ End(t[k]) = End(s[k + 1])
        BY <1>2, <3>1
      <3>. QED  BY <3>2 DEF Covers
    <2>8. ASSUME NEW k \in 1..n, Covers(s[k], x)
          PROVE  \E j \in 1..(n - 1) : Covers(t[j], x) /\ s[k].type <= t[j].type
      <3>1. CASE k < c
        <4>1. k \in 1..(n - 1)  BY <1>1, <3>1
        <4>. QED  BY <2>1, <2>6, <2>8, <3>1, <4>1
      <3>2. CASE k = c \/ k = c + 1  BY <2>1, <2>3, <2>4, <2>5, <2>8, <3>2
      <3>3. CASE k > c + 1
        <4> DEFINE l == k - 1
        <4>1. l \in 1..(n - 1) /\ l > c /\ l + 1 = k  BY <1>1, <3>3
        <4> HIDE DEF l
        <4>2. t[l].type = s[l + 1].type /\ (Covers(t[l], x) <=> Covers(s[l + 1], x))
          BY <2>7, <4>1
        <4>. QED  BY <2>1, <2>8, <4>1, <4>2
      <3>. QED  BY <1>1, <3>1, <3>2, <3>3, SMTT(60)
    <2>9. ASSUME NEW k \in 1..(n - 1), Covers(t[k], x)
          PROVE  \E j \in 1..n : Covers(s[j], x) /\ t[k].type <= s[j].type
      <3>1. k \in 1..n /\ k + 1 \in 1..n  BY <1>1
      <3>2. CASE k < c  BY <2>1, <2>6, <2>9, <3>1, <3>2
      <3>3. CASE k = c  BY <2>1, <2>3, <2>4, <2>5, <2>9, <3>3
      <3>4. CASE k > c  BY <2>1, <2>7, <2>9, <3>1, <3>4
      <3>. QED  BY <1>1, <3>2, <3>3, <3>4
    <2>10. Matched(s, t, x) /\ Matched(t, s, x)  BY <1>2, <2>8, <2>9 DEF Matched
    <2>. QED  BY <1>2, <2>10, TypeAtSame
  <1>8. c <= Len(t)  BY <1>1, <1>2
  <1>. QED  BY <1>2, <1>4, <1>5, <1>6, <1>7, <1>8

-----------------------------------------------------------------------------
(* The sort. *)

UpStopsOf(s, l, i, v)   == {k \in (i + 1)..l : ~cmp_region(s[k], v)}
DownStopsOf(s, f, j, v) == {k \in f..(j - 1) : ~cmp_region(v, s[k])}

\* Where the scans stop: u the one from the left, d the one from the right.
Stops(s, f, l, i, j, v, u, d) ==
    /\ u \in (i + 1)..l /\ ~cmp_region(s[u], v)
    /\ \A k \in (i + 1)..l : k < u => cmp_region(s[k], v)
    /\ d \in f..(j - 1) /\ ~cmp_region(v, s[d])
    /\ \A k \in f..(j - 1) : k > d => cmp_region(v, s[k])

LEMMA ScansMeet ==
    ASSUME NEW s \in Seq(Reg), NEW f \in Nat, NEW l \in Nat, 1 <= f, f < l, l <= Len(s),
           NEW i, NEW j, NEW v, Scanned(s, f, l, i, j, v)
    PROVE  /\ UpStopsOf(s, l, i, v) # {} /\ DownStopsOf(s, f, j, v) # {}
           /\ Stops(s, f, l, i, j, v, Min(UpStopsOf(s, l, i, v)), Max(DownStopsOf(s, f, j, v)))
           /\ Min(UpStopsOf(s, l, i, v)) >= Max(DownStopsOf(s, f, j, v))
                  => Max(DownStopsOf(s, f, j, v)) \in f..(l - 1)
  <1> DEFINE U == UpStopsOf(s, l, i, v)
             D == DownStopsOf(s, f, j, v)
  <1>1. /\ i \in Nat /\ j \in Nat /\ v \in Reg
        /\ \A k \in f..i : Leq(s[k], v)
        /\ \A k \in j..l : Leq(v, s[k])
        /\ \/ i = f - 1 /\ j = l + 1 /\ s[f] = v
           \/ f <= i /\ i < j /\ j <= l
    BY DEF Scanned
  <1>2. Len(s) \in Nat /\ \A k \in 1..Len(s) : s[k] \in Reg  BY SeqFacts
  <1>3. \E k \in (i + 1)..l : k \in U /\ (k = f \/ (f <= i /\ j <= l))
    <2>1. CASE i = f - 1 /\ j = l + 1 /\ s[f] = v
      <3>1. f \in (i + 1)..l  BY <2>1
      <3>2. ~cmp_region(s[f], v)  BY <1>1, <2>1, LeqOrder DEF Leq
      <3>. QED  BY <3>1, <3>2 DEF UpStopsOf
    <2>2. CASE f <= i /\ i < j /\ j <= l
      <3>1. j \in (i + 1)..l /\ j \in j..l  BY <1>1, <2>2
      <3>2. ~cmp_region(s[j], v)  BY <1>1, <3>1 DEF Leq
      <3>. QED  BY <2>2, <3>1, <3>2 DEF UpStopsOf
    <2>. QED  BY <1>1, <2>1, <2>2
  <1>4. \E k \in f..(j - 1) : k \in D
    <2>1. CASE i = f - 1 /\ j = l + 1 /\ s[f] = v
      <3>1. f \in f..(j - 1)  BY <2>1
      <3>2. ~cmp_region(v, s[f])  BY <1>1, <2>1, LeqOrder DEF Leq
      <3>. QED  BY <3>1, <3>2 DEF DownStopsOf
    <2>2. CASE f <= i /\ i < j /\ j <= l
      <3>1. i \in f..(j - 1) /\ i \in f..i  BY <1>1, <2>2
      <3>2. ~cmp_region(v, s[i])  BY <1>1, <3>1 DEF Leq
      <3>. QED  BY <3>1, <3>2 DEF DownStopsOf
    <2>. QED  BY <1>1, <2>1, <2>2
  <1>5. U \subseteq Nat /\ \A k \in U : k \in (i + 1)..l /\ ~cmp_region(s[k], v)
    BY <1>1 DEF UpStopsOf
  <1>6. D \subseteq Int /\ \A k \in D : k \in f..(j - 1) /\ ~cmp_region(v, s[k]) /\ k <= j
    BY <1>1 DEF DownStopsOf
  <1>7. \A k \in (i + 1)..l : k \notin U => cmp_region(s[k], v)  BY DEF UpStopsOf
  <1>8. \A k \in f..(j - 1) : k \notin D => cmp_region(v, s[k])  BY DEF DownStopsOf
  <1> HIDE DEF U, D
  <1>9. U # {} /\ D # {}  BY <1>3, <1>4
  <1> DEFINE u == Min(U)
             d == Max(D)
  <1>10. u \in U /\ \A k \in U : u <= k  BY <1>5, <1>9, MinIs
  <1>11. d \in D /\ \A k \in D : d >= k
    <2>1. j \in Int /\ \A k \in D : k <= j  BY <1>1, <1>6
    <2>. QED  BY <1>6, <1>9, <2>1, MaxIs
  <1> HIDE DEF u, d
  <1>12. u \in (i + 1)..l /\ d \in f..(j - 1)  BY <1>5, <1>6, <1>10, <1>11
  <1>13. \A k \in (i + 1)..l : k < u => cmp_region(s[k], v)
    BY <1>1, <1>7, <1>10, <1>12
  <1>14. \A k \in f..(j - 1) : k > d => cmp_region(v, s[k])
    BY <1>1, <1>8, <1>11, <1>12
  <1>15. Stops(s, f, l, i, j, v, u, d)
    BY <1>5, <1>6, <1>10, <1>11, <1>13, <1>14 DEF Stops
  <1>16. u >= d => d \in f..(l - 1)
    <2>1. PICK k \in (i + 1)..l : k \in U /\ (k = f \/ (f <= i /\ j <= l))  BY <1>3
    <2>2. u <= k  BY <1>10, <2>1
    <2>. QED  BY <1>1, <1>12, <2>1, <2>2
  <1>. QED  BY <1>9, <1>15, <1>16 DEF U, D, u, d

\* The two elements at which the scans stop have changed places.
LEMMA SwapIs ==
    ASSUME NEW s \in Seq(Reg), NEW u \in 1..Len(s), NEW d \in 1..Len(s), u # d
    PROVE  LET t == [s EXCEPT ![u] = s[d], ![d] = s[u]]
           IN  /\ t \in Seq(Reg) /\ Len(t) = Len(s) /\ t[u] = s[d] /\ t[d] = s[u]
               /\ \A k \in 1..Len(s) : k # u /\ k # d => t[k] = s[k]
  <1> DEFINE r == [s EXCEPT ![u] = s[d]]
             t == [r EXCEPT ![d] = s[u]]
  <1>1. s[u] \in Reg /\ s[d] \in Reg  BY SeqFacts
  <1>2. /\ r \in Seq(Reg) /\ Len(r) = Len(s)
        /\ \A k \in 1..Len(s) : r[k] = IF k = u THEN s[d] ELSE s[k]
    BY <1>1, ExceptSeq
  <1> HIDE DEF r
  <1>3. /\ t \in Seq(Reg) /\ Len(t) = Len(r)
        /\ \A k \in 1..Len(r) : t[k] = IF k = d THEN s[u] ELSE r[k]
    BY <1>1, <1>2, ExceptSeq
  <1>4. [s EXCEPT ![u] = s[d], ![d] = s[u]] = t  BY Zenon DEF r
  <1> HIDE DEF t
  <1>5. t[u] = s[d] /\ t[d] = s[u] /\ \A k \in 1..Len(s) : k # u /\ k # d => t[k] = s[k]
    BY <1>2, <1>3
  <1>. QED  BY <1>2, <1>3, <1>4, <1>5

\* t is s with positions u and d exchanged.
Swapped(s, t, u, d) ==
    /\ t \in Seq(Reg) /\ Len(t) = Len(s) /\ t[u] = s[d] /\ t[d] = s[u]
    /\ \A k \in 1..Len(s) : k # u /\ k # d => t[k] = s[k]

LEMMA ExchangeScanned ==
    ASSUME NEW s \in Seq(Reg), NEW f \in Nat, NEW l \in Nat, 1 <= f, f < l, l <= Len(s),
           NEW i, NEW j, NEW v, Scanned(s, f, l, i, j, v),
           NEW u, NEW d, Stops(s, f, l, i, j, v, u, d), u < d,
           NEW t, Swapped(s, t, u, d)
    PROVE  /\ u \in f..l /\ d \in f..l /\ u \in 1..Len(s) /\ d \in 1..Len(s)
           /\ Scanned(t, f, l, u, d, v)
  <1>1. /\ i \in Nat /\ j \in Nat /\ v \in Reg
        /\ \A k \in f..i : Leq(s[k], v)
        /\ \A k \in j..l : Leq(v, s[k])
        /\ \/ i = f - 1 /\ j = l + 1
           \/ f <= i /\ i < j /\ j <= l
    BY DEF Scanned
  <1>2. Len(s) \in Nat /\ \A k \in 1..Len(s) : s[k] \in Reg  BY SeqFacts
  <1>3. /\ u \in (i + 1)..l /\ ~cmp_region(s[u], v)
        /\ \A k \in (i + 1)..l : k < u => cmp_region(s[k], v)
        /\ d \in f..(j - 1) /\ ~cmp_region(v, s[d])
        /\ \A k \in f..(j - 1) : k > d => cmp_region(v, s[k])
    BY DEF Stops
  <1>4. /\ u \in Nat /\ d \in Nat /\ f <= u /\ d <= l /\ u \in f..l /\ d \in f..l
        /\ u \in 1..Len(s) /\ d \in 1..Len(s) /\ i < u /\ d < j
    BY <1>1, <1>2, <1>3
  <1>5. /\ t[u] = s[d] /\ t[d] = s[u]
        /\ \A k \in 1..Len(s) : k # u /\ k # d => t[k] = s[k]
    BY DEF Swapped
  <1>6. ASSUME NEW k \in f..u  PROVE Leq(t[k], v)
    <2>1. CASE k = u
      <3>1. ~cmp_region(v, s[d])  BY <1>3
      <3>. QED  BY <1>5, <2>1, <3>1 DEF Leq
    <2>2. CASE k # u
      <3>1. k \in 1..Len(s) /\ k # d /\ k < u  BY <1>2, <1>4, <2>2
      <3>2. t[k] = s[k]  BY <1>5, <2>2, <3>1
      <3>3. CASE k <= i
        <4>1. k \in f..i  BY <1>1, <3>3
        <4>. QED  BY <1>1, <3>2, <4>1
      <3>4. CASE ~(k <= i)
        <4>1. k \in (i + 1)..l  BY <1>1, <1>4, <3>1, <3>4
        <4>2. cmp_region(s[k], v)  BY <1>3, <3>1, <4>1
        <4>. QED  BY <1>1, <1>2, <3>1, <3>2, <4>2, LeqOrder
      <3>. QED  BY <3>3, <3>4
    <2>. QED  BY <2>1, <2>2
  <1>7. ASSUME NEW k \in d..l  PROVE Leq(v, t[k])
    <2>1. CASE k = d
      <3>1. ~cmp_region(s[u], v)  BY <1>3
      <3>. QED  BY <1>5, <2>1, <3>1 DEF Leq
    <2>2. CASE k # d
      <3>1. k \in 1..Len(s) /\ k # u /\ d < k  BY <1>2, <1>4, <2>2
      <3>2. t[k] = s[k]  BY <1>5, <2>2, <3>1
      <3>3. CASE k >= j
        <4>1. k \in j..l  BY <1>1, <3>3
        <4>. QED  BY <1>1, <3>2, <4>1
      <3>4. CASE ~(k >= j)
        <4>1. k \in f..(j - 1) /\ k > d  BY <1>1, <1>4, <3>1, <3>4
        <4>2. cmp_region(v, s[k])  BY <1>3, <4>1
        <4>. QED  BY <1>1, <1>2, <3>1, <3>2, <4>2, LeqOrder
      <3>. QED  BY <3>3, <3>4
    <2>. QED  BY <2>1, <2>2
  <1>8. Scanned(t, f, l, u, d, v)  BY <1>1, <1>4, <1>6, <1>7 DEF Scanned
  <1>. QED  BY <1>4, <1>8

\* Two elements are in one of the ranges to sort.
Together(R, p, q) == \E k \in 1..Len(R) : Within(R, k, p) /\ Within(R, k, q)

LEMMA RangeFacts ==
    ASSUME NEW n \in Nat, NEW R, RangesIn(R, n), R # <<>>
    PROVE  /\ Len(R) \in Nat /\ Len(R) \in 1..Len(R)
           /\ \A k \in 1..Len(R) : /\ R[k][1] \in Nat /\ R[k][2] \in Nat
                                   /\ 1 <= R[k][1] /\ R[k][1] < R[k][2] /\ R[k][2] <= n
           /\ \A k \in 1..Len(R) : k # Len(R) => R[Len(R)][2] < R[k][1]
  <1>1. R \in Seq(Nat \X Nat)  BY DEF RangesIn
  <1>2. Len(R) \in Nat /\ \A k \in 1..Len(R) : R[k] \in Nat \X Nat
    BY <1>1, SeqFacts
  <1>3. Len(R) # 0  BY <1>1, EmptySeq
  <1>4. Len(R) \in 1..Len(R)  BY <1>2, <1>3
  <1>5. \A k \in 1..Len(R) : /\ R[k][1] \in Nat /\ R[k][2] \in Nat
                             /\ 1 <= R[k][1] /\ R[k][1] < R[k][2] /\ R[k][2] <= n
    BY <1>2 DEF RangesIn
  <1>6. \A k \in 1..Len(R) : k # Len(R) => k < Len(R)  BY <1>2
  <1>7. \A k \in 1..Len(R) : k # Len(R) => R[Len(R)][2] < R[k][1]
    BY <1>4, <1>6 DEF RangesIn
  <1>. QED  BY <1>2, <1>4, <1>5, <1>7

\* An element of the innermost range is in no other one.
LEMMA InnermostAlone ==
    ASSUME NEW n \in Nat, NEW R, RangesIn(R, n), R # <<>>,
           NEW p \in Nat, NEW q \in Nat, Within(R, Len(R), p), Together(R, p, q)
    PROVE  Within(R, Len(R), q)
  <1>1. /\ Len(R) \in 1..Len(R)
        /\ \A k \in 1..Len(R) : R[k][1] \in Nat /\ R[k][2] \in Nat
        /\ \A k \in 1..Len(R) : k # Len(R) => R[Len(R)][2] < R[k][1]
    BY RangeFacts
  <1>2. PICK k \in 1..Len(R) : Within(R, k, p) /\ Within(R, k, q)  BY DEF Together
  <1>3. R[k][1] <= p /\ p <= R[Len(R)][2]  BY <1>2 DEF Within
  <1>4. k = Len(R)  BY <1>1, <1>3
  <1>. QED  BY <1>2, <1>4

LEMMA ExchangeSorted ==
    ASSUME NEW s \in Seq(Reg), NEW R, R # <<>>, RangesIn(R, Len(s)), SortedApart(s, R),
           NEW f, NEW l, f = R[Len(R)][1], l = R[Len(R)][2],
           NEW u \in f..l, NEW d \in f..l, NEW t, Swapped(s, t, u, d)
    PROVE  SortedApart(t, R)
  <1> DEFINE n == Len(s)
             m == Len(R)
  <1>1. /\ m \in 1..m
        /\ \A k \in 1..m : /\ R[k][1] \in Nat /\ R[k][2] \in Nat
                           /\ 1 <= R[k][1] /\ R[k][1] < R[k][2] /\ R[k][2] <= n
    <2>1. n \in Nat  BY SeqFacts
    <2>. QED  BY <2>1, RangeFacts
  <1>2. f \in Nat /\ l \in Nat /\ 1 <= f /\ f < l /\ l <= n /\ n \in Nat
    BY <1>1, SeqFacts
  <1>3. \A p \in Nat : Within(R, m, p) <=> p \in f..l  BY <1>2 DEF Within
  <1>4. /\ Len(t) = n /\ t[u] = s[d] /\ t[d] = s[u]
        /\ \A k \in 1..n : k # u /\ k # d => t[k] = s[k]
    BY DEF Swapped
  <1>5. \A p, q \in 1..n : p < q => Leq(s[p], s[q]) \/ Together(R, p, q)
    BY DEF SortedApart, Together
  <1>6. ASSUME NEW p \in f..l, NEW q \in 1..n, q \notin f..l  PROVE ~Together(R, p, q)
    <2>1. p \in Nat /\ q \in Nat  BY <1>2
    <2>2. Within(R, m, p) /\ ~Within(R, m, q)  BY <1>3, <1>6, <2>1
    <2>. QED  BY <1>2, <2>1, <2>2, InnermostAlone
  <1>7. ASSUME NEW p \in f..l  PROVE \E k \in f..l : t[p] = s[k]
    <2>1. p \in 1..n  BY <1>2
    <2>. QED  BY <1>4, <2>1
  <1>8. ASSUME NEW p \in 1..n, NEW q \in 1..n, p < q
        PROVE  Leq(t[p], t[q]) \/ Together(R, p, q)
    <2>1. CASE p \in f..l /\ q \in f..l
      <3>1. p \in Nat /\ q \in Nat  BY <1>2
      <3>2. Within(R, m, p) /\ Within(R, m, q)  BY <1>3, <2>1, <3>1
      <3>. QED  BY <1>1, <3>2 DEF Together
    <2>2. CASE p \in f..l /\ q \notin f..l
      <3>1. PICK k \in f..l : t[p] = s[k]  BY <1>7, <2>2
      <3>2. k \in 1..n /\ k < q  BY <1>2, <1>8, <2>2
      <3>3. ~Together(R, k, q)  BY <1>6, <2>2
      <3>4. Leq(s[k], s[q])  BY <1>5, <3>2, <3>3
      <3>5. t[q] = s[q]  BY <1>4, <2>2
      <3>. QED  BY <3>1, <3>4, <3>5
    <2>3. CASE p \notin f..l /\ q \in f..l
      <3>1. PICK k \in f..l : t[q] = s[k]  BY <1>7, <2>3
      <3>2. k \in 1..n /\ p < k  BY <1>2, <1>8, <2>3
      <3>3. ~Together(R, k, p)  BY <1>6, <2>3
      <3>4. ~Together(R, p, k)  BY <3>3 DEF Together
      <3>5. Leq(s[p], s[k])  BY <1>5, <3>2, <3>4
      <3>6. t[p] = s[p]  BY <1>4, <2>3
      <3>. QED  BY <3>1, <3>5, <3>6
    <2>4. CASE p \notin f..l /\ q \notin f..l
      <3>1. t[p] = s[p] /\ t[q] = s[q]  BY <1>4, <2>4
      <3>. QED  BY <1>5, <1>8, <3>1
    <2>. QED  BY <2>1, <2>2, <2>3, <2>4
  <1>. QED  BY <1>4, <1>8 DEF SortedApart, Together

\* T has the ranges of R and, if it is one, a .. b.
Added(R, T, a, b) ==
    /\ \A k \in 1..Len(R) : \E m \in 1..Len(T) : T[m] = R[k]
    /\ a < b => \E m \in 1..Len(T) : T[m] = <<a, b>>
    /\ \A m \in 1..Len(T) : T[m] = <<a, b>> \/ \E k \in 1..Len(R) : T[m] = R[k]

LEMMA AddRange ==
    ASSUME NEW n \in Nat, NEW R, RangesIn(R, n), NEW a \in Nat, NEW b \in Nat,
           1 <= a, b <= n, \A k \in 1..Len(R) : b < R[k][1]
    PROVE  RangesIn(R \o Q!Part(a, b), n) /\ Added(R, R \o Q!Part(a, b), a, b)
  <1> DEFINE T == R \o Q!Part(a, b)
  <1>1. R \in Seq(Nat \X Nat) /\ Len(R) \in Nat  BY SeqFacts DEF RangesIn
  <1>2. /\ \A k \in 1..Len(R) : 1 <= R[k][1] /\ R[k][1] < R[k][2] /\ R[k][2] <= n
        /\ \A k, l \in 1..Len(R) : k < l => R[l][2] < R[k][1]
    BY DEF RangesIn
  <1>3. CASE a < b
    <2> DEFINE e == <<a, b>>
               o == <<e>>
    <2>1. e \in Nat \X Nat /\ e[1] = a /\ e[2] = b  OBVIOUS
    <2>2. T = R \o o  BY <1>3 DEF Q!Part
    <2> HIDE DEF e, T
    <2>3. o \in Seq(Nat \X Nat) /\ Len(o) = 1 /\ o[1] = e  BY <2>1
    <2> HIDE DEF o
    <2>4. /\ T \in Seq(Nat \X Nat) /\ Len(T) = Len(R) + 1
          /\ \A k \in 1..(Len(R) + 1) : T[k] = IF k <= Len(R) THEN R[k] ELSE o[k - Len(R)]
      <3>1. /\ R \o o \in Seq(Nat \X Nat) /\ Len(R \o o) = Len(R) + Len(o)
            /\ \A k \in 1..(Len(R) + Len(o)) :
                   (R \o o)[k] = IF k <= Len(R) THEN R[k] ELSE o[k - Len(R)]
        BY <1>1, <2>3, ConcatProperties
      <3>. QED  BY <2>2, <2>3, <3>1
    <2>5. /\ \A k \in 1..Len(R) : k \in 1..Len(T) /\ T[k] = R[k]
          /\ Len(T) \in 1..Len(T) /\ T[Len(T)] = e
      <3>1. ASSUME NEW k \in 1..Len(R)  PROVE k \in 1..Len(T) /\ T[k] = R[k]
        <4>1. k \in 1..(Len(R) + 1) /\ k <= Len(R)  BY <1>1
        <4>. QED  BY <2>4, <4>1
      <3> DEFINE m == Len(R) + 1
      <3>2. m \in 1..(Len(R) + 1) /\ ~(m <= Len(R)) /\ m - Len(R) = 1 /\ m = Len(T)
            /\ m \in 1..m
        BY <1>1, <2>4
      <3> HIDE DEF m
      <3>3. T[m] = o[m - Len(R)]  BY <2>4, <3>2
      <3>. QED  BY <2>3, <3>1, <3>2, <3>3
    <2>6. \A m \in 1..Len(T) : m = Len(T) \/ m \in 1..Len(R)  BY <1>1, <2>4
    <2>7. \A k \in 1..Len(T) : 1 <= T[k][1] /\ T[k][1] < T[k][2] /\ T[k][2] <= n
      BY <1>2, <1>3, <2>1, <2>5, <2>6
    <2>8. ASSUME NEW k \in 1..Len(T), NEW l \in 1..Len(T), k < l
          PROVE  T[l][2] < T[k][1]
      <3>1. k \in 1..Len(R)  BY <1>1, <2>4, <2>8
      <3>2. CASE l = Len(T)  BY <2>1, <2>5, <3>1, <3>2
      <3>3. CASE l \in 1..Len(R)  BY <1>2, <2>5, <2>8, <3>1, <3>3
      <3>. QED  BY <2>6, <3>2, <3>3
    <2>9. RangesIn(T, n)  BY <2>4, <2>7, <2>8 DEF RangesIn
    <2>10. Added(R, T, a, b)  BY <1>3, <2>5, <2>6 DEF e, Added
    <2>. QED  BY <2>9, <2>10 DEF T
  <1>4. CASE ~(a < b)
    <2>1. T = R  BY <1>1, <1>4, ConcatEmptySeq DEF Q!Part
    <2>2. Added(R, R, a, b)  BY <1>4 DEF Added
    <2>. QED  BY <2>1, <2>2
  <1>. QED  BY <1>3, <1>4

LEMMA FrontIs ==
    ASSUME NEW S, NEW s \in Seq(S), s # <<>>
    PROVE  /\ SubSeq(s, 1, Len(s) - 1) \in Seq(S)
           /\ Len(SubSeq(s, 1, Len(s) - 1)) = Len(s) - 1
           /\ \A k \in 1..(Len(s) - 1) : SubSeq(s, 1, Len(s) - 1)[k] = s[k]
  <1> DEFINE n == Len(s) - 1
  <1>1. Len(s) \in Nat /\ Len(s) # 0  BY SeqFacts, EmptySeq
  <1>2. n \in Nat /\ n <= Len(s) /\ (IF 1 <= n THEN n - 1 + 1 ELSE 0) = n
    BY <1>1
  <1> HIDE DEF n
  <1>3. /\ SubSeq(s, 1, n) \in Seq(S)
        /\ Len(SubSeq(s, 1, n)) = IF 1 <= n THEN n - 1 + 1 ELSE 0
        /\ \A k \in 1..(n - 1 + 1) : SubSeq(s, 1, n)[k] = s[1 + k - 1]
    BY <1>2, SeqFacts
  <1>4. \A k \in 1..n : SubSeq(s, 1, n)[k] = s[k]
    <2> SUFFICES ASSUME NEW k \in 1..n  PROVE SubSeq(s, 1, n)[k] = s[k]  OBVIOUS
    <2>1. k \in 1..(n - 1 + 1) /\ 1 + k - 1 = k  BY <1>2
    <2>. QED  BY <1>3, <2>1
  <1>5. Len(SubSeq(s, 1, n)) = n  BY <1>2, <1>3
  <1>. QED  BY <1>3, <1>4, <1>5 DEF n

\* The innermost range divided at d, its two parts as ranges of their own.
Divided(R, f, l, d) ==
    SubSeq(R, 1, Len(R) - 1) \o Q!Part(d + 1, l) \o Q!Part(f, d)

LEMMA DividedRanges ==
    ASSUME NEW n \in Nat, NEW R, R # <<>>, RangesIn(R, n),
           NEW f \in Nat, NEW l \in Nat, f = R[Len(R)][1], l = R[Len(R)][2],
           NEW d \in f..(l - 1)
    PROVE  /\ RangesIn(Divided(R, f, l, d), n)
           /\ \A p, q \in Nat : Together(R, p, q) /\ ~Within(R, Len(R), p)
                                    => Together(Divided(R, f, l, d), p, q)
           /\ \A p, q \in f..d : p < q => Together(Divided(R, f, l, d), p, q)
           /\ \A p, q \in (d + 1)..l : p < q => Together(Divided(R, f, l, d), p, q)
  <1> DEFINE m == Len(R)
             F == SubSeq(R, 1, m - 1)
             c == d + 1
             G == F \o Q!Part(c, l)
             T == G \o Q!Part(f, d)
  <1>1. /\ m \in 1..m /\ m \in Nat /\ R \in Seq(Nat \X Nat)
        /\ \A k \in 1..m : /\ R[k][1] \in Nat /\ R[k][2] \in Nat
                           /\ 1 <= R[k][1] /\ R[k][1] < R[k][2] /\ R[k][2] <= n
        /\ \A k \in 1..m : k # m => l < R[k][1]
    BY RangeFacts DEF RangesIn
  <1>2. /\ 1 <= f /\ f < l /\ l <= n /\ d \in Nat /\ c \in Nat /\ f <= d /\ d < l
        /\ c = d + 1
    BY <1>1
  <1>3. F \in Seq(Nat \X Nat) /\ Len(F) = m - 1 /\ \A k \in 1..(m - 1) : F[k] = R[k]
    BY <1>1, FrontIs
  <1> HIDE DEF F, c, m
  <1>4. RangesIn(F, n) /\ \A k \in 1..Len(F) : l < F[k][1]
    <2>1. \A k \in 1..Len(F) : k \in 1..m /\ k # m /\ F[k] = R[k]  BY <1>1, <1>3, SMTT(60)
    <2>2. \A k, i \in 1..m : k < i => R[i][2] < R[k][1]  BY DEF RangesIn, m
    <2>3. \A k \in 1..Len(F) : 1 <= F[k][1] /\ F[k][1] < F[k][2] /\ F[k][2] <= n
      BY <1>1, <2>1
    <2>4. \A k, i \in 1..Len(F) : k < i => F[i][2] < F[k][1]  BY <2>1, <2>2
    <2>. QED  BY <1>1, <1>3, <2>1, <2>3, <2>4 DEF RangesIn
  <1>5. /\ RangesIn(G, n)
        /\ \A k \in 1..Len(F) : \E i \in 1..Len(G) : G[i] = F[k]
        /\ c < l => \E i \in 1..Len(G) : G[i] = <<c, l>>
        /\ \A i \in 1..Len(G) : G[i] = <<c, l>> \/ \E k \in 1..Len(F) : G[i] = F[k]
    <2>1. 1 <= c  BY <1>2
    <2>2. RangesIn(G, n) /\ Added(F, G, c, l)  BY <1>2, <1>4, <2>1, AddRange
    <2> HIDE DEF G
    <2>. QED  BY <2>2 DEF Added
  <1>6. \A i \in 1..Len(G) : d < G[i][1]
    <2> SUFFICES ASSUME NEW i \in 1..Len(G)  PROVE d < G[i][1]  OBVIOUS
    <2> HIDE DEF G
    <2>1. CASE G[i] = <<c, l>>  BY <1>2, <2>1
    <2>2. CASE \E k \in 1..Len(F) : G[i] = F[k]
      <3>1. PICK k \in 1..Len(F) : G[i] = F[k]  BY <2>2
      <3>0. k \in 1..(m - 1) /\ k \in 1..m  BY <1>1, <1>3
      <3>2. F[k] = R[k] /\ R[k][1] \in Nat  BY <1>1, <1>3, <3>0
      <3>3. l < F[k][1]  BY <1>4
      <3>. QED  BY <1>2, <3>1, <3>2, <3>3, SMTT(60)
    <2>. QED  BY <1>5, <2>1, <2>2
  <1>7. /\ RangesIn(T, n)
        /\ \A k \in 1..Len(G) : \E i \in 1..Len(T) : T[i] = G[k]
        /\ f < d => \E i \in 1..Len(T) : T[i] = <<f, d>>
    <2>1. d <= n /\ 1 <= f  BY <1>2
    <2> HIDE DEF G
    <2>2. RangesIn(T, n) /\ Added(G, T, f, d)  BY <1>2, <1>5, <1>6, <2>1, AddRange
    <2> HIDE DEF T
    <2>. QED  BY <2>2 DEF Added
  <1>8. Divided(R, f, l, d) = T  BY DEF Divided, F, c, m
  <1> HIDE DEF G, T
  <1>9. ASSUME NEW p \in Nat, NEW q \in Nat, Together(R, p, q), ~Within(R, m, p)
        PROVE  Together(T, p, q)
    <2>1. PICK k \in 1..m : Within(R, k, p) /\ Within(R, k, q)  BY <1>9 DEF Together, m
    <2>2. k # m  BY <1>9, <2>1
    <2>3. k \in 1..Len(F) /\ F[k] = R[k]  BY <1>1, <1>3, <2>2, SMTT(60)
    <2>4. PICK i \in 1..Len(G) : G[i] = F[k]  BY <1>5, <2>3
    <2>5. PICK h \in 1..Len(T) : T[h] = G[i]  BY <1>7
    <2>6. T[h] = R[k]  BY <2>3, <2>4, <2>5
    <2>. QED  BY <2>1, <2>6 DEF Together, Within
  <1>10. ASSUME NEW p \in f..d, NEW q \in f..d, p < q  PROVE Together(T, p, q)
    <2>1. f < d  BY <1>2, <1>10
    <2>2. PICK i \in 1..Len(T) : T[i] = <<f, d>>  BY <1>7, <2>1
    <2>3. T[i][1] = f /\ T[i][2] = d  BY <2>2
    <2>4. f <= p /\ p <= d /\ f <= q /\ q <= d  BY <1>2
    <2>. QED  BY <2>3, <2>4 DEF Together, Within
  <1>11. ASSUME NEW p \in (d + 1)..l, NEW q \in (d + 1)..l, p < q  PROVE Together(T, p, q)
    <2>1. c < l  BY <1>2, <1>11
    <2>2. PICK k \in 1..Len(G) : G[k] = <<c, l>>  BY <1>5, <2>1
    <2>3. PICK i \in 1..Len(T) : T[i] = G[k]  BY <1>7
    <2>4. T[i][1] = c /\ T[i][2] = l  BY <2>2, <2>3
    <2>5. c <= p /\ p <= l /\ c <= q /\ q <= l  BY <1>2
    <2>. QED  BY <2>4, <2>5 DEF Together, Within
  <1>. QED  BY <1>7, <1>8, <1>9, <1>10, <1>11 DEF m

LEMMA SplitSorted ==
    ASSUME NEW s \in Seq(Reg), NEW R, R # <<>>, RangesIn(R, Len(s)), SortedApart(s, R),
           NEW f \in Nat, NEW l \in Nat, f = R[Len(R)][1], l = R[Len(R)][2],
           NEW i, NEW j, NEW v, Scanned(s, f, l, i, j, v),
           NEW u, NEW d \in f..(l - 1), Stops(s, f, l, i, j, v, u, d), u >= d
    PROVE  /\ RangesIn(Divided(R, f, l, d), Len(s))
           /\ SortedApart(s, Divided(R, f, l, d))
  <1> DEFINE n == Len(s)
             m == Len(R)
             T == Divided(R, f, l, d)
  <1>1. n \in Nat /\ \A k \in 1..n : s[k] \in Reg  BY SeqFacts
  <1>2. 1 <= f /\ f < l /\ l <= n  BY <1>1, RangeFacts
  <1>3. /\ RangesIn(T, n)
        /\ \A p, q \in Nat : Together(R, p, q) /\ ~Within(R, m, p) => Together(T, p, q)
        /\ \A p, q \in f..d : p < q => Together(T, p, q)
        /\ \A p, q \in (d + 1)..l : p < q => Together(T, p, q)
    BY <1>1, DividedRanges
  <1> HIDE DEF T
  <1>4. /\ i \in Nat /\ j \in Nat /\ v \in Reg
        /\ \A k \in f..i : Leq(s[k], v)
        /\ \A k \in j..l : Leq(v, s[k])
    BY DEF Scanned
  <1>5. /\ u \in (i + 1)..l
        /\ \A k \in (i + 1)..l : k < u => cmp_region(s[k], v)
        /\ d \in f..(j - 1) /\ ~cmp_region(v, s[d])
        /\ \A k \in f..(j - 1) : k > d => cmp_region(v, s[k])
    BY DEF Stops
  <1>6. ASSUME NEW k \in f..d  PROVE Leq(s[k], v)
    <2>1. k \in 1..n /\ k \in Nat  BY <1>2
    <2>2. CASE k <= i
      <3>1. k \in f..i  BY <1>4, <2>2
      <3>. QED  BY <1>4, <3>1
    <2>3. CASE k > i /\ k < u
      <3>1. k \in (i + 1)..l  BY <1>2, <1>4, <2>3
      <3>2. cmp_region(s[k], v)  BY <1>5, <2>3, <3>1
      <3>. QED  BY <1>1, <1>4, <2>1, <3>2, LeqOrder
    <2>4. CASE ~(k < u)
      <3>1. k = d  BY <1>4, <1>5, <2>4
      <3>. QED  BY <1>5, <3>1 DEF Leq
    <2>. QED  BY <1>4, <2>1, <2>2, <2>3, <2>4
  <1>7. ASSUME NEW k \in (d + 1)..l  PROVE Leq(v, s[k])
    <2>1. k \in 1..n /\ k \in Nat /\ k > d  BY <1>2
    <2>2. CASE k >= j
      <3>1. k \in j..l  BY <1>4, <2>2
      <3>. QED  BY <1>4, <3>1
    <2>3. CASE ~(k >= j)
      <3>1. k \in f..(j - 1)  BY <1>4, <2>1, <2>3
      <3>2. cmp_region(v, s[k])  BY <1>5, <2>1, <3>1
      <3>. QED  BY <1>1, <1>4, <2>1, <3>2, LeqOrder
    <2>. QED  BY <2>2, <2>3
  <1>8. ASSUME NEW p \in 1..n, NEW q \in 1..n, p < q
        PROVE  Leq(s[p], s[q]) \/ Together(T, p, q)
    <2>1. Leq(s[p], s[q]) \/ Together(R, p, q)  BY <1>8 DEF SortedApart, Together
    <2>2. CASE Leq(s[p], s[q])  BY <2>2
    <2>3. CASE Together(R, p, q) /\ ~Within(R, m, p)
      <3>1. p \in Nat /\ q \in Nat  OBVIOUS
      <3>. QED  BY <1>3, <2>3, <3>1
    <2>4. CASE Together(R, p, q) /\ Within(R, m, p)
      <3>1. Within(R, m, q)
        <4>1. p \in Nat /\ q \in Nat  OBVIOUS
        <4>. QED  BY <1>1, <2>4, <4>1, InnermostAlone
      <3>2. p \in f..l /\ q \in f..l  BY <1>2, <2>4, <3>1 DEF Within
      <3>3. CASE q <= d
        <4>1. p \in f..d /\ q \in f..d  BY <1>8, <3>2, <3>3
        <4>. QED  BY <1>3, <1>8, <4>1
      <3>4. CASE p > d
        <4>1. p \in (d + 1)..l /\ q \in (d + 1)..l  BY <1>8, <3>2, <3>4
        <4>. QED  BY <1>3, <1>8, <4>1
      <3>5. CASE p <= d /\ ~(q <= d)
        <4>1. p \in f..d /\ q \in (d + 1)..l  BY <3>2, <3>5
        <4>2. Leq(s[p], v) /\ Leq(v, s[q])  BY <1>6, <1>7, <4>1
        <4>. QED  BY <1>1, <1>4, <4>2, LeqOrder
      <3>. QED  BY <3>2, <3>3, <3>4, <3>5
    <2>. QED  BY <2>1, <2>2, <2>3, <2>4
  <1>9. SortedApart(s, T)  BY <1>8 DEF SortedApart, Together
  <1>. QED  BY <1>3, <1>9 DEF T

-----------------------------------------------------------------------------
(* The invariant is inductive: the start and the sort. *)

LEMMA NoRanges ==
    ASSUME NEW n
    PROVE  RangesIn(<<>>, n)
  BY DEF RangesIn

LEMMA WholeRange ==
    ASSUME NEW s \in Seq(Reg)
    PROVE  /\ RangesIn(Q!Part(1, Len(s)), Len(s))
           /\ SortedApart(s, Q!Part(1, Len(s)))
  <1> DEFINE n == Len(s)
             T == Q!Part(1, n)
  <1>1. n \in Nat /\ \A k \in 1..n : s[k] \in Reg  BY SeqFacts
  <1>2. CASE 1 < n
    <2> DEFINE e == <<1, n>>
    <2>1. e \in Nat \X Nat /\ e[1] = 1 /\ e[2] = n  BY <1>1
    <2>2. T = <<e>>  BY <1>2 DEF Q!Part
    <2> HIDE DEF e, T
    <2>3. T \in Seq(Nat \X Nat) /\ Len(T) = 1 /\ T[1] = e  BY <2>1, <2>2
    <2>4. RangesIn(T, n)
      <3>1. \A k \in 1..Len(T) : k = 1  BY <2>3
      <3>2. \A k \in 1..Len(T) : 1 <= T[k][1] /\ T[k][1] < T[k][2] /\ T[k][2] <= n
        BY <1>1, <1>2, <2>1, <2>3, <3>1
      <3>3. \A k, l \in 1..Len(T) : ~(k < l)  BY <3>1
      <3>. QED  BY <2>3, <3>2, <3>3 DEF RangesIn
    <2>5. SortedApart(s, T)
      <3> SUFFICES ASSUME NEW p \in 1..n, NEW q \in 1..n
                   PROVE  \E k \in 1..Len(T) : Within(T, k, p) /\ Within(T, k, q)
        BY DEF SortedApart
      <3>1. Within(T, 1, p) /\ Within(T, 1, q)  BY <1>1, <2>1, <2>3 DEF Within
      <3>. QED  BY <2>3, <3>1
    <2>. QED  BY <2>4, <2>5 DEF T
  <1>3. CASE ~(1 < n)
    <2>1. T = <<>>  BY <1>3 DEF Q!Part
    <2>2. \A p, q \in 1..n : ~(p < q)  BY <1>1, <1>3
    <2>. QED  BY <2>1, <2>2, NoRanges DEF SortedApart
  <1>. QED  BY <1>2, <1>3

LEMMA NothingToSort ==
    ASSUME NEW s \in Seq(Reg), SortedApart(s, <<>>)
    PROVE  InOrder(s, 1) /\ Clear(s, 0)
  <1>1. Len(s) \in Nat /\ \A k \in 1..Len(s) : s[k] \in Reg  BY SeqFacts
  <1>2. ASSUME NEW i \in 1..Len(s), NEW j \in 1..Len(s), i <= j  PROVE Leq(s[i], s[j])
    <2>1. CASE i = j  BY <1>1, <2>1, LeqOrder
    <2>2. CASE i # j
      <3>1. i < j  BY <1>2, <2>2
      <3>2. \A k \in 1..Len(<<>>) : FALSE  OBVIOUS
      <3>. QED  BY <3>1, <3>2 DEF SortedApart
    <2>. QED  BY <2>1, <2>2
  <1>. QED  BY <1>2 DEF InOrder, Clear

\* What holds of the sort once the innermost range begins its partition.
LEMMA Begun ==
    ASSUME NEW s \in Seq(Reg), NEW todo, RangesIn(todo, Len(s)), SortedApart(s, todo),
           Q!Begin(todo, s)
    PROVE  /\ region' = s /\ ranges' = todo
           /\ ranges' # <<>> =>
                  /\ scan' \in [i : Nat, j : Nat, pivot : Reg]
                  /\ Scanned(region', Q!first', Q!last', scan'.i, scan'.j, scan'.pivot)
  <1>1. region' = s /\ ranges' = todo  BY DEF Q!Begin
  <1>2. ASSUME todo # <<>>
        PROVE  /\ scan' \in [i : Nat, j : Nat, pivot : Reg]
               /\ Scanned(s, Q!first', Q!last', scan'.i, scan'.j, scan'.pivot)
    <2> DEFINE m == Len(todo)
               f == todo[m][1]
               l == todo[m][2]
               i == f - 1
               j == l + 1
               v == s[f]
    <2>1. scan' = [i |-> i, j |-> j, pivot |-> v]  BY <1>2 DEF Q!Begin
    <2>2. f \in Nat /\ l \in Nat /\ 1 <= f /\ f < l /\ l <= Len(s)
      <3>1. Len(s) \in Nat  BY SeqFacts
      <3>. QED  BY <1>2, <3>1, RangeFacts
    <2>3. Q!first' = f /\ Q!last' = l  BY <1>1 DEF Q!first, Q!last
    <2> HIDE DEF f, l
    <2>4. i \in Nat /\ j \in Nat /\ v \in Reg
      <3>1. f \in 1..Len(s)  BY <2>2, SeqFacts
      <3>. QED  BY <2>2, <3>1, SeqFacts
    <2>5. (\A k \in f..i : Leq(s[k], v)) /\ (\A k \in j..l : Leq(v, s[k]))
      <3>1. (\A k \in f..i : FALSE) /\ (\A k \in j..l : FALSE)  BY <2>2
      <3>. QED  BY <3>1
    <2>6. Scanned(s, f, l, i, j, v)  BY <2>4, <2>5 DEF Scanned
    <2> HIDE DEF i, j, v
    <2>7. scan'.i = i /\ scan'.j = j /\ scan'.pivot = v  BY <2>1
    <2>8. scan' \in [i : Nat, j : Nat, pivot : Reg]  BY <2>1, <2>4
    <2>. QED  BY <2>3, <2>6, <2>7, <2>8
  <1>. QED  BY <1>1, <1>2

LEMMA ListedTyped ==
    ASSUME NEW s \in Seq(Reg)
    PROVE  /\ Listed(s) \in [0..(Bytes - 1) -> Types \union {0}]
           /\ \A x \in 0..(Bytes - 1) : Listed(s)[x] = TypeAt(s, x)
  <1>1. \A x \in 0..(Bytes - 1) : TypeAt(s, x) \in Types \union {0}
    <2> SUFFICES ASSUME NEW x \in 0..(Bytes - 1)  PROVE TypeAt(s, x) \in Types \union {0}
      OBVIOUS
    <2>1. TypeAt(s, x) \in 0..7  BY TypeAtIs
    <2>. QED  BY <2>1 DEF Types
  <1>. QED  BY <1>1 DEF Listed

\* The invariant of a list whose sort has begun, or that needs none.
LEMMA SortBegun ==
    ASSUME NEW s \in Seq(Reg), NEW todo, RangesIn(todo, Len(s)), SortedApart(s, todo),
           Q!Begin(todo, s), SortThenCollapse,
           \A x \in 0..(Bytes - 1) : TypeAt(s, x) = wanted'[x],
           wanted' \in [0..(Bytes - 1) -> Types \union {0}],
           last_usable' \in 0..Bytes, adds' \in 0..MaxAdds
    PROVE  MapInv'
  <1>1. /\ region' = s /\ ranges' = todo
        /\ ranges' # <<>> =>
               /\ scan' \in [i : Nat, j : Nat, pivot : Reg]
               /\ Scanned(region', Q!first', Q!last', scan'.i, scan'.j, scan'.pivot)
    BY Begun
  <1>2. pc' = (IF ranges' = <<>> THEN "collapse" ELSE "sort") /\ curr' = 1
    BY DEF SortThenCollapse
  <1>3. MapTyped'  BY <1>1, <1>2 DEF MapTyped
  <1>4. LoopInv'
    <2>1. TypesListed'  BY <1>1 DEF TypesListed
    <2>2. pc' = "collapse" => Clear(region', curr' - 1) /\ InOrder(region', curr')
      <3> SUFFICES ASSUME ranges' = <<>>
                   PROVE  Clear(region', curr' - 1) /\ InOrder(region', curr')
        BY <1>2
      <3>1. InOrder(s, 1) /\ Clear(s, 0)  BY <1>1, NothingToSort
      <3>2. curr' - 1 = 0  BY <1>2
      <3>. QED  BY <1>1, <1>2, <3>1, <3>2
    <2>3. pc' \in {"sort", "collapse"}  BY <1>2
    <2>. QED  BY <2>1, <2>2, <2>3 DEF LoopInv
  <1>5. SortInv'
    <2>1. pc' = "sort" <=> ranges' # <<>>  BY <1>2
    <2>. QED  BY <1>1, <2>1 DEF SortInv
  <1>. QED  BY <1>3, <1>4, <1>5 DEF MapInv

LEMMA Normalized ==
    ASSUME NEW s \in Seq(Reg), normalize(s),
           last_usable' \in 0..Bytes, adds' \in 0..MaxAdds
    PROVE  MapInv'
  <1>1. Q!Begin(Q!Part(1, Len(s)), s)  BY DEF normalize, Q!qsort
  <1>2. wanted' = Listed(s) /\ SortThenCollapse  BY DEF normalize
  <1>3. /\ wanted' \in [0..(Bytes - 1) -> Types \union {0}]
        /\ \A x \in 0..(Bytes - 1) : TypeAt(s, x) = wanted'[x]
    BY <1>2, ListedTyped
  <1> DEFINE todo == Q!Part(1, Len(s))
  <1>4. RangesIn(todo, Len(s)) /\ SortedApart(s, todo)  BY WholeRange
  <1>5. Q!Begin(todo, s)  BY <1>1
  <1> HIDE DEF todo
  <1>. QED  BY <1>2, <1>3, <1>4, <1>5, SortBegun

\* What the scans find in a state of the sort.
LEMMA SortFacts ==
    ASSUME MapInv, ranges # <<>>
    PROVE  /\ Q!first \in Nat /\ Q!last \in Nat /\ 1 <= Q!first /\ Q!first < Q!last
           /\ Q!last <= Len(region)
           /\ Q!first = ranges[Len(ranges)][1] /\ Q!last = ranges[Len(ranges)][2]
           /\ Scanned(region, Q!first, Q!last, scan.i, scan.j, scan.pivot)
           /\ Q!UpStops # {} /\ Q!DownStops # {}
           /\ Stops(region, Q!first, Q!last, scan.i, scan.j, scan.pivot, Q!up, Q!down)
           /\ Q!up >= Q!down => Q!down \in Q!first..(Q!last - 1)
  <1>1. region \in Seq(Reg) /\ RangesIn(ranges, Len(region))
        /\ Scanned(region, Q!first, Q!last, scan.i, scan.j, scan.pivot)
    BY DEF MapInv, MapTyped, SortInv
  <1>2. Q!first = ranges[Len(ranges)][1] /\ Q!last = ranges[Len(ranges)][2]
    BY DEF Q!first, Q!last
  <1>3. /\ Q!first \in Nat /\ Q!last \in Nat /\ 1 <= Q!first /\ Q!first < Q!last
        /\ Q!last <= Len(region)
    <2>1. Len(region) \in Nat  BY <1>1, SeqFacts
    <2>. QED  BY <1>1, <1>2, <2>1, RangeFacts
  <1>4. /\ Q!UpStops = UpStopsOf(region, Q!last, scan.i, scan.pivot)
        /\ Q!DownStops = DownStopsOf(region, Q!first, scan.j, scan.pivot)
    BY DEF Q!UpStops, Q!DownStops, UpStopsOf, DownStopsOf
  <1>5. Q!up = Min(Q!UpStops) /\ Q!down = Max(Q!DownStops)
    BY DEF Q!up, Q!down, Q!Min, Q!Max, Min, Max
  <1> HIDE DEF MapInv
  <1> DEFINE f == Q!first
             l == Q!last
             i == scan.i
             j == scan.j
             v == scan.pivot
  <1> HIDE DEF f, l, i, j, v
  <1>6. /\ f \in Nat /\ l \in Nat /\ 1 <= f /\ f < l /\ l <= Len(region)
        /\ Scanned(region, f, l, i, j, v)
    BY <1>1, <1>3 DEF f, l, i, j, v
  <1>7. /\ UpStopsOf(region, l, i, v) # {} /\ DownStopsOf(region, f, j, v) # {}
        /\ Stops(region, f, l, i, j, v,
                 Min(UpStopsOf(region, l, i, v)), Max(DownStopsOf(region, f, j, v)))
        /\ Min(UpStopsOf(region, l, i, v)) >= Max(DownStopsOf(region, f, j, v))
               => Max(DownStopsOf(region, f, j, v)) \in f..(l - 1)
    BY <1>1, <1>6, ScansMeet
  <1>. QED  BY <1>1, <1>2, <1>3, <1>4, <1>5, <1>7 DEF f, l, i, j, v

\* An exchange keeps the elements that stop the scans, and what is in order.
LEMMA ExchangeKept ==
    ASSUME MapInv, Q!Exchange, SortThenCollapse, UNCHANGED <<last_usable, wanted, adds>>
    PROVE  MapInv'
  <1>1. /\ region \in Seq(Reg) /\ last_usable \in 0..Bytes /\ adds \in 0..MaxAdds
        /\ wanted \in [0..(Bytes - 1) -> Types \union {0}]
    BY DEF MapInv, MapTyped
  <1>2. ranges # <<>> /\ Q!up < Q!down /\ ranges' = ranges
    BY DEF Q!Exchange, Q!Sorting
  <1>3. /\ pc = "sort" /\ RangesIn(ranges, Len(region)) /\ SortedApart(region, ranges)
        /\ scan \in [i : Nat, j : Nat, pivot : Reg] /\ TypesListed
    BY <1>2 DEF MapInv, SortInv, LoopInv
  <1>4. /\ Q!first \in Nat /\ Q!last \in Nat /\ 1 <= Q!first /\ Q!first < Q!last
        /\ Q!last <= Len(region)
        /\ Q!first = ranges[Len(ranges)][1] /\ Q!last = ranges[Len(ranges)][2]
        /\ Scanned(region, Q!first, Q!last, scan.i, scan.j, scan.pivot)
        /\ Stops(region, Q!first, Q!last, scan.i, scan.j, scan.pivot, Q!up, Q!down)
    BY <1>2, SortFacts
  <1>5. /\ region' = [region EXCEPT ![Q!up] = region[Q!down], ![Q!down] = region[Q!up]]
        /\ scan' = [scan EXCEPT !.i = Q!up, !.j = Q!down]
    BY DEF Q!Exchange
  <1>6. Q!first' = Q!first /\ Q!last' = Q!last  BY <1>2 DEF Q!first, Q!last
  <1>7. pc' = "sort" /\ curr' = 1  BY <1>2 DEF SortThenCollapse
  <1>8. last_usable' = last_usable /\ wanted' = wanted /\ adds' = adds  OBVIOUS
  <1> HIDE DEF MapInv
  <1> DEFINE f == Q!first
             l == Q!last
             i == scan.i
             j == scan.j
             v == scan.pivot
             u == Q!up
             d == Q!down
  <1>9. /\ f \in Nat /\ l \in Nat /\ 1 <= f /\ f < l /\ l <= Len(region)
        /\ f = ranges[Len(ranges)][1] /\ l = ranges[Len(ranges)][2]
        /\ Scanned(region, f, l, i, j, v) /\ Stops(region, f, l, i, j, v, u, d)
        /\ u < d
    BY <1>2, <1>4
  <1>10. /\ region' = [region EXCEPT ![u] = region[d], ![d] = region[u]]
         /\ scan' = [scan EXCEPT !.i = u, !.j = d]
    BY <1>5
  <1>11. Q!first' = f /\ Q!last' = l  BY <1>6
  <1>12. v \in Reg /\ scan.pivot = v  BY <1>9 DEF Scanned
  <1> HIDE DEF f, l, i, j, v, u, d
  <1>13. u \in Nat /\ d \in Nat /\ u \in 1..Len(region) /\ d \in 1..Len(region) /\ u # d
    <2>1. i \in Nat /\ j \in Nat /\ (j <= l \/ j = l + 1)  BY <1>9 DEF Scanned
    <2>2. u \in (i + 1)..l /\ d \in f..(j - 1)  BY <1>9 DEF Stops
    <2>3. Len(region) \in Nat  BY <1>1, SeqFacts
    <2>. QED  BY <1>9, <2>1, <2>2, <2>3
  <1>14. Swapped(region, region', u, d)
    BY <1>1, <1>10, <1>13, SwapIs DEF Swapped
  <1>15. u \in f..l /\ d \in f..l /\ Scanned(region', f, l, u, d, v)
    BY <1>1, <1>9, <1>14, ExchangeScanned
  <1>16. SortedApart(region', ranges)
    BY <1>1, <1>2, <1>3, <1>9, <1>14, <1>15, ExchangeSorted
  <1>17. /\ scan' \in [i : Nat, j : Nat, pivot : Reg]
         /\ scan'.i = u /\ scan'.j = d /\ scan'.pivot = v
    BY <1>3, <1>10, <1>12, <1>13
  <1>18. region' \in Seq(Reg) /\ Len(region') = Len(region)  BY <1>14 DEF Swapped
  <1>19. ASSUME NEW x \in 0..(Bytes - 1)  PROVE TypeAt(region', x) = wanted'[x]
    <2>1. ASSUME NEW k \in 1..Len(region)
          PROVE  \E m \in 1..Len(region') : region'[m] = region[k]
      BY <1>13, <1>14, <1>18 DEF Swapped
    <2>2. ASSUME NEW k \in 1..Len(region')
          PROVE  \E m \in 1..Len(region) : region[m] = region'[k]
      BY <1>13, <1>14, <1>18 DEF Swapped
    <2>3. TypeAt(region, x) = TypeAt(region', x)
      BY <1>1, <1>18, <2>1, <2>2, TypeAtMoved
    <2>. QED  BY <1>3, <1>8, <2>3 DEF TypesListed
  <1>20. MapTyped'  BY <1>1, <1>7, <1>8, <1>18 DEF MapTyped
  <1>21. LoopInv'
    <2>1. TypesListed'  BY <1>19 DEF TypesListed
    <2>. QED  BY <1>7, <2>1 DEF LoopInv
  <1>22. SortInv'
    <2>1. pc' = "sort" /\ ranges' # <<>>  BY <1>2, <1>7
    <2>2. RangesIn(ranges', Len(region')) /\ SortedApart(region', ranges')
      BY <1>2, <1>3, <1>16, <1>18
    <2>3. Scanned(region', Q!first', Q!last', scan'.i, scan'.j, scan'.pivot)
      BY <1>11, <1>15, <1>17
    <2>. QED  BY <1>17, <2>1, <2>2, <2>3 DEF SortInv
  <1>. QED  BY <1>20, <1>21, <1>22 DEF MapInv

LEMMA SplitKept ==
    ASSUME MapInv, Q!Split, SortThenCollapse, UNCHANGED <<last_usable, wanted, adds>>
    PROVE  MapInv'
  <1>1. /\ region \in Seq(Reg) /\ last_usable \in 0..Bytes /\ adds \in 0..MaxAdds
        /\ wanted \in [0..(Bytes - 1) -> Types \union {0}]
    BY DEF MapInv, MapTyped
  <1>2. ranges # <<>> /\ Q!up >= Q!down  BY DEF Q!Split, Q!Sorting
  <1>3. /\ RangesIn(ranges, Len(region)) /\ SortedApart(region, ranges) /\ TypesListed
    BY <1>2 DEF MapInv, SortInv, LoopInv
  <1>4. /\ Q!first \in Nat /\ Q!last \in Nat
        /\ Q!first = ranges[Len(ranges)][1] /\ Q!last = ranges[Len(ranges)][2]
        /\ Scanned(region, Q!first, Q!last, scan.i, scan.j, scan.pivot)
        /\ Stops(region, Q!first, Q!last, scan.i, scan.j, scan.pivot, Q!up, Q!down)
        /\ Q!down \in Q!first..(Q!last - 1)
    BY <1>2, SortFacts
  <1>5. Q!Begin(Divided(ranges, Q!first, Q!last, Q!down), region)
    BY DEF Q!Split, Divided
  <1>6. last_usable' = last_usable /\ wanted' = wanted /\ adds' = adds  OBVIOUS
  <1> DEFINE todo == Divided(ranges, Q!first, Q!last, Q!down)
  <1>7. RangesIn(todo, Len(region)) /\ SortedApart(region, todo)
    <2> DEFINE f == Q!first
               l == Q!last
               i == scan.i
               j == scan.j
               v == scan.pivot
               u == Q!up
               d == Q!down
    <2>1. /\ f \in Nat /\ l \in Nat
          /\ f = ranges[Len(ranges)][1] /\ l = ranges[Len(ranges)][2]
          /\ Scanned(region, f, l, i, j, v) /\ Stops(region, f, l, i, j, v, u, d)
          /\ u >= d /\ d \in f..(l - 1)
      BY <1>2, <1>4
    <2> HIDE DEF f, l, i, j, v, u, d, MapInv
    <2>2. /\ RangesIn(Divided(ranges, f, l, d), Len(region))
          /\ SortedApart(region, Divided(ranges, f, l, d))
      BY <1>1, <1>2, <1>3, <2>1, SplitSorted
    <2>. QED  BY <2>2 DEF f, l, d
  <1>8. \A x \in 0..(Bytes - 1) : TypeAt(region, x) = wanted'[x]
    BY <1>3, <1>6 DEF TypesListed
  <1>9. Q!Begin(todo, region)  BY <1>5
  <1> HIDE DEF todo, MapInv
  <1>. QED  BY <1>1, <1>6, <1>7, <1>8, <1>9, SortBegun

LEMMA SortKept ==
    ASSUME MapInv, SortTurn
    PROVE  MapInv'
  <1>1. (Q!Exchange \/ Q!Split) /\ SortThenCollapse /\ UNCHANGED <<last_usable, wanted, adds>>
    BY DEF SortTurn
  <1>. QED  BY <1>1, ExchangeKept, SplitKept

-----------------------------------------------------------------------------
(* The invariant is inductive: the loops behind the sort. *)

\* Outside the sort no range is left, and no turn of a loop makes one.
LEMMA OffSort ==
    ASSUME ranges' = <<>>, pc' # "sort"
    PROVE  SortInv'
  BY NoRanges DEF SortInv

LEMMA ClearAdvance ==
    ASSUME NEW s \in Seq(Reg), NEW c \in 1..(Len(s) - 1), Clear(s, c - 1), InOrder(s, c),
           s[c].size # 0, End(s[c]) <= s[c + 1].addr
    PROVE  Clear(s, c) /\ InOrder(s, c + 1)
  <1>1. Len(s) \in Nat /\ c \in Nat /\ 1 <= c /\ c < Len(s)  BY SeqFacts
  <1>2. InOrder(s, c + 1)
    <2>1. \A k \in (c + 1)..Len(s) : k \in c..Len(s)  BY <1>1
    <2>. QED  BY <2>1 DEF InOrder
  <1>3. ASSUME NEW i \in 1..c, NEW j \in (i + 1)..Len(s)
        PROVE  s[i].size # 0 /\ End(s[i]) <= s[j].addr
    <2>1. CASE i = c
      <3> DEFINE d == c + 1
      <3>1. /\ End(s[c]) \in Nat /\ s[d].addr \in Nat
            /\ \A k \in d..Len(s) : s[d].addr <= s[k].addr
        BY PairFacts
      <3>2. j \in d..Len(s) /\ j \in 1..Len(s)  BY <1>1, <2>1
      <3>3. s[j].addr \in Nat  BY <3>2, SeqFacts, RegFacts
      <3>4. End(s[c]) <= s[d].addr  OBVIOUS
      <3> HIDE DEF d
      <3>5. s[d].addr <= s[j].addr  BY <3>1, <3>2
      <3>6. End(s[c]) <= s[j].addr  BY <3>1, <3>3, <3>4, <3>5
      <3>. QED  BY <2>1, <3>6
    <2>2. CASE i # c
      <3>1. i \in 1..(c - 1)  BY <1>1, <2>2
      <3>. QED  BY <3>1 DEF Clear
    <2>. QED  BY <2>1, <2>2
  <1>4. ASSUME NEW i \in 1..c  PROVE s[i].size # 0
    <2>1. CASE i = c  BY <2>1
    <2>2. CASE i # c
      <3>1. i \in 1..(c - 1)  BY <1>1, <2>2
      <3>. QED  BY <3>1 DEF Clear
    <2>. QED  BY <2>1, <2>2
  <1>. QED  BY <1>2, <1>3, <1>4 DEF Clear

LEMMA SweepKept ==
    ASSUME MapInv, collapse_overlaps
    PROVE  MapInv'
  <1>1. pc = "collapse"
    BY DEF collapse_overlaps, CollapseEmpty, SkipDisjoint, DropCurr, DropNext,
           TrimNext, TrimCurr, SplitCurr, Overlap, Looping
  <1>2. /\ region \in Seq(Reg) /\ last_usable \in 0..Bytes /\ adds \in 0..MaxAdds
        /\ wanted \in [0..(Bytes - 1) -> Types \union {0}]
        /\ curr \in Nat /\ 1 <= curr
    BY DEF MapInv, MapTyped
  <1>3. Clear(region, curr - 1) /\ InOrder(region, curr) /\ TypesListed
    BY <1>1 DEF MapInv, LoopInv
  <1>4. ranges = <<>>  BY <1>1 DEF MapInv, SortInv
  <1> HIDE DEF MapInv
  <1>5. /\ UNCHANGED <<last_usable, sortVars, pc, wanted, adds>>
        /\ \/ curr' = curr /\ Swept(region, region', curr)
           \/ /\ region' = region /\ curr' = curr + 1 /\ curr < Len(region)
              /\ C.size # 0 /\ cr <= nl
    BY <1>2, <1>3, SweepTurn
  <1>6. /\ last_usable' = last_usable /\ wanted' = wanted /\ adds' = adds
        /\ ranges' = <<>> /\ pc' = "collapse"
    BY <1>1, <1>4, <1>5 DEF sortVars
  <1>7. /\ region' \in Seq(Reg) /\ curr' \in Nat /\ 1 <= curr' /\ curr' <= Len(region')
        /\ Clear(region', curr' - 1) /\ InOrder(region', curr')
        /\ \A x \in Int : TypeAt(region', x) = TypeAt(region, x)
    <2>1. CASE curr' = curr /\ Swept(region, region', curr)
      <3>1. /\ region' \in Seq(Reg) /\ curr \in 1..Len(region')
            /\ Clear(region', curr - 1) /\ InOrder(region', curr)
            /\ \A x \in Int : TypeAt(region', x) = TypeAt(region, x)
        BY <2>1 DEF Swept
      <3>2. Len(region') \in Nat  BY <3>1, SeqFacts
      <3>. QED  BY <1>2, <2>1, <3>1, <3>2
    <2>2. CASE /\ region' = region /\ curr' = curr + 1 /\ curr < Len(region)
               /\ C.size # 0 /\ cr <= nl
      <3>1. Len(region) \in Nat  BY <1>2, SeqFacts
      <3>2. curr \in 1..(Len(region) - 1) /\ curr + 1 - 1 = curr /\ curr + 1 <= Len(region)
            /\ curr + 1 \in Nat /\ 1 <= curr + 1
        BY <1>2, <2>2, <3>1
      <3>3. region[curr].size # 0 /\ End(region[curr]) <= region[curr + 1].addr
        BY <2>2 DEF C, N, cr, nl
      <3>4. Clear(region, curr) /\ InOrder(region, curr + 1)
        BY <1>2, <1>3, <3>2, <3>3, ClearAdvance
      <3>. QED  BY <1>2, <2>2, <3>2, <3>4
    <2>. QED  BY <1>5, <2>1, <2>2
  <1>8. MapTyped'  BY <1>2, <1>6, <1>7 DEF MapTyped
  <1>9. LoopInv'
    <2>1. \A x \in 0..(Bytes - 1) : x \in Int  BY PhysMapAssumption
    <2>2. TypesListed'  BY <1>3, <1>6, <1>7, <2>1 DEF TypesListed
    <2>. QED  BY <1>6, <1>7, <2>2 DEF LoopInv
  <1>10. SortInv'  BY <1>6, OffSort
  <1>. QED  BY <1>8, <1>9, <1>10 DEF MapInv

LEMMA FillKept ==
    ASSUME MapInv, fill_gaps
    PROVE  MapInv'
  <1>1. pc = "fill"  BY DEF fill_gaps, FillNone, FillGap, Looping
  <1>2. /\ region \in Seq(Reg) /\ last_usable \in 0..Bytes /\ adds \in 0..MaxAdds
        /\ wanted \in [0..(Bytes - 1) -> Types \union {0}]
        /\ curr \in Nat /\ 1 <= curr
    BY DEF MapInv, MapTyped
  <1>3. Clear(region, Len(region) - 1) /\ Adjoin(region, curr - 1) /\ TypesKept
    BY <1>1 DEF MapInv, LoopInv
  <1>4. ranges = <<>>  BY <1>1 DEF MapInv, SortInv
  <1> HIDE DEF MapInv
  <1>5. /\ UNCHANGED <<last_usable, sortVars, pc, wanted, adds>>
        /\ curr \in 1..(Len(region) - 1)
        /\ \/ curr' = curr /\ FilledBehind(region, region', curr)
           \/ region' = region /\ curr' = curr + 1 /\ cr = nl
    BY <1>2, <1>3, FillTurn
  <1>6. /\ last_usable' = last_usable /\ wanted' = wanted /\ adds' = adds
        /\ ranges' = <<>> /\ pc' = "fill"
    BY <1>1, <1>4, <1>5 DEF sortVars
  <1>7. Len(region) \in Nat /\ curr < Len(region)
    BY <1>2, <1>5, SeqFacts
  <1>8. /\ region' \in Seq(Reg) /\ curr' \in Nat /\ 1 <= curr' /\ curr' <= Len(region')
        /\ Clear(region', Len(region') - 1) /\ Adjoin(region', curr' - 1)
        /\ \A x \in 0..(Bytes - 1) :
               \/ TypeAt(region', x) = wanted[x]
               \/ wanted[x] = 0 /\ TypeAt(region', x) = PMEMTYPE_RESERVED
    <2>1. CASE curr' = curr /\ FilledBehind(region, region', curr)
      <3>1. /\ region' \in Seq(Reg) /\ Len(region') >= Len(region)
            /\ Clear(region', Len(region') - 1)
            /\ \A i \in 1..(curr - 1) : End(region'[i]) = End(region[i])
            /\ \A i \in 1..curr : region'[i].addr = region[i].addr
            /\ Filled(region, region', End(region[curr]), region[curr + 1].addr)
        BY <2>1 DEF FilledBehind
      <3>2. Len(region') \in Nat  BY <3>1, SeqFacts
      <3>3. Adjoin(region', curr - 1)
        <4> SUFFICES ASSUME NEW i \in 1..(curr - 1)
                     PROVE  End(region'[i]) = region'[i + 1].addr
          BY DEF Adjoin
        <4>1. End(region[i]) = region[i + 1].addr  BY <1>3 DEF Adjoin
        <4>2. i + 1 \in 1..curr  BY <1>2
        <4>. QED  BY <3>1, <4>1, <4>2
      <3>4. ASSUME NEW x \in 0..(Bytes - 1)
            PROVE  \/ TypeAt(region', x) = wanted[x]
                   \/ wanted[x] = 0 /\ TypeAt(region', x) = PMEMTYPE_RESERVED
        <4>1. x \in Int  BY PhysMapAssumption
        <4>2. \/ TypeAt(region, x) = wanted[x]
              \/ wanted[x] = 0 /\ TypeAt(region, x) = PMEMTYPE_RESERVED
          BY <1>3 DEF TypesKept
        <4>3. \/ TypeAt(region, x) = 0 /\ TypeAt(region', x) = PMEMTYPE_RESERVED
              \/ TypeAt(region', x) = TypeAt(region, x)
          BY <3>1, <4>1 DEF Filled
        <4>. QED  BY <4>2, <4>3
      <3>. QED  BY <1>2, <1>7, <2>1, <3>1, <3>2, <3>3, <3>4
    <2>2. CASE region' = region /\ curr' = curr + 1 /\ cr = nl
      <3>1. End(region[curr]) = region[curr + 1].addr  BY <2>2 DEF C, N, cr, nl
      <3>2. curr + 1 - 1 = curr /\ curr + 1 \in Nat /\ 1 <= curr + 1 /\ curr + 1 <= Len(region)
        BY <1>2, <1>7
      <3>3. Adjoin(region, curr)
        <4>1. \A i \in 1..curr : i = curr \/ i \in 1..(curr - 1)  BY <1>2
        <4>. QED  BY <1>3, <3>1, <4>1 DEF Adjoin
      <3>. QED  BY <1>2, <1>3, <2>2, <3>2, <3>3 DEF TypesKept
    <2>. QED  BY <1>5, <2>1, <2>2
  <1>9. MapTyped'  BY <1>2, <1>6, <1>8 DEF MapTyped
  <1>10. LoopInv'
    <2>1. TypesKept'  BY <1>6, <1>8 DEF TypesKept
    <2>. QED  BY <1>6, <1>8, <2>1 DEF LoopInv
  <1>11. SortInv'  BY <1>6, OffSort
  <1>. QED  BY <1>9, <1>10, <1>11 DEF MapInv

LEMMA ConsolidateKept ==
    ASSUME MapInv, consolidate_neighbors
    PROVE  MapInv'
  <1>1. pc = "consolidate" /\ curr < Len(region)
    BY DEF consolidate_neighbors, JoinEqual, KeepDifferent, Looping
  <1>2. /\ region \in Seq(Reg) /\ last_usable \in 0..Bytes /\ adds \in 0..MaxAdds
        /\ wanted \in [0..(Bytes - 1) -> Types \union {0}]
        /\ curr \in Nat /\ 1 <= curr
    BY DEF MapInv, MapTyped
  <1>3. /\ Clear(region, Len(region) - 1) /\ Adjoin(region, Len(region) - 1)
        /\ Differ(region, curr - 1) /\ TypesKept
    BY <1>1 DEF MapInv, LoopInv
  <1>4. ranges = <<>>  BY <1>1 DEF MapInv, SortInv
  <1>5. Len(region) \in Nat  BY <1>2, SeqFacts
  <1>6. curr \in 1..(Len(region) - 1)  BY <1>1, <1>2, <1>5
  <1> HIDE DEF MapInv
  <1>7. UNCHANGED <<last_usable, sortVars, pc, wanted, adds>>
    BY DEF consolidate_neighbors, JoinEqual, KeepDifferent, Change, Advance
  <1>8. /\ last_usable' = last_usable /\ wanted' = wanted /\ adds' = adds
        /\ ranges' = <<>> /\ pc' = "consolidate"
    BY <1>1, <1>4, <1>7 DEF sortVars
  <1>9. /\ region' \in Seq(Reg) /\ curr' \in Nat /\ 1 <= curr' /\ curr' <= Len(region')
        /\ Clear(region', Len(region') - 1) /\ Adjoin(region', Len(region') - 1)
        /\ Differ(region', curr' - 1)
        /\ \A x \in Int : TypeAt(region', x) = TypeAt(region, x)
    <2>1. CASE JoinEqual
      <3>1. /\ region[curr].type = region[curr + 1].type /\ curr' = curr
            /\ region' = RemoveAt(SetSize(region, curr,
                             region[curr].size + region[curr + 1].size), curr + 1)
        BY <2>1 DEF JoinEqual, Change, C, N
      <3>2. Joined(region, region', curr)  BY <1>2, <1>3, <1>6, <3>1, JoinIs
      <3>3. /\ region' \in Seq(Reg) /\ curr <= Len(region')
            /\ Clear(region', Len(region') - 1) /\ Adjoin(region', Len(region') - 1)
            /\ Differ(region', curr - 1)
            /\ \A x \in Int : TypeAt(region', x) = TypeAt(region, x)
        BY <1>2, <1>3, <1>6, <3>1, <3>2, JoinKeeps
      <3>. QED  BY <1>2, <3>1, <3>3
    <2>2. CASE KeepDifferent
      <3>1. /\ region[curr].type # region[curr + 1].type
            /\ curr' = curr + 1 /\ region' = region
        BY <2>2 DEF KeepDifferent, Advance, C, N
      <3>2. curr + 1 - 1 = curr /\ curr + 1 \in Nat /\ 1 <= curr + 1 /\ curr + 1 <= Len(region)
        BY <1>1, <1>2, <1>5
      <3>3. Differ(region, curr)
        <4>1. \A i \in 1..curr : i = curr \/ i \in 1..(curr - 1)  BY <1>2
        <4>. QED  BY <1>3, <3>1, <4>1 DEF Differ
      <3>. QED  BY <1>2, <1>3, <3>1, <3>2, <3>3
    <2>. QED  BY <2>1, <2>2 DEF consolidate_neighbors
  <1>10. MapTyped'  BY <1>2, <1>8, <1>9 DEF MapTyped
  <1>11. LoopInv'
    <2>1. \A x \in 0..(Bytes - 1) : x \in Int  BY PhysMapAssumption
    <2>2. TypesKept'  BY <1>3, <1>8, <1>9, <2>1 DEF TypesKept
    <2>. QED  BY <1>8, <1>9, <2>2 DEF LoopInv
  <1>12. SortInv'  BY <1>8, OffSort
  <1>. QED  BY <1>10, <1>11, <1>12 DEF MapInv

LEMMA LoopEndsKept ==
    ASSUME MapInv, LoopEnds
    PROVE  MapInv'
  <1>1. /\ region \in Seq(Reg) /\ last_usable \in 0..Bytes /\ adds \in 0..MaxAdds
        /\ wanted \in [0..(Bytes - 1) -> Types \union {0}]
        /\ curr \in Nat /\ 1 <= curr
    BY DEF MapInv, MapTyped
  <1>2. /\ curr >= Len(region) /\ curr' = 1
        /\ \/ pc = "collapse" /\ pc' = "fill"
           \/ pc = "fill" /\ pc' = "consolidate"
    BY DEF LoopEnds, NextLoop
  <1>3. /\ region' = region /\ last_usable' = last_usable /\ wanted' = wanted
        /\ adds' = adds /\ ranges' = ranges
    BY DEF LoopEnds, sortVars
  <1>4. ranges = <<>>  BY <1>2 DEF MapInv, SortInv
  <1>5. Len(region) \in Nat /\ \A i \in 1..(Len(region) - 1) : i \in 1..(curr - 1)
    <2>1. Len(region) \in Nat  BY <1>1, SeqFacts
    <2>. QED  BY <1>1, <1>2, <2>1
  <1>6. MapTyped'  BY <1>1, <1>2, <1>3 DEF MapTyped
  <1>7. LoopInv'
    <2>1. CASE pc = "collapse" /\ pc' = "fill"
      <3>1. TypesListed /\ Clear(region, curr - 1)  BY <2>1 DEF MapInv, LoopInv
      <3>2. Clear(region, Len(region) - 1)  BY <1>5, <3>1 DEF Clear
      <3>3. TypesKept'  BY <1>3, <3>1 DEF TypesListed, TypesKept
      <3>4. Adjoin(region', 0)  BY DEF Adjoin
      <3>. QED  BY <1>2, <1>3, <2>1, <3>2, <3>3, <3>4 DEF LoopInv
    <2>2. CASE pc = "fill" /\ pc' = "consolidate"
      <3>1. TypesKept /\ Clear(region, Len(region) - 1) /\ Adjoin(region, curr - 1)
        BY <2>2 DEF MapInv, LoopInv
      <3>2. Adjoin(region, Len(region) - 1)  BY <1>5, <3>1 DEF Adjoin
      <3>3. TypesKept'  BY <1>3, <3>1 DEF TypesKept
      <3>4. Differ(region', 0)  BY DEF Differ
      <3>. QED  BY <1>2, <1>3, <2>2, <3>1, <3>2, <3>3, <3>4 DEF LoopInv
    <2>. QED  BY <1>2, <2>1, <2>2
  <1>8. SortInv'  BY <1>2, <1>3, <1>4, OffSort
  <1>. QED  BY <1>6, <1>7, <1>8 DEF MapInv

\* Of the regions of one kind in a clear list, the last one ends last.
LEMMA LastEndsLast ==
    ASSUME NEW s \in Seq(Reg), Clear(s, Len(s) - 1),
           NEW U, U \subseteq 1..Len(s), U # {}
    PROVE  /\ Max(U) \in U /\ End(s[Max(U)]) \in 0..Bytes
           /\ \A i \in U : End(s[i]) <= End(s[Max(U)])
  <1> DEFINE m == Max(U)
  <1>1. Len(s) \in Nat /\ \A k \in 1..Len(s) : s[k] \in Reg  BY SeqFacts
  <1>2. m \in U /\ \A k \in U : m >= k
    <2>1. Len(s) \in Int /\ U \subseteq Int /\ \A k \in U : k <= Len(s)  BY <1>1
    <2>. QED  BY <2>1, MaxIs
  <1> HIDE DEF m
  <1>3. /\ m \in 1..Len(s) /\ s[m].addr \in Nat /\ s[m].size \in Nat /\ End(s[m]) \in Nat
        /\ s[m].addr + s[m].size <= Bytes /\ End(s[m]) = s[m].addr + s[m].size
    <2>1. m \in 1..Len(s)  BY <1>2
    <2>2. s[m] \in Reg  BY <1>1, <2>1
    <2>. QED  BY <2>1, <2>2, RegFacts
  <1>4. End(s[m]) \in 0..Bytes /\ s[m].addr <= End(s[m])  BY <1>3, PhysMapAssumption
  <1>5. ASSUME NEW i \in U  PROVE End(s[i]) <= End(s[m])
    <2>0. i \in 1..Len(s) /\ End(s[i]) \in Nat  BY <1>1, RegFacts
    <2>1. CASE i = m  BY <1>3, <2>1
    <2>2. CASE i # m
      <3>1. i \in 1..(Len(s) - 1) /\ m \in (i + 1)..Len(s)  BY <1>1, <1>2, <1>3, <2>0, <2>2
      <3>2. End(s[i]) <= s[m].addr  BY <3>1 DEF Clear
      <3>. QED  BY <1>3, <1>4, <2>0, <3>2
    <2>. QED  BY <2>1, <2>2
  <1>. QED  BY <1>2, <1>4, <1>5 DEF m

LEMMA LastUsableKept ==
    ASSUME MapInv, update_last_usable
    PROVE  MapInv'
  <1>1. /\ region \in Seq(Reg) /\ adds \in 0..MaxAdds
        /\ wanted \in [0..(Bytes - 1) -> Types \union {0}]
        /\ curr \in Nat /\ 1 <= curr
    BY DEF MapInv, MapTyped
  <1>2. pc = "consolidate" /\ curr >= Len(region) /\ curr' = 1 /\ pc' = "ready"
    BY DEF update_last_usable, NextLoop
  <1>3. region' = region /\ wanted' = wanted /\ adds' = adds /\ ranges' = ranges
    BY DEF update_last_usable, sortVars
  <1>4. ranges = <<>>  BY <1>2 DEF MapInv, SortInv
  <1>5. /\ TypesKept /\ Clear(region, Len(region) - 1) /\ Adjoin(region, Len(region) - 1)
        /\ Differ(region, curr - 1)
    BY <1>2 DEF MapInv, LoopInv
  <1>6. Len(region) \in Nat /\ DOMAIN region = 1..Len(region)  BY <1>1, SeqFacts
  <1>7. Differ(region, Len(region) - 1)
    <2>1. \A i \in 1..(Len(region) - 1) : i \in 1..(curr - 1)  BY <1>1, <1>2, <1>6
    <2>. QED  BY <1>5, <2>1 DEF Differ
  <1> DEFINE U == {i \in 1..Len(region) : region[i].type = PMEMTYPE_USABLE}
  <1>8. last_usable' = IF U = {} THEN 0 ELSE End(region[Max(U)])
    BY <1>6 DEF update_last_usable
  <1>9. \A i \in 1..Len(region) : i \in U <=> region[i].type = PMEMTYPE_USABLE  OBVIOUS
  <1>10. U \subseteq 1..Len(region)  OBVIOUS
  <1> HIDE DEF U, MapInv
  <1>11. /\ last_usable' \in 0..Bytes
         /\ \A i \in U : End(region[i]) <= last_usable'
         /\ last_usable' # 0 => \E i \in U : End(region[i]) = last_usable'
    <2>1. CASE U = {}  BY <1>8, <2>1, PhysMapAssumption
    <2>2. CASE U # {}
      <3>1. /\ Max(U) \in U /\ End(region[Max(U)]) \in 0..Bytes
            /\ \A i \in U : End(region[i]) <= End(region[Max(U)])
        BY <1>1, <1>5, <1>10, <2>2, LastEndsLast
      <3>. QED  BY <1>8, <2>2, <3>1
    <2>. QED  BY <2>1, <2>2
  <1>12. MapTyped'  BY <1>1, <1>2, <1>3, <1>11 DEF MapTyped
  <1>13. LoopInv'
    <2>1. TypesKept'  BY <1>3, <1>5 DEF TypesKept
    <2>2. \A i \in 1..Len(region) :
              region[i].type = PMEMTYPE_USABLE => End(region[i]) <= last_usable'
      BY <1>9, <1>11
    <2>3. last_usable' # 0 =>
              \E i \in 1..Len(region) : region[i].type = PMEMTYPE_USABLE
                                            /\ End(region[i]) = last_usable'
      BY <1>9, <1>10, <1>11
    <2>. QED  BY <1>2, <1>3, <1>5, <1>7, <2>1, <2>2, <2>3 DEF LoopInv
  <1>14. SortInv'  BY <1>2, <1>3, <1>4, OffSort
  <1>. QED  BY <1>12, <1>13, <1>14 DEF MapInv

-----------------------------------------------------------------------------
(* The invariant is inductive: the start and the regions added. *)

\* Only the region at the beginning of memory may be listed empty.
LEMMA AddableIs ==
    ASSUME EmptyAt \subseteq {0}
    PROVE  Addable \subseteq Reg
  BY PhysMapAssumption DEF Addable, Reg, Region, End

LEMMA FixedIs == FixedRegions \in Seq(Reg)
  <1>1. /\ FixedRegions \in Seq([addr : Nat, size : Nat \ {0}, type : Types])
        /\ \A i \in DOMAIN FixedRegions :
               FixedRegions[i].addr + FixedRegions[i].size <= Bytes
    BY PhysMapAssumption
  <1>2. /\ Len(FixedRegions) \in Nat /\ DOMAIN FixedRegions = 1..Len(FixedRegions)
        /\ \A k \in 1..Len(FixedRegions) :
               FixedRegions[k] \in [addr : Nat, size : Nat \ {0}, type : Types]
    BY <1>1, SeqFacts
  <1>3. ASSUME NEW k \in 1..Len(FixedRegions)  PROVE FixedRegions[k] \in Reg
    <2> DEFINE r == FixedRegions[k]
    <2>1. r \in [addr : Nat, size : Nat \ {0}, type : Types] /\ r.addr + r.size <= Bytes
      BY <1>1, <1>2
    <2> HIDE DEF r
    <2>2. r.addr \in Nat /\ r.size \in Nat /\ r.size # 0 /\ r.type \in Types  BY <2>1
    <2>3. r.addr <= Bytes /\ r.size <= Bytes /\ Bytes \in Nat
      BY <2>1, <2>2, PhysMapAssumption
    <2>4. r \in Region  BY <2>1, <2>2, <2>3 DEF Region
    <2>5. r \in Reg  BY <2>1, <2>2, <2>4 DEF Reg, End
    <2>. QED  BY <2>5 DEF r
  <1>. QED  BY <1>1, <1>2, <1>3, SeqDef

LEMMA AddRegionKept ==
    ASSUME MapInv, EmptyAt \subseteq {0}, NEW r \in Addable, add_region(r)
    PROVE  MapInv'
  <1>1. /\ region \in Seq(Reg) /\ last_usable \in 0..Bytes /\ adds \in 0..MaxAdds
        /\ wanted \in [0..(Bytes - 1) -> Types \union {0}]
        /\ curr \in Nat /\ 1 <= curr /\ (curr = 1 \/ curr <= Len(region))
    BY DEF MapInv, MapTyped
  <1>2. /\ pc = "boot" /\ pc' = "boot" /\ curr' = curr /\ wanted' = wanted /\ adds' = adds
        /\ last_usable' = last_usable /\ ranges' = ranges /\ region' = Append(region, r)
    BY DEF add_region, sortVars
  <1>3. ranges = <<>>  BY <1>2 DEF MapInv, SortInv
  <1> HIDE DEF MapInv
  <1>4. r \in Reg  BY AddableIs
  <1>5. region' \in Seq(Reg) /\ Len(region') = Len(region) + 1 /\ Len(region) \in Nat
    BY <1>1, <1>2, <1>4, AppendProperties, SeqFacts
  <1>6. MapTyped'  BY <1>1, <1>2, <1>5 DEF MapTyped
  <1>7. LoopInv'  BY <1>2 DEF LoopInv
  <1>8. SortInv'  BY <1>2, <1>3, OffSort
  <1>. QED  BY <1>6, <1>7, <1>8 DEF MapInv

LEMMA PmapInitKept ==
    ASSUME MapInv, pmap_init
    PROVE  MapInv'
  <1>1. region \in Seq(Reg) /\ last_usable \in 0..Bytes /\ adds \in 0..MaxAdds
    BY DEF MapInv, MapTyped
  <1>2. normalize(region \o FixedRegions) /\ last_usable' = last_usable /\ adds' = adds
    BY DEF pmap_init
  <1>3. region \o FixedRegions \in Seq(Reg)  BY <1>1, FixedIs, ConcatProperties
  <1> HIDE DEF MapInv
  <1>. QED  BY <1>1, <1>2, <1>3, Normalized

LEMMA PmapAddKept ==
    ASSUME MapInv, EmptyAt \subseteq {0}, NEW r \in Addable, pmap_add(r)
    PROVE  MapInv'
  <1>1. region \in Seq(Reg) /\ last_usable \in 0..Bytes /\ adds \in 0..MaxAdds
    BY DEF MapInv, MapTyped
  <1>2. /\ normalize(Append(region, r)) /\ last_usable' = last_usable
        /\ adds < MaxAdds /\ adds' = adds + 1
    BY DEF pmap_add
  <1>3. adds' \in 0..MaxAdds  BY <1>1, <1>2, PhysMapAssumption
  <1>4. Append(region, r) \in Seq(Reg)  BY <1>1, AddableIs, AppendProperties
  <1> HIDE DEF MapInv
  <1>. QED  BY <1>1, <1>2, <1>3, <1>4, Normalized

LEMMA MapStart ==
    ASSUME Init
    PROVE  MapInv
  <1>1. /\ region = <<>> /\ last_usable = 0 /\ ranges = <<>> /\ pc = "boot" /\ curr = 1
        /\ wanted = Listed(<<>>) /\ adds = 0
    BY DEF Init
  <1>2. <<>> \in Seq(Reg)  OBVIOUS
  <1>3. Listed(<<>>) \in [0..(Bytes - 1) -> Types \union {0}]  BY <1>2, ListedTyped
  <1>4. MapTyped  BY <1>1, <1>2, <1>3, PhysMapAssumption DEF MapTyped
  <1>5. LoopInv  BY <1>1 DEF LoopInv
  <1>6. SortInv  BY <1>1, NoRanges DEF SortInv
  <1>. QED  BY <1>4, <1>5, <1>6 DEF MapInv

LEMMA MapNext ==
    ASSUME EmptyAt \subseteq {0}, MapInv, [Next]_vars
    PROVE  MapInv'
  <1>1. ASSUME NEW r \in Addable, add_region(r)  PROVE MapInv'
    BY <1>1, AddRegionKept
  <1>2. ASSUME NEW r \in Addable, pmap_add(r)  PROVE MapInv'
    BY <1>2, PmapAddKept
  <1>3. CASE pmap_init  BY <1>3, PmapInitKept
  <1>4. CASE SortTurn  BY <1>4, SortKept
  <1>5. CASE collapse_overlaps  BY <1>5, SweepKept
  <1>6. CASE fill_gaps  BY <1>6, FillKept
  <1>7. CASE consolidate_neighbors  BY <1>7, ConsolidateKept
  <1>8. CASE LoopEnds  BY <1>8, LoopEndsKept
  <1>9. CASE update_last_usable  BY <1>9, LastUsableKept
  <1>10. CASE UNCHANGED vars
    <2>1. UNCHANGED <<region, last_usable, ranges, scan, pc, curr, wanted, adds>>
      BY <1>10 DEF vars, sortVars
    <2>2. MapTyped'  BY <2>1 DEF MapInv, MapTyped
    <2>3. LoopInv'  BY <2>1 DEF MapInv, LoopInv, TypesListed, TypesKept
    <2>4. SortInv'  BY <2>1 DEF MapInv, SortInv, Q!first, Q!last
    <2>. QED  BY <2>2, <2>3, <2>4 DEF MapInv
  <1>. QED
    BY <1>1, <1>2, <1>3, <1>4, <1>5, <1>6, <1>7, <1>8, <1>9, <1>10 DEF Next, Normalizing

-----------------------------------------------------------------------------
(* What the invariant says of the map. *)

LEMMA MapTypes ==
    ASSUME MapInv
    PROVE  TypeOK
  <1>1. MapTyped  BY DEF MapInv
  <1>2. region \in Seq(Reg) /\ Len(region) \in Nat  BY <1>1, SeqFacts DEF MapTyped
  <1>3. region \in Seq(Region)
    <2>1. \A k \in 1..Len(region) : region[k] \in Region  BY <1>2, SeqFacts DEF Reg
    <2>. QED  BY <1>2, <2>1, SeqDef
  <1>4. curr \in 1..(Len(region) + 1)  BY <1>1, <1>2 DEF MapTyped
  <1>. QED  BY <1>1, <1>3, <1>4 DEF MapTyped, TypeOK

LEMMA MapSweeps ==
    ASSUME MapInv
    PROVE  SweepInOrder
  <1>1. TypeOK  BY MapTypes
  <1>2. /\ region \in Seq(Reg) /\ curr \in Nat /\ 1 <= curr
        /\ (curr = 1 \/ curr <= Len(region)) /\ Len(region) \in Nat
    BY SeqFacts DEF MapInv, MapTyped
  <1>3. ASSUME pc = "collapse"
        PROVE  /\ \A i \in 1..(curr - 1) : End(region[i]) <= region[i + 1].addr
               /\ \A i \in curr..(Len(region) - 1) : ~cmp_region(region[i + 1], region[i])
    <2>1. Clear(region, curr - 1) /\ InOrder(region, curr)
      BY <1>3 DEF MapInv, LoopInv
    <2>2. ASSUME NEW i \in 1..(curr - 1)  PROVE End(region[i]) <= region[i + 1].addr
      <3>1. i + 1 \in (i + 1)..Len(region)  BY <1>2
      <3>. QED  BY <2>1, <3>1 DEF Clear
    <2>3. ASSUME NEW i \in curr..(Len(region) - 1)
          PROVE  ~cmp_region(region[i + 1], region[i])
      <3>1. i \in curr..Len(region) /\ i + 1 \in curr..Len(region) /\ i <= i + 1  BY <1>2
      <3>2. Leq(region[i], region[i + 1])  BY <2>1, <3>1 DEF InOrder
      <3>. QED  BY <3>2 DEF Leq
    <2>. QED  BY <2>2, <2>3
  <1>. QED  BY <1>1, <1>3 DEF SweepInOrder

LEMMA MapStrongest ==
    ASSUME MapInv
    PROVE  StrongestTypeWins
  <1>1. pc \in {"sort", "collapse"} => TypesListed  BY DEF MapInv, LoopInv
  <1>2. pc \in {"fill", "consolidate", "ready"} => TypesKept  BY DEF MapInv, LoopInv
  <1>. QED  BY <1>1, <1>2 DEF StrongestTypeWins, TypesListed, TypesKept

\* In a clear list no address is in two regions.
LEMMA ClearApart ==
    ASSUME NEW s \in Seq(Reg), Clear(s, Len(s) - 1), NEW x \in Int,
           NEW i \in 1..Len(s), NEW j \in 1..Len(s), Covers(s[i], x), Covers(s[j], x)
    PROVE  i = j
  <1>1. Len(s) \in Nat  BY SeqFacts
  <1>2. ASSUME NEW a \in 1..Len(s), NEW b \in 1..Len(s), a < b,
               Covers(s[a], x), Covers(s[b], x)
        PROVE  FALSE
    <2>1. a \in 1..(Len(s) - 1) /\ b \in (a + 1)..Len(s)  BY <1>1, <1>2
    <2>2. End(s[a]) <= s[b].addr  BY <2>1 DEF Clear
    <2>3. End(s[a]) \in Nat /\ s[b].addr \in Nat  BY SeqFacts, RegFacts
    <2>4. x < End(s[a]) /\ s[b].addr <= x  BY <1>2 DEF Covers
    <2>. QED  BY <2>2, <2>3, <2>4
  <1>3. ~(i < j) /\ ~(j < i)  BY <1>2
  <1>. QED  BY <1>1, <1>3

LEMMA MapApart ==
    ASSUME MapInv
    PROVE  OverlapsGone
  <1>1. region \in Seq(Reg)  BY DEF MapInv, MapTyped
  <1>2. DOMAIN region = 1..Len(region)  BY <1>1, SeqFacts
  <1> SUFFICES ASSUME pc = "fill", NEW x \in 0..(Bytes - 1),
                      NEW i \in 1..Len(region), NEW j \in 1..Len(region),
                      Covers(region[i], x), Covers(region[j], x)
               PROVE  i = j
    BY <1>2 DEF OverlapsGone
  <1>3. Clear(region, Len(region) - 1)  BY DEF MapInv, LoopInv
  <1>4. x \in Int  BY PhysMapAssumption
  <1> HIDE DEF MapInv
  <1>. QED  BY <1>1, <1>3, <1>4, ClearApart

LEMMA MapReady ==
    ASSUME MapInv
    PROVE  MapExact
  <1> SUFFICES ASSUME pc = "ready"
               PROVE  /\ \A i \in 1..(Len(region) - 1) :
                             /\ End(region[i]) = region[i + 1].addr
                             /\ region[i].type # region[i + 1].type
                      /\ LET usable == {x \in 0..(Bytes - 1) : wanted[x] = PMEMTYPE_USABLE}
                         IN  last_usable = IF usable = {} THEN 0 ELSE Max(usable) + 1
    BY DEF MapExact
  <1>1. /\ region \in Seq(Reg) /\ last_usable \in 0..Bytes /\ last_usable \in Nat
        /\ Bytes \in Nat /\ \A k \in 1..Len(region) : region[k] \in Reg
    BY PhysMapAssumption, SeqFacts DEF MapInv, MapTyped
  <1>2. /\ TypesKept /\ Clear(region, Len(region) - 1)
        /\ Adjoin(region, Len(region) - 1) /\ Differ(region, Len(region) - 1)
        /\ \A i \in 1..Len(region) :
               region[i].type = PMEMTYPE_USABLE => End(region[i]) <= last_usable
        /\ last_usable # 0 =>
               \E i \in 1..Len(region) : region[i].type = PMEMTYPE_USABLE
                                             /\ End(region[i]) = last_usable
    BY DEF MapInv, LoopInv
  <1> HIDE DEF MapInv
  <1> DEFINE usable == {x \in 0..(Bytes - 1) : wanted[x] = PMEMTYPE_USABLE}
  <1>3. ASSUME NEW x \in 0..(Bytes - 1)
        PROVE  x \in usable <=> TypeAt(region, x) = PMEMTYPE_USABLE
    <2>1. \/ TypeAt(region, x) = wanted[x]
          \/ wanted[x] = 0 /\ TypeAt(region, x) = PMEMTYPE_RESERVED
      BY <1>2 DEF TypesKept
    <2>2. x \in usable <=> wanted[x] = PMEMTYPE_USABLE  OBVIOUS
    <2>. QED  BY <2>1, <2>2 DEF PMEMTYPE_USABLE, PMEMTYPE_RESERVED
  <1>4. usable \subseteq 0..(Bytes - 1)  OBVIOUS
  <1> HIDE DEF usable
  <1>5. ASSUME NEW x \in usable  PROVE x < last_usable
    <2>1. x \in 0..(Bytes - 1) /\ x \in Int /\ TypeAt(region, x) = PMEMTYPE_USABLE
      BY <1>1, <1>3, <1>4
    <2>2. TypeAt(region, x) # 0  BY <2>1 DEF PMEMTYPE_USABLE
    <2>3. PICK i \in 1..Len(region) : Covers(region[i], x)
                                         /\ region[i].type = TypeAt(region, x)
      BY <1>1, <2>2, TypeAtIs
    <2>4. x < End(region[i]) /\ End(region[i]) <= last_usable
      BY <1>2, <2>1, <2>3 DEF Covers
    <2>5. End(region[i]) \in Nat  BY <1>1, RegFacts
    <2>. QED  BY <1>1, <2>1, <2>4, <2>5
  <1>6. ASSUME last_usable # 0  PROVE last_usable - 1 \in usable
    <2> DEFINE x == last_usable - 1
    <2>1. x \in 0..(Bytes - 1) /\ x \in Int /\ x < last_usable /\ x + 1 = last_usable
      BY <1>1, <1>6
    <2>2. PICK i \in 1..Len(region) : region[i].type = PMEMTYPE_USABLE
                                         /\ End(region[i]) = last_usable
      BY <1>2, <1>6
    <2> HIDE DEF x
    <2>3. Covers(region[i], x)
      <3> DEFINE a == region[i].addr
                 n == region[i].size
      <3>1. a \in Nat /\ n \in Nat /\ End(region[i]) = a + n /\ (n = 0 => a = 0)
        BY <1>1, RegFacts
      <3>2. n # 0  BY <1>6, <2>2, <3>1
      <3>3. a <= x /\ x < End(region[i])
        <4> HIDE DEF a, n
        <4>. QED  BY <1>1, <2>1, <2>2, <3>1, <3>2
      <3>. QED  BY <3>3 DEF Covers
    <2>4. \A j \in 1..Len(region) : Covers(region[j], x) => j = i
      BY <1>1, <1>2, <2>1, <2>3, ClearApart
    <2>5. TypeAt(region, x) = PMEMTYPE_USABLE
      BY <1>1, <2>2, <2>3, <2>4, TypeAtOnly
    <2>6. x \in usable  BY <1>3, <2>1, <2>5
    <2>. QED  BY <2>6 DEF x
  <1>7. last_usable = IF usable = {} THEN 0 ELSE Max(usable) + 1
    <2>1. CASE usable = {}  BY <1>6, <2>1
    <2>2. CASE usable # {}
      <3> DEFINE m == Max(usable)
      <3>1. m \in usable /\ \A k \in usable : m >= k
        <4>1. /\ Bytes \in Int /\ usable \subseteq Int
              /\ \A k \in usable : k <= Bytes
          BY <1>1, <1>4
        <4>. QED  BY <2>2, <4>1, MaxIs
      <3> HIDE DEF m
      <3>2. m \in Int /\ m >= 0 /\ m < last_usable  BY <1>1, <1>4, <1>5, <3>1
      <3>3. last_usable # 0  BY <1>1, <3>2
      <3>4. m >= last_usable - 1  BY <1>6, <3>1, <3>3
      <3>5. last_usable = m + 1  BY <1>1, <3>2, <3>4
      <3>. QED  BY <2>2, <3>5 DEF m
    <2>. QED  BY <2>1, <2>2
  <1>8. \A i \in 1..(Len(region) - 1) :
            End(region[i]) = region[i + 1].addr /\ region[i].type # region[i + 1].type
    BY <1>2 DEF Adjoin, Differ
  <1>. QED  BY <1>7, <1>8 DEF usable

-----------------------------------------------------------------------------
(* The theorems.  Each assumes that no empty region is reported but at the *)
(* beginning of memory: with one elsewhere OverlapsGone is violated.       *)

\* The types, what each loop has reached and what each leaves to the next: the
\* inductive invariant of every turn of the sort and of pmap.c's loops.
THEOREM MapInvariant ==
    ASSUME EmptyAt \subseteq {0}
    PROVE  Spec => []MapInv
  <1>1. Init => MapInv  BY MapStart
  <1>2. MapInv /\ [Next]_vars => MapInv'  BY MapNext
  <1>. QED  BY <1>1, <1>2, PTL DEF Spec

\* The sweep of collapse_overlaps leaves the regions behind it disjoint and
\* those before it in order, also after those it cuts have moved.
THEOREM SweepCorrect ==
    ASSUME EmptyAt \subseteq {0}
    PROVE  Spec => []SweepInOrder
  BY MapInvariant, MapSweeps, PTL

\* Neither the sort nor any turn of the three loops changes the strongest
\* type at any address; fill_gaps makes reserved what nobody listed.
THEOREM StrongestCorrect ==
    ASSUME EmptyAt \subseteq {0}
    PROVE  Spec => []StrongestTypeWins
  BY MapInvariant, MapStrongest, PTL

\* When a normalization is over the map has neither gaps nor overlaps nor
\* equal neighbours, and last_usable is the end of its last usable byte.
THEOREM ExactCorrect ==
    ASSUME EmptyAt \subseteq {0}
    PROVE  Spec => []MapExact
  BY MapInvariant, MapReady, PTL

\* No scan of the library's qsort leaves the list it sorts, in whatever order
\* the regions were listed, and both parts of a range are smaller than it.
THEOREM ScansCorrect ==
    ASSUME EmptyAt \subseteq {0}
    PROVE  Spec => []ScansStop
  <1>1. MapInv => ScansStop  BY SortFacts DEF ScansStop, Q!ScansStop, Q!Sorting
  <1>. QED  BY <1>1, MapInvariant, PTL

\* After collapse_overlaps no address is in two regions, which is what its
\* comment says of it.
THEOREM ApartCorrect ==
    ASSUME EmptyAt \subseteq {0}
    PROVE  Spec => []OverlapsGone
  BY MapInvariant, MapApart, PTL
=============================================================================
