------------------------------ MODULE LogProofs ------------------------------
(***************************************************************************)
(* Proofs about the kernel log.                                            *)
(*                                                                         *)
(* Texts lie end to end, so a character is known by its number among all   *)
(* the characters logged, message id's being those from EndOf(h, id - 1)   *)
(* to EndOf(h, id) - 1.  Between the giving up of a record and that of its *)
(* text, and between the adding of a text and that of its record, the two  *)
(* buffers hold different messages: Texts and Records say which.           *)
(***************************************************************************)
EXTENDS Log, FiniteSetTheorems, TLAPS

Message == [level : Nat, len : 1..MBUFSIZE, end : Nat]

EndOf(h, id) == IF id = 0 THEN 0 ELSE h[id].end

\* The messages' ends add up, and every character is of some message.
HistoryOK(h) ==
    /\ h \in Seq(Message)
    /\ \A id \in 1..Len(h) : EndOf(h, id) = EndOf(h, id - 1) + h[id].len
    /\ \A i, j \in 0..Len(h) : i < j => EndOf(h, i) < EndOf(h, j)
    /\ \A p \in 0..(EndOf(h, Len(h)) - 1) :
           \E id \in 1..Len(h) : EndOf(h, id - 1) <= p /\ p < EndOf(h, id)

Buffers ==
    [rbuf : [RIndex -> [level : Nat, moffset : 0..MBUFSIZE]],
     rhead : RIndex, rtail : RIndex, rbufsz : 0..RBUFSIZE,
     mbuf : [MIndex -> Nat],
     mhead : MIndex, mtail : 0..MBUFSIZE, mbufsz : 0..MBUFSIZE]

\* The place of character number p when message f is the last given up.
Place(h, s, f, p) == (s.mhead + (p - EndOf(h, f))) % MBUFSIZE

\* The characters in use are the texts of the messages from f + 1 to n.
Texts(h, s, f, n) ==
    /\ f \in 0..n /\ n \in 0..Len(h)
    /\ s.mbufsz = EndOf(h, n) - EndOf(h, f)
    /\ s.mtail % MBUFSIZE = (s.mhead + s.mbufsz) % MBUFSIZE
    /\ \A id \in (f + 1)..n : \A p \in EndOf(h, id - 1)..(EndOf(h, id) - 1) :
           s.mbuf[Place(h, s, f, p)] = IF p = EndOf(h, id) - 1 THEN 0 ELSE id

\* The records in use are those of the messages from f + 1 to n; t is the
\* last message whose text is given up.
Records(h, s, t, f, n) ==
    /\ f \in 0..n /\ n \in 0..Len(h) /\ t \in 0..f
    /\ s.rbufsz = n - f
    /\ s.rtail = (s.rhead + s.rbufsz) % RBUFSIZE
    /\ \A id \in (f + 1)..n :
           LET r == s.rbuf[(s.rhead + (id - f - 1)) % RBUFSIZE]
           IN  /\ r.level = h[id].level
               /\ r.moffset % MBUFSIZE = Place(h, s, t, EndOf(h, id - 1))

-----------------------------------------------------------------------------
(* Places in a circular buffer. *)

\* Moving the head on by k and counting k less finds the same place.
LEMMA PlaceShift ==
    ASSUME NEW w \in Nat \ {0}, NEW a \in 0..(w - 1), NEW q \in 0..w, NEW k \in 0..q
    PROVE  /\ (a + k) % w \in 0..(w - 1)
           /\ (((a + k) % w) + (q - k)) % w = (a + q) % w
  <1>1. (a + k) % w = IF a + k < w THEN a + k ELSE a + k - w
    <2>1. CASE a + k < w  BY <2>1, SMT
    <2>2. CASE a + k >= w  BY <2>2, SMT
    <2>. QED  BY <2>1, <2>2
  <1>2. (a + q) % w = IF a + q < w THEN a + q ELSE a + q - w
    <2>1. CASE a + q < w  BY <2>1, SMT
    <2>2. CASE a + q >= w  BY <2>2, SMT
    <2>. QED  BY <2>1, <2>2
  <1> DEFINE r == (a + k) % w
             y == r + (q - k)
  <1>3. r = a + k \/ r = a + k - w  BY <1>1
  <1>4. r \in 0..(w - 1)  BY <1>1
  <1> HIDE DEF r
  <1>5. y \in Nat /\ y < w + w  BY <1>4
  <1>6. y = a + q \/ y = a + q - w  BY <1>3, <1>4
  <1> HIDE DEF y
  <1>7. y % w = IF y < w THEN y ELSE y - w
    <2>1. CASE y < w  BY <2>1, <1>5, SMT
    <2>2. CASE y >= w  BY <2>2, <1>5, SMT
    <2>. QED  BY <2>1, <2>2, <1>5
  <1>8. y % w = (a + q) % w  BY <1>2, <1>5, <1>6, <1>7
  <1>. QED  BY <1>4, <1>8 DEF r, y

\* Places less than a whole turn apart are different.
LEMMA PlaceDiffers ==
    ASSUME NEW w \in Nat \ {0}, NEW a \in 0..(w - 1),
           NEW x \in 0..(w - 1), NEW y \in 0..(w - 1), x # y
    PROVE  (a + x) % w # (a + y) % w
  <1>1. \A z \in 0..(w - 1) :
            (a + z) % w = IF a + z < w THEN a + z ELSE a + z - w
    BY SMT
  <1>. QED  BY <1>1

\* The tail, which may be one past the last place, counts as its place does.
LEMMA PlaceTail ==
    ASSUME NEW w \in Nat \ {0}, NEW a \in 0..(w - 1), NEW z \in 0..w,
           NEW t \in 0..w, NEW i \in 0..w, z + i <= w, t % w = (a + z) % w
    PROVE  /\ (t + i) % w \in 0..(w - 1)
           /\ (t + i) % w = (a + (z + i)) % w
  <1>1. t % w = IF t < w THEN t ELSE 0  BY SMT
  <1>2. (a + z) % w = IF a + z < w THEN a + z ELSE a + z - w  BY SMT
  <1>3. t = a + z \/ t = a + z - w \/ t = a + z + w \/ (t = w /\ a + z = 0)  BY <1>1, <1>2
  <1>4. (t + i) % w = IF t + i < w THEN t + i
                      ELSE IF t + i < w + w THEN t + i - w ELSE t + i - (w + w)
    BY SMT
  <1>5. (a + (z + i)) % w = IF a + (z + i) < w THEN a + (z + i) ELSE a + (z + i) - w
    BY SMT
  <1>. QED  BY <1>1, <1>2, <1>3, <1>4, <1>5

-----------------------------------------------------------------------------
(* The history. *)

LEMMA Sizes ==
    /\ RBUFSIZE \in Nat \ {0} /\ MBUFSIZE \in Nat \ {0}
    /\ Lengths \subseteq 1..MBUFSIZE /\ Levels \subseteq Nat
    /\ MAX_CALLBACKS \in Nat
  BY LogAssumption

LEMMA Ends ==
    ASSUME NEW h, HistoryOK(h)
    PROVE  /\ Len(h) \in Nat
           /\ \A id \in 0..Len(h) : EndOf(h, id) \in Nat
           /\ \A id \in 1..Len(h) :
                  /\ h[id] \in Message
                  /\ EndOf(h, id) = EndOf(h, id - 1) + h[id].len
           /\ \A i, j \in 0..Len(h) : i <= j => EndOf(h, i) <= EndOf(h, j)
           /\ \A i, j \in 0..Len(h) : EndOf(h, i) < EndOf(h, j) => i < j
  <1>1. h \in Seq(Message) /\ Len(h) \in Nat  BY DEF HistoryOK
  <1>2. \A id \in 1..Len(h) : h[id] \in Message  BY <1>1
  <1>3. \A id \in 0..Len(h) : EndOf(h, id) \in Nat  BY <1>1, <1>2 DEF EndOf, Message
  <1>4. \A i, j \in 0..Len(h) : i < j => EndOf(h, i) < EndOf(h, j)  BY DEF HistoryOK
  <1>5. \A i, j \in 0..Len(h) : i = j \/ i < j \/ j < i  BY <1>1
  <1>6. \A i, j \in 0..Len(h) : i <= j => EndOf(h, i) <= EndOf(h, j)
    BY <1>1, <1>3, <1>4
  <1>7. \A i, j \in 0..Len(h) : EndOf(h, i) < EndOf(h, j) => i < j
    BY <1>1, <1>3, <1>4, <1>5
  <1>. QED  BY <1>1, <1>2, <1>3, <1>6, <1>7 DEF HistoryOK

\* A message more: the earlier ones keep their places.
LEMMA HistoryGrows ==
    ASSUME NEW h, HistoryOK(h), NEW m \in Message,
           m.end = EndOf(h, Len(h)) + m.len
    PROVE  /\ HistoryOK(Append(h, m)) /\ Len(Append(h, m)) = Len(h) + 1
           /\ Append(h, m)[Len(h) + 1] = m
           /\ \A id \in 1..Len(h) : Append(h, m)[id] = h[id]
           /\ \A id \in 0..Len(h) : EndOf(Append(h, m), id) = EndOf(h, id)
           /\ EndOf(Append(h, m), Len(h) + 1) = m.end
  <1> DEFINE g == Append(h, m)
             n == Len(h)
  <1>1. h \in Seq(Message) /\ n \in Nat  BY DEF HistoryOK
  <1>2. /\ g \in Seq(Message) /\ Len(g) = n + 1 /\ g[n + 1] = m
        /\ \A id \in 1..n : g[id] = h[id]
    BY <1>1
  <1> HIDE DEF g
  <1>3. \A id \in 0..n : EndOf(g, id) = EndOf(h, id)  BY <1>1, <1>2 DEF EndOf
  <1>4. EndOf(g, n + 1) = m.end  BY <1>1, <1>2 DEF EndOf
  <1>5. /\ m.end \in Nat /\ m.len \in Nat \ {0}
        /\ \A id \in 0..n : EndOf(h, id) \in Nat
    BY Ends, Sizes DEF Message
  <1>6. \A id \in 1..Len(g) : EndOf(g, id) = EndOf(g, id - 1) + g[id].len
    <2> SUFFICES ASSUME NEW id \in 1..Len(g)
                 PROVE  EndOf(g, id) = EndOf(g, id - 1) + g[id].len
      OBVIOUS
    <2>1. CASE id = n + 1
      <3>1. id - 1 = n /\ n \in 0..n  BY <2>1, <1>1
      <3>2. EndOf(g, id - 1) = EndOf(h, n)  BY <3>1, <1>3
      <3>. QED  BY <2>1, <3>2, <1>2, <1>4
    <2>2. CASE id # n + 1
      <3>1. id \in 1..n /\ id \in 0..n /\ id - 1 \in 0..n  BY <2>2, <1>1, <1>2
      <3>2. EndOf(h, id) = EndOf(h, id - 1) + h[id].len  BY <3>1, Ends
      <3>. QED  BY <3>1, <3>2, <1>2, <1>3
    <2>. QED  BY <2>1, <2>2
  <1>7. \A i, j \in 0..Len(g) : i < j => EndOf(g, i) < EndOf(g, j)
    <2> SUFFICES ASSUME NEW i \in 0..Len(g), NEW j \in 0..Len(g), i < j
                 PROVE  EndOf(g, i) < EndOf(g, j)
      OBVIOUS
    <2>1. i \in 0..n /\ n \in 0..n  BY <1>1, <1>2
    <2>2. CASE j = n + 1
      <3>1. EndOf(h, i) <= EndOf(h, n)  BY <2>1, <1>1, Ends
      <3>. QED  BY <2>1, <2>2, <3>1, <1>3, <1>4, <1>5, SMTT(30)
    <2>3. CASE j # n + 1
      <3>1. j \in 0..n  BY <2>3, <1>1, <1>2
      <3>. QED  BY <2>1, <3>1, <1>3 DEF HistoryOK
    <2>. QED  BY <2>2, <2>3
  <1>8. \A p \in 0..(EndOf(g, Len(g)) - 1) :
            \E id \in 1..Len(g) : EndOf(g, id - 1) <= p /\ p < EndOf(g, id)
    <2> SUFFICES ASSUME NEW p \in 0..(m.end - 1)
                 PROVE  \E id \in 1..Len(g) : EndOf(g, id - 1) <= p /\ p < EndOf(g, id)
      BY <1>2, <1>4
    <2>1. CASE p >= EndOf(h, n)
      <3>1. n + 1 \in 1..Len(g) /\ (n + 1) - 1 = n /\ n \in 0..n  BY <1>1, <1>2
      <3>2. EndOf(g, n) <= p /\ p < EndOf(g, n + 1)  BY <2>1, <3>1, <1>3, <1>4, <1>5
      <3>. QED  BY <3>1, <3>2
    <2>2. CASE p < EndOf(h, n)
      <3>1. p \in 0..(EndOf(h, n) - 1)  BY <2>2, <1>5, <1>1
      <3>2. PICK id \in 1..n : EndOf(h, id - 1) <= p /\ p < EndOf(h, id)
        BY <3>1 DEF HistoryOK
      <3>3. id \in 1..Len(g) /\ id \in 0..n /\ id - 1 \in 0..n  BY <1>1, <1>2
      <3>. QED  BY <3>2, <3>3, <1>3
    <2>. QED  BY <2>1, <2>2, <1>5, <1>1
  <1>. QED  BY <1>2, <1>3, <1>4, <1>6, <1>7, <1>8 DEF HistoryOK, g

-----------------------------------------------------------------------------
(* What is given up. *)

LEMMA MinIs ==
    ASSUME NEW S, NEW x \in S, S \subseteq Int, \A y \in S : x <= y
    PROVE  Min(S) = x
  <1>1. \E z \in S : \A y \in S : z <= y  OBVIOUS
  <1>2. Min(S) \in S /\ \A y \in S : Min(S) <= y  BY <1>1, Zenon DEF Min
  <1>3. Min(S) <= x /\ x <= Min(S)  BY <1>2
  <1>4. Min(S) \in Int /\ x \in Int  BY <1>2
  <1>. QED  BY <1>3, <1>4

\* A character in use is of a message in use.
LEMMA Owner ==
    ASSUME NEW h, HistoryOK(h), NEW f \in Nat, NEW n \in Nat, f <= n, n <= Len(h),
           NEW p \in EndOf(h, f)..(EndOf(h, n) - 1)
    PROVE  \E id \in (f + 1)..n :
               /\ EndOf(h, id - 1) <= p /\ p < EndOf(h, id)
               /\ p \in EndOf(h, id - 1)..(EndOf(h, id) - 1)
  <1>1. /\ f \in 0..Len(h) /\ n \in 0..Len(h) /\ Len(h) \in 0..Len(h)
        /\ EndOf(h, f) \in Nat /\ EndOf(h, n) \in Nat /\ EndOf(h, Len(h)) \in Nat
        /\ Len(h) \in Nat
    BY Ends
  <1>2. EndOf(h, n) <= EndOf(h, Len(h))  BY <1>1, Ends
  <1>3. p \in 0..(EndOf(h, Len(h)) - 1)  BY <1>1, <1>2
  <1>4. PICK id \in 1..Len(h) : EndOf(h, id - 1) <= p /\ p < EndOf(h, id)
    BY <1>3 DEF HistoryOK
  <1>5. /\ id \in 0..Len(h) /\ id - 1 \in 0..Len(h)
        /\ EndOf(h, id) \in Nat /\ EndOf(h, id - 1) \in Nat
    BY <1>1, Ends
  <1>6. EndOf(h, f) < EndOf(h, id) /\ EndOf(h, id - 1) < EndOf(h, n)
    BY <1>1, <1>4, <1>5, SMTT(30)
  <1>7. f < id /\ id - 1 < n  BY <1>1, <1>5, <1>6, Ends
  <1>8. id \in (f + 1)..n  BY <1>7
  <1>. QED  BY <1>4, <1>5, <1>8

\* The nulls are the texts' last characters.
LEMMA NullsAre ==
    ASSUME NEW h, HistoryOK(h), NEW s \in Buffers, NEW f, NEW n, Texts(h, s, f, n)
    PROVE  /\ \A id \in (f + 1)..n : EndOf(h, id) - 1 - EndOf(h, f) \in Nulls(s)
           /\ \A i \in Nulls(s) : \E id \in (f + 1)..n :
                  i = EndOf(h, id) - 1 - EndOf(h, f)
  <1>1. /\ n \in Nat /\ n <= Len(h) /\ Len(h) \in Nat /\ f \in Nat /\ f <= n
        /\ f \in 0..Len(h) /\ n \in 0..Len(h)
        /\ s.mbufsz = EndOf(h, n) - EndOf(h, f)
        /\ EndOf(h, f) \in Nat /\ EndOf(h, n) \in Nat /\ EndOf(h, f) <= EndOf(h, n)
    BY Ends DEF Texts
  <1>2. ASSUME NEW id \in (f + 1)..n
        PROVE  EndOf(h, id) - 1 - EndOf(h, f) \in Nulls(s)
    <2>1. /\ id \in 1..Len(h) /\ id \in 0..Len(h) /\ id - 1 \in 0..Len(h)
          /\ EndOf(h, id) \in Nat /\ EndOf(h, id - 1) \in Nat
      BY <1>1, Ends
    <2>2. /\ EndOf(h, f) <= EndOf(h, id - 1) /\ EndOf(h, id) <= EndOf(h, n)
          /\ EndOf(h, id - 1) < EndOf(h, id)
      <3>1. f <= id - 1 /\ id <= n /\ id - 1 < id  BY <1>1
      <3>. QED  BY <1>1, <2>1, <3>1, Ends DEF HistoryOK
    <2> DEFINE p == EndOf(h, id) - 1
               i == p - EndOf(h, f)
    <2>3. p \in EndOf(h, id - 1)..(EndOf(h, id) - 1)  BY <2>1, <2>2
    <2>4. s.mbuf[(s.mhead + i) % MBUFSIZE] = 0  BY <2>3 DEF Texts, Place
    <2>5. i \in 0..(s.mbufsz - 1)  BY <1>1, <2>1, <2>2, SMTT(30)
    <2> HIDE DEF i
    <2>6. i \in Nulls(s)  BY <2>4, <2>5 DEF Nulls
    <2>. QED  BY <2>6 DEF i
  <1>3. ASSUME NEW i \in Nulls(s)
        PROVE  \E id \in (f + 1)..n : i = EndOf(h, id) - 1 - EndOf(h, f)
    <2>1. i \in 0..(s.mbufsz - 1) /\ s.mbuf[(s.mhead + i) % MBUFSIZE] = 0
      BY DEF Nulls
    <2> DEFINE p == EndOf(h, f) + i
    <2>2. p \in EndOf(h, f)..(EndOf(h, n) - 1) /\ p - EndOf(h, f) = i
      BY <1>1, <2>1
    <2> HIDE DEF p
    <2>3. PICK id \in (f + 1)..n : p \in EndOf(h, id - 1)..(EndOf(h, id) - 1)
      BY <1>1, <2>2, Owner
    <2>4. s.mbuf[Place(h, s, f, p)] = IF p = EndOf(h, id) - 1 THEN 0 ELSE id
      BY <2>3 DEF Texts
    <2>5. Place(h, s, f, p) = (s.mhead + i) % MBUFSIZE  BY <2>2 DEF Place
    <2>6. id # 0  BY <1>1
    <2>7. p = EndOf(h, id) - 1  BY <2>1, <2>4, <2>5, <2>6
    <2>. QED  BY <2>2, <2>7
  <1>. QED  BY <1>2, <1>3

\* What goes with m characters ends with a message g, the one that character
\* m is of, and holds as many nulls as messages.
LEMMA GivenUp ==
    ASSUME NEW h, HistoryOK(h), NEW s \in Buffers, NEW f, NEW n, Texts(h, s, f, n),
           f < n, NEW m \in 0..s.mbufsz
    PROVE  \E g \in (f + 1)..n :
               /\ ThroughNull(s, m) = EndOf(h, g) - EndOf(h, f)
               /\ Cardinality({i \in Nulls(s) : i < ThroughNull(s, m)}) = g - f
               /\ EndOf(h, g - 1) <= EndOf(h, f) + m
               /\ m = s.mbufsz \/ EndOf(h, f) + m < EndOf(h, g)
  <1>1. /\ n \in Nat /\ n <= Len(h) /\ Len(h) \in Nat /\ f \in Nat /\ f <= n
        /\ f \in 0..Len(h) /\ n \in 0..Len(h) /\ n \in (f + 1)..n
        /\ s.mbufsz = EndOf(h, n) - EndOf(h, f)
        /\ EndOf(h, f) \in Nat /\ EndOf(h, n) \in Nat /\ EndOf(h, f) <= EndOf(h, n)
    BY Ends DEF Texts
  <1>2. \A id \in (f + 1)..n :
            /\ id \in 0..Len(h) /\ id - 1 \in 0..Len(h) /\ id \in 1..Len(h)
            /\ EndOf(h, id) \in Nat /\ EndOf(h, id - 1) \in Nat
    <2>1. \A id \in (f + 1)..n :
              id \in 0..Len(h) /\ id - 1 \in 0..Len(h) /\ id \in 1..Len(h)
      BY <1>1
    <2>. QED  BY <2>1, Ends
  <1>3. Nulls(s) \subseteq Nat /\ \A i \in Nulls(s) : i < s.mbufsz
    BY DEF Nulls, Buffers
  <1>4. \E g \in (f + 1)..n :
            /\ ThroughNull(s, m) = EndOf(h, g) - EndOf(h, f)
            /\ EndOf(h, g - 1) <= EndOf(h, f) + m
            /\ m = s.mbufsz \/ EndOf(h, f) + m < EndOf(h, g)
    <2> DEFINE later == {i \in Nulls(s) : i >= m}
    <2>1. CASE m = s.mbufsz
      <3>1. later = {}  BY <1>1, <1>3, <2>1
      <3>2. ThroughNull(s, m) = EndOf(h, n) - EndOf(h, f)
        BY <1>1, <3>1 DEF ThroughNull
      <3>3. EndOf(h, n - 1) <= EndOf(h, n)  BY <1>1, <1>2, Ends
      <3>. QED  BY <1>1, <1>2, <2>1, <3>2, <3>3
    <2>2. CASE m # s.mbufsz
      <3> DEFINE p == EndOf(h, f) + m
      <3>1. p \in EndOf(h, f)..(EndOf(h, n) - 1) /\ m \in Nat  BY <1>1, <2>2
      <3>2. PICK g \in (f + 1)..n : EndOf(h, g - 1) <= p /\ p < EndOf(h, g)
        BY <1>1, <3>1, Owner
      <3> DEFINE last == EndOf(h, g) - 1 - EndOf(h, f)
      <3>3. last \in later
        <4>1. last \in Nulls(s)  BY NullsAre
        <4>2. last >= m  BY <1>1, <1>2, <3>1, <3>2, SMTT(30)
        <4>. QED  BY <4>1, <4>2
      <3>4. \A i \in later : last <= i
        <4> SUFFICES ASSUME NEW i \in later  PROVE last <= i
          OBVIOUS
        <4>1. PICK id \in (f + 1)..n : i = EndOf(h, id) - 1 - EndOf(h, f)
          BY NullsAre
        <4>2. i \in Nat /\ i >= m  BY <1>3
        <4>3. EndOf(h, id) \in Nat /\ EndOf(h, g) \in Nat /\ EndOf(h, g - 1) \in Nat
          BY <1>2
        <4>4. EndOf(h, f) + m < EndOf(h, id)  BY <1>1, <3>1, <4>1, <4>2, <4>3, SMTT(60)
        <4>5. EndOf(h, g - 1) < EndOf(h, id)  BY <1>1, <3>1, <3>2, <4>3, <4>4, SMTT(30)
        <4>6. g - 1 < id  BY <1>2, <4>5, Ends
        <4>7. g <= id  BY <4>6, <1>1
        <4>8. EndOf(h, g) <= EndOf(h, id)  BY <1>2, <4>7, Ends
        <4>9. EndOf(h, g) - 1 - EndOf(h, f) <= EndOf(h, id) - 1 - EndOf(h, f)
          BY <1>1, <4>3, <4>8, SMTT(30)
        <4>. QED  BY <4>1, <4>9
      <3>5. later \subseteq Int  BY <1>3
      <3> HIDE DEF later, last
      <3>6. Min(later) = last  BY <3>3, <3>4, <3>5, MinIs
      <3>7. ThroughNull(s, m) = last + 1  BY <3>3, <3>6 DEF ThroughNull, later
      <3>8. last + 1 = EndOf(h, g) - EndOf(h, f)  BY <1>1, <1>2, SMTT(30) DEF last
      <3>. QED  BY <3>2, <3>7, <3>8
    <2>. QED  BY <2>1, <2>2
  <1>5. PICK g \in (f + 1)..n :
            /\ ThroughNull(s, m) = EndOf(h, g) - EndOf(h, f)
            /\ EndOf(h, g - 1) <= EndOf(h, f) + m
            /\ m = s.mbufsz \/ EndOf(h, f) + m < EndOf(h, g)
    BY <1>4
  <1> DEFINE gone == {i \in Nulls(s) : i < ThroughNull(s, m)}
             null == [k \in 1..(g - f) |-> EndOf(h, f + k) - 1 - EndOf(h, f)]
  <1>6. \A k \in 1..(g - f) : f + k \in (f + 1)..n /\ f + k <= g
    BY <1>1
  <1>7. null \in Injection(1..(g - f), gone)
    <2>1. \A k \in 1..(g - f) : null[k] \in gone
      <3> SUFFICES ASSUME NEW k \in 1..(g - f)  PROVE null[k] \in gone
        OBVIOUS
      <3>1. f + k \in (f + 1)..n /\ f + k <= g  BY <1>6
      <3>2. EndOf(h, f + k) <= EndOf(h, g)  BY <1>2, <3>1, Ends
      <3>3. EndOf(h, f + k) - 1 - EndOf(h, f) \in Nulls(s)  BY <3>1, NullsAre
      <3>4. EndOf(h, f + k) - 1 - EndOf(h, f) < EndOf(h, g) - EndOf(h, f)
        BY <1>1, <1>2, <3>1, <3>2, SMTT(60)
      <3>. QED  BY <1>5, <3>3, <3>4
    <2>2. \A k, l \in 1..(g - f) : null[k] = null[l] => k = l
      <3> SUFFICES ASSUME NEW k \in 1..(g - f), NEW l \in 1..(g - f), null[k] = null[l]
                   PROVE  k = l
        OBVIOUS
      <3>1. /\ f + k \in 0..Len(h) /\ f + l \in 0..Len(h)
            /\ EndOf(h, f + k) \in Nat /\ EndOf(h, f + l) \in Nat
        BY <1>2, <1>6
      <3>2. EndOf(h, f + k) = EndOf(h, f + l)  BY <1>1, <3>1, SMTT(30)
      <3>3. ~(f + k < f + l) /\ ~(f + l < f + k)  BY <3>1, <3>2 DEF HistoryOK
      <3>. QED  BY <3>3, <1>1
    <2>. QED  BY <2>1, <2>2 DEF Injection, IsInjective
  <1>8. null \in Surjection(1..(g - f), gone)
    <2>1. \A i \in gone : \E k \in 1..(g - f) : null[k] = i
      <3> SUFFICES ASSUME NEW i \in gone  PROVE \E k \in 1..(g - f) : null[k] = i
        OBVIOUS
      <3>1. PICK id \in (f + 1)..n : i = EndOf(h, id) - 1 - EndOf(h, f)
        BY NullsAre
      <3>2. i < EndOf(h, g) - EndOf(h, f)  BY <1>5
      <3>3. EndOf(h, id - 1) < EndOf(h, g)
        <4>1. EndOf(h, id) - 1 < EndOf(h, g)
          <5>1. EndOf(h, id) \in Nat /\ EndOf(h, f) \in Nat /\ EndOf(h, g) \in Nat
            BY <1>1, <1>2
          <5>2. EndOf(h, id) - 1 - EndOf(h, f) < EndOf(h, g) - EndOf(h, f)
            BY <3>1, <3>2
          <5>. QED  BY <5>1, <5>2
        <4>2. id - 1 \in 0..Len(h) /\ id \in 0..Len(h) /\ id - 1 < id  BY <1>1, <1>2
        <4>3. EndOf(h, id - 1) < EndOf(h, id)
          BY <4>2 DEF HistoryOK
        <4>. QED  BY <1>2, <4>1, <4>3
      <3>4. id - 1 < g  BY <1>2, <3>3, Ends
      <3>5. id - f \in 1..(g - f) /\ f + (id - f) = id  BY <3>4, <1>1
      <3>6. null[id - f] = i  BY <3>1, <3>5
      <3>. QED  BY <3>5, <3>6
    <2>. QED  BY <1>7, <2>1 DEF Surjection, Injection
  <1>9. Cardinality(gone) = g - f
    <2>1. ExistsBijection(1..(g - f), gone)
      BY <1>7, <1>8 DEF ExistsBijection, Bijection
    <2>2. g - f \in Nat /\ IsFiniteSet(1..(g - f)) /\ Cardinality(1..(g - f)) = g - f
      <3>1. g - f \in Int /\ 1 \in Int /\ g - f >= 1  BY <1>1
      <3>. QED  BY <3>1, FS_Interval
    <2>. QED  BY <2>1, <2>2, FS_Bijection
  <1>. QED  BY <1>5, <1>9

\* Records given up: the texts are not touched.
LEMMA RecordsGiven ==
    ASSUME NEW h, NEW s \in Buffers, NEW t, NEW f, NEW n, NEW m,
           Records(h, s, t, f, n), Texts(h, s, t, m), NEW k \in 0..(n - f)
    PROVE  /\ evict_record(s, k) \in Buffers
           /\ Records(h, evict_record(s, k), t, f + k, n)
           /\ Texts(h, evict_record(s, k), t, m)
           /\ evict_record(s, k).mtail = s.mtail
  <1> DEFINE e == evict_record(s, k)
  <1>1. /\ f \in Nat /\ n \in Nat /\ f <= n /\ t \in 0..f /\ n \in 0..Len(h)
        /\ s.rbufsz = n - f /\ s.rbufsz \in 0..RBUFSIZE /\ s.rhead \in 0..(RBUFSIZE - 1)
        /\ s.rtail = (s.rhead + s.rbufsz) % RBUFSIZE
        /\ k \in Nat /\ k <= s.rbufsz /\ s.rbufsz <= RBUFSIZE
    BY DEF Records, Buffers, RIndex
  <1>2. /\ e.rhead = (s.rhead + k) % RBUFSIZE /\ e.rbufsz = s.rbufsz - k
        /\ e.rbuf = s.rbuf /\ e.rtail = s.rtail /\ e.mbuf = s.mbuf
        /\ e.mhead = s.mhead /\ e.mtail = s.mtail /\ e.mbufsz = s.mbufsz
        /\ DOMAIN e = DOMAIN s
    BY DEF evict_record, Buffers
  <1>3. \A q \in k..RBUFSIZE :
            /\ (s.rhead + k) % RBUFSIZE \in 0..(RBUFSIZE - 1)
            /\ (((s.rhead + k) % RBUFSIZE) + (q - k)) % RBUFSIZE = (s.rhead + q) % RBUFSIZE
    <2> SUFFICES ASSUME NEW q \in k..RBUFSIZE
                 PROVE  /\ (s.rhead + k) % RBUFSIZE \in 0..(RBUFSIZE - 1)
                        /\ (((s.rhead + k) % RBUFSIZE) + (q - k)) % RBUFSIZE
                               = (s.rhead + q) % RBUFSIZE
      OBVIOUS
    <2>1. RBUFSIZE \in Nat \ {0} /\ q \in 0..RBUFSIZE /\ k \in 0..q  BY <1>1, Sizes
    <2>. QED  BY <1>1, <2>1, PlaceShift
  <1>4. e.rhead \in RIndex
    <2>1. k \in k..RBUFSIZE  BY <1>1, Sizes
    <2>. QED  BY <1>2, <1>3, <2>1 DEF RIndex
  <1>5. e \in Buffers
    <2>1. e.rbufsz \in 0..RBUFSIZE  BY <1>1, <1>2, Sizes
    <2>. QED  BY <2>1, <1>2, <1>4 DEF Buffers, evict_record
  <1>6. Texts(h, e, t, m)  BY <1>2 DEF Texts, Place
  <1>7. Records(h, e, t, f + k, n)
    <2>1. f + k \in 0..n /\ t \in 0..(f + k) /\ e.rbufsz = n - (f + k)
      BY <1>1, <1>2, SMTT(30)
    <2>2. e.rtail = (e.rhead + e.rbufsz) % RBUFSIZE
      <3>1. s.rbufsz \in k..RBUFSIZE  BY <1>1
      <3>. QED  BY <3>1, <1>1, <1>2, <1>3
    <2>3. ASSUME NEW id \in ((f + k) + 1)..n
          PROVE  LET r == e.rbuf[(e.rhead + (id - (f + k) - 1)) % RBUFSIZE]
                 IN  /\ r.level = h[id].level
                     /\ r.moffset % MBUFSIZE = Place(h, e, t, EndOf(h, id - 1))
      <3> DEFINE q == id - f - 1
      <3>1. q \in k..RBUFSIZE /\ id - (f + k) - 1 = q - k /\ id \in (f + 1)..n
        BY <1>1, Sizes
      <3>2. (e.rhead + (id - (f + k) - 1)) % RBUFSIZE = (s.rhead + (id - f - 1)) % RBUFSIZE
        BY <3>1, <1>2, <1>3
      <3>3. /\ s.rbuf[(s.rhead + (id - f - 1)) % RBUFSIZE].level = h[id].level
            /\ s.rbuf[(s.rhead + (id - f - 1)) % RBUFSIZE].moffset % MBUFSIZE
                   = Place(h, s, t, EndOf(h, id - 1))
        BY <3>1 DEF Records
      <3>4. Place(h, e, t, EndOf(h, id - 1)) = Place(h, s, t, EndOf(h, id - 1))
        BY <1>2 DEF Place
      <3>. QED  BY <1>2, <3>2, <3>3, <3>4
    <2>. QED  BY <1>1, <2>1, <2>2, <2>3 DEF Records
  <1>. QED  BY <1>2, <1>5, <1>6, <1>7

\* Texts given up, of messages whose records are gone: the others keep their
\* places.
LEMMA TextsGiven ==
    ASSUME NEW h, HistoryOK(h), NEW s \in Buffers, NEW t, NEW f, NEW n, NEW m,
           Records(h, s, t, f, n), Texts(h, s, t, m), n <= m, NEW g \in t..f
    PROVE  /\ evict_chars(s, EndOf(h, g) - EndOf(h, t)) \in Buffers
           /\ Records(h, evict_chars(s, EndOf(h, g) - EndOf(h, t)), g, f, n)
           /\ Texts(h, evict_chars(s, EndOf(h, g) - EndOf(h, t)), g, m)
           /\ evict_chars(s, EndOf(h, g) - EndOf(h, t)).mtail = s.mtail
           /\ \A p \in EndOf(h, g)..EndOf(h, m) :
                  Place(h, evict_chars(s, EndOf(h, g) - EndOf(h, t)), g, p)
                      = Place(h, s, t, p)
  <1> DEFINE k == EndOf(h, g) - EndOf(h, t)
             e == evict_chars(s, k)
  <1>1. /\ f \in Nat /\ n \in Nat /\ f <= n /\ t \in Nat /\ t <= f
        /\ m \in Nat /\ t <= m /\ m \in 0..Len(h) /\ g \in Nat /\ t <= g /\ g <= f
        /\ t \in 0..Len(h) /\ g \in 0..Len(h) /\ n \in 0..Len(h) /\ Len(h) \in Nat
        /\ s.mbufsz = EndOf(h, m) - EndOf(h, t) /\ s.mbufsz \in 0..MBUFSIZE
        /\ s.mhead \in 0..(MBUFSIZE - 1)
        /\ s.mtail % MBUFSIZE = (s.mhead + s.mbufsz) % MBUFSIZE
    <2>1. Len(h) \in Nat  BY Ends
    <2>2. /\ f \in 0..n /\ n \in 0..Len(h) /\ t \in 0..f /\ t \in 0..m /\ m \in 0..Len(h)
          /\ s.mbufsz = EndOf(h, m) - EndOf(h, t)
          /\ s.mtail % MBUFSIZE = (s.mhead + s.mbufsz) % MBUFSIZE
      BY DEF Records, Texts
    <2>3. s.mbufsz \in 0..MBUFSIZE /\ s.mhead \in 0..(MBUFSIZE - 1)
      BY DEF Buffers, MIndex
    <2>. QED  BY <2>1, <2>2, <2>3
  <1>2. /\ EndOf(h, g) \in Nat /\ EndOf(h, t) \in Nat /\ EndOf(h, m) \in Nat
        /\ EndOf(h, t) <= EndOf(h, g) /\ EndOf(h, g) <= EndOf(h, m)
    <2>1. g <= m  BY <1>1
    <2>. QED  BY <1>1, <2>1, Ends
  <1>3. /\ k \in Nat /\ k <= s.mbufsz /\ s.mbufsz <= MBUFSIZE
        /\ s.mbufsz \in Nat /\ MBUFSIZE \in Nat
    <2>1. s.mbufsz \in 0..MBUFSIZE /\ s.mbufsz = EndOf(h, m) - EndOf(h, t)  BY <1>1
    <2>2. MBUFSIZE \in Nat  BY Sizes
    <2>3. k \in Nat /\ k <= s.mbufsz  BY <1>2, <2>1
    <2>. QED  BY <2>1, <2>2, <2>3
  <1> HIDE DEF k
  <1>4. /\ e.mhead = (s.mhead + k) % MBUFSIZE /\ e.mbufsz = s.mbufsz - k
        /\ e.rbuf = s.rbuf /\ e.rtail = s.rtail /\ e.mbuf = s.mbuf
        /\ e.rhead = s.rhead /\ e.mtail = s.mtail /\ e.rbufsz = s.rbufsz
    BY DEF evict_chars, Buffers
  <1>5. \A q \in k..MBUFSIZE :
            /\ (s.mhead + k) % MBUFSIZE \in 0..(MBUFSIZE - 1)
            /\ (((s.mhead + k) % MBUFSIZE) + (q - k)) % MBUFSIZE = (s.mhead + q) % MBUFSIZE
    <2> SUFFICES ASSUME NEW q \in k..MBUFSIZE
                 PROVE  /\ (s.mhead + k) % MBUFSIZE \in 0..(MBUFSIZE - 1)
                        /\ (((s.mhead + k) % MBUFSIZE) + (q - k)) % MBUFSIZE
                               = (s.mhead + q) % MBUFSIZE
      OBVIOUS
    <2>1. MBUFSIZE \in Nat \ {0} /\ q \in 0..MBUFSIZE /\ k \in 0..q  BY <1>3, Sizes
    <2>. QED  BY <1>1, <2>1, PlaceShift
  <1>6. e.mhead \in MIndex
    <2>1. k \in k..MBUFSIZE  BY <1>3, Sizes
    <2>. QED  BY <1>4, <1>5, <2>1 DEF MIndex
  <1>7. e \in Buffers
    <2>1. e.mbufsz \in 0..MBUFSIZE  BY <1>1, <1>3, <1>4, SMTT(60)
    <2>. QED  BY <2>1, <1>4, <1>6 DEF Buffers, evict_chars
  <1>8. \A p \in EndOf(h, g)..EndOf(h, m) : Place(h, e, g, p) = Place(h, s, t, p)
    <2> SUFFICES ASSUME NEW p \in EndOf(h, g)..EndOf(h, m)
                 PROVE  Place(h, e, g, p) = Place(h, s, t, p)
      OBVIOUS
    <2> DEFINE q == p - EndOf(h, t)
    <2>1. p \in Nat /\ EndOf(h, g) <= p /\ p <= EndOf(h, m)  BY <1>2
    <2>2. q \in Nat /\ q <= s.mbufsz  BY <1>1, <1>2, <2>1, SMTT(30)
    <2>3. k <= q /\ p - EndOf(h, g) = q - k  BY <1>2, <2>1 DEF k
    <2> HIDE DEF q
    <2>4. q \in k..MBUFSIZE  BY <1>3, <2>2, <2>3
    <2>. QED  BY <2>3, <2>4, <1>4, <1>5 DEF Place, q
  <1>9. Texts(h, e, g, m)
    <2>1. g \in 0..m /\ e.mbufsz = EndOf(h, m) - EndOf(h, g)
      BY <1>1, <1>2, <1>4, SMTT(30) DEF k
    <2>2. e.mtail % MBUFSIZE = (e.mhead + e.mbufsz) % MBUFSIZE
      <3>1. s.mbufsz \in k..MBUFSIZE  BY <1>1, <1>3
      <3>. QED  BY <3>1, <1>1, <1>4, <1>5
    <2>3. ASSUME NEW id \in (g + 1)..m, NEW p \in EndOf(h, id - 1)..(EndOf(h, id) - 1)
          PROVE  e.mbuf[Place(h, e, g, p)] = IF p = EndOf(h, id) - 1 THEN 0 ELSE id
      <3>1. /\ id \in (t + 1)..m /\ id \in 0..Len(h) /\ id - 1 \in 0..Len(h)
            /\ g <= id - 1 /\ id <= m
        BY <1>1
      <3>2. /\ EndOf(h, g) <= EndOf(h, id - 1) /\ EndOf(h, id) <= EndOf(h, m)
            /\ EndOf(h, id) \in Nat /\ EndOf(h, id - 1) \in Nat
        BY <1>1, <3>1, Ends
      <3>3. p \in EndOf(h, g)..EndOf(h, m)  BY <1>2, <3>2
      <3>4. s.mbuf[Place(h, s, t, p)] = IF p = EndOf(h, id) - 1 THEN 0 ELSE id
        BY <3>1 DEF Texts
      <3>. QED  BY <3>3, <3>4, <1>4, <1>8
    <2>. QED  BY <1>1, <2>1, <2>2, <2>3 DEF Texts
  <1>10. Records(h, e, g, f, n)
    <2>1. ASSUME NEW id \in (f + 1)..n
          PROVE  LET r == e.rbuf[(e.rhead + (id - f - 1)) % RBUFSIZE]
                 IN  /\ r.level = h[id].level
                     /\ r.moffset % MBUFSIZE = Place(h, e, g, EndOf(h, id - 1))
      <3>1. id \in 0..Len(h) /\ id - 1 \in 0..Len(h) /\ g <= id - 1 /\ id - 1 <= m
        BY <1>1
      <3>2. EndOf(h, id - 1) \in EndOf(h, g)..EndOf(h, m)
        <4>1. /\ EndOf(h, g) <= EndOf(h, id - 1) /\ EndOf(h, id - 1) <= EndOf(h, m)
              /\ EndOf(h, id - 1) \in Nat
          BY <1>1, <3>1, Ends
        <4>. QED  BY <1>2, <4>1
      <3>3. Place(h, e, g, EndOf(h, id - 1)) = Place(h, s, t, EndOf(h, id - 1))
        BY <1>8, <3>2
      <3>. QED  BY <3>3, <1>4 DEF Records
    <2>2. g \in 0..f /\ f \in 0..n  BY <1>1
    <2>. QED  BY <1>1, <1>4, <2>1, <2>2 DEF Records
  <1>. QED  BY <1>4, <1>7, <1>8, <1>9, <1>10 DEF k

\* evict_msg gives up whole messages, the last of them needed for the room
\* or begun by the first character that is not.
LEMMA MessagesGiven ==
    ASSUME NEW h, HistoryOK(h), NEW s \in Buffers, NEW f, NEW n,
           Records(h, s, f, f, n), Texts(h, s, f, n), f < n, NEW c \in Nat \ {0}
    PROVE  \E g \in (f + 1)..n :
               /\ evict_msg(s, c) \in Buffers
               /\ Records(h, evict_msg(s, c), g, g, n)
               /\ Texts(h, evict_msg(s, c), g, n)
               /\ evict_msg(s, c).mtail = s.mtail
               /\ EndOf(h, g - 1) <= EndOf(h, f) + c
               /\ g = n \/ EndOf(h, f) + c < EndOf(h, g)
  <1>1. /\ f \in Nat /\ n \in Nat /\ n \in 0..Len(h) /\ f \in 0..Len(h) /\ Len(h) \in Nat
        /\ EndOf(h, f) \in Nat /\ EndOf(h, n) \in Nat
        /\ s.mbufsz = EndOf(h, n) - EndOf(h, f)
    <2>1. Len(h) \in Nat  BY Ends
    <2>2. f \in 0..n /\ n \in 0..Len(h) /\ s.mbufsz = EndOf(h, n) - EndOf(h, f)
      BY DEF Texts
    <2>3. f \in 0..Len(h)  BY <2>1, <2>2
    <2>. QED  BY <2>1, <2>2, <2>3, Ends
  <1>2. s.mbufsz \in Nat  BY DEF Buffers
  <1> DEFINE m == IF c <= s.mbufsz THEN c ELSE s.mbufsz
  <1>3. Min({c, s.mbufsz}) = m
    <2>1. m \in {c, s.mbufsz} /\ {c, s.mbufsz} \subseteq Int  BY <1>2
    <2>2. \A y \in {c, s.mbufsz} : m <= y  BY <1>2
    <2> HIDE DEF m
    <2>. QED  BY <2>1, <2>2, MinIs
  <1>4. m \in 0..s.mbufsz /\ m <= c  BY <1>2
  <1>5. m = c \/ m = s.mbufsz  OBVIOUS
  <1> HIDE DEF m
  <1>6. PICK g \in (f + 1)..n :
            /\ ThroughNull(s, m) = EndOf(h, g) - EndOf(h, f)
            /\ Cardinality({i \in Nulls(s) : i < ThroughNull(s, m)}) = g - f
            /\ EndOf(h, g - 1) <= EndOf(h, f) + m
            /\ m = s.mbufsz \/ EndOf(h, f) + m < EndOf(h, g)
    BY <1>4, GivenUp
  <1> DEFINE k == g - f
             d == EndOf(h, g) - EndOf(h, f)
             r == evict_record(s, k)
  <1>7. /\ k \in 0..(n - f) /\ f + k = g /\ g \in f..g /\ g \in 0..Len(h) /\ n <= n
        /\ g - 1 \in 0..Len(h)
    BY <1>1
  <1>8. r \in Buffers /\ Records(h, r, f, g, n) /\ Texts(h, r, f, n) /\ r.mtail = s.mtail
    <2>1. \A j \in 0..(n - f) :
              /\ evict_record(s, j) \in Buffers
              /\ Records(h, evict_record(s, j), f, f + j, n)
              /\ Texts(h, evict_record(s, j), f, n)
              /\ evict_record(s, j).mtail = s.mtail
      BY RecordsGiven
    <2>2. k \in 0..(n - f) /\ f + k = g  BY <1>7
    <2> HIDE DEF k
    <2>. QED  BY <2>1, <2>2
  <1>9. evict_msg(s, c) = evict_chars(r, d)
    <2>1. evict_msg(s, c) = evict_record(evict_chars(s, d), k)
      BY <1>3, <1>6 DEF evict_msg
    <2>2. ASSUME NEW a, NEW b
          PROVE  evict_record(evict_chars(s, a), b) = evict_chars(evict_record(s, b), a)
      BY DEF evict_record, evict_chars, Buffers
    <2>. QED  BY <2>1, <2>2
  <1>10. /\ evict_chars(r, d) \in Buffers /\ Records(h, evict_chars(r, d), g, g, n)
         /\ Texts(h, evict_chars(r, d), g, n) /\ evict_chars(r, d).mtail = s.mtail
    <2> HIDE DEF r
    <2>. QED  BY <1>7, <1>8, TextsGiven
  <1>11. EndOf(h, g - 1) <= EndOf(h, f) + c
    <2>1. EndOf(h, g - 1) \in Nat /\ m \in Nat  BY <1>4, <1>7, Ends
    <2>. QED  BY <1>1, <1>4, <1>6, <2>1, SMTT(30)
  <1>12. g = n \/ EndOf(h, f) + c < EndOf(h, g)
    <2>1. CASE m = s.mbufsz
      <3>1. EndOf(h, g - 1) \in Nat /\ EndOf(h, g) \in Nat  BY <1>7, Ends
      <3>2. s.mbufsz \in 0..s.mbufsz  BY <1>2
      <3>3. \A j \in 0..n : j < n => EndOf(h, j) < EndOf(h, n)
        BY <1>1 DEF HistoryOK
      <3>4. ThroughNull(s, s.mbufsz) = s.mbufsz
        <4>1. {i \in Nulls(s) : i >= s.mbufsz} = {}  BY <1>2 DEF Nulls
        <4>. QED  BY <4>1 DEF ThroughNull
      <3>5. EndOf(h, g) = EndOf(h, n)  BY <2>1, <3>1, <3>4, <1>1, <1>6
      <3>6. g \in 0..n /\ ~(g < n)  BY <3>1, <3>3, <3>5, <1>1, <1>7
      <3>. QED  BY <3>6, <1>1
    <2>2. CASE m # s.mbufsz
      BY <2>2, <1>5, <1>6
    <2>. QED  BY <2>1, <2>2
  <1>. QED  BY <1>9, <1>10, <1>11, <1>12

\* A record given up for want of records takes its text along.
LEMMA OldestGiven ==
    ASSUME NEW h, HistoryOK(h), NEW s \in Buffers, NEW f, NEW n, NEW m,
           Records(h, s, f, f, n), Texts(h, s, f, m), f < n, n <= m
    PROVE  /\ evict_oldest_msg(evict_record(s, 1)) \in Buffers
           /\ Records(h, evict_oldest_msg(evict_record(s, 1)), f + 1, f + 1, n)
           /\ Texts(h, evict_oldest_msg(evict_record(s, 1)), f + 1, m)
           /\ \A p \in EndOf(h, f + 1)..EndOf(h, m) :
                  Place(h, evict_oldest_msg(evict_record(s, 1)), f + 1, p)
                      = Place(h, s, f, p)
  <1> DEFINE r == evict_record(s, 1)
  <1>1. /\ f \in Nat /\ n \in Nat /\ m \in Nat /\ Len(h) \in Nat /\ n <= Len(h) /\ m <= Len(h)
        /\ 1 \in 0..(n - f)
    <2>1. Len(h) \in Nat  BY Ends
    <2>. QED  BY <2>1 DEF Texts, Records
  <1>2. /\ r \in Buffers /\ Records(h, r, f, f + 1, n) /\ Texts(h, r, f, m)
        /\ r.mhead = s.mhead
    <2>1. r \in Buffers /\ Records(h, r, f, f + 1, n) /\ Texts(h, r, f, m)
      BY <1>1, RecordsGiven
    <2>2. r.mhead = s.mhead  BY DEF evict_record, Buffers
    <2>. QED  BY <2>1, <2>2
  <1> HIDE DEF r
  <1>3. f < m /\ f + 1 \in f..(f + 1)  BY <1>1
  <1>4. /\ f + 1 \in 0..Len(h) /\ f \in 0..Len(h) /\ m \in 0..Len(h)
        /\ EndOf(h, f) \in Nat /\ EndOf(h, f + 1) \in Nat /\ EndOf(h, m) \in Nat
        /\ EndOf(h, f) < EndOf(h, m) /\ r.mbufsz = EndOf(h, m) - EndOf(h, f)
    <2>1. f + 1 \in 0..Len(h) /\ f \in 0..Len(h) /\ m \in 0..Len(h)  BY <1>1, <1>3
    <2>2. EndOf(h, f) < EndOf(h, m)  BY <2>1, <1>3 DEF HistoryOK
    <2>. QED  BY <2>1, <2>2, <1>2, Ends DEF Texts
  <1>5. 0 \in 0..r.mbufsz /\ r.mbufsz # 0  BY <1>4
  <1>6. PICK g \in (f + 1)..m :
            /\ ThroughNull(r, 0) = EndOf(h, g) - EndOf(h, f)
            /\ EndOf(h, g - 1) <= EndOf(h, f) + 0
            /\ EndOf(h, f) + 0 < EndOf(h, g)
    BY <1>2, <1>3, <1>5, GivenUp
  <1>7. g = f + 1
    <2>1. g - 1 \in 0..Len(h) /\ EndOf(h, g - 1) \in Nat  BY <1>1, Ends
    <2>2. ~(f < g - 1)
      <3>1. ~(EndOf(h, f) < EndOf(h, g - 1))  BY <1>4, <1>6, <2>1
      <3>. QED  BY <3>1, <2>1, <1>4 DEF HistoryOK
    <2>. QED  BY <2>2, <1>1
  <1>8. evict_oldest_msg(r) = evict_chars(r, EndOf(h, f + 1) - EndOf(h, f))
    BY <1>6, <1>7 DEF evict_oldest_msg
  <1> DEFINE e == evict_chars(r, EndOf(h, f + 1) - EndOf(h, f))
  <1>9. /\ e \in Buffers /\ Records(h, e, f + 1, f + 1, n) /\ Texts(h, e, f + 1, m)
        /\ \A p \in EndOf(h, f + 1)..EndOf(h, m) : Place(h, e, f + 1, p) = Place(h, r, f, p)
    BY <1>2, <1>3, TextsGiven
  <1>10. \A p : Place(h, r, f, p) = Place(h, s, f, p)  BY <1>2 DEF Place
  <1>. QED  BY <1>8, <1>9, <1>10 DEF r

-----------------------------------------------------------------------------
(* What is added. *)

\* A text is written from the tail on.
PutText(s, id, n) ==
    LET end == s.mtail + n
    IN  [s EXCEPT
            !.mbuf = [a \in MIndex |->
                IF \E i \in 0..(n - 1) : a = (s.mtail + i) % MBUFSIZE
                THEN IF a = (end - 1) % MBUFSIZE THEN 0 ELSE id
                ELSE s.mbuf[a]],
            !.mtail = IF end > MBUFSIZE THEN end - MBUFSIZE ELSE end,
            !.mbufsz = @ + n]

PutRecord(s, offset, level) ==
    [s EXCEPT !.rbuf[s.rtail] = [level |-> level, moffset |-> offset],
              !.rtail = (@ + 1) % RBUFSIZE,
              !.rbufsz = @ + 1]

\* The text finds its place behind the others, which it leaves alone.
LEMMA TextAdded ==
    ASSUME NEW h, HistoryOK(h), NEW s \in Buffers, NEW f, NEW n, n < Len(h),
           Records(h, s, f, f, n), Texts(h, s, f, n),
           s.mbufsz + h[n + 1].len <= MBUFSIZE
    PROVE  /\ PutText(s, n + 1, h[n + 1].len) \in Buffers
           /\ Records(h, PutText(s, n + 1, h[n + 1].len), f, f, n)
           /\ Texts(h, PutText(s, n + 1, h[n + 1].len), f, n + 1)
           /\ s.mtail % MBUFSIZE
                  = Place(h, PutText(s, n + 1, h[n + 1].len), f, EndOf(h, n))
  <1> DEFINE len == h[n + 1].len
             e == PutText(s, n + 1, len)
             z == s.mbufsz
             t == s.mtail
  <1>1. /\ f \in Nat /\ n \in Nat /\ f <= n /\ Len(h) \in Nat /\ n + 1 <= Len(h)
        /\ z = EndOf(h, n) - EndOf(h, f) /\ t % MBUFSIZE = (s.mhead + z) % MBUFSIZE
    <2>1. Len(h) \in Nat  BY Ends
    <2>. QED  BY <2>1 DEF Texts
  <1>2. /\ n + 1 \in 1..Len(h) /\ n + 1 \in 0..Len(h) /\ n \in 0..Len(h) /\ f \in 0..Len(h)
        /\ (n + 1) - 1 = n
    BY <1>1
  <1>3. /\ EndOf(h, f) \in Nat /\ EndOf(h, n) \in Nat /\ EndOf(h, n + 1) \in Nat
        /\ h[n + 1] \in Message /\ EndOf(h, n + 1) = EndOf(h, n) + len
    BY <1>2, Ends
  <1>4. len \in 1..MBUFSIZE  BY <1>3 DEF Message
  <1>5. /\ z \in 0..MBUFSIZE /\ t \in 0..MBUFSIZE /\ s.mhead \in 0..(MBUFSIZE - 1)
        /\ s.mbuf \in [MIndex -> Nat]
    BY DEF Buffers, MIndex
  <1>6. z + len <= MBUFSIZE  OBVIOUS
  <1> HIDE DEF len
  <1>7. /\ e.mbufsz = z + len /\ e.rbuf = s.rbuf /\ e.rtail = s.rtail
        /\ e.rhead = s.rhead /\ e.mhead = s.mhead /\ e.rbufsz = s.rbufsz
        /\ e.mtail = IF t + len > MBUFSIZE THEN (t + len) - MBUFSIZE ELSE t + len
        /\ e.mbuf = [a \in MIndex |->
               IF \E i \in 0..(len - 1) : a = (t + i) % MBUFSIZE
               THEN IF a = ((t + len) - 1) % MBUFSIZE THEN 0 ELSE n + 1
               ELSE s.mbuf[a]]
    <2>1. DOMAIN s = {"rbuf", "rhead", "rtail", "rbufsz", "mbuf", "mhead", "mtail", "mbufsz"}
      BY DEF Buffers
    <2>. QED  BY <2>1 DEF PutText
  <1>8. \A i \in 0..len : /\ (t + i) % MBUFSIZE \in 0..(MBUFSIZE - 1)
                          /\ (t + i) % MBUFSIZE = (s.mhead + (z + i)) % MBUFSIZE
    <2> SUFFICES ASSUME NEW i \in 0..len
                 PROVE  /\ (t + i) % MBUFSIZE \in 0..(MBUFSIZE - 1)
                        /\ (t + i) % MBUFSIZE = (s.mhead + (z + i)) % MBUFSIZE
      OBVIOUS
    <2>1. i \in 0..MBUFSIZE /\ z + i <= MBUFSIZE  BY <1>4, <1>5, <1>6, Sizes
    <2>2. /\ MBUFSIZE \in Nat \ {0} /\ s.mhead \in 0..(MBUFSIZE - 1)
          /\ z \in 0..MBUFSIZE /\ t \in 0..MBUFSIZE
          /\ t % MBUFSIZE = (s.mhead + z) % MBUFSIZE
      BY <1>1, <1>5, Sizes
    <2> HIDE DEF z, t
    <2>. QED  BY <2>1, <2>2, PlaceTail, ZenonT(60)
  <1>9. /\ e.mtail \in 0..MBUFSIZE
        /\ e.mtail % MBUFSIZE = (e.mhead + e.mbufsz) % MBUFSIZE
    <2>1. e.mtail \in 0..MBUFSIZE  BY <1>4, <1>5, <1>7, Sizes, SMTT(30)
    <2>2. e.mtail % MBUFSIZE = (t + len) % MBUFSIZE
      <3>1. CASE t + len > MBUFSIZE
        <4>1. e.mtail = (t + len) - MBUFSIZE  BY <1>7, <3>1
        <4> DEFINE x == t + len
        <4>2. x \in Nat /\ x > MBUFSIZE /\ x <= MBUFSIZE + MBUFSIZE
          BY <1>4, <1>5, <3>1, Sizes
        <4> HIDE DEF x
        <4>3. (x - MBUFSIZE) % MBUFSIZE = x % MBUFSIZE
          <5>1. CASE x < MBUFSIZE + MBUFSIZE
            <6>1. (x - MBUFSIZE) % MBUFSIZE = x - MBUFSIZE  BY <4>2, <5>1, Sizes, SMT
            <6>2. x % MBUFSIZE = x - MBUFSIZE  BY <4>2, <5>1, Sizes, SMT
            <6>. QED  BY <6>1, <6>2
          <5>2. CASE x = MBUFSIZE + MBUFSIZE
            <6>1. (x - MBUFSIZE) % MBUFSIZE = 0  BY <4>2, <5>2, Sizes, SMT
            <6>2. x % MBUFSIZE = 0  BY <4>2, <5>2, Sizes, SMT
            <6>. QED  BY <6>1, <6>2
          <5>3. x < MBUFSIZE + MBUFSIZE \/ x = MBUFSIZE + MBUFSIZE  BY <4>2, Sizes
          <5>. QED  BY <5>1, <5>2, <5>3
        <4>. QED  BY <4>1, <4>3 DEF x
      <3>2. CASE ~(t + len > MBUFSIZE)
        BY <1>7, <3>2
      <3>. QED  BY <3>1, <3>2
    <2>3. len \in 0..len  BY <1>4
    <2>. QED  BY <2>1, <2>2, <2>3, <1>7, <1>8
  <1>10. e \in Buffers
    <2>1. e.mbuf \in [MIndex -> Nat]  BY <1>1, <1>5, <1>7, SMTT(60)
    <2>2. e.mbufsz \in 0..MBUFSIZE  BY <1>4, <1>5, <1>6, <1>7, Sizes, SMTT(30)
    <2>. QED  BY <1>9, <2>1, <2>2 DEF Buffers, PutText
  <1>11. \A p : Place(h, e, f, p) = Place(h, s, f, p)  BY <1>7 DEF Place
  <1>12. Records(h, e, f, f, n)  BY <1>7, <1>11 DEF Records
  <1>13. s.mtail % MBUFSIZE = Place(h, e, f, EndOf(h, n))
    BY <1>1, <1>7 DEF Place
  <1>14. ASSUME NEW id \in (f + 1)..(n + 1), NEW p \in EndOf(h, id - 1)..(EndOf(h, id) - 1)
         PROVE  e.mbuf[Place(h, e, f, p)] = IF p = EndOf(h, id) - 1 THEN 0 ELSE id
    <2> DEFINE q == p - EndOf(h, f)
               at == (s.mhead + q) % MBUFSIZE
    <2>1. /\ id \in 0..Len(h) /\ id - 1 \in 0..Len(h) /\ f <= id - 1 /\ id <= n + 1
          /\ EndOf(h, id - 1) \in Nat /\ EndOf(h, id) \in Nat
      <3>1. id \in 0..Len(h) /\ id - 1 \in 0..Len(h) /\ f <= id - 1 /\ id <= n + 1
        BY <1>1
      <3>. QED  BY <3>1, Ends
    <2>2. EndOf(h, f) <= EndOf(h, id - 1) /\ EndOf(h, id) <= EndOf(h, n + 1)
      BY <1>2, <2>1, Ends
    <2>3. p \in Nat /\ q \in 0..(MBUFSIZE - 1) /\ q < z + len
      <3>1. p \in Nat /\ EndOf(h, id - 1) <= p /\ p < EndOf(h, id)  BY <2>1
      <3>2. EndOf(h, f) <= p /\ p < EndOf(h, n) + len
        BY <3>1, <2>1, <2>2, <1>3, <1>4, SMTT(30)
      <3>3. q \in Nat /\ q < z + len  BY <3>1, <3>2, <1>1, <1>3, <1>4, SMTT(30)
      <3> HIDE DEF q, z
      <3>. QED  BY <3>1, <3>3, <1>4, <1>5, <1>6, Sizes
    <2>4. Place(h, e, f, p) = at /\ at \in MIndex
      <3>1. Place(h, e, f, p) = at  BY <1>11 DEF Place
      <3>2. at \in 0..(MBUFSIZE - 1)
        <4> HIDE DEF q
        <4>1. q \in 0..MBUFSIZE /\ q \in 0..q  BY <2>3, Sizes
        <4>. QED  BY <4>1, <1>5, Sizes, PlaceShift
      <3>. QED  BY <3>1, <3>2 DEF MIndex
    <2>5. CASE id = n + 1
      <3> DEFINE i == p - EndOf(h, n)
      <3>1. i \in 0..(len - 1) /\ i \in 0..len /\ z + i = q
        <4>1. id - 1 = n  BY <2>5, <1>1
        <4>2. p \in Nat /\ EndOf(h, n) <= p /\ p < EndOf(h, n) + len
          BY <4>1, <2>1, <2>3, <2>5, <1>3
        <4>3. i \in 0..(len - 1) /\ i \in 0..len  BY <4>2, <1>3, <1>4, SMTT(30)
        <4>. QED  BY <4>2, <4>3, <1>1, <1>3, SMTT(30)
      <3>2. (t + i) % MBUFSIZE = at  BY <3>1, <1>8
      <3>3. p = EndOf(h, id) - 1 <=> i = len - 1
        BY <1>3, <1>4, <2>3, <2>5, SMTT(30)
      <3>4. i # len - 1 => at # ((t + len) - 1) % MBUFSIZE
        <4>1. len - 1 \in 0..len /\ t + (len - 1) = (t + len) - 1  BY <1>4, <1>5
        <4>2. ((t + len) - 1) % MBUFSIZE = (s.mhead + (z + (len - 1))) % MBUFSIZE
          BY <4>1, <1>8
        <4>3. z + (len - 1) \in 0..(MBUFSIZE - 1)  BY <1>4, <1>5, <1>6, Sizes, SMTT(30)
        <4>4. i # len - 1 => q # z + (len - 1)  BY <3>1, <1>4, <1>5, SMTT(30)
        <4> HIDE DEF q
        <4>5. q # z + (len - 1) => at # (s.mhead + (z + (len - 1))) % MBUFSIZE
          BY <4>3, <2>3, <1>5, Sizes, PlaceDiffers
        <4>. QED  BY <4>2, <4>4, <4>5
      <3>5. i = len - 1 => at = ((t + len) - 1) % MBUFSIZE
        <4>1. i = len - 1 => t + i = (t + len) - 1  BY <1>4, <1>5
        <4>. QED  BY <4>1, <3>2
      <3> HIDE DEF i, at
      <3>6. e.mbuf[at] = IF at = ((t + len) - 1) % MBUFSIZE THEN 0 ELSE n + 1
        BY <3>1, <3>2, <2>4, <1>7
      <3>. QED  BY <3>3, <3>4, <3>5, <3>6, <2>4, <2>5
    <2>6. CASE id # n + 1
      <3>1. id \in (f + 1)..n /\ id <= n  BY <2>1, <2>6, <1>1
      <3>2. EndOf(h, id) <= EndOf(h, n)  BY <3>1, <2>1, <1>2, Ends
      <3>3. q < z  BY <3>2, <2>1, <1>1, <1>3, SMTT(30)
      <3>4. s.mbuf[at] = IF p = EndOf(h, id) - 1 THEN 0 ELSE id
        <4>1. Place(h, s, f, p) = at  BY DEF Place
        <4>. QED  BY <3>1, <4>1 DEF Texts
      <3>5. ASSUME NEW i \in 0..(len - 1)
            PROVE  at # (t + i) % MBUFSIZE
        <4>1. i \in 0..len /\ z + i \in 0..(MBUFSIZE - 1) /\ q # z + i
          BY <3>3, <2>3, <1>4, <1>5, <1>6, Sizes, SMTT(60)
        <4>2. (t + i) % MBUFSIZE = (s.mhead + (z + i)) % MBUFSIZE  BY <4>1, <1>8
        <4> HIDE DEF q
        <4>3. at # (s.mhead + (z + i)) % MBUFSIZE
          BY <4>1, <2>3, <1>5, Sizes, PlaceDiffers
        <4>. QED  BY <4>2, <4>3
      <3> HIDE DEF at
      <3>6. e.mbuf[at] = s.mbuf[at]  BY <3>5, <2>4, <1>7
      <3>. QED  BY <3>4, <3>6, <2>4
    <2>. QED  BY <2>5, <2>6
  <1>15. Texts(h, e, f, n + 1)
    <2>1. f \in 0..(n + 1) /\ n + 1 \in 0..Len(h)  BY <1>1
    <2>2. e.mbufsz = EndOf(h, n + 1) - EndOf(h, f)  BY <1>1, <1>3, <1>4, <1>7
    <2>. QED  BY <2>1, <2>2, <1>9, <1>14 DEF Texts
  <1>. QED  BY <1>10, <1>12, <1>13, <1>15 DEF len

\* So does the record.
LEMMA RecordAdded ==
    ASSUME NEW h, HistoryOK(h), NEW s \in Buffers, NEW f, NEW n, n < Len(h),
           Records(h, s, f, f, n), Texts(h, s, f, n + 1), n - f < RBUFSIZE,
           NEW offset \in 0..MBUFSIZE, offset % MBUFSIZE = Place(h, s, f, EndOf(h, n))
    PROVE  /\ PutRecord(s, offset, h[n + 1].level) \in Buffers
           /\ Records(h, PutRecord(s, offset, h[n + 1].level), f, f, n + 1)
           /\ Texts(h, PutRecord(s, offset, h[n + 1].level), f, n + 1)
  <1> DEFINE level == h[n + 1].level
             e == PutRecord(s, offset, level)
             z == s.rbufsz
  <1>1. /\ f \in Nat /\ n \in Nat /\ f <= n /\ Len(h) \in Nat /\ n + 1 <= Len(h)
        /\ z = n - f /\ s.rtail = (s.rhead + z) % RBUFSIZE
        /\ n + 1 \in 1..Len(h)
    <2>1. Len(h) \in Nat  BY Ends
    <2>. QED  BY <2>1 DEF Records
  <1>2. level \in Nat  BY <1>1, Ends DEF Message
  <1>3. /\ s.rhead \in 0..(RBUFSIZE - 1) /\ z \in 0..(RBUFSIZE - 1)
        /\ s.rtail \in 0..(RBUFSIZE - 1) /\ z + 1 \in 0..RBUFSIZE
    BY <1>1, Sizes DEF Buffers, RIndex
  <1> HIDE DEF level
  <1>4. /\ e.mbufsz = s.mbufsz /\ e.mbuf = s.mbuf /\ e.mtail = s.mtail
        /\ e.rhead = s.rhead /\ e.mhead = s.mhead /\ e.rbufsz = z + 1
        /\ e.rtail = (s.rtail + 1) % RBUFSIZE
        /\ e.rbuf = [s.rbuf EXCEPT ![s.rtail] = [level |-> level, moffset |-> offset]]
    BY DEF PutRecord, Buffers
  <1>5. e.rtail = (e.rhead + e.rbufsz) % RBUFSIZE /\ e.rtail \in RIndex
    <2> HIDE DEF z
    <2>1. s.rtail % RBUFSIZE = s.rtail  BY <1>3, Sizes, SMTT(30)
    <2>2. 1 \in 0..RBUFSIZE /\ z + 1 <= RBUFSIZE /\ z \in 0..RBUFSIZE
          /\ s.rtail \in 0..RBUFSIZE
      BY <1>3, Sizes
    <2>3. /\ (s.rtail + 1) % RBUFSIZE \in 0..(RBUFSIZE - 1)
          /\ (s.rtail + 1) % RBUFSIZE = (s.rhead + (z + 1)) % RBUFSIZE
      <3>1. s.rtail % RBUFSIZE = (s.rhead + z) % RBUFSIZE  BY <2>1, <1>1
      <3>2. RBUFSIZE \in Nat \ {0}  BY Sizes
      <3>3. s.rhead \in 0..(RBUFSIZE - 1)  BY <1>3
      <3>. QED  BY <2>2, <3>1, <3>2, <3>3, PlaceTail, ZenonT(120)
    <2>. QED  BY <2>3, <1>4 DEF RIndex
  <1>6. e \in Buffers
    <2>1. e.rbuf \in [RIndex -> [level : Nat, moffset : 0..MBUFSIZE]]
      <3>1. s.rbuf \in [RIndex -> [level : Nat, moffset : 0..MBUFSIZE]]  BY DEF Buffers
      <3>2. [level |-> level, moffset |-> offset] \in [level : Nat, moffset : 0..MBUFSIZE]
        BY <1>2
      <3>. QED  BY <3>1, <3>2, <1>4
    <2>2. e.rbufsz \in 0..RBUFSIZE  BY <1>3, <1>4
    <2>. QED  BY <2>1, <2>2, <1>5 DEF Buffers, PutRecord
  <1>7. \A p : Place(h, e, f, p) = Place(h, s, f, p)  BY <1>4 DEF Place
  <1>8. Texts(h, e, f, n + 1)  BY <1>4, <1>7 DEF Texts
  <1>9. ASSUME NEW id \in (f + 1)..(n + 1)
        PROVE  LET r == e.rbuf[(e.rhead + (id - f - 1)) % RBUFSIZE]
               IN  /\ r.level = h[id].level
                   /\ r.moffset % MBUFSIZE = Place(h, e, f, EndOf(h, id - 1))
    <2> DEFINE q == id - f - 1
               at == (s.rhead + q) % RBUFSIZE
    <2>1. q \in 0..(RBUFSIZE - 1) /\ q <= z
      <3>1. q \in Nat /\ q <= n - f  BY <1>1
      <3>. QED  BY <3>1, <1>1, <1>3, Sizes
    <2>2. at \in RIndex
      <3> HIDE DEF q
      <3>1. q \in 0..RBUFSIZE /\ q \in 0..q  BY <2>1, Sizes
      <3>. QED  BY <3>1, <1>3, Sizes, PlaceShift DEF RIndex
    <2>3. s.rbuf \in [RIndex -> [level : Nat, moffset : 0..MBUFSIZE]]  BY DEF Buffers
    <2>4. CASE id = n + 1
      <3>1. q = z /\ id - 1 = n  BY <2>4, <1>1
      <3>2. at = s.rtail  BY <3>1, <1>1
      <3> HIDE DEF at
      <3>3. e.rbuf[at] = [level |-> level, moffset |-> offset]
        BY <3>2, <2>2, <2>3, <1>4
      <3>. QED  BY <3>1, <3>3, <2>4, <1>4, <1>7 DEF at, level
    <2>5. CASE id # n + 1
      <3>1. id \in (f + 1)..n /\ q # z  BY <2>5, <1>1
      <3>2. at # s.rtail
        <4> HIDE DEF q
        <4>. QED  BY <3>1, <2>1, <1>1, <1>3, Sizes, PlaceDiffers
      <3>3. /\ s.rbuf[at].level = h[id].level
            /\ s.rbuf[at].moffset % MBUFSIZE = Place(h, s, f, EndOf(h, id - 1))
        BY <3>1 DEF Records
      <3> HIDE DEF at
      <3>4. e.rbuf[at] = s.rbuf[at]  BY <3>2, <2>2, <2>3, <1>4
      <3>. QED  BY <3>3, <3>4, <1>4, <1>7 DEF at
    <2>. QED  BY <2>4, <2>5
  <1>10. Records(h, e, f, f, n + 1)
    <2>1. f \in 0..(n + 1) /\ n + 1 \in 0..Len(h) /\ f \in 0..f /\ e.rbufsz = (n + 1) - f
      BY <1>1, <1>4
    <2>. QED  BY <2>1, <1>5, <1>9 DEF Records
  <1>. QED  BY <1>6, <1>8, <1>10 DEF level

-----------------------------------------------------------------------------
(* The invariant. *)

First == Len(history) - rbufsz

BuffersInv ==
    /\ HistoryOK(history)
    /\ Bufs \in Buffers
    /\ Records(history, Bufs, First, First, Len(history))
    /\ Texts(history, Bufs, First, Len(history))
    /\ history # <<>> => rbufsz > 0

Callback == [maxlevel : Levels \union {0}, cb : Handlers \union {0}]

\* Every handler registered has a place, with its level.
CallbacksInv ==
    /\ callbacks \in [1..MAX_CALLBACKS -> Callback]
    /\ callbacks_size \in 0..MAX_CALLBACKS
    /\ \A cb \in DOMAIN registered : \E i \in 1..callbacks_size :
           callbacks[i].cb = cb /\ callbacks[i].maxlevel = registered[cb]

LogInv == BuffersInv /\ CallbacksInv

\* A message more changes nothing for the earlier ones.
LEMMA Carried ==
    ASSUME NEW h, HistoryOK(h), NEW m \in Message, NEW s, NEW f, NEW n, n \in 0..Len(h)
    PROVE  /\ Records(h, s, f, f, n) => Records(Append(h, m), s, f, f, n)
           /\ Texts(h, s, f, n) => Texts(Append(h, m), s, f, n)
  <1> DEFINE g == Append(h, m)
  <1>1. h \in Seq(Message) /\ Len(h) \in Nat  BY DEF HistoryOK
  <1>2. Len(g) = Len(h) + 1 /\ \A id \in 1..Len(h) : g[id] = h[id]
    BY <1>1
  <1> HIDE DEF g
  <1>3. \A id \in 0..Len(h) : EndOf(g, id) = EndOf(h, id)  BY <1>1, <1>2 DEF EndOf
  <1>4. n \in 0..Len(g)  BY <1>1, <1>2
  <1>5. ASSUME f \in 0..n
        PROVE  /\ \A p : Place(g, s, f, p) = Place(h, s, f, p)
               /\ EndOf(g, f) = EndOf(h, f) /\ EndOf(g, n) = EndOf(h, n)
               /\ \A id \in (f + 1)..n :
                      /\ g[id] = h[id] /\ EndOf(g, id) = EndOf(h, id)
                      /\ EndOf(g, id - 1) = EndOf(h, id - 1)
    <2>1. f \in 0..Len(h) /\ \A id \in (f + 1)..n : id \in 1..Len(h) /\ id \in 0..Len(h)
                                                  /\ id - 1 \in 0..Len(h)
      BY <1>1, <1>5
    <2>. QED  BY <2>1, <1>2, <1>3 DEF Place
  <1>6. Records(h, s, f, f, n) => Records(g, s, f, f, n)
    <2> SUFFICES ASSUME Records(h, s, f, f, n)  PROVE Records(g, s, f, f, n)
      OBVIOUS
    <2>1. f \in 0..n  BY DEF Records
    <2>. QED  BY <2>1, <1>4, <1>5 DEF Records
  <1>7. Texts(h, s, f, n) => Texts(g, s, f, n)
    <2> SUFFICES ASSUME Texts(h, s, f, n)  PROVE Texts(g, s, f, n)
      OBVIOUS
    <2>1. f \in 0..n  BY DEF Texts
    <2>. QED  BY <2>1, <1>4, <1>5 DEF Texts
  <1>. QED  BY <1>6, <1>7 DEF g

\* Room for a text, in a state of the buffers that holds the messages from
\* f + 1 to n: those up to g are given up, if any is.
MakeRoom(s, len) ==
    IF s.mbufsz + len > MBUFSIZE THEN evict_msg(s, s.mbufsz + len - MBUFSIZE) ELSE s

LEMMA RoomMade ==
    ASSUME NEW h, HistoryOK(h), NEW s \in Buffers, NEW f, NEW n,
           Records(h, s, f, f, n), Texts(h, s, f, n), NEW len \in 1..MBUFSIZE
    PROVE  \E g \in f..n :
               /\ MakeRoom(s, len) \in Buffers
               /\ Records(h, MakeRoom(s, len), g, g, n)
               /\ Texts(h, MakeRoom(s, len), g, n)
               /\ MakeRoom(s, len).mtail = s.mtail
               /\ MakeRoom(s, len).mbufsz + len <= MBUFSIZE
               /\ g = f \/ /\ s.mbufsz + len > MBUFSIZE
                           /\ EndOf(h, g - 1) + MBUFSIZE <= EndOf(h, n) + len
  <1>1. /\ f \in Nat /\ n \in Nat /\ f <= n /\ n \in 0..Len(h) /\ f \in 0..Len(h)
        /\ EndOf(h, f) \in Nat /\ EndOf(h, n) \in Nat
        /\ s.mbufsz = EndOf(h, n) - EndOf(h, f) /\ s.mbufsz \in 0..MBUFSIZE
    <2>1. Len(h) \in Nat  BY Ends
    <2>2. f \in 0..n /\ n \in 0..Len(h) /\ s.mbufsz = EndOf(h, n) - EndOf(h, f)
      BY DEF Texts
    <2>3. f \in 0..Len(h)  BY <2>1, <2>2
    <2>. QED  BY <2>1, <2>2, <2>3, Ends, SMTT(30) DEF Buffers
  <1>2. CASE ~(s.mbufsz + len > MBUFSIZE)
    <2>1. MakeRoom(s, len) = s /\ f \in f..n  BY <1>1, <1>2 DEF MakeRoom
    <2>2. s.mbufsz + len <= MBUFSIZE  BY <1>1, <1>2, Sizes
    <2>. QED  BY <2>1, <2>2
  <1>3. CASE s.mbufsz + len > MBUFSIZE
    <2> DEFINE c == s.mbufsz + len - MBUFSIZE
    <2>1. c \in Nat \ {0} /\ s.mbufsz > 0  BY <1>1, <1>3, Sizes, SMTT(30)
    <2>2. f < n  BY <1>1, <2>1
    <2>3. EndOf(h, f) + c = EndOf(h, n) + len - MBUFSIZE  BY <1>1, Sizes, SMTT(30)
    <2>4. MakeRoom(s, len) = evict_msg(s, c)  BY <1>3 DEF MakeRoom
    <2> HIDE DEF c
    <2>5. PICK g \in (f + 1)..n :
              /\ evict_msg(s, c) \in Buffers
              /\ Records(h, evict_msg(s, c), g, g, n)
              /\ Texts(h, evict_msg(s, c), g, n)
              /\ evict_msg(s, c).mtail = s.mtail
              /\ EndOf(h, g - 1) <= EndOf(h, f) + c
              /\ g = n \/ EndOf(h, f) + c < EndOf(h, g)
      BY <2>1, <2>2, MessagesGiven
    <2>6. /\ g \in f..n /\ g \in 0..Len(h) /\ g - 1 \in 0..Len(h)
          /\ EndOf(h, g) \in Nat /\ EndOf(h, g - 1) \in Nat
      <3>1. Len(h) \in Nat  BY Ends
      <3>2. g \in f..n /\ g \in 0..Len(h) /\ g - 1 \in 0..Len(h)  BY <3>1, <1>1
      <3>. QED  BY <3>2, Ends
    <2>7. evict_msg(s, c).mbufsz = EndOf(h, n) - EndOf(h, g)  BY <2>5 DEF Texts
    <2>8. evict_msg(s, c).mbufsz + len <= MBUFSIZE
      <3>1. CASE g = n  BY <3>1, <2>6, <2>7, Sizes
      <3>2. CASE EndOf(h, f) + c < EndOf(h, g)  BY <3>2, <1>1, <2>1, <2>3, <2>6, <2>7, Sizes, SMTT(60)
      <3>. QED  BY <3>1, <3>2, <2>5
    <2>9. EndOf(h, g - 1) + MBUFSIZE <= EndOf(h, n) + len
      BY <1>1, <2>1, <2>3, <2>5, <2>6, Sizes, SMTT(60)
    <2>. QED  BY <1>3, <2>4, <2>5, <2>6, <2>8, <2>9
  <1>. QED  BY <1>2, <1>3

\* Room for a record: the oldest message goes if there are RBUFSIZE already.
MakeRecordRoom(s) ==
    IF s.rbufsz = RBUFSIZE THEN evict_oldest_msg(evict_record(s, 1)) ELSE s

\* A call of log: up to g messages are given up for the text, and one more if
\* the records are full.
LEMMA LogStep ==
    ASSUME BuffersInv, NEW level \in Levels, NEW n \in Lengths, log(level, n)
    PROVE  /\ BuffersInv'
           /\ \E g \in First..Len(history) :
                  /\ g = First \/ /\ mbufsz + n > MBUFSIZE
                                  /\ EndOf(history, g - 1) + MBUFSIZE
                                         <= EndOf(history, Len(history)) + n
                  /\ First' = g \/ (First' = g + 1 /\ Len(history) - g = RBUFSIZE)
  <1> DEFINE N == Len(history)
             f == First
             m == [level |-> level, len |-> n, end |-> End(N) + n]
             h == Append(history, m)
             s0 == MakeRoom(Bufs, n)
             s1 == PutText(s0, N + 1, n)
             s2 == MakeRecordRoom(s1)
             s3 == PutRecord(s2, mtail, level)
  <1>1. /\ HistoryOK(history) /\ Bufs \in Buffers
        /\ Records(history, Bufs, f, f, N) /\ Texts(history, Bufs, f, N)
    BY DEF BuffersInv
  <1>2. /\ N \in Nat /\ N \in 0..N /\ n \in 1..MBUFSIZE /\ level \in Nat
        /\ EndOf(history, N) \in Nat /\ End(N) = EndOf(history, N)
    <2>1. N \in Nat /\ N \in 0..N  BY <1>1, Ends
    <2>. QED  BY <2>1, <1>1, Ends, Sizes DEF End, EndOf
  <1>3. /\ m \in Message /\ m.len = n /\ m.level = level
        /\ m.end = EndOf(history, N) + m.len
    BY <1>2, Sizes DEF Message
  <1> HIDE DEF m
  <1>4. /\ HistoryOK(h) /\ Len(h) = N + 1 /\ h[N + 1] = m
        /\ \A id \in 0..N : EndOf(h, id) = EndOf(history, id)
    BY <1>1, <1>3, HistoryGrows
  <1>5. /\ \A s, i : Records(history, s, i, i, N) => Records(h, s, i, i, N)
        /\ \A s, i : Texts(history, s, i, N) => Texts(h, s, i, N)
    BY <1>1, <1>2, <1>3, Carried
  <1> HIDE DEF h
  <1>6. PICK g \in f..N :
            /\ s0 \in Buffers
            /\ Records(history, s0, g, g, N)
            /\ Texts(history, s0, g, N)
            /\ s0.mtail = mtail
            /\ s0.mbufsz + n <= MBUFSIZE
            /\ g = f \/ /\ mbufsz + n > MBUFSIZE
                        /\ EndOf(history, g - 1) + MBUFSIZE <= EndOf(history, N) + n
    <2>1. Bufs.mtail = mtail /\ Bufs.mbufsz = mbufsz  BY DEF Bufs
    <2>. QED  BY <2>1, <1>1, <1>2, RoomMade
  <1>7. f \in Nat /\ g \in Nat /\ g <= N  BY <1>1, <1>2 DEF Texts
  <1> HIDE DEF s0
  <1>8. /\ s1 \in Buffers /\ Records(h, s1, g, g, N) /\ Texts(h, s1, g, N + 1)
        /\ mtail % MBUFSIZE = Place(h, s1, g, EndOf(h, N))
    <2>1. Records(h, s0, g, g, N) /\ Texts(h, s0, g, N)  BY <1>5, <1>6
    <2>2. h[N + 1].len = n /\ N < Len(h)  BY <1>2, <1>3, <1>4
    <2>. QED  BY <2>1, <2>2, <1>4, <1>6, TextAdded
  <1>9. s1.rbufsz = N - g  BY <1>8 DEF Records
  <1> HIDE DEF s1
  <1>10. PICK k \in g..N :
             /\ s2 \in Buffers /\ Records(h, s2, k, k, N) /\ Texts(h, s2, k, N + 1)
             /\ mtail % MBUFSIZE = Place(h, s2, k, EndOf(h, N))
             /\ N - k < RBUFSIZE
             /\ k = g \/ (k = g + 1 /\ N - g = RBUFSIZE)
    <2>1. CASE s1.rbufsz = RBUFSIZE
      <3>1. g < N /\ N <= N + 1 /\ g + 1 \in g..N  BY <2>1, <1>2, <1>7, <1>9, Sizes
      <3>2. s2 = evict_oldest_msg(evict_record(s1, 1))  BY <2>1 DEF MakeRecordRoom
      <3> HIDE DEF s2
      <3>3. /\ s2 \in Buffers /\ Records(h, s2, g + 1, g + 1, N)
            /\ Texts(h, s2, g + 1, N + 1)
            /\ \A p \in EndOf(h, g + 1)..EndOf(h, N + 1) :
                   Place(h, s2, g + 1, p) = Place(h, s1, g, p)
        BY <3>1, <3>2, <1>4, <1>8, OldestGiven
      <3>4. EndOf(h, N) \in EndOf(h, g + 1)..EndOf(h, N + 1)
        <4>1. /\ N \in 0..Len(h) /\ N + 1 \in 0..Len(h) /\ g + 1 \in 0..Len(h)
              /\ g + 1 <= N
          BY <3>1, <1>2, <1>4, <1>7
        <4>2. /\ EndOf(h, g + 1) <= EndOf(h, N) /\ EndOf(h, N) <= EndOf(h, N + 1)
              /\ EndOf(h, g + 1) \in Nat /\ EndOf(h, N) \in Nat /\ EndOf(h, N + 1) \in Nat
          BY <4>1, <1>2, <1>4, Ends, SMTT(30)
        <4>. QED  BY <4>2
      <3>5. mtail % MBUFSIZE = Place(h, s2, g + 1, EndOf(h, N))  BY <3>3, <3>4, <1>8
      <3>6. N - (g + 1) < RBUFSIZE /\ N - g = RBUFSIZE  BY <2>1, <1>2, <1>7, <1>9, Sizes
      <3>. QED  BY <3>1, <3>3, <3>5, <3>6
    <2>2. CASE s1.rbufsz # RBUFSIZE
      <3>1. s2 = s1 /\ g \in g..N  BY <2>2, <1>2, <1>7 DEF MakeRecordRoom
      <3> HIDE DEF s2
      <3>2. N - g < RBUFSIZE
        <4>1. s1.rbufsz \in 0..RBUFSIZE  BY <1>8 DEF Buffers
        <4>. QED  BY <4>1, <2>2, <1>9, Sizes
      <3>. QED  BY <3>1, <3>2, <1>8
    <2>. QED  BY <2>1, <2>2
  <1> HIDE DEF s2
  <1>11. s3 \in Buffers /\ Records(h, s3, k, k, N + 1) /\ Texts(h, s3, k, N + 1)
    <2>1. h[N + 1].level = level /\ N < Len(h)  BY <1>2, <1>3, <1>4
    <2>2. mtail \in 0..MBUFSIZE  BY <1>1 DEF Bufs, Buffers
    <2>. QED  BY <2>1, <2>2, <1>4, <1>10, RecordAdded
  <1>12. s3 = add_record(add_msg(Bufs, N + 1, n), mtail, level)
    <2>1. s0.mtail = Bufs.mtail  BY <1>6 DEF Bufs
    <2>2. add_msg(Bufs, N + 1, n) = s1
      BY <2>1, ZenonT(60) DEF add_msg, PutText, MakeRoom, s0, s1
    <2>3. add_record(s1, mtail, level) = s3
      BY DEF add_record, PutRecord, MakeRecordRoom, s2
    <2>. QED  BY <2>2, <2>3
  <1> HIDE DEF s3
  <1>13. /\ rbuf' = s3.rbuf /\ rhead' = s3.rhead /\ rtail' = s3.rtail
         /\ rbufsz' = s3.rbufsz /\ mbuf' = s3.mbuf /\ mhead' = s3.mhead
         /\ mtail' = s3.mtail /\ mbufsz' = s3.mbufsz /\ history' = h
    BY <1>12 DEF log, h, m
  <1>14. Bufs' = s3
    <2>1. s3 = [rbuf |-> s3.rbuf, rhead |-> s3.rhead, rtail |-> s3.rtail,
                rbufsz |-> s3.rbufsz, mbuf |-> s3.mbuf, mhead |-> s3.mhead,
                mtail |-> s3.mtail, mbufsz |-> s3.mbufsz]
      BY <1>11 DEF Buffers
    <2>. QED  BY <2>1, <1>13 DEF Bufs
  <1>15. First' = k /\ rbufsz' = N + 1 - k /\ rbufsz' > 0 /\ Len(history') = N + 1
    <2>1. s3.rbufsz = N + 1 - k  BY <1>11 DEF Records
    <2>. QED  BY <2>1, <1>2, <1>4, <1>7, <1>13 DEF First
  <1>16. BuffersInv'
    BY <1>4, <1>11, <1>13, <1>14, <1>15 DEF BuffersInv
  <1>. QED  BY <1>6, <1>10, <1>15, <1>16

-----------------------------------------------------------------------------
(* Registrations. *)

LEMMA AddStep ==
    ASSUME CallbacksInv, NEW level \in Levels, NEW cb \in Handlers,
           log_addcallback(level, cb)
    PROVE  CallbacksInv'
  <1>1. CASE callbacks_size = MAX_CALLBACKS
    BY <1>1 DEF log_addcallback, CallbacksInv
  <1>2. CASE callbacks_size # MAX_CALLBACKS
    <2> DEFINE c == [maxlevel |-> level, cb |-> cb]
               n == callbacks_size + 1
    <2>1. /\ n \in 1..MAX_CALLBACKS /\ callbacks_size' = n
          /\ callbacks' = [callbacks EXCEPT ![n] = c]
          /\ registered' = [h \in DOMAIN registered \union {cb} |->
                                IF h = cb THEN level ELSE registered[h]]
      BY <1>2, Sizes DEF log_addcallback, CallbacksInv
    <2>2. c \in Callback /\ c.cb = cb /\ c.maxlevel = level  BY DEF Callback
    <2> HIDE DEF c
    <2>3. callbacks' \in [1..MAX_CALLBACKS -> Callback]
      BY <2>1, <2>2 DEF CallbacksInv
    <2>4. ASSUME NEW d \in DOMAIN registered'
          PROVE  \E i \in 1..callbacks_size' :
                     callbacks'[i].cb = d /\ callbacks'[i].maxlevel = registered'[d]
      <3>1. CASE d = cb
        <4>1. callbacks'[n] = c /\ n \in 1..callbacks_size'
          BY <2>1, Sizes DEF CallbacksInv
        <4>2. registered'[d] = level  BY <3>1, <2>1
        <4>. QED  BY <4>1, <4>2, <3>1, <2>2
      <3>2. CASE d # cb
        <4>1. d \in DOMAIN registered /\ registered'[d] = registered[d]
          BY <3>2, <2>1
        <4>2. PICK i \in 1..callbacks_size :
                  callbacks[i].cb = d /\ callbacks[i].maxlevel = registered[d]
          BY <4>1 DEF CallbacksInv
        <4>3. i \in 1..callbacks_size' /\ i \in 1..MAX_CALLBACKS /\ i # n
          BY <2>1, Sizes DEF CallbacksInv
        <4>4. callbacks'[i] = callbacks[i]  BY <2>1, <4>3 DEF CallbacksInv
        <4>. QED  BY <4>1, <4>2, <4>3, <4>4
      <3>. QED  BY <3>1, <3>2
    <2>5. callbacks_size' \in 0..MAX_CALLBACKS
      <3> HIDE DEF n
      <3>. QED  BY <2>1, Sizes
    <2> HIDE DEF n
    <2>. QED  BY <2>3, <2>4, <2>5 DEF CallbacksInv
  <1>. QED  BY <1>1, <1>2

\* Those behind the one removed move down, and none falls off: the size stays.
LEMMA RemoveStep ==
    ASSUME CallbacksInv, NEW cb \in Handlers, log_removecallback(cb)
    PROVE  CallbacksInv'
  <1> DEFINE Behind(j) == j < callbacks_size /\ \E i \in 1..j : callbacks[i].cb = cb
  <1>1. /\ callbacks' = [j \in 1..MAX_CALLBACKS |->
                             IF Behind(j) THEN callbacks[j + 1] ELSE callbacks[j]]
        /\ registered' = [h \in DOMAIN registered \ {cb} |-> registered[h]]
        /\ callbacks_size' = callbacks_size
    BY DEF log_removecallback, Unregister
  <1>2. callbacks_size \in Nat /\ callbacks_size <= MAX_CALLBACKS
    BY Sizes DEF CallbacksInv
  <1>3. \A j \in 1..MAX_CALLBACKS : Behind(j) => j + 1 \in 1..MAX_CALLBACKS
    BY <1>2, Sizes
  <1>4. callbacks' \in [1..MAX_CALLBACKS -> Callback]
    <2> HIDE DEF Behind
    <2>. QED  BY <1>1, <1>3 DEF CallbacksInv
  <1>5. ASSUME NEW d \in DOMAIN registered'
        PROVE  \E i \in 1..callbacks_size' :
                   callbacks'[i].cb = d /\ callbacks'[i].maxlevel = registered'[d]
    <2>1. d \in DOMAIN registered /\ d # cb /\ registered'[d] = registered[d]
      BY <1>1
    <2>2. PICK i \in 1..callbacks_size :
              callbacks[i].cb = d /\ callbacks[i].maxlevel = registered[d]
      BY <2>1 DEF CallbacksInv
    <2>3. i \in 1..MAX_CALLBACKS /\ callbacks[i].cb # cb  BY <1>2, <2>1, <2>2, Sizes
    <2>4. CASE \E k \in 1..i : callbacks[k].cb = cb
      <3>1. PICK k \in 1..i : callbacks[k].cb = cb  BY <2>4
      <3>2. k \in 1..(i - 1) /\ i - 1 \in 1..MAX_CALLBACKS /\ (i - 1) + 1 = i
            /\ i - 1 < callbacks_size /\ i - 1 \in 1..callbacks_size
        <4>1. k # i  BY <2>3, <3>1
        <4>. QED  BY <4>1, <1>2, <2>3, Sizes
      <3>3. Behind(i - 1)  BY <3>1, <3>2
      <3> HIDE DEF Behind
      <3>4. callbacks'[i - 1] = callbacks[i]  BY <3>2, <3>3, <1>1
      <3>. QED  BY <3>2, <3>4, <2>1, <2>2, <1>1
    <2>5. CASE ~ \E k \in 1..i : callbacks[k].cb = cb
      <3>1. ~Behind(i)  BY <2>5
      <3> HIDE DEF Behind
      <3>2. callbacks'[i] = callbacks[i]  BY <3>1, <2>3, <1>1
      <3>. QED  BY <3>2, <2>1, <2>2, <1>1
    <2>. QED  BY <2>4, <2>5
  <1>. QED  BY <1>1, <1>4, <1>5 DEF CallbacksInv

-----------------------------------------------------------------------------
(* The theorems. *)

LEMMA LogInit ==
    ASSUME Init
    PROVE  LogInv
  <1>1. /\ history = <<>> /\ Len(history) = 0 /\ First = 0
        /\ rbufsz = 0 /\ mbufsz = 0 /\ rhead = 0 /\ mhead = 0 /\ rtail = 0 /\ mtail = 0
    BY DEF Init, First
  <1>2. HistoryOK(history)
    <2>1. history \in Seq(Message)  BY <1>1
    <2>2. EndOf(history, 0) = 0  BY DEF EndOf
    <2>. QED  BY <1>1, <2>1, <2>2 DEF HistoryOK
  <1>3. Bufs \in Buffers
    <2>1. 0 \in RIndex /\ 0 \in MIndex  BY Sizes DEF RIndex, MIndex
    <2>2. rbuf \in [RIndex -> [level : Nat, moffset : 0..MBUFSIZE]]
      <3>1. [level |-> 0, moffset |-> 0] \in [level : Nat, moffset : 0..MBUFSIZE]
        BY Sizes
      <3>. QED  BY <3>1 DEF Init
    <2>3. mbuf \in [MIndex -> Nat]  BY DEF Init
    <2>. QED  BY <1>1, <2>1, <2>2, <2>3, Sizes DEF Bufs, Buffers
  <1>4. /\ Bufs.rbufsz = 0 /\ Bufs.mbufsz = 0 /\ Bufs.rhead = 0 /\ Bufs.mhead = 0
        /\ Bufs.rtail = 0 /\ Bufs.mtail = 0
    BY <1>1 DEF Bufs
  <1>5. 0 % RBUFSIZE = 0 /\ 0 % MBUFSIZE = 0  BY Sizes, SMT
  <1>6. /\ Records(history, Bufs, First, First, Len(history))
        /\ Texts(history, Bufs, First, Len(history))
    <2>1. EndOf(history, 0) = 0  BY DEF EndOf
    <2>2. 0 \in 0..0 /\ 0 = 0 - 0 /\ 0 + 0 = 0  OBVIOUS
    <2>3. \A id : id \notin (0 + 1)..0  OBVIOUS
    <2>4. Records(history, Bufs, 0, 0, 0)  BY <1>1, <1>4, <1>5, <2>2, <2>3 DEF Records
    <2>5. Texts(history, Bufs, 0, 0)  BY <1>1, <1>4, <1>5, <2>1, <2>2, <2>3 DEF Texts
    <2>. QED  BY <1>1, <2>4, <2>5
  <1>7. BuffersInv  BY <1>1, <1>2, <1>3, <1>6 DEF BuffersInv
  <1>8. CallbacksInv
    <2>1. NoCallback \in Callback  BY DEF NoCallback, Callback
    <2>2. DOMAIN registered = {}
      <3>1. registered = <<>>  BY DEF Init
      <3>. QED  BY <3>1
    <2>. QED  BY <2>1, <2>2, Sizes DEF Init, CallbacksInv
  <1>. QED  BY <1>7, <1>8 DEF LogInv

LEMMA LogNext ==
    ASSUME LogInv, [Next]_vars
    PROVE  LogInv'
  <1>1. BuffersInv /\ CallbacksInv  BY DEF LogInv
  <1>2. ASSUME NEW level \in Levels, NEW n \in Lengths, log(level, n)
        PROVE  LogInv'
    <2>1. BuffersInv'  BY <1>1, <1>2, LogStep
    <2>2. CallbacksInv'  BY <1>1, <1>2 DEF log, CallbacksInv
    <2>. QED  BY <2>1, <2>2 DEF LogInv
  <1>3. ASSUME UNCHANGED <<bufs, history>>
        PROVE  BuffersInv'
    BY <1>1, <1>3 DEF BuffersInv, bufs, Bufs, First
  <1>4. ASSUME NEW level \in Levels, NEW cb \in Handlers, log_addcallback(level, cb)
        PROVE  LogInv'
    <2>1. UNCHANGED <<bufs, history>>  BY <1>4 DEF log_addcallback
    <2>. QED  BY <2>1, <1>1, <1>3, <1>4, AddStep DEF LogInv
  <1>5. ASSUME NEW cb \in Handlers, log_removecallback(cb)
        PROVE  LogInv'
    <2>1. UNCHANGED <<bufs, history>>  BY <1>5 DEF log_removecallback, Unregister
    <2>. QED  BY <2>1, <1>1, <1>3, <1>5, RemoveStep DEF LogInv
  <1>6. CASE UNCHANGED vars
    <2>1. UNCHANGED <<bufs, history>> /\ UNCHANGED <<callbacks, callbacks_size, registered>>
      BY <1>6 DEF vars
    <2>2. CallbacksInv'  BY <1>1, <2>1 DEF CallbacksInv
    <2>. QED  BY <1>3, <2>1, <2>2 DEF LogInv
  <1>. QED  BY <1>2, <1>4, <1>5, <1>6 DEF Next

LEMMA LogInvariant == Spec => []LogInv
  BY LogInit, LogNext, PTL DEF Spec

LEMMA HoldsBySpec == LogInv => HoldsMostRecent
  <1> SUFFICES ASSUME LogInv  PROVE HoldsMostRecent
    OBVIOUS
  <1> DEFINE N == Len(history)
             f == First
  <1>1. /\ HistoryOK(history) /\ Bufs \in Buffers
        /\ Records(history, Bufs, f, f, N) /\ Texts(history, Bufs, f, N)
        /\ history # <<>> => rbufsz > 0
        /\ callbacks_size \in 0..MAX_CALLBACKS
    BY DEF LogInv, BuffersInv, CallbacksInv
  <1>2. /\ rhead \in RIndex /\ rtail \in RIndex /\ rbufsz \in 0..RBUFSIZE
        /\ mhead \in MIndex /\ mtail \in 0..MBUFSIZE /\ mbufsz \in 0..MBUFSIZE
        /\ rbuf \in [RIndex -> [level : Nat, moffset : 0..MBUFSIZE]]
    BY <1>1 DEF Bufs, Buffers
  <1>3. /\ f \in 0..N /\ N \in Nat
        /\ rbufsz = N - f /\ rtail = (rhead + rbufsz) % RBUFSIZE
        /\ mbufsz = EndOf(history, N) - EndOf(history, f)
        /\ mtail % MBUFSIZE = (mhead + mbufsz) % MBUFSIZE
    <2>1. N \in Nat  BY <1>1, Ends
    <2>. QED  BY <2>1, <1>1 DEF Records, Texts, Bufs
  <1>4. TypeOK  BY <1>1, <1>2, <1>3 DEF TypeOK
  <1>5. ASSUME NEW k \in 0..(rbufsz - 1)
        PROVE  Holds(k, (f + k) + 1)
    <2> DEFINE id == (f + k) + 1
               at == (rhead + k) % RBUFSIZE
               r == rbuf[at]
               len == history[id].len
               q == EndOf(history, id - 1) - EndOf(history, f)
    <2>1. /\ id \in (f + 1)..N /\ id - f - 1 = k /\ id - 1 = f + k
          /\ id \in 0..N /\ id \in 1..N /\ id - 1 \in 0..N /\ f \in 0..N /\ N \in 0..N
          /\ f <= id - 1 /\ id <= N
      BY <1>2, <1>3, Sizes
    <2>2. /\ EndOf(history, id) \in Nat /\ EndOf(history, id - 1) \in Nat
          /\ EndOf(history, f) \in Nat /\ EndOf(history, N) \in Nat
          /\ EndOf(history, id) = EndOf(history, id - 1) + len
          /\ EndOf(history, f) <= EndOf(history, id - 1)
          /\ EndOf(history, id) <= EndOf(history, N)
          /\ len \in 1..MBUFSIZE
      BY <2>1, <1>1, Ends DEF Message
    <2> HIDE DEF len
    <2>3. /\ Bufs.rbuf = rbuf /\ Bufs.rhead = rhead /\ Bufs.mbuf = mbuf /\ Bufs.mhead = mhead
      BY DEF Bufs
    <2>4. /\ r.level = history[id].level
          /\ r.moffset % MBUFSIZE = (mhead + q) % MBUFSIZE
      <3> HIDE DEF id
      <3>. QED  BY <1>1, <2>1, <2>3 DEF Records, Place
    <2>5. r.moffset \in 0..MBUFSIZE
      <3>1. at \in RIndex
        <4>1. k \in 0..RBUFSIZE /\ k \in 0..k /\ rhead \in 0..(RBUFSIZE - 1)
          BY <1>2, Sizes DEF RIndex
        <4>. QED  BY <4>1, Sizes, PlaceShift DEF RIndex
      <3> HIDE DEF at
      <3>. QED  BY <3>1, <1>2
    <2>6. ASSUME NEW i \in 0..(len - 1)
          PROVE  mbuf[(r.moffset + i) % MBUFSIZE] = IF i = len - 1 THEN 0 ELSE id
      <3> DEFINE p == EndOf(history, id - 1) + i
      <3>1. /\ p \in EndOf(history, id - 1)..(EndOf(history, id) - 1)
            /\ p - EndOf(history, f) = q + i
            /\ p = EndOf(history, id) - 1 <=> i = len - 1
        <4> HIDE DEF id
        <4>. QED  BY <2>2, SMTT(30)
      <3>2. (r.moffset + i) % MBUFSIZE = (mhead + (q + i)) % MBUFSIZE
        <4>1. q \in 0..MBUFSIZE /\ i \in 0..MBUFSIZE /\ q + i <= MBUFSIZE
          <5> HIDE DEF id
          <5>1. i \in Nat /\ i < len /\ q \in Nat /\ len \in Nat  BY <2>2
          <5>2. q + len <= mbufsz  BY <2>2, <1>3, SMTT(30)
          <5>3. q + i <= mbufsz /\ mbufsz \in Nat  BY <5>1, <5>2, <1>2
          <5> HIDE DEF q
          <5>. QED  BY <5>1, <5>3, <1>2, Sizes
        <4>2. mhead \in 0..(MBUFSIZE - 1) /\ MBUFSIZE \in Nat \ {0}
          BY <1>2, Sizes DEF MIndex
        <4> HIDE DEF q, r
        <4>. QED  BY <4>1, <4>2, <2>4, <2>5, PlaceTail, ZenonT(120)
      <3>3. mbuf[Place(history, Bufs, f, p)]
                = IF p = EndOf(history, id) - 1 THEN 0 ELSE id
        <4> HIDE DEF id, p
        <4>. QED  BY <1>1, <2>1, <2>3, <3>1 DEF Texts
      <3>4. Place(history, Bufs, f, p) = (mhead + (q + i)) % MBUFSIZE
        <4> HIDE DEF q, p
        <4>. QED  BY <2>3, <3>1 DEF Place
      <3> HIDE DEF id, q, r, p
      <3>. QED  BY <3>1, <3>2, <3>3, <3>4
    <2>. QED  BY <2>4, <2>6 DEF Holds, len
  <1>6. mbufsz = End(N) - End(f)
    BY <1>3 DEF End, EndOf
  <1>. QED  BY <1>1, <1>4, <1>5, <1>6 DEF HoldsMostRecent, First

\* The log holds the latest messages, whole and in order, and nothing else,
\* for every size of its two buffers and texts of every length that fits:
\* eviction through the end of a text, texts and records that wrap, and full
\* buffers of both kinds included.
THEOREM LogCorrect == Spec => []HoldsMostRecent
  BY LogInvariant, HoldsBySpec, PTL

LEMMA RoomStep ==
    ASSUME LogInv, NEW level \in Levels, NEW n \in Lengths, log(level, n),
           rbufsz' < rbufsz + 1
    PROVE  \/ rbufsz = RBUFSIZE /\ rbufsz' = RBUFSIZE
           \/ LET first == Max({0, Len(history) - rbufsz - 2})
              IN  (End(Len(history)) - End(first))' > MBUFSIZE
  <1> DEFINE N == Len(history)
             f == First
             h == history'
  <1>1. /\ BuffersInv /\ BuffersInv' /\ HistoryOK(history) /\ HistoryOK(h)
        /\ f \in 0..N /\ rbufsz = N - f /\ mbufsz = EndOf(history, N) - EndOf(history, f)
        /\ rbufsz \in 0..RBUFSIZE /\ rbufsz' \in 0..RBUFSIZE
    <2>1. BuffersInv /\ BuffersInv'  BY LogStep DEF LogInv
    <2>2. /\ HistoryOK(history) /\ Bufs.rbufsz = rbufsz /\ Bufs.mbufsz = mbufsz
          /\ Bufs \in Buffers /\ Records(history, Bufs, f, f, N) /\ Texts(history, Bufs, f, N)
      BY <2>1 DEF BuffersInv, Bufs
    <2>3. HistoryOK(h) /\ Bufs' \in Buffers /\ Bufs'.rbufsz = rbufsz'
      BY <2>1 DEF BuffersInv, Bufs
    <2>. QED  BY <2>1, <2>2, <2>3 DEF Records, Texts, Buffers
  <1>2. /\ N \in Nat /\ N \in 0..N /\ EndOf(history, N) \in Nat /\ f \in Nat /\ f <= N
        /\ End(N) = EndOf(history, N) /\ n \in 1..MBUFSIZE /\ MBUFSIZE \in Nat
        /\ EndOf(history, f) \in Nat
    <2>1. N \in Nat /\ N \in 0..N  BY <1>1, Ends
    <2>. QED  BY <2>1, <1>1, Ends, Sizes, SMTT(30) DEF End, EndOf
  <1>3. PICK g \in f..N :
            /\ g = f \/ /\ mbufsz + n > MBUFSIZE
                        /\ EndOf(history, g - 1) + MBUFSIZE <= EndOf(history, N) + n
            /\ First' = g \/ (First' = g + 1 /\ N - g = RBUFSIZE)
    BY <1>1, LogStep
  <1>4. /\ Len(h) = N + 1 /\ EndOf(h, N + 1) = EndOf(history, N) + n
        /\ \A id \in 0..N : EndOf(h, id) = EndOf(history, id)
    <2> DEFINE m == [level |-> level, len |-> n, end |-> End(N) + n]
    <2>1. m \in Message /\ m.end = EndOf(history, N) + m.len /\ m.len = n
      BY <1>2, Sizes DEF Message
    <2> HIDE DEF m
    <2>2. h = Append(history, m)  BY DEF log, m
    <2>. QED  BY <1>1, <2>1, <2>2, HistoryGrows
  <1>5. g \in Nat /\ g <= N /\ f <= g /\ rbufsz' = N + 1 - First'
    BY <1>1, <1>2, <1>3, <1>4, SMTT(30) DEF First
  <1>6. CASE First' = g + 1 /\ N - g = RBUFSIZE
    <2>1. g = f  BY <1>1, <1>2, <1>5, <1>6, Sizes
    <2>. QED  BY <2>1, <1>1, <1>2, <1>5, <1>6
  <1>7. CASE First' = g
    <2>1. g > f /\ rbufsz' = N + 1 - g  BY <1>1, <1>2, <1>5, <1>7
    <2>2. mbufsz + n > MBUFSIZE /\ EndOf(history, g - 1) + MBUFSIZE <= EndOf(history, N) + n
      BY <1>2, <1>3, <1>5, <2>1
    <2> DEFINE first == IF g >= 2 THEN g - 2 ELSE 0
    <2>3. Max({0, Len(h) - rbufsz' - 2}) = first
      <3>1. Len(h) - rbufsz' - 2 = g - 2  BY <1>2, <1>4, <1>5, <2>1
      <3>2. \A x \in {0, g - 2} : first >= x  BY <1>5
      <3>3. first \in {0, g - 2}  OBVIOUS
      <3> HIDE DEF first
      <3>4. \A y \in {0, g - 2} : y \in Int  BY <1>5
      <3>5. Max({0, g - 2}) = first
        <4>1. \E z \in {0, g - 2} : \A x \in {0, g - 2} : z >= x  BY <3>2, <3>3
        <4>2. /\ Max({0, g - 2}) \in {0, g - 2}
              /\ \A x \in {0, g - 2} : Max({0, g - 2}) >= x
          BY <4>1, Zenon DEF Max
        <4>3. Max({0, g - 2}) >= first /\ first >= Max({0, g - 2})  BY <4>2, <3>2, <3>3
        <4>. QED  BY <4>2, <4>3, <3>3, <3>4
      <3>. QED  BY <3>1, <3>5
    <2>4. EndOf(h, N + 1) - EndOf(h, first) > MBUFSIZE
      <3>1. CASE g >= 2
        <4>1. first = g - 2 /\ g - 2 \in 0..N /\ g - 1 \in 0..N /\ g - 2 < g - 1
          BY <3>1, <1>2, <1>5
        <4>2. EndOf(history, g - 2) < EndOf(history, g - 1)
          BY <4>1, <1>1 DEF HistoryOK
        <4>3. EndOf(history, g - 2) \in Nat /\ EndOf(history, g - 1) \in Nat
          BY <4>1, <1>1, Ends
        <4>. QED  BY <4>1, <4>2, <4>3, <2>2, <1>2, <1>4, SMTT(30)
      <3>2. CASE g = 1
        <4>1. f = 0 /\ first = 0 /\ 0 \in 0..N  BY <3>2, <2>1, <1>2
        <4>2. EndOf(history, 0) = 0 /\ EndOf(h, 0) = 0  BY DEF EndOf
        <4>. QED  BY <4>1, <4>2, <2>2, <1>1, <1>2, <1>4, SMTT(30)
      <3>. QED  BY <3>1, <3>2, <2>1, <1>2, <1>5
    <2>5. first \in Nat  BY <1>5
    <2> HIDE DEF first
    <2>6. End(Len(history))' - End(first)' = EndOf(h, N + 1) - EndOf(h, first)
      BY <1>4 DEF End, EndOf
    <2>. QED  BY <2>3, <2>4, <2>6
  <1>. QED  BY <1>3, <1>6, <1>7

\* Messages are given up for room only, with at most one too many.
THEOREM RoomCorrect == Spec => GivesUpForRoom
  <1>1. LogInv /\ [Next]_vars =>
            [\A level \in Levels, n \in Lengths :
                log(level, n) /\ rbufsz' < rbufsz + 1 =>
                    \/ rbufsz = RBUFSIZE /\ rbufsz' = RBUFSIZE
                    \/ LET first == Max({0, Len(history) - rbufsz - 2})
                       IN  (End(Len(history)) - End(first))' > MBUFSIZE]_vars
    BY RoomStep
  <1>. QED  BY <1>1, LogInvariant, PTL DEF Spec, GivesUpForRoom

\* Nobody registered misses a message, whatever was removed before.
THEOREM CallbacksCorrect == Spec => NobodyMissed
  <1>1. ASSUME LogInv, NEW level \in Levels, NEW n \in Lengths, log(level, n)
        PROVE  {cb \in DOMAIN registered : level <= registered[cb]} \subseteq called'
    <2> SUFFICES ASSUME NEW cb \in DOMAIN registered, level <= registered[cb]
                 PROVE  cb \in called'
      OBVIOUS
    <2>1. PICK i \in 1..callbacks_size :
              callbacks[i].cb = cb /\ callbacks[i].maxlevel = registered[cb]
      BY <1>1 DEF LogInv, CallbacksInv
    <2>2. called' = {callbacks[j].cb :
                         j \in {k \in 1..callbacks_size : level <= callbacks[k].maxlevel}}
      BY <1>1 DEF log
    <2>. QED  BY <2>1, <2>2
  <1>2. LogInv /\ [Next]_vars =>
            [\A level \in Levels, n \in Lengths :
                log(level, n) =>
                    {cb \in DOMAIN registered : level <= registered[cb]} \subseteq called']_vars
    BY <1>1
  <1>. QED  BY <1>2, LogInvariant, PTL DEF Spec, NobodyMissed
=============================================================================
