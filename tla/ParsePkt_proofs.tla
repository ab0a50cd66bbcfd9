---------------------------- MODULE ParsePkt_proofs ----------------------------
(***************************************************************************)
(* Proofs about ParsePkt, for any stream, any chunks and any length of a   *)
(* packet.                                                                 *)
(***************************************************************************)
EXTENDS ParsePkt, Ascending_proofs

-----------------------------------------------------------------------------
(* The least and the greatest number of a set. *)

LEMMA MinIsLeast ==
  ASSUME NEW T \in SUBSET Nat, T # {}
  PROVE  Min(T) \in T /\ \A y \in T : Min(T) <= y
<1>1. \E x \in T : \A y \in T : x <= y
  BY LeastNat
<1>. QED
  BY <1>1 DEF Min

LEMMA MaxIsGreatest ==
  ASSUME NEW n \in Nat, NEW T \in SUBSET (0..n), T # {}
  PROVE  Max(T) \in T /\ \A y \in T : y <= Max(T)
<1> DEFINE D == {n - y : y \in T}
<1>1. D \in SUBSET Nat /\ D # {}
  <2>1. \A y \in T : n - y \in Nat
    OBVIOUS
  <2>. QED
    BY <2>1
<1>2. PICK x \in T : \A d \in D : n - x <= d
  BY <1>1, LeastNat
<1>3. \A y \in T : n - x <= n - y
  BY <1>2
<1>. HIDE DEF D
<1>4. \A y \in T : x >= y
  BY <1>3
<1>5. \E z \in T : \A y \in T : z >= y
  BY <1>4
<1>. QED
  BY <1>5 DEF Max

-----------------------------------------------------------------------------
(* Pieces of sequences. *)

LEMMA Wider ==
  ASSUME NEW S, NEW T, S \subseteq T, NEW s \in Seq(S)
  PROVE  s \in Seq(T)
<1>1. Len(s) \in Nat /\ s \in [1..Len(s) -> S]
  BY LenProperties
<1>2. s \in [1..Len(s) -> T]
  BY <1>1
<1>. QED
  BY <1>1, <1>2

LEMMA PieceIs ==
  ASSUME NEW T, NEW s \in Seq(T), NEW a \in 1..Len(s) + 1, NEW b \in Int, a - 1 <= b, b <= Len(s)
  PROVE  /\ SubSeq(s, a, b) \in Seq(T)
         /\ Len(SubSeq(s, a, b)) = b - a + 1
         /\ \A i \in 1..b - a + 1 : SubSeq(s, a, b)[i] = s[a + i - 1]
<1>1. Len(s) \in Nat /\ \A i \in 1..Len(s) : s[i] \in T
  BY LenProperties, ElementOfSeq
<1>2. \A i \in a..b : s[i] \in T
  BY <1>1
<1>3. a \in Int
  BY <1>1
<1>4. /\ SubSeq(s, a, b) \in Seq(T)
      /\ Len(SubSeq(s, a, b)) = IF a <= b THEN b - a + 1 ELSE 0
      /\ \A i \in 1..b - a + 1 : SubSeq(s, a, b)[i] = s[a + i - 1]
  BY <1>2, <1>3, SubSeqProperties
<1>5. ~(a <= b) => b - a + 1 = 0
  BY <1>3
<1>. QED
  BY <1>4, <1>5

Regroups(x, y, z) == (x \o y) \o z = x \o (y \o z)

LEMMA Regroup ==
  ASSUME NEW T, NEW x \in Seq(T), NEW y \in Seq(T), NEW z \in Seq(T)
  PROVE  Regroups(x, y, z)
BY ConcatAssociative DEF Regroups

LEMMA ConcatIs ==
  ASSUME NEW T, NEW x \in Seq(T), NEW y \in Seq(T)
  PROVE  /\ x \o y \in Seq(T) /\ Len(x) \in Nat /\ Len(y) \in Nat
         /\ Len(x \o y) = Len(x) + Len(y)
         /\ \A i \in 1..Len(x) : (x \o y)[i] = x[i]
         /\ \A i \in 1..Len(y) : (x \o y)[Len(x) + i] = y[i]
<1> DEFINE z == x \o y
<1>1. Len(x) \in Nat /\ Len(y) \in Nat
  OBVIOUS
<1>2. /\ z \in Seq(T) /\ Len(z) = Len(x) + Len(y)
      /\ \A i \in 1..Len(x) + Len(y) : z[i] = IF i <= Len(x) THEN x[i] ELSE y[i - Len(x)]
  BY ConcatProperties
<1>. HIDE DEF z
<1>3. ASSUME NEW i \in 1..Len(x) PROVE z[i] = x[i]
  <2>1. i \in 1..Len(x) + Len(y) /\ i <= Len(x)
    BY <1>1
  <2>. QED
    BY <1>2, <2>1
<1>4. ASSUME NEW i \in 1..Len(y) PROVE z[Len(x) + i] = y[i]
  <2>1. Len(x) + i \in 1..Len(x) + Len(y) /\ ~(Len(x) + i <= Len(x)) /\ (Len(x) + i) - Len(x) = i
    BY <1>1
  <2>. QED
    BY <1>2, <2>1
<1>. QED
  BY <1>1, <1>2, <1>3, <1>4 DEF z

LEMMA PieceOfLeft ==
  ASSUME NEW T, NEW x \in Seq(T), NEW y \in Seq(T),
         NEW a \in 1..Len(x) + 1, NEW b \in Int, a - 1 <= b, b <= Len(x)
  PROVE  SubSeq(x \o y, a, b) = SubSeq(x, a, b)
<1> DEFINE z == x \o y
           u == SubSeq(z, a, b)
           v == SubSeq(x, a, b)
<1>1. /\ z \in Seq(T) /\ Len(x) \in Nat /\ Len(y) \in Nat /\ Len(z) = Len(x) + Len(y)
      /\ \A i \in 1..Len(x) : z[i] = x[i]
  BY ConcatIs
<1>. HIDE DEF z
<1>2. a \in 1..Len(z) + 1 /\ b <= Len(z)
  BY <1>1
<1>3. u \in Seq(T) /\ Len(u) = b - a + 1 /\ \A i \in 1..b - a + 1 : u[i] = z[a + i - 1]
  BY <1>1, <1>2, PieceIs
<1>4. v \in Seq(T) /\ Len(v) = b - a + 1 /\ \A i \in 1..b - a + 1 : v[i] = x[a + i - 1]
  BY PieceIs
<1>. HIDE DEF u, v
<1>5. \A i \in 1..b - a + 1 : a + i - 1 \in 1..Len(x)
  BY <1>1
<1>6. \A i \in 1..Len(u) : u[i] = v[i]
  BY <1>1, <1>3, <1>4, <1>5
<1>7. u = v
  BY <1>3, <1>4, <1>6, SeqEqual
<1>. QED
  BY <1>7 DEF u, v, z

LEMMA PieceOfRight ==
  ASSUME NEW T, NEW x \in Seq(T), NEW y \in Seq(T),
         NEW a \in 1..Len(y) + 1, NEW b \in Int, a - 1 <= b, b <= Len(y)
  PROVE  SubSeq(x \o y, Len(x) + a, Len(x) + b) = SubSeq(y, a, b)
<1> DEFINE z == x \o y
           n == Len(x)
           u == SubSeq(z, n + a, n + b)
           v == SubSeq(y, a, b)
<1>1. /\ z \in Seq(T) /\ n \in Nat /\ Len(y) \in Nat /\ Len(z) = n + Len(y)
      /\ \A i \in 1..Len(y) : z[n + i] = y[i]
  BY ConcatIs
<1>. HIDE DEF z, n
<1>2. /\ n + a \in 1..Len(z) + 1 /\ n + b \in Int /\ (n + a) - 1 <= n + b /\ n + b <= Len(z)
      /\ (n + b) - (n + a) + 1 = b - a + 1
  BY <1>1
<1>3. u \in Seq(T) /\ Len(u) = b - a + 1 /\ \A i \in 1..b - a + 1 : u[i] = z[n + a + i - 1]
  <2>1. /\ u \in Seq(T) /\ Len(u) = (n + b) - (n + a) + 1
        /\ \A i \in 1..(n + b) - (n + a) + 1 : u[i] = z[(n + a) + i - 1]
    BY <1>1, <1>2, PieceIs
  <2>. QED
    BY <1>2, <2>1
<1>4. v \in Seq(T) /\ Len(v) = b - a + 1 /\ \A i \in 1..b - a + 1 : v[i] = y[a + i - 1]
  BY PieceIs
<1>. HIDE DEF u, v
<1>5. \A i \in 1..b - a + 1 : a + i - 1 \in 1..Len(y) /\ n + a + i - 1 = n + (a + i - 1)
  BY <1>1
<1>6. \A i \in 1..Len(u) : u[i] = v[i]
  BY <1>1, <1>3, <1>4, <1>5
<1>7. u = v
  BY <1>3, <1>4, <1>6, SeqEqual
<1>. QED
  BY <1>7 DEF u, v, z, n

\* a sequence cut after its m-th element
LEMMA CutAt ==
  ASSUME NEW T, NEW s \in Seq(T), NEW a \in 1..Len(s) + 1, NEW m \in Int,
         a - 1 <= m, m <= Len(s)
  PROVE  SubSeq(s, a, Len(s)) = SubSeq(s, a, m) \o SubSeq(s, m + 1, Len(s))
<1> DEFINE n == Len(s)
           u == SubSeq(s, a, m)
           v == SubSeq(s, m + 1, n)
           w == SubSeq(s, a, n)
<1>1. n \in Nat /\ a \in Nat /\ m + 1 \in 1..n + 1
  <2>1. n \in Nat
    OBVIOUS
  <2>. QED
    BY <2>1
<1>2. u \in Seq(T) /\ Len(u) = m - a + 1 /\ \A i \in 1..m - a + 1 : u[i] = s[a + i - 1]
  BY PieceIs
<1>3. v \in Seq(T) /\ Len(v) = n - (m + 1) + 1 /\ \A i \in 1..n - (m + 1) + 1 : v[i] = s[(m + 1) + i - 1]
  BY <1>1, PieceIs
<1>4. w \in Seq(T) /\ Len(w) = n - a + 1 /\ \A i \in 1..n - a + 1 : w[i] = s[a + i - 1]
  BY <1>1, PieceIs
<1>. HIDE DEF u, v, w, n
<1>5. /\ u \o v \in Seq(T) /\ Len(u \o v) = Len(u) + Len(v)
      /\ \A i \in 1..Len(u) + Len(v) : (u \o v)[i] = IF i <= Len(u) THEN u[i] ELSE v[i - Len(u)]
  BY <1>2, <1>3, ConcatProperties
<1>6. Len(u) + Len(v) = n - a + 1
  BY <1>1, <1>2, <1>3
<1>7. ASSUME NEW i \in 1..n - a + 1 PROVE w[i] = (u \o v)[i]
  <2>1. CASE i <= Len(u)
    <3>1. i \in 1..m - a + 1
      BY <1>1, <1>2, <2>1
    <3>. QED
      BY <1>2, <1>4, <1>5, <1>6, <2>1, <3>1
  <2>2. CASE ~(i <= Len(u))
    <3>1. i - Len(u) \in 1..n - (m + 1) + 1 /\ (m + 1) + (i - Len(u)) - 1 = a + i - 1
      BY <1>1, <1>2, <2>2
    <3>. QED
      BY <1>3, <1>4, <1>5, <1>6, <2>2, <3>1
  <2>. QED
    BY <2>1, <2>2
<1>8. w = u \o v
  BY <1>4, <1>5, <1>6, <1>7, SeqEqual
<1>. QED
  BY <1>8 DEF u, v, w, n

-----------------------------------------------------------------------------
(* Where the packets of a stream are. *)

\* a packet lies in s from b to e
IsPacket(s, b, e) ==
  /\ b \in 1..Len(s) /\ e \in 1..Len(s) /\ b < e
  /\ s[b] = SOI /\ s[e] = EOI
  /\ \A j \in b + 1..e - 1 : ~Marker(s[j])

\* s ends in a packet that begins at k
OpensAt(s, k) ==
  /\ k \in 1..Len(s) /\ s[k] = SOI
  /\ \A j \in k + 1..Len(s) : ~Marker(s[j])

LEMMA LastMarker ==
  ASSUME NEW s, NEW m \in Nat
  PROVE  LET l == SelectLastInSubSeq(s, 1, m, Marker)
         IN  \/ l = 0 /\ \A j \in 1..m : ~Marker(s[j])
             \/ l \in 1..m /\ Marker(s[l]) /\ \A j \in l + 1..m : ~Marker(s[j])
<1> DEFINE I == {i \in 1..m : Marker(s[i])}
           l == SelectLastInSubSeq(s, 1, m, Marker)
<1>1. l = IF I # {} THEN Max(I) ELSE 0
  BY DEF SelectLastInSubSeq
<1>2. CASE I = {}
  BY <1>1, <1>2
<1>3. CASE I # {}
  <2>1. I \in SUBSET (0..m)
    OBVIOUS
  <2>2. Max(I) \in I /\ \A y \in I : y <= Max(I)
    BY <1>3, <2>1, MaxIsGreatest
  <2>3. l \in I /\ \A y \in I : y <= l
    BY <1>1, <1>3, <2>2
  <2>. HIDE DEF l
  <2>4. \A j \in l + 1..m : j \in 1..m /\ ~(j <= l)
    BY <2>3
  <2>. QED
    BY <2>3, <2>4 DEF l
<1>. QED
  BY <1>2, <1>3

LEMMA EndsAre ==
  ASSUME NEW s \in Seq(Byte)
  PROVE  /\ \A b, e : IsPacket(s, b, e) => e \in Ends(s) /\ Before(s, e) = b
         /\ \A e \in Ends(s) : IsPacket(s, Before(s, e), e)
         /\ Ends(s) \in SUBSET (1..Len(s))
<1>0. Len(s) \in Nat /\ SOI # EOI
  BY ParseAssumption
<1>1. ASSUME NEW b, NEW e, IsPacket(s, b, e)
      PROVE  e \in Ends(s) /\ Before(s, e) = b
  <2>1. /\ b \in 1..Len(s) /\ e \in 1..Len(s) /\ b < e /\ s[b] = SOI /\ s[e] = EOI
        /\ \A j \in b + 1..e - 1 : ~Marker(s[j])
    BY <1>1 DEF IsPacket
  <2>2. e - 1 \in Nat /\ b \in 1..e - 1 /\ Marker(s[b])
    BY <1>0, <2>1 DEF Marker
  <2> DEFINE l == Before(s, e)
  <2>3. \/ l = 0 /\ \A j \in 1..e - 1 : ~Marker(s[j])
        \/ l \in 1..e - 1 /\ Marker(s[l]) /\ \A j \in l + 1..e - 1 : ~Marker(s[j])
    BY <2>2, LastMarker DEF Before
  <2>. HIDE DEF l
  <2>4. l \in 1..e - 1 /\ Marker(s[l]) /\ \A j \in l + 1..e - 1 : ~Marker(s[j])
    BY <2>2, <2>3
  <2>5. ~(l < b)
    <3>1. SUFFICES ASSUME l < b PROVE FALSE
      OBVIOUS
    <3>2. b \in l + 1..e - 1
      BY <2>2, <2>4, <3>1
    <3>. QED
      BY <2>2, <2>4, <3>2
  <2>6. ~(b < l)
    <3>1. SUFFICES ASSUME b < l PROVE FALSE
      OBVIOUS
    <3>2. l \in b + 1..e - 1
      BY <2>2, <2>4, <3>1
    <3>. QED
      BY <2>1, <2>4, <3>2
  <2>7. l = b
    BY <2>2, <2>4, <2>5, <2>6
  <2>8. b # 0
    BY <2>1
  <2>. QED
    BY <2>1, <2>7, <2>8 DEF l, Ends
<1>2. ASSUME NEW e \in Ends(s)
      PROVE  IsPacket(s, Before(s, e), e)
  <2> DEFINE l == Before(s, e)
  <2>1. e \in 1..Len(s) /\ s[e] = EOI /\ l # 0 /\ s[l] = SOI
    BY DEF Ends
  <2>2. e - 1 \in Nat
    BY <1>0, <2>1
  <2>3. \/ l = 0 /\ \A j \in 1..e - 1 : ~Marker(s[j])
        \/ l \in 1..e - 1 /\ Marker(s[l]) /\ \A j \in l + 1..e - 1 : ~Marker(s[j])
    BY <2>2, LastMarker DEF Before
  <2>. HIDE DEF l
  <2>4. l \in 1..e - 1 /\ \A j \in l + 1..e - 1 : ~Marker(s[j])
    BY <2>1, <2>3
  <2>5. l \in 1..Len(s) /\ l < e
    BY <1>0, <2>1, <2>4
  <2>6. IsPacket(s, l, e)
    BY <2>1, <2>4, <2>5 DEF IsPacket
  <2>. QED
    BY <2>6 DEF l
<1>3. Ends(s) \in SUBSET (1..Len(s))
  BY DEF Ends
<1>. QED
  BY <1>1, <1>2, <1>3

LEMMA OpenIs ==
  ASSUME NEW s \in Seq(Byte)
  PROVE  Open(s) <=> \E k : OpensAt(s, k)
<1>0. Len(s) \in Nat /\ SOI # EOI
  BY ParseAssumption
<1> DEFINE l == SelectLastInSubSeq(s, 1, Len(s), Marker)
<1>1. Open(s) <=> l # 0 /\ s[l] = SOI
  BY DEF Open, SelectLastInSeq, SelectLastInSubSeq
<1>2. \/ l = 0 /\ \A j \in 1..Len(s) : ~Marker(s[j])
      \/ l \in 1..Len(s) /\ Marker(s[l]) /\ \A j \in l + 1..Len(s) : ~Marker(s[j])
  BY <1>0, LastMarker
<1>. HIDE DEF l
<1>3. ASSUME Open(s) PROVE OpensAt(s, l)
  BY <1>1, <1>2, <1>3 DEF OpensAt
<1>4. ASSUME NEW k, OpensAt(s, k) PROVE Open(s)
  <2>1. k \in 1..Len(s) /\ s[k] = SOI /\ Marker(s[k]) /\ \A j \in k + 1..Len(s) : ~Marker(s[j])
    BY <1>4 DEF OpensAt, Marker
  <2>2. l \in 1..Len(s) /\ Marker(s[l]) /\ \A j \in l + 1..Len(s) : ~Marker(s[j])
    BY <1>2, <2>1
  <2>3. ~(l < k)
    <3>1. SUFFICES ASSUME l < k PROVE FALSE
      OBVIOUS
    <3>2. k \in l + 1..Len(s)
      BY <1>0, <2>1, <2>2, <3>1
    <3>. QED
      BY <2>1, <2>2, <3>2
  <2>4. ~(k < l)
    <3>1. SUFFICES ASSUME k < l PROVE FALSE
      OBVIOUS
    <3>2. l \in k + 1..Len(s)
      BY <1>0, <2>1, <2>2, <3>1
    <3>. QED
      BY <2>1, <2>2, <3>2
  <2>5. l = k
    BY <1>0, <2>1, <2>2, <2>3, <2>4
  <2>. QED
    BY <1>1, <2>1, <2>2, <2>5
<1>. QED
  BY <1>3, <1>4

LEMMA OpensAtOnce ==
  ASSUME NEW s \in Seq(Byte), NEW k, NEW l, OpensAt(s, k), OpensAt(s, l)
  PROVE  k = l
<1>1. /\ Len(s) \in Nat /\ k \in 1..Len(s) /\ l \in 1..Len(s) /\ Marker(s[k]) /\ Marker(s[l])
      /\ \A j \in k + 1..Len(s) : ~Marker(s[j])
      /\ \A j \in l + 1..Len(s) : ~Marker(s[j])
  BY DEF OpensAt, Marker
<1>2. ~(k < l)
  <2>1. SUFFICES ASSUME k < l PROVE FALSE
    OBVIOUS
  <2>2. l \in k + 1..Len(s)
    BY <1>1, <2>1
  <2>. QED
    BY <1>1, <2>2
<1>3. ~(l < k)
  <2>1. SUFFICES ASSUME l < k PROVE FALSE
    OBVIOUS
  <2>2. k \in l + 1..Len(s)
    BY <1>1, <2>1
  <2>. QED
    BY <1>1, <2>2
<1>. QED
  BY <1>1, <1>2, <1>3

-----------------------------------------------------------------------------
(* The packets of a stream made of two. *)

PacketTo(s, e) == SubSeq(s, Before(s, e), e)

LEMMA PacketIs ==
  ASSUME NEW s \in Seq(Byte), NEW b, NEW e, IsPacket(s, b, e)
  PROVE  /\ e \in Ends(s) /\ PacketTo(s, e) = SubSeq(s, b, e)
         /\ PacketTo(s, e) \in Seq(Byte)
<1>1. e \in Ends(s) /\ Before(s, e) = b
  BY EndsAre
<1>2. /\ Len(s) \in Nat /\ b \in 1..Len(s) + 1 /\ e \in Int /\ b - 1 <= e /\ e <= Len(s)
  BY DEF IsPacket
<1>3. SubSeq(s, b, e) \in Seq(Byte)
  BY <1>2, PieceIs
<1>. QED
  BY <1>1, <1>3 DEF PacketTo

LEMMA FramesBy ==
  ASSUME NEW s \in Seq(Byte), NEW q, Lists(q, Ends(s))
  PROVE  /\ Frames(s) = [k \in 1..Len(q) |-> PacketTo(s, q[k])]
         /\ Frames(s) \in Seq(Seq(Byte)) /\ Len(Frames(s)) = Len(q) /\ Len(q) \in Nat
         /\ \A k \in 1..Len(q) : q[k] \in Ends(s)
<1>1. Len(s) \in Nat /\ Ends(s) \in SUBSET (1..Len(s))
  BY EndsAre
<1>2. Ascending(Ends(s)) = q
  BY <1>1, AscendingUnique
<1>3. Frames(s) = [k \in 1..Len(q) |-> PacketTo(s, q[k])]
  BY <1>2 DEF Frames, PacketTo
<1>4. q \in Seq(Ends(s)) /\ Len(q) \in Nat
  BY DEF Lists
<1>5. \A k \in 1..Len(q) : q[k] \in Ends(s)
  BY <1>4, ElementOfSeq
<1>6. \A k \in 1..Len(q) : PacketTo(s, q[k]) \in Seq(Byte)
  BY <1>5, EndsAre, PacketIs
<1>7. [k \in 1..Len(q) |-> PacketTo(s, q[k])] \in [1..Len(q) -> Seq(Byte)]
  BY <1>6
<1>8. Frames(s) \in Seq(Seq(Byte)) /\ Len(Frames(s)) = Len(q)
  BY <1>3, <1>4, <1>7
<1>. QED
  BY <1>3, <1>4, <1>5, <1>8

LEMMA FramesType ==
  ASSUME NEW s \in Seq(Byte)
  PROVE  Frames(s) \in Seq(Seq(Byte))
<1>1. Len(s) \in Nat /\ Ends(s) \in SUBSET (1..Len(s))
  BY EndsAre
<1>2. Lists(Ascending(Ends(s)), Ends(s))
  BY <1>1, AscendingIs
<1>. QED
  BY <1>2, FramesBy

LEMMA PacketInLeft ==
  ASSUME NEW x \in Seq(Byte), NEW y \in Seq(Byte), NEW b, NEW e, IsPacket(x, b, e)
  PROVE  IsPacket(x \o y, b, e) /\ PacketTo(x \o y, e) = PacketTo(x, e)
<1> DEFINE z == x \o y
<1>1. /\ z \in Seq(Byte) /\ Len(x) \in Nat /\ Len(y) \in Nat /\ Len(z) = Len(x) + Len(y)
      /\ \A i \in 1..Len(x) : z[i] = x[i]
  BY ConcatIs
<1>2. /\ b \in 1..Len(x) /\ e \in 1..Len(x) /\ b < e /\ x[b] = SOI /\ x[e] = EOI
      /\ \A j \in b + 1..e - 1 : ~Marker(x[j])
  BY DEF IsPacket
<1>3. SubSeq(z, b, e) = SubSeq(x, b, e)
  <2>1. b \in 1..Len(x) + 1 /\ e \in Int /\ b - 1 <= e /\ e <= Len(x)
    BY <1>1, <1>2
  <2>. QED
    BY <2>1, PieceOfLeft
<1>. HIDE DEF z
<1>4. b \in 1..Len(z) /\ e \in 1..Len(z) /\ \A j \in b + 1..e - 1 : j \in 1..Len(x)
  BY <1>1, <1>2
<1>5. IsPacket(z, b, e)
  BY <1>1, <1>2, <1>4 DEF IsPacket
<1>6. PacketTo(z, e) = SubSeq(z, b, e) /\ PacketTo(x, e) = SubSeq(x, b, e)
  BY <1>1, <1>5, PacketIs
<1>. QED
  BY <1>3, <1>5, <1>6 DEF z

LEMMA PacketInRight ==
  ASSUME NEW x \in Seq(Byte), NEW y \in Seq(Byte), NEW b, NEW e, IsPacket(y, b, e)
  PROVE  /\ IsPacket(x \o y, Len(x) + b, Len(x) + e)
         /\ PacketTo(x \o y, Len(x) + e) = PacketTo(y, e)
<1> DEFINE z == x \o y
           n == Len(x)
<1>1. /\ z \in Seq(Byte) /\ n \in Nat /\ Len(y) \in Nat /\ Len(z) = n + Len(y)
      /\ \A i \in 1..Len(y) : z[n + i] = y[i]
  BY ConcatIs
<1>2. /\ b \in 1..Len(y) /\ e \in 1..Len(y) /\ b < e /\ y[b] = SOI /\ y[e] = EOI
      /\ \A j \in b + 1..e - 1 : ~Marker(y[j])
  BY DEF IsPacket
<1>3. SubSeq(z, n + b, n + e) = SubSeq(y, b, e)
  <2>1. b \in 1..Len(y) + 1 /\ e \in Int /\ b - 1 <= e /\ e <= Len(y)
    BY <1>1, <1>2
  <2>. QED
    BY <2>1, PieceOfRight
<1>. HIDE DEF z, n
<1>4. /\ n + b \in 1..Len(z) /\ n + e \in 1..Len(z) /\ n + b < n + e
      /\ z[n + b] = SOI /\ z[n + e] = EOI
  BY <1>1, <1>2
<1>5. ASSUME NEW j \in (n + b) + 1..(n + e) - 1 PROVE ~Marker(z[j])
  <2>1. j - n \in b + 1..e - 1 /\ j - n \in 1..Len(y) /\ n + (j - n) = j
    BY <1>1, <1>2
  <2>. QED
    BY <1>1, <1>2, <2>1
<1>6. IsPacket(z, n + b, n + e)
  BY <1>4, <1>5 DEF IsPacket
<1>7. PacketTo(z, n + e) = SubSeq(z, n + b, n + e) /\ PacketTo(y, e) = SubSeq(y, b, e)
  BY <1>1, <1>6, PacketIs
<1>. QED
  BY <1>3, <1>6, <1>7 DEF z, n

\* no packet begins in x and ends in y
Apart(x, y) ==
  \A b, e : IsPacket(x \o y, b, e) => b > Len(x) \/ e <= Len(x)

LEMMA EndsJoin ==
  ASSUME NEW x \in Seq(Byte), NEW y \in Seq(Byte), Apart(x, y)
  PROVE  Ends(x \o y) = Ends(x) \cup {Len(x) + e : e \in Ends(y)}
<1> DEFINE z == x \o y
           n == Len(x)
<1>1. /\ z \in Seq(Byte) /\ n \in Nat /\ Len(y) \in Nat /\ Len(z) = n + Len(y)
      /\ \A i \in 1..n : z[i] = x[i]
      /\ \A i \in 1..Len(y) : z[n + i] = y[i]
  BY ConcatIs
<1>2. \A e \in Ends(x) : e \in Ends(z)
  <2>1. \A e \in Ends(x) : IsPacket(z, Before(x, e), e)
    BY EndsAre, PacketInLeft
  <2>. QED
    BY <1>1, <2>1, EndsAre
<1>3. \A e \in Ends(y) : n + e \in Ends(z)
  <2>1. \A e \in Ends(y) : IsPacket(z, n + Before(y, e), n + e)
    BY EndsAre, PacketInRight
  <2>. QED
    BY <1>1, <2>1, EndsAre
<1>4. ASSUME NEW e \in Ends(z) PROVE e \in Ends(x) \/ \E f \in Ends(y) : e = n + f
  <2>1. PICK b : IsPacket(z, b, e)
    BY <1>1, EndsAre
  <2>2. b > n \/ e <= n
    BY <2>1 DEF Apart
  <2>. HIDE DEF z, n
  <2>3. /\ b \in 1..Len(z) /\ e \in 1..Len(z) /\ b < e /\ z[b] = SOI /\ z[e] = EOI
        /\ \A j \in b + 1..e - 1 : ~Marker(z[j])
    BY <2>1 DEF IsPacket
  <2>4. CASE e <= n
    <3>1. b \in 1..n /\ e \in 1..n /\ \A j \in b + 1..e - 1 : j \in 1..n
      BY <1>1, <2>3, <2>4
    <3>2. IsPacket(x, b, e)
      BY <1>1, <2>3, <3>1 DEF IsPacket, n
    <3>. QED
      BY <3>2, EndsAre
  <2>5. CASE b > n
    <3>1. /\ b - n \in 1..Len(y) /\ e - n \in 1..Len(y) /\ b - n < e - n
          /\ n + (b - n) = b /\ n + (e - n) = e
      BY <1>1, <2>3, <2>5
    <3>2. ASSUME NEW j \in (b - n) + 1..(e - n) - 1 PROVE ~Marker(y[j])
      <4>1. j \in 1..Len(y) /\ n + j \in b + 1..e - 1
        BY <1>1, <2>3, <2>5
      <4>. QED
        BY <1>1, <2>3, <4>1
    <3>3. y[b - n] = SOI /\ y[e - n] = EOI
      BY <1>1, <2>3, <3>1
    <3>4. IsPacket(y, b - n, e - n)
      BY <3>1, <3>2, <3>3 DEF IsPacket
    <3>5. e - n \in Ends(y)
      BY <3>4, EndsAre
    <3>. QED
      BY <3>1, <3>5
  <2>. QED
    BY <2>2, <2>4, <2>5
<1>. HIDE DEF z, n
<1>5. Ends(z) = Ends(x) \cup {n + e : e \in Ends(y)}
  BY <1>2, <1>3, <1>4
<1>. QED
  BY <1>5 DEF z, n

LEMMA Join ==
  ASSUME NEW x \in Seq(Byte), NEW y \in Seq(Byte), Apart(x, y)
  PROVE  Frames(x \o y) = Frames(x) \o Frames(y)
<1> DEFINE z == x \o y
           n == Len(x)
           q == Ascending(Ends(x))
           r == Ascending(Ends(y))
           t == [k \in 1..Len(r) |-> n + r[k]]
<1>1. /\ z \in Seq(Byte) /\ n \in Nat /\ Len(y) \in Nat /\ Len(z) = n + Len(y)
  BY ConcatIs
<1>2. /\ Ends(x) \in SUBSET (1..n) /\ Ends(y) \in SUBSET (1..Len(y))
      /\ Ends(x) \in SUBSET Int /\ Ends(y) \in SUBSET Int
  <2>1. Ends(x) \in SUBSET (1..n) /\ Ends(y) \in SUBSET (1..Len(y))
    BY EndsAre
  <2>. QED
    BY <2>1
<1>3. Lists(q, Ends(x)) /\ Lists(r, Ends(y))
  BY <1>1, <1>2, AscendingIs
<1>. HIDE DEF q, r
<1> DEFINE T == {n + e : e \in Ends(y)}
<1>4. Lists(t, T)
  <2>1. n \in Int /\ Ends(y) \in SUBSET Int /\ Lists(r, Ends(y))
    BY <1>1, <1>2, <1>3
  <2>. HIDE DEF n
  <2>. QED
    BY <2>1, ListsShift
<1>5. T \in SUBSET Int /\ \A a \in Ends(x) : \A b \in T : a < b
  BY <1>1, <1>2
<1>6. Ends(z) = Ends(x) \cup T
  BY EndsJoin
<1>7. Len(t) = Len(r) /\ Len(r) \in Nat /\ \A k \in 1..Len(r) : t[k] = n + r[k]
  <2>1. Len(r) \in Nat
    BY <1>3 DEF Lists
  <2>. QED
    BY <2>1
<1>. HIDE DEF T, t, z
<1>8. Lists(q \o t, Ends(z))
  BY <1>2, <1>3, <1>4, <1>5, <1>6, ListsConcat
<1>9. /\ Frames(z) = [k \in 1..Len(q \o t) |-> PacketTo(z, (q \o t)[k])]
      /\ Frames(z) \in Seq(Seq(Byte)) /\ Len(Frames(z)) = Len(q \o t)
  BY <1>1, <1>8, FramesBy
<1>10. /\ Frames(x) = [k \in 1..Len(q) |-> PacketTo(x, q[k])]
       /\ Frames(x) \in Seq(Seq(Byte)) /\ Len(Frames(x)) = Len(q) /\ Len(q) \in Nat
       /\ \A k \in 1..Len(q) : q[k] \in Ends(x)
  BY <1>3, FramesBy
<1>11. /\ Frames(y) = [k \in 1..Len(r) |-> PacketTo(y, r[k])]
       /\ Frames(y) \in Seq(Seq(Byte)) /\ Len(Frames(y)) = Len(r)
       /\ \A k \in 1..Len(r) : r[k] \in Ends(y)
  BY <1>3, FramesBy
<1>12. /\ Len(q \o t) = Len(q) + Len(r)
       /\ \A i \in 1..Len(q) : (q \o t)[i] = q[i]
       /\ \A i \in 1..Len(r) : (q \o t)[Len(q) + i] = t[i]
  <2>1. q \in Seq(Int) /\ t \in Seq(Int)
    <3>1. q \in Seq(Ends(x)) /\ t \in Seq(T)
      BY <1>3, <1>4 DEF Lists
    <3>. QED
      BY <1>2, <1>5, <3>1, Wider
  <2>2. Len(t) = Len(r) /\ \A i \in 1..Len(t) : (q \o t)[Len(q) + i] = t[i]
    BY <1>7, <2>1, ConcatIs
  <2>3. Len(q \o t) = Len(q) + Len(t) /\ \A i \in 1..Len(q) : (q \o t)[i] = q[i]
    BY <2>1, ConcatIs
  <2>. QED
    BY <2>2, <2>3
<1> DEFINE f == Frames(x) \o Frames(y)
<1>13. /\ f \in Seq(Seq(Byte)) /\ Len(f) = Len(q) + Len(r)
       /\ \A i \in 1..Len(q) : f[i] = Frames(x)[i]
       /\ \A i \in 1..Len(r) : f[Len(q) + i] = Frames(y)[i]
  BY <1>10, <1>11, ConcatIs
<1>. HIDE DEF f
<1>14. ASSUME NEW i \in 1..Len(q) PROVE Frames(z)[i] = f[i]
  <2>1. i \in 1..Len(q \o t)
    BY <1>7, <1>10, <1>12
  <2>2. PacketTo(z, q[i]) = PacketTo(x, q[i])
    BY <1>10, EndsAre, PacketInLeft DEF z
  <2>. QED
    BY <1>9, <1>10, <1>12, <1>13, <2>1, <2>2
<1>15. ASSUME NEW i \in 1..Len(r) PROVE Frames(z)[Len(q) + i] = f[Len(q) + i]
  <2>1. Len(q) + i \in 1..Len(q \o t)
    BY <1>7, <1>10, <1>12
  <2>2. PacketTo(z, n + r[i]) = PacketTo(y, r[i])
    BY <1>11, EndsAre, PacketInRight DEF z
  <2>3. (q \o t)[Len(q) + i] = n + r[i]
    BY <1>7, <1>12
  <2>. QED
    BY <1>9, <1>11, <1>13, <2>1, <2>2, <2>3
<1>16. ASSUME NEW i \in 1..Len(q) + Len(r) PROVE Frames(z)[i] = f[i]
  <2>1. i \in 1..Len(q) \/ (i - Len(q) \in 1..Len(r) /\ Len(q) + (i - Len(q)) = i)
    BY <1>7, <1>10
  <2>. QED
    BY <1>14, <1>15, <2>1
<1>17. Frames(z) = f
  BY <1>9, <1>12, <1>13, <1>16, SeqEqual
<1>. QED
  BY <1>17 DEF z, f

LEMMA FramesNone ==
  ASSUME NEW s \in Seq(Byte), \A b, e : ~IsPacket(s, b, e)
  PROVE  Frames(s) = <<>>
<1>1. Ends(s) = {}
  BY EndsAre
<1>2. Frames(s) \in Seq(Seq(Byte)) /\ Len(Frames(s)) = Len(<<>>)
  BY <1>1, ListsEmpty, FramesBy
<1>. QED
  BY <1>2

LEMMA FramesOne ==
  ASSUME NEW s \in Seq(Byte), NEW b, NEW e, IsPacket(s, b, e),
         \A c, f : IsPacket(s, c, f) => f = e
  PROVE  Frames(s) = <<SubSeq(s, b, e)>>
<1>1. Ends(s) = {e} /\ PacketTo(s, e) = SubSeq(s, b, e)
  BY EndsAre, PacketIs
<1>2. e \in Int
  BY DEF IsPacket
<1>3. Lists(<<e>>, Ends(s))
  BY <1>1, <1>2, ListsSingle
<1>4. /\ Frames(s) = [k \in 1..Len(<<e>>) |-> PacketTo(s, <<e>>[k])]
      /\ Frames(s) \in Seq(Seq(Byte)) /\ Len(Frames(s)) = Len(<<e>>)
  BY <1>3, FramesBy
<1>5. Len(<<e>>) = 1 /\ <<e>>[1] = e
  OBVIOUS
<1>6. Len(Frames(s)) = 1
  BY <1>4, <1>5
<1>7. 1 \in 1..Len(<<e>>)
  BY <1>5
<1>8. Frames(s)[1] = PacketTo(s, <<e>>[1])
  BY <1>4, <1>7
<1>9. Frames(s)[1] = SubSeq(s, b, e)
  BY <1>1, <1>5, <1>8
<1> DEFINE p == SubSeq(s, b, e)
           r == <<p>>
<1>10. p \in Seq(Byte)
  BY <1>1, PacketIs
<1>11. r \in Seq(Seq(Byte)) /\ Len(r) = 1 /\ r[1] = p
  BY <1>10
<1>. HIDE DEF r
<1>12. \A i \in 1..Len(Frames(s)) : Frames(s)[i] = r[i]
  <2>1. Frames(s)[1] = r[1]
    BY <1>9, <1>11
  <2>2. \A i \in 1..Len(Frames(s)) : i = 1
    BY <1>6
  <2>. QED
    BY <2>1, <2>2
<1>13. Frames(s) = r
  BY <1>4, <1>6, <1>11, <1>12, SeqEqual
<1>. QED
  BY <1>13 DEF r

LEMMA ApartIfClosed ==
  ASSUME NEW x \in Seq(Byte), NEW y \in Seq(Byte), ~Open(x)
  PROVE  Apart(x, y)
<1> DEFINE z == x \o y
<1>1. /\ z \in Seq(Byte) /\ Len(x) \in Nat /\ Len(y) \in Nat /\ Len(z) = Len(x) + Len(y)
      /\ \A i \in 1..Len(x) : z[i] = x[i]
  BY ConcatIs
<1>2. SUFFICES ASSUME NEW b, NEW e, IsPacket(z, b, e), ~(b > Len(x)), ~(e <= Len(x))
               PROVE  FALSE
  BY DEF Apart
<1>. HIDE DEF z
<1>3. /\ b \in 1..Len(z) /\ e \in 1..Len(z) /\ b < e /\ z[b] = SOI
      /\ \A j \in b + 1..e - 1 : ~Marker(z[j])
  BY <1>2 DEF IsPacket
<1>4. b \in 1..Len(x) /\ \A j \in b + 1..Len(x) : j \in b + 1..e - 1 /\ j \in 1..Len(x)
  BY <1>1, <1>2, <1>3
<1>5. OpensAt(x, b)
  BY <1>1, <1>3, <1>4 DEF OpensAt
<1>. QED
  BY <1>5, OpenIs

LEMMA ClosedByEoi ==
  ASSUME NEW x \in Seq(Byte), Len(x) > 0, x[Len(x)] = EOI
  PROVE  ~Open(x)
<1>1. SUFFICES ASSUME NEW k, OpensAt(x, k) PROVE FALSE
  BY OpenIs
<1>2. /\ Len(x) \in Nat /\ k \in 1..Len(x) /\ x[k] = SOI
      /\ \A j \in k + 1..Len(x) : ~Marker(x[j])
  BY <1>1 DEF OpensAt
<1>3. k # Len(x)
  BY <1>2, ParseAssumption
<1>4. Len(x) \in k + 1..Len(x)
  BY <1>2, <1>3
<1>. QED
  BY <1>2, <1>4 DEF Marker

LEMMA ApartBySoi ==
  ASSUME NEW x \in Seq(Byte), NEW y \in Seq(Byte), Len(y) > 0, y[1] = SOI
  PROVE  Apart(x, y)
<1> DEFINE z == x \o y
           n == Len(x)
<1>1. /\ z \in Seq(Byte) /\ n \in Nat /\ Len(y) \in Nat /\ Len(z) = n + Len(y)
      /\ \A i \in 1..Len(y) : z[n + i] = y[i]
  BY ConcatIs
<1>2. SUFFICES ASSUME NEW b, NEW e, IsPacket(z, b, e), ~(b > n), ~(e <= n)
               PROVE  FALSE
  BY DEF Apart
<1>. HIDE DEF z, n
<1>3. z[n + 1] = SOI
  <2>1. 1 \in 1..Len(y)
    BY <1>1
  <2>. QED
    BY <1>1, <2>1
<1>4. /\ b \in 1..Len(z) /\ e \in 1..Len(z) /\ b < e /\ z[e] = EOI
      /\ \A j \in b + 1..e - 1 : ~Marker(z[j])
  BY <1>2 DEF IsPacket
<1>5. e # n + 1
  BY <1>3, <1>4, ParseAssumption
<1>6. n + 1 \in b + 1..e - 1
  BY <1>1, <1>2, <1>4, <1>5
<1>. QED
  BY <1>3, <1>4, <1>6 DEF Marker

LEMMA ApartNoEoi ==
  ASSUME NEW x \in Seq(Byte), NEW y \in Seq(Byte), \A i \in 1..Len(y) : y[i] # EOI
  PROVE  Apart(x, y) /\ Frames(y) = <<>>
<1> DEFINE z == x \o y
           n == Len(x)
<1>1. /\ z \in Seq(Byte) /\ n \in Nat /\ Len(y) \in Nat /\ Len(z) = n + Len(y)
      /\ \A i \in 1..Len(y) : z[n + i] = y[i]
  BY ConcatIs
<1>. HIDE DEF z, n
<1>2. ASSUME NEW b, NEW e, IsPacket(z, b, e), ~(e <= n)
      PROVE  FALSE
  <2>1. e \in 1..Len(z) /\ z[e] = EOI
    BY <1>2 DEF IsPacket
  <2>2. e - n \in 1..Len(y) /\ n + (e - n) = e
    BY <1>1, <1>2, <2>1
  <2>. QED
    BY <1>1, <2>1, <2>2
<1>3. Apart(x, y)
  BY <1>2 DEF Apart, z, n
<1>4. \A b, e : ~IsPacket(y, b, e)
  BY DEF IsPacket
<1>. QED
  BY <1>3, <1>4, FramesNone

LEMMA PieceOfPiece ==
  ASSUME NEW T, NEW s \in Seq(T), NEW a \in 1..Len(s) + 1, NEW b \in Int, a - 1 <= b, b <= Len(s),
         NEW c \in 1..(b - a + 1) + 1, NEW d \in Int, c - 1 <= d, d <= b - a + 1
  PROVE  SubSeq(SubSeq(s, a, b), c, d) = SubSeq(s, a + c - 1, a + d - 1)
<1> DEFINE u == SubSeq(s, a, b)
           v == SubSeq(u, c, d)
           w == SubSeq(s, a + c - 1, a + d - 1)
<1>1. Len(s) \in Nat /\ a \in Int
  <2>1. Len(s) \in Nat
    OBVIOUS
  <2>. QED
    BY <2>1
<1>2. u \in Seq(T) /\ Len(u) = b - a + 1 /\ \A i \in 1..b - a + 1 : u[i] = s[a + i - 1]
  BY PieceIs
<1>. HIDE DEF u
<1>3. v \in Seq(T) /\ Len(v) = d - c + 1 /\ \A i \in 1..d - c + 1 : v[i] = u[c + i - 1]
  <2>1. c \in 1..Len(u) + 1 /\ d <= Len(u)
    BY <1>2
  <2>. QED
    BY <1>2, <2>1, PieceIs
<1>4. /\ a + c - 1 \in 1..Len(s) + 1 /\ a + d - 1 \in Int /\ (a + c - 1) - 1 <= a + d - 1
      /\ a + d - 1 <= Len(s) /\ (a + d - 1) - (a + c - 1) + 1 = d - c + 1
  BY <1>1
<1>5. w \in Seq(T) /\ Len(w) = d - c + 1 /\ \A i \in 1..d - c + 1 : w[i] = s[(a + c - 1) + i - 1]
  <2>1. /\ w \in Seq(T) /\ Len(w) = (a + d - 1) - (a + c - 1) + 1
        /\ \A i \in 1..(a + d - 1) - (a + c - 1) + 1 : w[i] = s[(a + c - 1) + i - 1]
    BY <1>4, PieceIs
  <2>. QED
    BY <1>4, <2>1
<1>. HIDE DEF v, w
<1>6. \A i \in 1..d - c + 1 : /\ c + i - 1 \in 1..b - a + 1
                              /\ a + (c + i - 1) - 1 = (a + c - 1) + i - 1
  BY <1>1
<1>7. \A i \in 1..Len(v) : v[i] = w[i]
  BY <1>2, <1>3, <1>5, <1>6
<1>8. v = w
  BY <1>3, <1>5, <1>7, SeqEqual
<1>. QED
  BY <1>8 DEF u, v, w

-----------------------------------------------------------------------------
(* The loop of process_on_buf_empty. *)

LEMMA FindIs ==
  ASSUME NEW buff \in Seq(Byte), NEW i \in 1..Len(buff) + 1, NEW T
  PROVE  /\ Find(buff, i, T) \in i..Len(buff) + 1
         /\ \A j \in i..Find(buff, i, T) - 1 : buff[j] \notin T
         /\ Find(buff, i, T) <= Len(buff) => buff[Find(buff, i, T)] \in T
<1> DEFINE n == Len(buff)
           I == {j \in i..n : buff[j] \in T}
           f == Find(buff, i, T)
<1>0. n \in Nat /\ i \in Nat /\ i >= 1 /\ i <= n + 1
  <2>1. n \in Nat
    OBVIOUS
  <2>. QED
    BY <2>1
<1>1. f = LET j == IF I # {} THEN Min(I) ELSE 0 IN IF j = 0 THEN n + 1 ELSE j
  BY DEF Find, SelectInSubSeq
<1>2. CASE I = {}
  <2>1. f = n + 1
    BY <1>1, <1>2
  <2>. HIDE DEF f
  <2>2. \A j \in i..f - 1 : j \in i..n
    BY <1>0, <2>1
  <2>3. f \in i..n + 1 /\ ~(f <= n)
    BY <1>0, <2>1
  <2>4. \A j \in i..n : buff[j] \notin T
    BY <1>2
  <2>. QED
    BY <2>2, <2>3, <2>4 DEF f
<1>3. CASE I # {}
  <2>1. I \in SUBSET Nat
    BY <1>0
  <2>2. Min(I) \in I /\ \A y \in I : Min(I) <= y
    BY <1>3, <2>1, MinIsLeast
  <2>3. Min(I) # 0
    BY <1>0, <2>2
  <2>4. f = Min(I)
    BY <1>1, <1>3, <2>3
  <2>. HIDE DEF f
  <2>5. f \in i..n /\ buff[f] \in T /\ \A y \in I : f <= y
    BY <2>2, <2>4
  <2>6. \A j \in i..f - 1 : j \in i..n /\ ~(f <= j)
    BY <1>0, <2>5
  <2>7. f \in i..n + 1
    BY <1>0, <2>5
  <2>. QED
    BY <2>5, <2>6, <2>7 DEF f
<1>. QED
  BY <1>2, <1>3

\* the variables of a turn that finds an SOI
LEMMA TurnIs ==
  ASSUME NEW buff \in Seq(Byte), NEW i \in 1..Len(buff) + 1
  PROVE  LET n   == Len(buff)
             soi == Find(buff, i, {SOI})
             run == Soi(buff, soi)
             eoi == Find(buff, soi, {EOI})
         IN  /\ soi \in i..n + 1 /\ \A j \in i..soi - 1 : buff[j] # SOI
             /\ eoi \in soi..n + 1 /\ \A j \in soi..eoi - 1 : buff[j] # EOI
             /\ eoi <= n => buff[eoi] = EOI /\ soi < eoi /\ run < eoi
             /\ soi <= n => /\ buff[soi] = SOI /\ run \in soi..n /\ buff[run] = SOI
                            /\ run < n => buff[run + 1] # SOI
<1> DEFINE n   == Len(buff)
           soi == Find(buff, i, {SOI})
           run == Soi(buff, soi)
           eoi == Find(buff, soi, {EOI})
<1>0. n \in Nat /\ i \in Nat /\ \A j \in 1..n : buff[j] \in Byte
  <2>1. n \in Nat /\ \A j \in 1..n : buff[j] \in Byte
    BY LenProperties, ElementOfSeq
  <2>. QED
    BY <2>1
<1>1. soi \in i..n + 1 /\ (\A j \in i..soi - 1 : buff[j] # SOI) /\ (soi <= n => buff[soi] = SOI)
  BY FindIs
<1>. HIDE DEF soi
<1>2. soi \in 1..n + 1
  BY <1>0, <1>1
<1>3. eoi \in soi..n + 1 /\ (\A j \in soi..eoi - 1 : buff[j] # EOI) /\ (eoi <= n => buff[eoi] = EOI)
  BY <1>2, FindIs
<1>. HIDE DEF eoi
<1>4. ASSUME soi <= n
      PROVE  /\ run \in soi..n /\ buff[run] = SOI
             /\ run < n => buff[run + 1] # SOI
             /\ \A j \in soi..run : buff[j] = SOI
  <2> DEFINE f == Find(buff, soi, Byte \ {SOI})
  <2>1. /\ f \in soi..n + 1 /\ \A j \in soi..f - 1 : buff[j] \notin Byte \ {SOI}
        /\ f <= n => buff[f] \in Byte \ {SOI}
    BY <1>2, FindIs
  <2>2. run = f - 1
    BY DEF Soi
  <2>. HIDE DEF f, run
  <2>3. f # soi
    BY <1>1, <1>4, <2>1
  <2>4. run \in soi..n
    BY <1>0, <1>2, <2>1, <2>2, <2>3
  <2>5. \A j \in soi..run : j \in 1..n /\ j \in soi..f - 1
    BY <1>0, <1>2, <2>1, <2>2
  <2>6. \A j \in soi..run : buff[j] = SOI
    BY <1>0, <2>1, <2>5
  <2>7. run \in soi..run
    BY <1>2, <2>4
  <2>8. run < n => buff[run + 1] # SOI
    <3>1. run < n => f <= n /\ run + 1 = f
      BY <1>0, <1>2, <2>1, <2>2
    <3>. QED
      BY <2>1, <3>1
  <2>. QED
    BY <2>4, <2>6, <2>7, <2>8
<1>. HIDE DEF run
<1>5. ASSUME eoi <= n PROVE soi < eoi /\ run < eoi
  <2>1. soi <= n /\ soi \in soi..n
    BY <1>0, <1>2, <1>3, <1>5
  <2>2. eoi # soi
    BY <1>1, <1>3, <1>5, <2>1, ParseAssumption
  <2>3. ~(eoi <= run)
    <3>1. SUFFICES ASSUME eoi <= run PROVE FALSE
      OBVIOUS
    <3>2. eoi \in soi..run
      BY <1>2, <1>3, <3>1, <1>4, <2>1
    <3>3. buff[eoi] = SOI
      BY <1>4, <2>1, <3>2
    <3>. QED
      BY <1>3, <1>5, <3>3, ParseAssumption
  <2>. QED
    BY <1>0, <1>2, <1>3, <1>4, <2>1, <2>2, <2>3
<1>. QED
  BY <1>1, <1>3, <1>4, <1>5 DEF soi, run, eoi

LEMMA TurnDepends ==
  ASSUME NEW buff \in Seq(Byte), NEW p, NEW i \in 1..Len(buff) + 1, NEW f, NEW g,
         \A j \in 1..Len(buff) + 1 : i < j => f[j] = g[j]
  PROVE  Turn(buff, p, i, f) = Turn(buff, p, i, g)
<1> DEFINE n   == Len(buff)
           soi == Find(buff, i, {SOI})
           eoi == Find(buff, soi, {EOI})
<1>0. n \in Nat /\ i \in Nat
  <2>1. n \in Nat
    OBVIOUS
  <2>. QED
    BY <2>1
<1>1. soi \in i..n + 1 /\ eoi \in soi..n + 1 /\ (eoi <= n => soi < eoi)
  BY TurnIs
<1>. HIDE DEF soi, eoi
<1>2. CASE ~(soi > n) /\ ~(eoi > n)
  <2>1. eoi \in 1..n + 1 /\ i < eoi
    BY <1>0, <1>1, <1>2
  <2>2. f[eoi] = g[eoi]
    BY <2>1
  <2>. QED
    BY <1>2, <2>2 DEF Turn, soi, eoi
<1>3. CASE soi > n
  BY <1>3 DEF Turn, soi, eoi
<1>4. CASE ~(soi > n) /\ eoi > n
  <2>1. soi <= n /\ eoi > n
    BY <1>0, <1>1, <1>4
  <2>. QED
    BY <1>4, <2>1 DEF Turn, soi, eoi
<1>. QED
  BY <1>2, <1>3, <1>4

\* the recursion is well founded: a turn looks only at later ones
LEMMA ScanIs ==
  ASSUME NEW buff \in Seq(Byte), NEW p, NEW i \in 1..Len(buff) + 1
  PROVE  Scan(buff, p)[i] = Turn(buff, p, i, Scan(buff, p))
<1> DEFINE n == Len(buff)
           D == 1..n + 1
           Solves(g, k) == /\ g = [j \in D |-> g[j]]
                           /\ \A j \in D : j >= n + 1 - k => g[j] = Turn(buff, p, j, g)
           Bad == {k \in 0..n : ~ \E g : Solves(g, k)}
<1>0. n \in Nat
  OBVIOUS
<1>1. 0 \notin Bad
  <2> DEFINE g == [j \in D |-> Turn(buff, p, n + 1, <<>>)]
  <2>1. g = [j \in D |-> g[j]]
    OBVIOUS
  <2>2. n + 1 \in D /\ g[n + 1] = Turn(buff, p, n + 1, <<>>)
    BY <1>0
  <2>. HIDE DEF g
  <2>3. Turn(buff, p, n + 1, <<>>) = Turn(buff, p, n + 1, g)
    <3>1. \A j \in 1..n + 1 : n + 1 < j => <<>>[j] = g[j]
      BY <1>0
    <3>. QED
      BY <2>2, <3>1, TurnDepends
  <2>4. \A j \in D : j >= n + 1 - 0 => j = n + 1
    BY <1>0
  <2>5. Solves(g, 0)
    BY <2>1, <2>2, <2>3, <2>4
  <2>. QED
    BY <2>5
<1>2. ASSUME NEW k \in Nat, k + 1 \in 0..n, NEW g, Solves(g, k)
      PROVE  \E h : Solves(h, k + 1)
  <2> DEFINE a == n + 1 - (k + 1)
             h == [j \in D |-> IF j = a THEN Turn(buff, p, a, g) ELSE g[j]]
  <2>1. a \in D
    BY <1>0, <1>2
  <2>2. h = [j \in D |-> h[j]] /\ h[a] = Turn(buff, p, a, g) /\ \A j \in D : j # a => h[j] = g[j]
    BY <2>1
  <2>. HIDE DEF h
  <2>3. ASSUME NEW j \in D, j >= a PROVE h[j] = Turn(buff, p, j, h)
    <3>0. \A l \in D : j < l => g[l] = h[l]
      BY <1>0, <2>1, <2>2, <2>3
    <3>1. Turn(buff, p, j, g) = Turn(buff, p, j, h)
      BY <3>0, TurnDepends
    <3>2. CASE j = a
      BY <2>2, <3>1, <3>2
    <3>3. CASE j # a
      <4>1. j >= n + 1 - k
        BY <1>0, <1>2, <2>3, <3>3
      <4>. QED
        BY <1>2, <2>2, <3>1, <3>3, <4>1
    <3>. QED
      BY <3>2, <3>3
  <2>4. Solves(h, k + 1)
    BY <2>2, <2>3
  <2>. QED
    BY <2>4
<1>3. Bad = {}
  <2>1. SUFFICES ASSUME Bad # {} PROVE FALSE
    OBVIOUS
  <2>2. PICK k \in Bad : \A l \in Bad : k <= l
    <3>1. Bad \in SUBSET Nat
      BY <1>0
    <3>. HIDE DEF Bad
    <3>. QED
      BY <2>1, <3>1, LeastNat
  <2>3. k \in 0..n /\ k # 0
    BY <1>1
  <2>4. k - 1 \in Nat /\ (k - 1) + 1 \in 0..n /\ k - 1 \in 0..n /\ ~(k <= k - 1) /\ (k - 1) + 1 = k
    BY <1>0, <2>3
  <2>5. k - 1 \notin Bad
    BY <2>2, <2>4
  <2>6. \E g : Solves(g, k - 1)
    BY <2>4, <2>5
  <2>. HIDE DEF Solves
  <2>7. \E h : Solves(h, (k - 1) + 1)
    BY <1>2, <2>4, <2>6
  <2>. QED
    BY <2>4, <2>7
<1>4. \E g : Solves(g, n)
  BY <1>0, <1>3
<1>5. PICK g : g = [j \in D |-> Turn(buff, p, j, g)]
  <2>1. PICK g : Solves(g, n)
    BY <1>4
  <2>2. \A j \in D : j >= n + 1 - n
    BY <1>0
  <2>3. \A j \in D : g[j] = Turn(buff, p, j, g)
    BY <2>1, <2>2
  <2>4. g = [j \in D |-> Turn(buff, p, j, g)]
    BY <2>1, <2>3
  <2>. QED
    BY <2>4
<1>. HIDE DEF Bad, Solves
<1>6. Scan(buff, p) = [j \in D |-> Turn(buff, p, j, Scan(buff, p))]
  BY <1>5 DEF Scan
<1>. QED
  BY <1>6

\* a packet has no SOI inside, except right behind its first one
Neat(s) ==
  \A k, j \in 1..Len(s) :
    k < j /\ s[k] = SOI /\ s[j] = SOI /\ (\A l \in k + 1..j - 1 : s[l] # EOI) => s[j - 1] = SOI

LEMMA NeatPiece ==
  ASSUME NEW s \in Seq(Byte), Neat(s), NEW a \in 1..Len(s) + 1, NEW b \in Int, a - 1 <= b, b <= Len(s)
  PROVE  Neat(SubSeq(s, a, b))
<1> DEFINE u == SubSeq(s, a, b)
<1>1. /\ Len(s) \in Nat /\ Len(u) = b - a + 1
      /\ \A i \in 1..b - a + 1 : u[i] = s[a + i - 1]
  BY PieceIs
<1>. HIDE DEF u
<1>2. SUFFICES ASSUME NEW k \in 1..Len(u), NEW j \in 1..Len(u), k < j, u[k] = SOI, u[j] = SOI,
                      \A l \in k + 1..j - 1 : u[l] # EOI
               PROVE  u[j - 1] = SOI
  BY DEF Neat, u
<1>3. /\ a + k - 1 \in 1..Len(s) /\ a + j - 1 \in 1..Len(s) /\ a + k - 1 < a + j - 1
      /\ k \in 1..b - a + 1 /\ j \in 1..b - a + 1 /\ j - 1 \in 1..b - a + 1
      /\ a + (j - 1) - 1 = (a + j - 1) - 1
  BY <1>1, <1>2
<1>4. s[a + k - 1] = SOI /\ s[a + j - 1] = SOI /\ u[j - 1] = s[(a + j - 1) - 1]
  BY <1>1, <1>2, <1>3
<1>5. ASSUME NEW l \in (a + k - 1) + 1..(a + j - 1) - 1 PROVE s[l] # EOI
  <2>1. /\ l - a + 1 \in k + 1..j - 1 /\ l - a + 1 \in 1..b - a + 1
        /\ a + (l - a + 1) - 1 = l
    BY <1>1, <1>2, <1>5
  <2>2. u[l - a + 1] = s[l]
    BY <1>1, <2>1
  <2>. QED
    BY <1>2, <2>1, <2>2
<1>. QED
  BY <1>3, <1>4, <1>5 DEF Neat

\* behind the last SOI of a run there is none before the next EOI
LEMMA RunEnds ==
  ASSUME NEW s \in Seq(Byte), Neat(s), NEW r \in 1..Len(s), s[r] = SOI,
         r < Len(s) => s[r + 1] # SOI,
         NEW m \in Nat, m <= Len(s), \A l \in r + 1..m : s[l] # EOI
  PROVE  \A l \in r + 1..m : ~Marker(s[l])
<1> DEFINE J == {j \in r + 1..m : s[j] = SOI}
<1>0. Len(s) \in Nat
  OBVIOUS
<1>1. ASSUME J # {} PROVE FALSE
  <2>1. J \in SUBSET Nat
    BY <1>0
  <2>2. PICK j \in J : \A l \in J : j <= l
    <3>. HIDE DEF J
    <3>. QED
      BY <1>1, <2>1, LeastNat
  <2>3. j \in r + 1..m /\ s[j] = SOI
    BY <2>2
  <2>4. j # r + 1
    BY <1>0, <2>3
  <2>5. r \in 1..Len(s) /\ j \in 1..Len(s) /\ r < j /\ \A l \in r + 1..j - 1 : l \in r + 1..m
    BY <1>0, <2>3
  <2>6. s[j - 1] = SOI
    BY <2>3, <2>5 DEF Neat
  <2>7. j - 1 \in r + 1..m /\ ~(j <= j - 1)
    BY <1>0, <2>3, <2>4
  <2>. QED
    BY <2>2, <2>6, <2>7
<1>. QED
  BY <1>1 DEF Marker

LEMMA Fields ==
  ASSUME NEW a, NEW b, NEW r, r = [out |-> a, left |-> b]
  PROVE  r.out = a /\ r.left = b
OBVIOUS

LEMMA PutFirst ==
  ASSUME NEW a, NEW b, NEW c, NEW r, r = [out |-> a, left |-> b]
  PROVE  [r EXCEPT !.out = c \o @] = [out |-> c \o a, left |-> b]
<1>1. r.out = a /\ r.left = b
  OBVIOUS
<1> DEFINE d == c \o a
<1>2. c \o r.out = d
  BY <1>1
<1>. HIDE DEF d
<1>3. r \in [out : {a, d}, left : {b}]
  OBVIOUS
<1>4. [r EXCEPT !.out = d] = [out |-> d, left |-> b]
  BY <1>3
<1>5. [r EXCEPT !.out = c \o r.out] = [out |-> d, left |-> b]
  BY <1>2, <1>4
<1>. QED
  BY <1>1, <1>5 DEF d

\* What a turn of the loop does to the bytes from i on, once it is known what the
\* later turns do: it hands over their packets, whatever is in the packet buffer.
Reads(buff, p, i) ==
  LET r == Scan(buff, p)[i]
  IN  /\ r = [out |-> Frames(SubSeq(buff, i, Len(buff))), left |-> r.left]
      /\ \A k \in i..Len(buff) : OpensAt(buff, k) => r.left = SubSeq(buff, k, Len(buff))
      /\ (\A k \in i..Len(buff) : ~OpensAt(buff, k)) => r.left = p

LEMMA ReadsNoSoi ==
  ASSUME NEW buff \in Seq(Byte), NEW p, NEW i \in 1..Len(buff) + 1,
         Find(buff, i, {SOI}) > Len(buff)
  PROVE  Reads(buff, p, i)
<1> DEFINE n == Len(buff)
           soi == Find(buff, i, {SOI})
           u == SubSeq(buff, i, n)
<1>0. n \in Nat /\ i \in Nat /\ i \in 1..n + 1 /\ i - 1 <= n
  <2>1. n \in Nat
    OBVIOUS
  <2>. QED
    BY <2>1
<1>2. soi \in i..n + 1 /\ (\A j \in i..soi - 1 : buff[j] # SOI) /\ soi > n
  BY TurnIs
<1>1. Scan(buff, p)[i] = [out |-> <<>>, left |-> p]
  <2>1. n \in Int /\ soi \in Int /\ soi > n
    BY <1>0, <1>2
  <2>. QED
    <3>1. Turn(buff, p, i, Scan(buff, p)) = [out |-> <<>>, left |-> p]
      BY <2>1 DEF Turn
    <3>. QED
      BY <3>1, ScanIs
<1>. HIDE DEF soi
<1>3. \A j \in i..n : buff[j] # SOI
  BY <1>0, <1>2
<1>4. /\ u \in Seq(Byte) /\ Len(u) = n - i + 1 /\ \A j \in 1..n - i + 1 : u[j] = buff[i + j - 1]
  BY <1>0, PieceIs
<1>5. \A b, e : ~IsPacket(u, b, e)
  <2>1. SUFFICES ASSUME NEW b \in 1..Len(u), u[b] = SOI PROVE FALSE
    BY DEF IsPacket, u
  <2>2. b \in 1..n - i + 1 /\ i + b - 1 \in i..n
    BY <1>0, <1>4, <2>1
  <2>. QED
    BY <1>3, <1>4, <2>1, <2>2
<1>6. Frames(u) = <<>>
  BY <1>4, <1>5, FramesNone
<1>7. \A k \in i..n : ~OpensAt(buff, k)
  BY <1>3 DEF OpensAt
<1>8. Scan(buff, p)[i].left = p
  BY <1>1, Fields
<1>. QED
  BY <1>1, <1>6, <1>7, <1>8 DEF Reads

LEMMA ReadsNoEoi ==
  ASSUME NEW buff \in Seq(Byte), Neat(buff), NEW p, NEW i \in 1..Len(buff) + 1,
         Find(buff, i, {SOI}) <= Len(buff),
         Find(buff, Find(buff, i, {SOI}), {EOI}) > Len(buff)
  PROVE  Reads(buff, p, i)
<1> DEFINE n == Len(buff)
           soi == Find(buff, i, {SOI})
           run == Soi(buff, soi)
           eoi == Find(buff, soi, {EOI})
           u == SubSeq(buff, i, n)
<1>0. n \in Nat /\ i \in Nat /\ i \in 1..n + 1 /\ i - 1 <= n
  <2>1. n \in Nat
    OBVIOUS
  <2>. QED
    BY <2>1
<1>1. /\ soi \in i..n + 1 /\ \A j \in i..soi - 1 : buff[j] # SOI
      /\ eoi \in soi..n + 1 /\ \A j \in soi..eoi - 1 : buff[j] # EOI
      /\ run \in soi..n /\ buff[run] = SOI /\ (run < n => buff[run + 1] # SOI)
  BY TurnIs
<1>2. Scan(buff, p)[i] = [out |-> <<>>, left |-> SubSeq(buff, run, n)]
  <2>1. n \in Nat /\ soi \in Int /\ ~(soi > n)
    BY <1>0, <1>1
  <2>. QED
    BY <2>1, ScanIs DEF Turn
<1>3. soi <= n /\ eoi > n
  OBVIOUS
<1>. HIDE DEF soi, run, eoi
<1>4. /\ \A j \in soi..n : buff[j] # EOI
      /\ run \in 1..n /\ run \in i..n /\ \A j \in run + 1..n : j \in soi..n
  BY <1>0, <1>1, <1>3
<1>5. OpensAt(buff, run)
  <2>1. \A j \in run + 1..n : ~Marker(buff[j])
    BY <1>0, <1>1, <1>4, RunEnds
  <2>. QED
    BY <1>1, <1>4, <2>1 DEF OpensAt
<1>6. \A k \in i..n : OpensAt(buff, k) => k = run
  BY <1>5, OpensAtOnce
<1>7. /\ u \in Seq(Byte) /\ Len(u) = n - i + 1 /\ \A j \in 1..n - i + 1 : u[j] = buff[i + j - 1]
  BY <1>0, PieceIs
<1>8. \A b, e : ~IsPacket(u, b, e)
  <2>1. SUFFICES ASSUME NEW b \in 1..Len(u), NEW e \in 1..Len(u), b < e, u[b] = SOI, u[e] = EOI
                 PROVE  FALSE
    BY DEF IsPacket, u
  <2>2. /\ b \in 1..n - i + 1 /\ e \in 1..n - i + 1
        /\ i + b - 1 \in i..n /\ i + e - 1 \in i..n /\ i + b - 1 < i + e - 1
    BY <1>0, <1>7, <2>1
  <2>3. buff[i + b - 1] = SOI /\ buff[i + e - 1] = EOI
    BY <1>7, <2>1, <2>2
  <2>4. i + e - 1 < soi
    BY <1>0, <1>1, <1>4, <2>2, <2>3
  <2>5. i + b - 1 \in i..soi - 1
    BY <1>0, <1>1, <2>2, <2>4
  <2>. QED
    BY <1>1, <2>3, <2>5
<1>9. Frames(u) = <<>>
  BY <1>7, <1>8, FramesNone
<1>10. Scan(buff, p)[i].left = SubSeq(buff, run, n)
  <2> DEFINE r == Scan(buff, p)[i]
             v == SubSeq(buff, run, n)
             a == <<>>
  <2>1. r = [out |-> a, left |-> v]
    BY <1>2
  <2>. HIDE DEF r, v, a
  <2>2. r.left = v
    BY <2>1, Fields
  <2>. QED
    BY <2>2 DEF r, v
<1>11. /\ \A k \in i..n : OpensAt(buff, k) => Scan(buff, p)[i].left = SubSeq(buff, k, n)
       /\ (\A k \in i..n : ~OpensAt(buff, k)) => Scan(buff, p)[i].left = p
  BY <1>4, <1>5, <1>6, <1>10
<1>. QED
  BY <1>2, <1>9, <1>10, <1>11 DEF Reads

LEMMA ReadsPacket ==
  ASSUME NEW buff \in Seq(Byte), Neat(buff), NEW p, NEW i \in 1..Len(buff) + 1,
         Find(buff, i, {SOI}) <= Len(buff),
         Find(buff, Find(buff, i, {SOI}), {EOI}) <= Len(buff),
         Reads(buff, p, Find(buff, Find(buff, i, {SOI}), {EOI}))
  PROVE  Reads(buff, p, i)
<1> DEFINE n == Len(buff)
           soi == Find(buff, i, {SOI})
           eoi == Find(buff, soi, {EOI})
           run == Soi(buff, soi)
           u == SubSeq(buff, i, eoi)
           v == SubSeq(buff, eoi + 1, n)
           w == SubSeq(buff, eoi, eoi)
           q == SubSeq(buff, run, eoi)
           rest == Scan(buff, p)[eoi]
           r == Scan(buff, p)[i]
<1>0. n \in Nat /\ i \in Nat /\ i \in 1..n + 1
  <2>1. n \in Nat
    OBVIOUS
  <2>. QED
    BY <2>1
<1>1. /\ soi \in i..n + 1 /\ \A j \in i..soi - 1 : buff[j] # SOI
      /\ eoi \in soi..n + 1 /\ \A j \in soi..eoi - 1 : buff[j] # EOI
      /\ buff[eoi] = EOI /\ soi < eoi /\ run < eoi
      /\ run \in soi..n /\ buff[run] = SOI /\ (run < n => buff[run + 1] # SOI)
  BY TurnIs
<1>2. r = Found(q, rest)
  <2>1. n \in Int /\ soi \in Int /\ eoi \in Int /\ ~(soi > n) /\ ~(eoi > n)
    BY <1>0, <1>1
  <2>2. Turn(buff, p, i, Scan(buff, p)) = Found(q, rest)
    BY <2>1 DEF Turn
  <2>. QED
    BY <2>2, ScanIs
<1>2b. soi <= n /\ eoi <= n /\ Reads(buff, p, eoi)
  OBVIOUS
<1>. HIDE DEF soi, run, eoi
<1>2a. soi \in Nat /\ eoi \in Nat /\ run \in Nat /\ soi <= n /\ eoi <= n
  <2>1. soi \in Nat
    BY <1>0, <1>1
  <2>2. eoi \in Nat /\ run \in Nat
    BY <1>0, <1>1, <2>1
  <2>. QED
    BY <1>2b, <2>1, <2>2
<1>3. /\ run \in 1..n /\ run \in i..eoi /\ eoi \in 1..n /\ eoi \in i..n /\ eoi - 1 \in Nat /\ eoi - 1 <= n
      /\ \A j \in run + 1..eoi - 1 : j \in soi..eoi - 1
  BY <1>0, <1>2a, <1>1
<1>4. \A j \in run + 1..eoi - 1 : ~Marker(buff[j])
  <2>1. \A j \in run + 1..eoi - 1 : buff[j] # EOI
    BY <1>1, <1>3
  <2>. QED
    BY <1>1, <1>3, <2>1, RunEnds
<1>5. /\ u \in Seq(Byte) /\ Len(u) = eoi - i + 1 /\ \A j \in 1..eoi - i + 1 : u[j] = buff[i + j - 1]
  <2>1. i \in 1..Len(buff) + 1 /\ eoi \in Int /\ i - 1 <= eoi /\ eoi <= Len(buff)
    BY <1>0, <1>2a, <1>3
  <2>. QED
    BY <2>1, PieceIs
<1>6. /\ w \in Seq(Byte) /\ Len(w) = eoi - eoi + 1 /\ \A j \in 1..eoi - eoi + 1 : w[j] = buff[eoi + j - 1]
  <2>1. eoi \in 1..Len(buff) + 1 /\ eoi \in Int /\ eoi - 1 <= eoi /\ eoi <= Len(buff)
    BY <1>0, <1>2a, <1>3
  <2>. QED
    BY <2>1, PieceIs
<1>7. v \in Seq(Byte)
  <2>1. eoi + 1 \in 1..Len(buff) + 1 /\ n \in Int /\ (eoi + 1) - 1 <= n /\ n <= Len(buff)
    BY <1>0, <1>2a, <1>3
  <2>. QED
    BY <2>1, PieceIs
<1>8. SubSeq(buff, i, n) = u \o v /\ SubSeq(buff, eoi, n) = w \o v
  <2>1. i \in 1..Len(buff) + 1 /\ eoi \in 1..Len(buff) + 1 /\ eoi \in Int /\ i - 1 <= eoi /\ eoi - 1 <= eoi /\ eoi <= Len(buff)
    BY <1>0, <1>2a, <1>3
  <2>. QED
    BY <2>1, CutAt
<1>9. q = SubSeq(u, run - i + 1, eoi - i + 1)
  <2>1. /\ i \in 1..Len(buff) + 1 /\ eoi \in Int /\ i - 1 <= eoi /\ eoi <= Len(buff)
        /\ run - i + 1 \in 1..(eoi - i + 1) + 1 /\ eoi - i + 1 \in Int
        /\ (run - i + 1) - 1 <= eoi - i + 1 /\ eoi - i + 1 <= eoi - i + 1
    BY <1>0, <1>2a, <1>3
  <2>2. SubSeq(u, run - i + 1, eoi - i + 1) = SubSeq(buff, i + (run - i + 1) - 1, i + (eoi - i + 1) - 1)
    BY <2>1, PieceOfPiece
  <2>3. i + (run - i + 1) - 1 = run /\ i + (eoi - i + 1) - 1 = eoi
    BY <1>0, <1>2a, <1>3
  <2>. QED
    BY <2>2, <2>3
<1>10. Frames(u) = <<q>>
  <2> DEFINE b == run - i + 1
             e == eoi - i + 1
  <2>1. IsPacket(u, b, e)
    <3>1. b \in 1..Len(u) /\ e \in 1..Len(u) /\ b < e
      BY <1>0, <1>2a, <1>1, <1>3, <1>5
    <3>2. i + b - 1 = run /\ i + e - 1 = eoi /\ b \in 1..eoi - i + 1 /\ e \in 1..eoi - i + 1
      BY <1>0, <1>2a, <1>1, <1>3
    <3>3. u[b] = SOI /\ u[e] = EOI
      BY <1>1, <1>5, <3>2
    <3>4. ASSUME NEW j \in b + 1..e - 1 PROVE ~Marker(u[j])
      <4>1. j \in 1..eoi - i + 1 /\ i + j - 1 \in run + 1..eoi - 1
        BY <1>0, <1>2a, <1>1, <1>3, <3>4
      <4>. QED
        BY <1>4, <1>5, <4>1
    <3>. QED
      BY <3>1, <3>3, <3>4 DEF IsPacket
  <2>2. ASSUME NEW c, NEW f, IsPacket(u, c, f) PROVE f = e
    <3>1. c \in 1..Len(u) /\ f \in 1..Len(u) /\ c < f /\ u[c] = SOI /\ u[f] = EOI
      BY <2>2 DEF IsPacket
    <3>2. /\ c \in 1..eoi - i + 1 /\ f \in 1..eoi - i + 1
          /\ i + c - 1 \in i..eoi /\ i + f - 1 \in i..eoi /\ i + c - 1 < i + f - 1
      <4>1. c \in 1..eoi - i + 1 /\ f \in 1..eoi - i + 1 /\ c < f
        BY <1>5, <3>1
      <4>. QED
        BY <1>0, <1>2a, <1>3, <4>1
    <3>3. buff[i + c - 1] = SOI /\ buff[i + f - 1] = EOI
      BY <1>5, <3>1, <3>2
    <3>4. i + f - 1 \notin soi..eoi - 1 /\ i + c - 1 \notin i..soi - 1
      BY <1>1, <3>3, ParseAssumption
    <3>5. i + f - 1 = eoi
      BY <1>0, <1>2a, <1>1, <1>3, <3>2, <3>4
    <3>. QED
      BY <1>0, <1>2a, <1>3, <3>2, <3>5
  <2>. HIDE DEF b, e, u
  <2>3. Frames(u) = <<SubSeq(u, b, e)>>
    BY <1>5, <2>1, <2>2, FramesOne
  <2>. QED
    BY <1>9, <2>3 DEF b, e, u
<1>11. Frames(w) = <<>>
  <2>1. Len(w) = 1
    BY <1>3, <1>6
  <2>2. \A b, e : ~IsPacket(w, b, e)
    BY <2>1 DEF IsPacket
  <2>. QED
    BY <1>6, <2>2, FramesNone
<1>12. Frames(v) \in Seq(Seq(Byte))
  BY <1>7, FramesType
<1>13. Frames(SubSeq(buff, i, n)) = <<q>> \o Frames(v) /\ Frames(SubSeq(buff, eoi, n)) = Frames(v)
  <2>1. u[Len(u)] = EOI /\ Len(u) > 0
    <3>1. eoi - i + 1 \in 1..eoi - i + 1 /\ i + (eoi - i + 1) - 1 = eoi
      BY <1>0, <1>2a, <1>3
    <3>. QED
      BY <1>1, <1>5, <3>1
  <2>2. w[Len(w)] = EOI /\ Len(w) > 0
    <3>1. eoi - eoi + 1 \in 1..eoi - eoi + 1 /\ eoi + (eoi - eoi + 1) - 1 = eoi
      BY <1>0, <1>2a, <1>3
    <3>. QED
      BY <1>1, <1>6, <3>1
  <2>. HIDE DEF u, w, v, q, n
  <2>3. Apart(u, v) /\ Apart(w, v)
    BY <1>5, <1>6, <1>7, <2>1, <2>2, ClosedByEoi, ApartIfClosed
  <2>4. Frames(u \o v) = <<q>> \o Frames(v) /\ Frames(w \o v) = <<>> \o Frames(v)
    BY <1>5, <1>6, <1>7, <1>10, <1>11, <2>3, Join
  <2>5. <<>> \o Frames(v) = Frames(v)
    BY <1>12
  <2>. QED
    BY <1>8, <2>4, <2>5
<1>14. rest = [out |-> Frames(v), left |-> rest.left]
  BY <1>2b, <1>13 DEF Reads
<1>15. r = [out |-> <<q>> \o Frames(v), left |-> rest.left]
  <2> DEFINE a == Frames(v)
             b == rest.left
             c == <<q>>
  <2>1. rest = [out |-> a, left |-> b]
    BY <1>14
  <2>2. r = [rest EXCEPT !.out = c \o @]
    BY <1>2 DEF Found
  <2>. HIDE DEF rest, r, a, b, c
  <2>3. r = [out |-> c \o a, left |-> b]
    BY <2>1, <2>2, PutFirst
  <2>. QED
    BY <2>3 DEF a, b, c
<1>16. r.left = rest.left
  <2> DEFINE a == <<q>> \o Frames(v)
             b == rest.left
  <2>1. r = [out |-> a, left |-> b]
    BY <1>15
  <2>. HIDE DEF r, a, b
  <2>2. r.left = b
    BY <2>1, Fields
  <2>. QED
    BY <2>2 DEF b
<1>17. ASSUME NEW k \in i..n, OpensAt(buff, k) PROVE k \in eoi..n
  <2>1. \A j \in k + 1..n : ~Marker(buff[j])
    BY <1>17 DEF OpensAt
  <2>2. ~(eoi \in k + 1..n)
    BY <1>1, <2>1 DEF Marker
  <2>. QED
    BY <1>0, <1>2a, <1>3, <1>17, <2>2
<1>18. \A k \in eoi..n : k \in i..n
  BY <1>0, <1>2a, <1>3
<1>19. /\ \A k \in eoi..n : OpensAt(buff, k) => rest.left = SubSeq(buff, k, n)
       /\ (\A k \in eoi..n : ~OpensAt(buff, k)) => rest.left = p
  BY <1>2b DEF Reads
<1>20. /\ \A k \in i..n : OpensAt(buff, k) => r.left = SubSeq(buff, k, n)
       /\ (\A k \in i..n : ~OpensAt(buff, k)) => r.left = p
  <2>. HIDE DEF r, rest, n
  <2>. QED
    BY <1>16, <1>17, <1>18, <1>19
<1>21. r = [out |-> Frames(SubSeq(buff, i, n)), left |-> r.left]
  BY <1>13, <1>15, <1>16
<1>. QED
  BY <1>20, <1>21 DEF Reads

\* a call of process_on_buf_empty
LEMMA ReadsAll ==
  ASSUME NEW buff \in Seq(Byte), Neat(buff), NEW p, NEW i \in 1..Len(buff) + 1
  PROVE  Reads(buff, p, i)
<1> DEFINE n == Len(buff)
           Bad == {k \in 0..n : ~Reads(buff, p, n + 1 - k)}
<1>0. n \in Nat
  OBVIOUS
<1>1. ASSUME Bad # {} PROVE FALSE
  <2>1. PICK k \in Bad : \A l \in Bad : k <= l
    <3>1. Bad \in SUBSET Nat
      BY <1>0
    <3>. HIDE DEF Bad
    <3>. QED
      BY <1>1, <3>1, LeastNat
  <2> DEFINE a == n + 1 - k
             soi == Find(buff, a, {SOI})
             eoi == Find(buff, soi, {EOI})
  <2>2. k \in 0..n /\ a \in 1..n + 1 /\ a \in 1..Len(buff) + 1 /\ ~Reads(buff, p, a)
    BY <1>0, <2>1
  <2>3. ASSUME NEW j \in 1..n + 1, a < j PROVE Reads(buff, p, j)
    <3>1. /\ n + 1 - j \in 0..n /\ ~(k <= n + 1 - j) /\ n + 1 - (n + 1 - j) = j
      BY <1>0, <2>2, <2>3
    <3>2. n + 1 - j \notin Bad
      BY <2>1, <3>1
    <3>3. Reads(buff, p, n + 1 - (n + 1 - j))
      BY <3>1, <3>2
    <3>. QED
      BY <3>1, <3>3
  <2>. HIDE DEF a, Bad
  <2>4. /\ soi \in a..n + 1 /\ eoi \in soi..n + 1 /\ (eoi <= n => soi < eoi)
    BY <2>2, TurnIs
  <2>. HIDE DEF soi, eoi
  <2>5. CASE soi > n
    BY <2>2, <2>5, ReadsNoSoi DEF soi
  <2>6. CASE soi <= n /\ eoi > n
    BY <2>2, <2>6, ReadsNoEoi DEF soi, eoi
  <2>7. CASE soi <= n /\ eoi <= n
    <3>1. eoi \in 1..n + 1 /\ a < eoi
      BY <1>0, <2>2, <2>4, <2>7
    <3>2. Reads(buff, p, eoi)
      BY <2>3, <3>1
    <3>. QED
      BY <2>2, <2>7, <3>2, ReadsPacket DEF soi, eoi
  <2>. QED
    BY <1>0, <2>2, <2>4, <2>5, <2>6, <2>7
<1>2. n + 1 - i \in 0..n /\ n + 1 - (n + 1 - i) = i
  BY <1>0
<1>3. n + 1 - i \notin Bad
  BY <1>1
<1>4. Reads(buff, p, n + 1 - (n + 1 - i))
  BY <1>2, <1>3
<1>. QED
  BY <1>2, <1>4

\* What a call of process_on_buf_empty does.
LEMMA BufEmptyIs ==
  ASSUME NEW buff \in Seq(Byte), Neat(buff), NEW p, NEW r, r = BufEmpty(buff, p)
  PROVE  /\ r = [out |-> Frames(buff), left |-> r.left] /\ r.out = Frames(buff)
         /\ \A k : OpensAt(buff, k) => r.left = SubSeq(buff, k, Len(buff))
         /\ (\A k : ~OpensAt(buff, k)) => r.left = p
         /\ p \in Seq(Byte) => r.left \in Seq(Byte)
<1> DEFINE n == Len(buff)
<1>0. n \in Nat /\ 1 \in 1..Len(buff) + 1
  <2>1. n \in Nat
    OBVIOUS
  <2>. QED
    BY <2>1
<1>1. Reads(buff, p, 1)
  BY <1>0, ReadsAll
<1>2. SubSeq(buff, 1, n) = buff
  BY SubSeqFull
<1>3. r = Scan(buff, p)[1]
  BY DEF BufEmpty
<1>4. /\ r = [out |-> Frames(buff), left |-> r.left]
      /\ \A k \in 1..n : OpensAt(buff, k) => r.left = SubSeq(buff, k, n)
      /\ (\A k \in 1..n : ~OpensAt(buff, k)) => r.left = p
  BY <1>1, <1>2, <1>3 DEF Reads
<1>5. /\ \A k : OpensAt(buff, k) => k \in 1..n /\ r.left = SubSeq(buff, k, n)
      /\ (\A k : ~OpensAt(buff, k)) => r.left = p
  BY <1>4 DEF OpensAt
<1>6. r.out = Frames(buff)
  BY <1>4, Fields
<1>7. ASSUME p \in Seq(Byte) PROVE r.left \in Seq(Byte)
  <2>1. CASE \E k : OpensAt(buff, k)
    <3>1. PICK k : k \in 1..n /\ r.left = SubSeq(buff, k, n)
      BY <1>5, <2>1
    <3>2. k \in 1..Len(buff) + 1 /\ n \in Int /\ k - 1 <= n /\ n <= Len(buff)
      BY <1>0, <3>1
    <3>. QED
      BY <3>1, <3>2, PieceIs
  <2>. QED
    BY <1>5, <1>7, <2>1
<1>. QED
  BY <1>4, <1>5, <1>6, <1>7

-----------------------------------------------------------------------------
(* The end of a stream made of two. *)

LEMMA OpensJoin ==
  ASSUME NEW x \in Seq(Byte), NEW y \in Seq(Byte), NEW k
  PROVE  /\ OpensAt(y, k) => OpensAt(x \o y, Len(x) + k)
         /\ OpensAt(x, k) /\ (\A i \in 1..Len(y) : ~Marker(y[i])) => OpensAt(x \o y, k)
         /\ OpensAt(x \o y, k) =>
              \/ OpensAt(x, k) /\ \A i \in 1..Len(y) : ~Marker(y[i])
              \/ k - Len(x) \in 1..Len(y) /\ OpensAt(y, k - Len(x)) /\ Len(x) + (k - Len(x)) = k
<1> DEFINE z == x \o y
           n == Len(x)
           m == Len(y)
<1>1. /\ z \in Seq(Byte) /\ n \in Nat /\ m \in Nat /\ Len(z) = n + m
      /\ \A i \in 1..n : z[i] = x[i]
      /\ \A i \in 1..m : z[n + i] = y[i]
  BY ConcatIs
<1>. HIDE DEF z, n, m
<1>2. ASSUME OpensAt(y, k) PROVE OpensAt(z, n + k)
  <2>1. k \in 1..m /\ y[k] = SOI /\ \A j \in k + 1..m : ~Marker(y[j])
    BY <1>2 DEF OpensAt, m
  <2>2. n + k \in 1..Len(z) /\ z[n + k] = SOI
    BY <1>1, <2>1
  <2>3. ASSUME NEW j \in (n + k) + 1..Len(z) PROVE ~Marker(z[j])
    <3>1. j - n \in k + 1..m /\ j - n \in 1..m /\ n + (j - n) = j
      BY <1>1, <2>1, <2>3
    <3>. QED
      BY <1>1, <2>1, <3>1
  <2>. QED
    BY <2>2, <2>3 DEF OpensAt
<1>3. ASSUME OpensAt(x, k), \A i \in 1..m : ~Marker(y[i]) PROVE OpensAt(z, k)
  <2>1. k \in 1..n /\ x[k] = SOI /\ \A j \in k + 1..n : ~Marker(x[j])
    BY <1>3 DEF OpensAt, n
  <2>2. k \in 1..Len(z) /\ z[k] = SOI
    BY <1>1, <2>1
  <2>3. ASSUME NEW j \in k + 1..Len(z) PROVE ~Marker(z[j])
    <3>1. CASE j <= n
      <4>1. j \in k + 1..n /\ j \in 1..n
        BY <1>1, <2>1, <2>3, <3>1
      <4>. QED
        BY <1>1, <2>1, <4>1
    <3>2. CASE ~(j <= n)
      <4>1. j - n \in 1..m /\ n + (j - n) = j
        BY <1>1, <2>1, <2>3, <3>2
      <4>. QED
        BY <1>1, <1>3, <4>1
    <3>. QED
      BY <3>1, <3>2
  <2>. QED
    BY <2>2, <2>3 DEF OpensAt
<1>4. ASSUME OpensAt(z, k)
      PROVE  \/ OpensAt(x, k) /\ \A i \in 1..m : ~Marker(y[i])
             \/ k - n \in 1..m /\ OpensAt(y, k - n) /\ n + (k - n) = k
  <2>1. k \in 1..n + m /\ z[k] = SOI /\ \A j \in k + 1..n + m : ~Marker(z[j])
    BY <1>1, <1>4 DEF OpensAt
  <2>2. CASE k <= n
    <3>1. k \in 1..n /\ x[k] = SOI
      BY <1>1, <2>1, <2>2
    <3>2. ASSUME NEW j \in k + 1..n PROVE ~Marker(x[j])
      <4>1. j \in k + 1..n + m /\ j \in 1..n
        BY <1>1, <2>1, <3>2
      <4>. QED
        BY <1>1, <2>1, <4>1
    <3>3. ASSUME NEW i \in 1..m PROVE ~Marker(y[i])
      <4>1. n + i \in k + 1..n + m
        BY <1>1, <3>1, <3>3
      <4>. QED
        BY <1>1, <2>1, <4>1
    <3>. QED
      BY <3>1, <3>2, <3>3 DEF OpensAt, n
  <2>3. CASE ~(k <= n)
    <3>1. k - n \in 1..m /\ n + (k - n) = k
      BY <1>1, <2>1, <2>3
    <3>2. y[k - n] = SOI
      BY <1>1, <2>1, <3>1
    <3>3. ASSUME NEW j \in (k - n) + 1..m PROVE ~Marker(y[j])
      <4>1. n + j \in k + 1..n + m /\ j \in 1..m
        BY <1>1, <2>1, <3>1, <3>3
      <4>. QED
        BY <1>1, <2>1, <4>1
    <3>. QED
      BY <3>1, <3>2, <3>3 DEF OpensAt, m
  <2>. QED
    BY <2>2, <2>3
<1>. QED
  BY <1>2, <1>3, <1>4 DEF z, n, m

\* the first bytes of x \o y are x and the first ones of y
LEMMA PieceAcross ==
  ASSUME NEW T, NEW x \in Seq(T), NEW y \in Seq(T), NEW m \in 0..Len(y)
  PROVE  SubSeq(x \o y, 1, Len(x) + m) = x \o SubSeq(y, 1, m)
<1> DEFINE a == SubSeq(y, 1, m)
           b == SubSeq(y, m + 1, Len(y))
<1>0. Len(x) \in Nat /\ Len(y) \in Nat /\ 1 \in 1..Len(y) + 1 /\ 1 - 1 <= m /\ m <= Len(y) /\ m \in Int
  <2>1. Len(x) \in Nat /\ Len(y) \in Nat
    OBVIOUS
  <2>. QED
    BY <2>1
<1>1. a \in Seq(T) /\ Len(a) = m - 1 + 1
  BY <1>0, PieceIs
<1>2. b \in Seq(T)
  <2>1. m + 1 \in 1..Len(y) + 1 /\ (m + 1) - 1 <= Len(y) /\ Len(y) <= Len(y) /\ Len(y) \in Int
    BY <1>0
  <2>. QED
    BY <2>1, PieceIs
<1>3. y = a \o b
  <2>1. SubSeq(y, 1, Len(y)) = a \o b
    BY <1>0, CutAt
  <2>. QED
    BY <2>1, SubSeqFull
<1>. HIDE DEF a, b
<1>4. x \o y = (x \o a) \o b
  <2>1. Regroups(x, a, b)
    BY <1>1, <1>2, Regroup
  <2>. QED
    BY <1>3, <2>1 DEF Regroups
<1>5. x \o a \in Seq(T) /\ Len(x \o a) = Len(x) + m
  <2>1. x \o a \in Seq(T) /\ Len(x \o a) = Len(x) + Len(a)
    BY <1>1, ConcatIs
  <2>. QED
    BY <1>0, <1>1, <2>1
<1> DEFINE w == x \o a
<1>6. 1 \in 1..Len(w) + 1 /\ Len(w) \in Int /\ 1 - 1 <= Len(w) /\ Len(w) <= Len(w)
  BY <1>0, <1>5
<1>. HIDE DEF w
<1>7. SubSeq(w \o b, 1, Len(w)) = SubSeq(w, 1, Len(w))
  BY <1>2, <1>5, <1>6, PieceOfLeft DEF w
<1>8. SubSeq(w, 1, Len(w)) = w
  BY <1>5, SubSeqFull DEF w
<1>. QED
  BY <1>4, <1>5, <1>7, <1>8 DEF w, a

-----------------------------------------------------------------------------
(* What the devices send. *)

Legal(s) == \A i \in 1..Len(s) : LegalNext(SubSeq(s, 1, i - 1), s[i])

LEMMA PrefixIs ==
  ASSUME NEW s \in Seq(Byte), NEW i \in 1..Len(s)
  PROVE  LET u == SubSeq(s, 1, i - 1)
         IN  u \in Seq(Byte) /\ Len(u) = i - 1 /\ \A j \in 1..i - 1 : u[j] = s[j]
<1> DEFINE u == SubSeq(s, 1, i - 1)
<1>1. Len(s) \in Nat
  OBVIOUS
<1>2. 1 \in 1..Len(s) + 1 /\ i - 1 \in Int /\ 1 - 1 <= i - 1 /\ i - 1 <= Len(s) /\ i \in Nat
  BY <1>1
<1>3. /\ u \in Seq(Byte) /\ Len(u) = (i - 1) - 1 + 1
      /\ \A j \in 1..(i - 1) - 1 + 1 : u[j] = s[1 + j - 1]
  BY <1>2, PieceIs
<1>4. (i - 1) - 1 + 1 = i - 1 /\ \A j \in 1..i - 1 : 1 + j - 1 = j
  BY <1>2
<1>5. \A j \in 1..i - 1 : u[j] = s[j]
  BY <1>3, <1>4
<1>. QED
  BY <1>3, <1>4, <1>5

\* s ends in a packet if no EOI follows an SOI
LEMMA OpenBySoi ==
  ASSUME NEW s \in Seq(Byte), NEW k \in 1..Len(s), s[k] = SOI, \A j \in k + 1..Len(s) : s[j] # EOI
  PROVE  Open(s)
<1> DEFINE l == SelectLastInSubSeq(s, 1, Len(s), Marker)
<1>0. Len(s) \in Nat
  OBVIOUS
<1>1. Open(s) <=> l # 0 /\ s[l] = SOI
  BY DEF Open, SelectLastInSeq, SelectLastInSubSeq
<1>. HIDE DEF l
<1>2. \/ l = 0 /\ \A j \in 1..Len(s) : ~Marker(s[j])
      \/ l \in 1..Len(s) /\ Marker(s[l]) /\ \A j \in l + 1..Len(s) : ~Marker(s[j])
  BY <1>0, LastMarker DEF l
<1>3. Marker(s[k])
  BY DEF Marker
<1>4. l \in 1..Len(s) /\ Marker(s[l]) /\ \A j \in l + 1..Len(s) : ~Marker(s[j])
  BY <1>2, <1>3
<1>5. ~(k \in l + 1..Len(s))
  BY <1>3, <1>4
<1>6. l = k \/ l \in k + 1..Len(s)
  BY <1>0, <1>4, <1>5
<1>7. s[l] = SOI
  BY <1>4, <1>6 DEF Marker
<1>. QED
  BY <1>0, <1>1, <1>4, <1>7

LEMMA LegalNeat ==
  ASSUME NEW s \in Seq(Byte), Legal(s)
  PROVE  Neat(s)
<1>0. Len(s) \in Nat
  OBVIOUS
<1>1. SUFFICES ASSUME NEW k \in 1..Len(s), NEW j \in 1..Len(s), k < j, s[k] = SOI, s[j] = SOI,
                      \A l \in k + 1..j - 1 : s[l] # EOI
               PROVE  s[j - 1] = SOI
  BY DEF Neat
<1> DEFINE u == SubSeq(s, 1, j - 1)
<1>2. u \in Seq(Byte) /\ Len(u) = j - 1 /\ \A i \in 1..j - 1 : u[i] = s[i]
  BY PrefixIs
<1>3. LegalNext(u, SOI)
  BY <1>1 DEF Legal
<1>. HIDE DEF u
<1>4. k \in 1..j - 1 /\ j - 1 \in 1..j - 1 /\ \A i \in k + 1..j - 1 : i \in 1..j - 1
  BY <1>0, <1>1
<1>5. Open(u)
  <2>1. k \in 1..Len(u) /\ u[k] = SOI /\ \A i \in k + 1..Len(u) : u[i] # EOI
    BY <1>1, <1>2, <1>4
  <2>. QED
    BY <1>2, <2>1, OpenBySoi
<1>6. Last(u) = SOI
  BY <1>3, <1>5, ParseAssumption DEF LegalNext
<1>. QED
  BY <1>2, <1>4, <1>6 DEF Last

\* a packet that has begun is shorter than the longest one
LEMMA LegalFits ==
  ASSUME NEW s \in Seq(Byte), Legal(s), NEW k, OpensAt(s, k)
  PROVE  Len(s) - k + 1 <= MaxFrame - 1
<1> DEFINE n == Len(s)
           u == SubSeq(s, 1, n - 1)
           I == {i \in 1..Len(u) : u[i] = SOI}
<1>1. /\ n \in Nat /\ k \in 1..n /\ s[k] = SOI /\ \A j \in k + 1..n : s[j] # SOI /\ s[j] # EOI
      /\ MaxFrame \in Nat /\ MaxFrame >= 2
  BY ParseAssumption DEF OpensAt, Marker
<1>2. CASE k = n
  BY <1>1, <1>2
<1>3. CASE k # n
  <2>1. n \in 1..n /\ n \in k + 1..n /\ k \in 1..n - 1 /\ \A j \in k + 1..n - 1 : j \in k + 1..n /\ j \in 1..n - 1
    BY <1>1, <1>3
  <2>2. u \in Seq(Byte) /\ Len(u) = n - 1 /\ \A i \in 1..n - 1 : u[i] = s[i]
    BY <2>1, PrefixIs
  <2>3. LegalNext(u, s[n])
    BY <2>1 DEF Legal
  <2>. HIDE DEF u
  <2>4. \A j \in k + 1..n - 1 : u[j] # EOI /\ u[j] # SOI
    BY <1>1, <2>1, <2>2
  <2>5. Open(u)
    <3>1. k \in 1..Len(u) /\ u[k] = SOI /\ \A j \in k + 1..Len(u) : u[j] # EOI
      BY <1>1, <2>1, <2>2, <2>4
    <3>. QED
      BY <2>2, <3>1, OpenBySoi
  <2>6. OpenLen(u) < MaxFrame - 1
    BY <1>1, <2>1, <2>3, <2>5 DEF LegalNext
  <2>7. k \in I /\ \A i \in I : i <= k
    <3>1. k \in I
      BY <1>1, <2>1, <2>2
    <3>2. ASSUME NEW i \in I PROVE i <= k
      <4>1. i \in 1..n - 1 /\ i \notin k + 1..n - 1
        BY <2>2, <2>4, <3>2
      <4>. QED
        BY <1>1, <2>1, <4>1
    <3>. QED
      BY <3>1, <3>2
  <2>8. Max(I) = k
    <3>1. I \in SUBSET (0..n) /\ I # {}
      BY <1>1, <2>2, <2>7
    <3>. HIDE DEF I
    <3>2. Max(I) \in I /\ \A y \in I : y <= Max(I)
      BY <1>1, <3>1, MaxIsGreatest
    <3>3. k <= Max(I) /\ Max(I) <= k
      BY <2>7, <3>2
    <3>4. Max(I) \in 0..n
      BY <3>1, <3>2
    <3>5. Max(I) \in Nat
      BY <3>4
    <3>. QED
      BY <1>1, <3>3, <3>5
  <2>9. OpenLen(u) = Len(u) - Max(I) + 1
    BY <2>7 DEF OpenLen, SelectLastInSeq
  <2>. QED
    BY <1>1, <2>2, <2>6, <2>8, <2>9
<1>. QED
  BY <1>2, <1>3

LEMMA ChunkIs ==
  ASSUME stream \in Seq(Byte), Len(stream) <= MaxStream, Legal(stream), NEW buff \in Chunks
  PROVE  /\ buff \in Seq(Byte) /\ Len(buff) \in Nat /\ Len(buff) > 0
         /\ stream \o buff \in Seq(Byte) /\ Len(stream \o buff) <= MaxStream /\ Legal(stream \o buff)
<1> DEFINE room == IF MaxStream - Len(stream) < MaxChunk THEN MaxStream - Len(stream) ELSE MaxChunk
           z == stream \o buff
<1>0. Len(stream) \in Nat /\ MaxStream \in Nat /\ MaxChunk \in Nat
  BY ParseAssumption
<1>1. PICK n \in 1..room : buff \in [1..n -> Byte]
  BY DEF Chunks
<1>2. n \in Nat /\ n > 0 /\ Len(stream) + n <= MaxStream
  BY <1>0, <1>1
<1>3. buff \in Seq(Byte) /\ Len(buff) = n
  BY <1>1, <1>2
<1>4. \A i \in 1..Len(buff) : LegalNext(stream \o SubSeq(buff, 1, i - 1), buff[i])
  BY DEF Chunks
<1>. HIDE DEF room
<1>3a. buff \in Seq(Byte)
  BY <1>3
<1>5. /\ z \in Seq(Byte) /\ Len(z) = Len(stream) + n
      /\ \A i \in 1..Len(stream) : z[i] = stream[i]
      /\ \A i \in 1..n : z[Len(stream) + i] = buff[i]
  <2>1. /\ z \in Seq(Byte) /\ Len(z) = Len(stream) + Len(buff)
        /\ \A i \in 1..Len(stream) : z[i] = stream[i]
        /\ \A i \in 1..Len(buff) : z[Len(stream) + i] = buff[i]
    BY <1>3a, ConcatIs
  <2>. QED
    BY <1>3, <2>1
<1>6. ASSUME NEW i \in 1..Len(z) PROVE LegalNext(SubSeq(z, 1, i - 1), z[i])
  <2>1. CASE i <= Len(stream)
    <3>1. i \in 1..Len(stream) /\ 1 \in 1..Len(stream) + 1 /\ i - 1 \in Int /\ 1 - 1 <= i - 1 /\ i - 1 <= Len(stream)
      BY <1>0, <1>2, <1>5, <1>6, <2>1
    <3>2. SubSeq(z, 1, i - 1) = SubSeq(stream, 1, i - 1)
      BY <1>3, <3>1, PieceOfLeft
    <3>. QED
      BY <1>5, <3>1, <3>2 DEF Legal
  <2>2. CASE ~(i <= Len(stream))
    <3> DEFINE j == i - Len(stream)
    <3>1. j \in 1..n /\ j - 1 \in 0..n /\ Len(stream) + j = i /\ Len(stream) + (j - 1) = i - 1
      BY <1>0, <1>2, <1>5, <1>6, <2>2
    <3>2. SubSeq(z, 1, Len(stream) + (j - 1)) = stream \o SubSeq(buff, 1, j - 1)
      <4> DEFINE h == j - 1
      <4>1. h \in 0..Len(buff)
        BY <1>2, <3>1
      <4>. HIDE DEF h
      <4>2. SubSeq(z, 1, Len(stream) + h) = stream \o SubSeq(buff, 1, h)
        BY <1>3, <4>1, PieceAcross
      <4>. QED
        BY <4>2 DEF h
    <3>. HIDE DEF j
    <3>. QED
      BY <1>3, <1>4, <1>5, <3>1, <3>2
  <2>. QED
    BY <2>1, <2>2
<1>. QED
  BY <1>0, <1>2, <1>3, <1>5, <1>6 DEF Legal

LEMMA LegalPrefix ==
  ASSUME NEW x \in Seq(Byte), NEW y \in Seq(Byte), Legal(x \o y)
  PROVE  Legal(x)
<1> DEFINE z == x \o y
<1>1. /\ z \in Seq(Byte) /\ Len(x) \in Nat /\ Len(y) \in Nat /\ Len(z) = Len(x) + Len(y)
      /\ \A i \in 1..Len(x) : z[i] = x[i]
  BY ConcatIs
<1>2. SUFFICES ASSUME NEW i \in 1..Len(x) PROVE LegalNext(SubSeq(x, 1, i - 1), x[i])
  BY DEF Legal
<1>3. /\ i \in 1..Len(z) /\ 1 \in 1..Len(x) + 1 /\ i - 1 \in Int /\ 1 - 1 <= i - 1 /\ i - 1 <= Len(x)
  BY <1>1, <1>2
<1>4. SubSeq(z, 1, i - 1) = SubSeq(x, 1, i - 1)
  BY <1>3, PieceOfLeft
<1>5. LegalNext(SubSeq(z, 1, i - 1), z[i])
  BY <1>3 DEF Legal
<1>. QED
  BY <1>1, <1>2, <1>4, <1>5

\* in a stream without noise a packet has begun before every byte but an SOI
LEMMA CleanStep ==
  ASSUME NEW x \in Seq(Byte), NEW y \in Seq(Byte), Clean(x \o y),
         NEW i \in 1..Len(y), y[i] # SOI, \A j \in 1..i - 1 : ~Marker(y[j])
  PROVE  \E k : OpensAt(x, k)
<1> DEFINE z == x \o y
           v == SubSeq(y, 1, i - 1)
<1>1. /\ z \in Seq(Byte) /\ Len(x) \in Nat /\ Len(y) \in Nat /\ Len(z) = Len(x) + Len(y)
      /\ \A j \in 1..Len(y) : z[Len(x) + j] = y[j]
  BY ConcatIs
<1>2. v \in Seq(Byte) /\ Len(v) = i - 1 /\ \A j \in 1..i - 1 : v[j] = y[j]
  BY PrefixIs
<1>3. i - 1 \in 0..Len(y) /\ Len(x) + i \in 1..Len(z) /\ (Len(x) + i) - 1 = Len(x) + (i - 1)
  BY <1>1
<1>4. SubSeq(z, 1, (Len(x) + i) - 1) = x \o v
  BY <1>3, PieceAcross
<1>5. z[Len(x) + i] # SOI
  BY <1>1
<1>6. Open(x \o v)
  BY <1>3, <1>4, <1>5 DEF Clean
<1>. HIDE DEF v, z
<1>7. x \o v \in Seq(Byte)
  BY <1>2, ConcatIs
<1>8. PICK k : OpensAt(x \o v, k)
  BY <1>6, <1>7, OpenIs
<1>9. \/ OpensAt(x, k)
      \/ k - Len(x) \in 1..Len(v) /\ OpensAt(v, k - Len(x))
  BY <1>2, <1>8, OpensJoin
<1>10. ASSUME k - Len(x) \in 1..Len(v), OpensAt(v, k - Len(x)) PROVE FALSE
  <2>1. v[k - Len(x)] = SOI /\ ~Marker(y[k - Len(x)])
    BY <1>2, <1>10 DEF OpensAt
  <2>2. v[k - Len(x)] = y[k - Len(x)]
    BY <1>2, <1>10
  <2>. QED
    BY <2>1, <2>2 DEF Marker
<1>. QED
  BY <1>9, <1>10

-----------------------------------------------------------------------------
(* What a call of parse_pkt does, with s the bytes before it, p the packet  *)
(* buffer and r what it hands over and leaves.                              *)

\* the packet buffer has the packet that s ends in
Carries(s, p) == \A k : OpensAt(s, k) => p = SubSeq(s, k, Len(s))

\* the packet buffer has no more than the packet that s ends in
Short(s, p) == Len(p) <= MaxFrame /\ \A k : OpensAt(s, k) => Len(p) <= Len(s) - k + 1

\* the packets of buff are the last ones handed over; if the carried packet was
\* right, nothing else but noise is
Fed(s, p, buff, r) ==
  /\ r.out \in Seq(Seq(Byte)) /\ r.left \in Seq(Byte)
  /\ \E e \in Seq(Seq(Byte)) : r.out = e \o Frames(buff)
  /\ Carries(s, p) =>
       /\ Carries(s \o buff, r.left)
       /\ \E e, c \in Seq(Seq(Byte)) :
            /\ Frames(s \o buff) = Frames(s) \o c /\ r.out = e \o c
            /\ Clean(s \o buff) => e = <<>>
  /\ Clean(s \o buff) /\ Short(s, p) => Short(s \o buff, r.left)

\* process_on_buf_empty on the last bytes of x \o y
LEMMA RestIs ==
  ASSUME NEW x \in Seq(Byte), NEW y \in Seq(Byte), Legal(x \o y), Neat(y),
         NEW q \in Seq(Byte), NEW r, r = BufEmpty(y, q)
  PROVE  /\ \A k : OpensAt(x \o y, k) /\ ~(k \in 1..Len(x)) => r.left = SubSeq(x \o y, k, Len(x \o y))
         /\ Len(q) <= MaxFrame /\ (\A k \in 1..Len(x) : OpensAt(x \o y, k) => Len(q) <= Len(x \o y) - k + 1)
              => Short(x \o y, r.left)
<1> DEFINE z == x \o y
           n == Len(x)
           m == Len(y)
<1>1. /\ z \in Seq(Byte) /\ n \in Nat /\ m \in Nat /\ Len(z) = n + m /\ Len(q) \in Nat /\ MaxFrame \in Nat
  BY ConcatIs, ParseAssumption
<1>2. /\ \A k : OpensAt(y, k) => r.left = SubSeq(y, k, m)
      /\ (\A k : ~OpensAt(y, k)) => r.left = q
  BY BufEmptyIs
<1>. HIDE DEF z, n, m
<1>3. ASSUME NEW k, OpensAt(y, k)
      PROVE  /\ r.left = SubSeq(z, n + k, Len(z)) /\ Len(r.left) = Len(z) - (n + k) + 1
             /\ OpensAt(z, n + k) /\ k \in 1..m
  <2>1. OpensAt(z, n + k)
    BY <1>3, OpensJoin DEF z, n
  <2>2. k \in 1..m
    BY <1>3 DEF OpensAt, m
  <2>3. r.left = SubSeq(y, k, m)
    BY <1>2, <1>3
  <2>4. k \in 1..Len(y) + 1 /\ m \in Int /\ k - 1 <= m /\ m <= Len(y)
    BY <1>1, <2>2 DEF m
  <2>5. SubSeq(z, n + k, n + m) = SubSeq(y, k, m)
    BY <2>4, PieceOfRight DEF z, n
  <2>6. Len(SubSeq(y, k, m)) = m - k + 1
    BY <2>4, PieceIs
  <2>. QED
    BY <1>1, <2>1, <2>2, <2>3, <2>5, <2>6
<1>4. ASSUME NEW k, OpensAt(z, k)
      PROVE  k \in 1..n \/ (OpensAt(y, k - n) /\ n + (k - n) = k)
  <2>1. OpensAt(x, k) => k \in 1..n
    BY DEF OpensAt, n
  <2>. QED
    BY <1>4, <2>1, OpensJoin DEF z, n
<1>5. ASSUME NEW k, OpensAt(z, k), ~(k \in 1..n) PROVE r.left = SubSeq(z, k, Len(z))
  BY <1>3, <1>4, <1>5
<1>6. ASSUME Len(q) <= MaxFrame, \A k \in 1..n : OpensAt(z, k) => Len(q) <= Len(z) - k + 1
      PROVE  Short(z, r.left)
  <2>1. CASE \E k : OpensAt(y, k)
    <3>1. PICK k : OpensAt(y, k)
      BY <2>1
    <3>2. OpensAt(z, n + k) /\ Len(r.left) = Len(z) - (n + k) + 1 /\ k \in 1..m
      BY <1>3, <3>1
    <3>3. Len(z) - (n + k) + 1 <= MaxFrame - 1
      BY <1>1, <3>2, LegalFits DEF z
    <3>4. Len(r.left) <= MaxFrame
      BY <1>1, <3>2, <3>3
    <3>5. ASSUME NEW l, OpensAt(z, l) PROVE l = n + k
      BY <1>1, <3>2, <3>5, OpensAtOnce
    <3>6. ASSUME NEW l, OpensAt(z, l) PROVE Len(r.left) <= Len(z) - l + 1
      BY <1>1, <3>2, <3>5, <3>6
    <3>. QED
      BY <3>4, <3>6 DEF Short
  <2>2. CASE \A k : ~OpensAt(y, k)
    BY <1>2, <1>4, <1>6, <2>2 DEF Short
  <2>. QED
    BY <2>1, <2>2
<1>. QED
  BY <1>5, <1>6 DEF z, n

LEMMA NeatRight ==
  ASSUME NEW x \in Seq(Byte), NEW y \in Seq(Byte), Legal(x \o y)
  PROVE  Neat(y)
<1> DEFINE z == x \o y
<1>1. z \in Seq(Byte) /\ Len(x) \in Nat /\ Len(y) \in Nat /\ Len(z) = Len(x) + Len(y)
  BY ConcatIs
<1>2. Neat(z)
  BY <1>1, LegalNeat
<1>3. 1 \in 1..Len(y) + 1 /\ Len(y) \in Int /\ 1 - 1 <= Len(y) /\ Len(y) <= Len(y)
  BY <1>1
<1>4. SubSeq(z, Len(x) + 1, Len(x) + Len(y)) = SubSeq(y, 1, Len(y))
  BY <1>3, PieceOfRight
<1>5. SubSeq(y, 1, Len(y)) = y
  BY SubSeqFull
<1>6. /\ Len(x) + 1 \in 1..Len(z) + 1 /\ Len(x) + Len(y) \in Int
      /\ (Len(x) + 1) - 1 <= Len(x) + Len(y) /\ Len(x) + Len(y) <= Len(z)
  BY <1>1
<1>. HIDE DEF z
<1>7. Neat(SubSeq(z, Len(x) + 1, Len(x) + Len(y)))
  BY <1>1, <1>2, <1>6, NeatPiece
<1>. QED
  BY <1>4, <1>5, <1>7 DEF z

LEMMA FedEmpty ==
  ASSUME NEW s \in Seq(Byte), NEW buff \in Seq(Byte), Legal(s \o buff),
         NEW r, r = BufEmpty(buff, <<>>)
  PROVE  Fed(s, <<>>, buff, r)
<1> DEFINE z == s \o buff
           c == Frames(buff)
<1>1. z \in Seq(Byte) /\ Len(s) \in Nat /\ Len(buff) \in Nat /\ Len(z) = Len(s) + Len(buff)
  BY ConcatIs
<1>2. Neat(buff)
  BY NeatRight
<1>3. <<>> \in Seq(Byte) /\ <<>> \in Seq(Seq(Byte)) /\ Len(<<>>) = 0
  BY EmptySeq
<1>4. r.out = c /\ r.left \in Seq(Byte)
  BY <1>2, <1>3, BufEmptyIs
<1>5. c \in Seq(Seq(Byte)) /\ c = <<>> \o c
  BY FramesType, ConcatEmptySeq
<1>6. ASSUME NEW k, OpensAt(s, k) PROVE k \in 1..Len(s) /\ ~(<<>> = SubSeq(s, k, Len(s)))
  <2>1. k \in 1..Len(s) + 1 /\ k \in 1..Len(s) /\ Len(s) \in Int /\ k - 1 <= Len(s) /\ Len(s) <= Len(s)
    BY <1>1, <1>6 DEF OpensAt
  <2>2. Len(SubSeq(s, k, Len(s))) = Len(s) - k + 1 /\ Len(s) - k + 1 # 0
    BY <1>1, <2>1, PieceIs
  <2>. QED
    BY <1>3, <2>1, <2>2
<1>7. ASSUME Carries(s, <<>>)
      PROVE  Carries(z, r.left) /\ Frames(z) = Frames(s) \o c
  <2>1. \A k : ~OpensAt(s, k)
    BY <1>6, <1>7 DEF Carries
  <2>2. Apart(s, buff)
    BY <2>1, OpenIs, ApartIfClosed
  <2>3. Frames(z) = Frames(s) \o c
    BY <2>2, Join
  <2>4. \A k : OpensAt(z, k) => ~(k \in 1..Len(s))
    <3>1. SUFFICES ASSUME NEW k, OpensAt(z, k), k \in 1..Len(s) PROVE FALSE
      OBVIOUS
    <3>2. k - Len(s) \in 1..Len(buff)
      BY <2>1, <3>1, OpensJoin
    <3>. QED
      BY <1>1, <3>1, <3>2
  <2>5. Carries(z, r.left)
    BY <1>2, <1>3, <2>4, RestIs DEF Carries
  <2>. QED
    BY <2>3, <2>5
<1>8. Short(z, r.left)
  <2> DEFINE q == <<>>
  <2>1. q \in Seq(Byte) /\ Len(q) = 0 /\ r = BufEmpty(buff, q)
    BY <1>3
  <2>. HIDE DEF q
  <2>2. Len(q) <= MaxFrame
    BY <2>1, ParseAssumption
  <2>3. \A k \in 1..Len(s) : Len(q) <= Len(z) - k + 1
    BY <1>1, <2>1
  <2>. QED
    BY <1>2, <2>1, <2>2, <2>3, RestIs
<1>. QED
  BY <1>3, <1>4, <1>5, <1>7, <1>8 DEF Fed

LEMMA FedNoMarker ==
  ASSUME NEW s \in Seq(Byte), NEW buff \in Seq(Byte), Len(buff) > 0, Legal(s \o buff),
         NEW p \in Seq(Byte), \A i \in 1..Len(buff) : ~Marker(buff[i]),
         NEW r, r = [out |-> <<>>, left |-> p \o buff]
  PROVE  Fed(s, p, buff, r)
<1> DEFINE z == s \o buff
           n == Len(s)
           m == Len(buff)
<1>1. /\ z \in Seq(Byte) /\ n \in Nat /\ m \in Nat /\ Len(z) = n + m
      /\ p \o buff \in Seq(Byte) /\ Len(p \o buff) = Len(p) + m /\ Len(p) \in Nat
  BY ConcatIs
<1>2. r.out = <<>> /\ r.left = p \o buff
  BY Fields
<1>3. Apart(s, buff) /\ Frames(buff) = <<>>
  <2>1. \A i \in 1..Len(buff) : buff[i] # EOI
    BY DEF Marker
  <2>. QED
    BY <2>1, ApartNoEoi
<1>4. <<>> \in Seq(Seq(Byte)) /\ <<>> = <<>> \o <<>>
  BY EmptySeq, ConcatEmptySeq
<1>5. Frames(z) = Frames(s) \o <<>>
  BY <1>3, Join
<1>. HIDE DEF z, n, m
<1>6. ASSUME NEW k, OpensAt(z, k) PROVE OpensAt(s, k) /\ k \in 1..n
  <2>1. ASSUME k - n \in 1..m, OpensAt(buff, k - n) PROVE FALSE
    BY <2>1 DEF OpensAt, Marker, m
  <2>2. OpensAt(s, k)
    BY <1>6, <2>1, OpensJoin DEF z, n, m
  <2>. QED
    BY <2>2 DEF OpensAt, n
<1>7. ASSUME Carries(s, p) PROVE Carries(z, r.left)
  <2>1. SUFFICES ASSUME NEW k, OpensAt(z, k) PROVE p \o buff = SubSeq(z, k, Len(z))
    BY <1>2 DEF Carries
  <2>2. k \in 1..n /\ p = SubSeq(s, k, n)
    BY <1>6, <1>7, <2>1 DEF Carries, n
  <2>3. /\ k \in 1..Len(z) + 1 /\ k \in 1..n + 1 /\ n \in Int /\ k - 1 <= n /\ n <= Len(z)
        /\ 1 \in 1..m + 1 /\ m \in Int /\ 1 - 1 <= m /\ m <= m
    BY <1>1, <2>2
  <2>4. SubSeq(z, k, Len(z)) = SubSeq(z, k, n) \o SubSeq(z, n + 1, Len(z))
    BY <1>1, <2>3, CutAt
  <2>5. SubSeq(z, k, n) = SubSeq(s, k, n)
    BY <2>3, PieceOfLeft DEF z, n
  <2>6. SubSeq(z, n + 1, n + m) = SubSeq(buff, 1, m)
    BY <2>3, PieceOfRight DEF z, n, m
  <2>7. SubSeq(buff, 1, m) = buff
    BY SubSeqFull DEF m
  <2>. QED
    BY <1>1, <2>2, <2>4, <2>5, <2>6, <2>7
<1>8. ASSUME Clean(z), Short(s, p) PROVE Short(z, r.left)
  <2>1. PICK k : OpensAt(s, k)
    <3>1. 1 \in 1..Len(buff) /\ buff[1] # SOI /\ \A j \in 1..1 - 1 : ~Marker(buff[j])
      <4>1. 1 \in 1..Len(buff) /\ 1 - 1 = 0
        BY <1>1 DEF m
      <4>. QED
        BY <4>1 DEF Marker
    <3>. QED
      BY <1>8, <3>1, CleanStep DEF z
  <2>2. OpensAt(z, k) /\ k \in 1..n
    BY <2>1, OpensJoin DEF z, OpensAt, n
  <2>3. Len(z) - k + 1 <= MaxFrame - 1
    BY <1>1, <2>2, LegalFits DEF z
  <2>4. Len(p) <= n - k + 1
    BY <1>8, <2>1 DEF Short, n
  <2>5. Len(r.left) <= Len(z) - k + 1 /\ Len(r.left) <= MaxFrame
    <3>1. MaxFrame \in Nat /\ Len(r.left) = Len(p) + m
      BY <1>1, <1>2, ParseAssumption
    <3>. QED
      BY <1>1, <2>2, <2>3, <2>4, <3>1
  <2>6. \A l : OpensAt(z, l) => l = k
    BY <1>1, <2>2, OpensAtOnce
  <2>. QED
    BY <2>5, <2>6 DEF Short
<1>9. r.out \in Seq(Seq(Byte)) /\ r.left \in Seq(Byte)
  BY <1>1, <1>2, <1>4
<1>10. \E e \in Seq(Seq(Byte)) : r.out = e \o Frames(buff)
  BY <1>2, <1>3, <1>4
<1>11. \E e, c \in Seq(Seq(Byte)) :
         /\ Frames(z) = Frames(s) \o c /\ r.out = e \o c
         /\ Clean(z) => e = <<>>
  BY <1>2, <1>4, <1>5
<1>. QED
  BY <1>7, <1>8, <1>9, <1>10, <1>11 DEF Fed, z

LEMMA FedSoi ==
  ASSUME NEW s \in Seq(Byte), NEW pre \in Seq(Byte), NEW rest \in Seq(Byte),
         Legal(s \o (pre \o rest)), \A i \in 1..Len(pre) : ~Marker(pre[i]),
         Len(rest) > 0, rest[1] = SOI,
         NEW p \in Seq(Byte)
  PROVE  Fed(s, p, pre \o rest, BufEmpty(rest, p))
<1> DEFINE r == BufEmpty(rest, p)
           x == s \o pre
           z == x \o rest
           c == Frames(rest)
<1>1. /\ x \in Seq(Byte) /\ Len(s) \in Nat /\ Len(pre) \in Nat /\ Len(x) = Len(s) + Len(pre)
      /\ z = s \o (pre \o rest) /\ pre \o rest \in Seq(Byte)
  <2>1. Regroups(s, pre, rest)
    BY Regroup
  <2>2. z = s \o (pre \o rest)
    BY <2>1 DEF Regroups
  <2>. QED
    BY <2>2, ConcatIs
<1>2. z \in Seq(Byte) /\ Len(x) \in Nat /\ Len(rest) \in Nat /\ Len(z) = Len(x) + Len(rest)
  BY <1>1, ConcatIs
<1>3. Legal(z) /\ Neat(rest)
  BY <1>1, NeatRight
<1>4. r.out = c /\ r.left \in Seq(Byte)
  BY <1>3, BufEmptyIs
<1>5. c \in Seq(Seq(Byte)) /\ c = <<>> \o c /\ <<>> \in Seq(Seq(Byte))
  BY FramesType, ConcatEmptySeq, EmptySeq
<1>6. Apart(s, pre) /\ Apart(x, rest) /\ Apart(pre, rest) /\ Frames(pre) = <<>>
  <2>1. \A i \in 1..Len(pre) : pre[i] # EOI
    BY DEF Marker
  <2>. QED
    BY <1>1, <2>1, ApartNoEoi, ApartBySoi
<1>7. Frames(z) = Frames(s) \o c
  <2>1. Frames(x) = Frames(s) \o <<>>
    BY <1>6, Join
  <2>2. Frames(x) = Frames(s)
    BY <2>1, FramesType, ConcatEmptySeq
  <2>. HIDE DEF x
  <2>. QED
    BY <1>1, <1>6, <2>2, Join
<1>8. Frames(pre \o rest) = c
  BY <1>5, <1>6, Join
<1>. HIDE DEF x
<1>9. \A k : OpensAt(z, k) => ~(k \in 1..Len(x))
  <2>1. SUFFICES ASSUME NEW k, OpensAt(z, k), k \in 1..Len(x) PROVE FALSE
    OBVIOUS
  <2>2. ~Marker(rest[1]) \/ k - Len(x) \in 1..Len(rest)
    <3>1. 1 \in 1..Len(rest)
      BY <1>2
    <3>. QED
      BY <1>1, <2>1, <3>1, OpensJoin
  <2>3. ~(k - Len(x) \in 1..Len(rest))
    BY <1>2, <2>1
  <2>. QED
    BY <2>2, <2>3 DEF Marker
<1>10. Carries(z, r.left)
  <2>1. \A k : OpensAt(z, k) /\ ~(k \in 1..Len(x)) => r.left = SubSeq(z, k, Len(z))
    <3>1. SUFFICES ASSUME NEW k, OpensAt(z, k), ~(k \in 1..Len(x)) PROVE r.left = SubSeq(z, k, Len(z))
      OBVIOUS
    <3>2. Legal(x \o rest) /\ Neat(rest) /\ x \in Seq(Byte)
      BY <1>1, <1>3
    <3>. QED
      BY <3>1, <3>2, RestIs
  <2>. QED
    BY <1>9, <2>1 DEF Carries
<1>11. Short(s, p) => Short(z, r.left)
  <2>1. SUFFICES ASSUME Short(s, p) PROVE Short(z, r.left)
    OBVIOUS
  <2>2. Len(p) <= MaxFrame
    BY <2>1 DEF Short
  <2>. QED
    BY <1>1, <1>3, <1>9, <2>2, RestIs
<1>. QED
  BY <1>1, <1>4, <1>5, <1>7, <1>8, <1>10, <1>11 DEF Fed

\* the EOI that ends a packet
LEMMA ClosesPacket ==
  ASSUME NEW s \in Seq(Byte), NEW k, OpensAt(s, k), NEW cut \in Seq(Byte), Len(cut) > 0,
         cut[Len(cut)] = EOI, \A i \in 1..Len(cut) - 1 : ~Marker(cut[i])
  PROVE  Frames(s \o cut) = Frames(s) \o <<SubSeq(s, k, Len(s)) \o cut>>
<1> DEFINE n == Len(s)
           m == Len(cut)
           a == SubSeq(s, 1, k - 1)
           p == SubSeq(s, k, n)
           full == p \o cut
<1>1. n \in Nat /\ m \in Nat /\ m > 0
  <2>1. Len(s) \in Nat /\ Len(cut) \in Nat
    OBVIOUS
  <2>. QED
    BY <2>1
<1>2. k \in 1..n /\ s[k] = SOI /\ \A j \in k + 1..n : ~Marker(s[j])
  BY DEF OpensAt
<1>3. /\ k \in 1..n + 1 /\ n \in Int /\ k - 1 <= n /\ n <= n
      /\ 1 \in 1..n + 1 /\ 1 - 1 <= k - 1 /\ k - 1 <= n /\ k - 1 \in Int /\ (k - 1) + 1 = k
  BY <1>1, <1>2
<1>4. a \in Seq(Byte)
  BY <1>3, PieceIs
<1>5. p \in Seq(Byte) /\ Len(p) = n - k + 1 /\ \A i \in 1..n - k + 1 : p[i] = s[k + i - 1]
  BY <1>3, PieceIs
<1>6. s = a \o p
  <2>1. SubSeq(s, 1, n) = a \o p
    BY <1>3, CutAt
  <2>. QED
    BY <2>1, SubSeqFull
<1>. HIDE DEF a, p, n, m
<1>7. Len(p) \in Nat /\ Len(p) > 0 /\ p[1] = SOI
  <2>1. 1 \in 1..n - k + 1 /\ k + 1 - 1 = k
    BY <1>1, <1>2
  <2>. QED
    BY <1>1, <1>2, <1>5, <2>1
<1>8. \A i \in 2..Len(p) : ~Marker(p[i])
  <2>1. SUFFICES ASSUME NEW i \in 2..Len(p) PROVE ~Marker(p[i])
    OBVIOUS
  <2>2. i \in 1..n - k + 1 /\ k + i - 1 \in k + 1..n
    BY <1>1, <1>2, <1>5, <2>1
  <2>. QED
    BY <1>2, <1>5, <2>2
<1>9. /\ full \in Seq(Byte) /\ Len(full) = Len(p) + m
      /\ \A i \in 1..Len(p) : full[i] = p[i]
      /\ \A i \in 1..m : full[Len(p) + i] = cut[i]
  <2>1. p \in Seq(Byte)
    BY <1>5
  <2>2. /\ full \in Seq(Byte) /\ Len(full) = Len(p) + Len(cut)
        /\ \A i \in 1..Len(p) : full[i] = p[i]
        /\ \A i \in 1..Len(cut) : full[Len(p) + i] = cut[i]
    BY <2>1, ConcatIs
  <2>. QED
    BY <2>2 DEF m
<1>. HIDE DEF full
<1>10. IsPacket(full, 1, Len(full))
  <2>1. 1 \in 1..Len(full) /\ Len(full) \in 1..Len(full) /\ 1 < Len(full) /\ full[1] = SOI
    BY <1>1, <1>7, <1>9
  <2>2. full[Len(full)] = EOI
    BY <1>1, <1>9 DEF m
  <2>3. ASSUME NEW j \in 1 + 1..Len(full) - 1 PROVE ~Marker(full[j])
    <3>1. CASE j <= Len(p)
      <4>1. j \in 2..Len(p) /\ j \in 1..Len(p)
        BY <1>7, <2>3, <3>1
      <4>. QED
        BY <1>8, <1>9, <4>1
    <3>2. CASE ~(j <= Len(p))
      <4>1. j - Len(p) \in 1..m - 1 /\ j - Len(p) \in 1..m /\ Len(p) + (j - Len(p)) = j
        BY <1>1, <1>7, <1>9, <2>3, <3>2
      <4>2. full[j] = cut[j - Len(p)]
        BY <1>9, <4>1
      <4>. QED
        BY <4>1, <4>2 DEF m
    <3>. QED
      BY <3>1, <3>2
  <2>. QED
    BY <2>1, <2>2, <2>3 DEF IsPacket
<1>11. ASSUME NEW c, NEW f, IsPacket(full, c, f) PROVE f = Len(full)
  <2>1. /\ c \in 1..Len(full) /\ f \in 1..Len(full) /\ c < f /\ full[f] = EOI
    BY <1>11 DEF IsPacket
  <2>2. \A j \in 2..Len(full) - 1 : full[j] # EOI
    BY <1>10 DEF IsPacket, Marker
  <2>3. Len(full) \in Nat
    BY <1>1, <1>7, <1>9
  <2>. QED
    BY <2>1, <2>2, <2>3
<1>12. Frames(full) = <<full>>
  <2>1. Frames(full) = <<SubSeq(full, 1, Len(full))>>
    BY <1>9, <1>10, <1>11, FramesOne
  <2>. QED
    BY <1>9, <2>1, SubSeqFull
<1>13. Frames(a \o full) = Frames(a) \o <<full>>
  <2>1. Len(full) > 0 /\ full[1] = SOI
    <3>1. 1 \in 1..Len(p)
      BY <1>7
    <3>. QED
      BY <1>1, <1>7, <1>9, <3>1
  <2>2. Apart(a, full)
    BY <1>4, <1>9, <2>1, ApartBySoi
  <2>. QED
    BY <1>4, <1>9, <1>12, <2>2, Join
<1>14. Frames(s) = Frames(a)
  <2>1. ASSUME NEW i \in 1..Len(p) PROVE p[i] # EOI
    <3>1. i = 1 \/ i \in 2..Len(p)
      BY <1>7, <2>1
    <3>. QED
      BY <1>7, <1>8, <3>1, ParseAssumption DEF Marker
  <2>2. Apart(a, p) /\ Frames(p) = <<>>
    BY <1>4, <1>5, <2>1, ApartNoEoi
  <2>3. Frames(a \o p) = Frames(a) \o <<>>
    BY <1>4, <1>5, <2>2, Join
  <2>. QED
    BY <1>4, <1>6, <2>3, FramesType, ConcatEmptySeq
<1>15. s \o cut = a \o full
  <2>1. Regroups(a, p, cut)
    BY <1>4, <1>5, Regroup
  <2>. QED
    BY <1>6, <2>1 DEF Regroups, full
<1>. QED
  BY <1>13, <1>14, <1>15 DEF full, p, n

LEMMA FedEoi ==
  ASSUME NEW s \in Seq(Byte), NEW cut \in Seq(Byte), NEW rest \in Seq(Byte),
         Legal(s \o (cut \o rest)), Len(cut) > 0, cut[Len(cut)] = EOI,
         \A i \in 1..Len(cut) - 1 : ~Marker(cut[i]),
         NEW p \in Seq(Byte)
  PROVE  Fed(s, p, cut \o rest, [BufEmpty(rest, p \o cut) EXCEPT !.out = <<p \o cut>> \o @])
<1> DEFINE b == BufEmpty(rest, p \o cut)
           r == [b EXCEPT !.out = <<p \o cut>> \o @]
           x == s \o cut
           z == x \o rest
           full == p \o cut
           c == Frames(rest)
           m == Len(cut)
<1>1. /\ x \in Seq(Byte) /\ Len(s) \in Nat /\ m \in Nat /\ Len(x) = Len(s) + m
      /\ z = s \o (cut \o rest) /\ cut \o rest \in Seq(Byte)
      /\ full \in Seq(Byte) /\ Len(p) \in Nat /\ Len(full) = Len(p) + m
  <2>1. Regroups(s, cut, rest)
    BY Regroup
  <2>2. z = s \o (cut \o rest)
    BY <2>1 DEF Regroups
  <2>3. full \in Seq(Byte) /\ Len(p) \in Nat /\ Len(full) = Len(p) + m
    BY ConcatIs
  <2>. QED
    BY <2>2, <2>3, ConcatIs
<1>2. /\ z \in Seq(Byte) /\ Len(x) \in Nat /\ Len(rest) \in Nat /\ Len(z) = Len(x) + Len(rest)
      /\ \A i \in 1..Len(x) : z[i] = x[i]
  BY <1>1, ConcatIs
<1>3. Legal(z) /\ Legal(x) /\ Neat(rest)
  BY <1>1, NeatRight, LegalPrefix
<1>4. b = [out |-> c, left |-> b.left] /\ b.left \in Seq(Byte)
  BY <1>1, <1>3, BufEmptyIs
<1>5. r = [out |-> <<full>> \o c, left |-> b.left]
  <2> DEFINE f == <<full>>
             l == b.left
  <2>1. b = [out |-> c, left |-> l] /\ r = [b EXCEPT !.out = f \o @]
    BY <1>4
  <2>. HIDE DEF c, f, l
  <2>2. r = [out |-> f \o c, left |-> l]
    BY <2>1, PutFirst
  <2>. QED
    BY <2>2 DEF f, l
<1>6. r.out = <<full>> \o c /\ r.left = b.left
  BY <1>5, Fields
<1>. HIDE DEF r
<1>7. /\ c \in Seq(Seq(Byte)) /\ c = <<>> \o c /\ <<>> \in Seq(Seq(Byte))
      /\ <<full>> \in Seq(Seq(Byte)) /\ <<full>> \o c \in Seq(Seq(Byte))
      /\ <<full>> \o c = <<>> \o (<<full>> \o c)
  <2>1. c \in Seq(Seq(Byte)) /\ <<>> \in Seq(Seq(Byte)) /\ <<full>> \in Seq(Seq(Byte))
    BY <1>1, FramesType, EmptySeq
  <2>. HIDE DEF c, full
  <2>2. <<full>> \o c \in Seq(Seq(Byte))
    BY <2>1, ConcatIs
  <2>. QED
    BY <2>1, <2>2, ConcatEmptySeq
<1>8. x[Len(x)] = EOI /\ Len(x) > 0
  <2>1. \A i \in 1..m : x[Len(s) + i] = cut[i]
    BY ConcatIs
  <2>2. m \in 1..m
    BY <1>1
  <2>. QED
    BY <1>1, <2>1, <2>2
<1>9. Frames(z) = Frames(x) \o c
  <2>. HIDE DEF x
  <2>. QED
    BY <1>1, <1>8, ClosedByEoi, ApartIfClosed, Join
<1>10. Frames(cut) = <<>> /\ Frames(cut \o rest) = c
  <2>1. \A d, e : ~IsPacket(cut, d, e)
    <3>1. SUFFICES ASSUME NEW d \in 1..m, NEW e \in 1..m, d < e, cut[d] = SOI PROVE FALSE
      BY DEF IsPacket
    <3>2. d \in 1..m - 1
      BY <1>1, <3>1
    <3>. QED
      BY <3>1, <3>2 DEF Marker
  <2>2. Frames(cut) = <<>>
    BY <2>1, FramesNone
  <2>3. Frames(cut \o rest) = <<>> \o c
    BY <2>2, ClosedByEoi, ApartIfClosed, Join
  <2>. QED
    BY <1>7, <2>2, <2>3
<1>11. Clean(z) => \E k : OpensAt(s, k)
  <2>1. SUFFICES ASSUME Clean(z) PROVE \E k : OpensAt(s, k)
    OBVIOUS
  <2>2. /\ m \in 1..Len(cut \o rest) /\ (cut \o rest)[m] # SOI
        /\ \A j \in 1..m - 1 : ~Marker((cut \o rest)[j])
    <3>1. /\ Len(cut \o rest) = m + Len(rest)
          /\ \A i \in 1..m : (cut \o rest)[i] = cut[i]
      BY ConcatIs
    <3>2. m \in 1..m /\ \A j \in 1..m - 1 : j \in 1..m
      BY <1>1
    <3>3. m \in 1..Len(cut \o rest)
      BY <1>1, <1>2, <3>1
    <3>4. (cut \o rest)[m] = EOI
      BY <3>1, <3>2
    <3>5. \A j \in 1..m - 1 : ~Marker((cut \o rest)[j])
      BY <3>1, <3>2
    <3>. QED
      BY <3>3, <3>4, <3>5, ParseAssumption
  <2>. QED
    BY <1>1, <2>1, <2>2, CleanStep
<1>12. \A k : OpensAt(z, k) => ~(k \in 1..Len(x))
  <2>1. SUFFICES ASSUME NEW k, OpensAt(z, k), k \in 1..Len(x) PROVE FALSE
    OBVIOUS
  <2>2. z[Len(x)] = EOI /\ z[k] = SOI /\ \A j \in k + 1..Len(z) : ~Marker(z[j])
    <3>1. Len(x) \in 1..Len(x)
      BY <1>2, <1>8
    <3>. QED
      BY <1>2, <1>8, <2>1, <3>1 DEF OpensAt
  <2>3. k # Len(x)
    BY <2>2, ParseAssumption
  <2>4. Len(x) \in k + 1..Len(z)
    <3>. HIDE DEF x, z
    <3>. QED
      BY <1>2, <2>1, <2>3
  <2>. QED
    BY <2>2, <2>4 DEF Marker
<1>13. Carries(z, r.left)
  <2>1. \A k : OpensAt(z, k) /\ ~(k \in 1..Len(x)) => b.left = SubSeq(z, k, Len(z))
    <3>. HIDE DEF x
    <3>1. SUFFICES ASSUME NEW k, OpensAt(z, k), ~(k \in 1..Len(x)) PROVE b.left = SubSeq(z, k, Len(z))
      OBVIOUS
    <3>2. Legal(x \o rest) /\ Neat(rest) /\ x \in Seq(Byte) /\ full \in Seq(Byte)
      BY <1>1, <1>3
    <3>. QED
      BY <3>1, <3>2, RestIs
  <2>. QED
    BY <1>6, <1>12, <2>1 DEF Carries
<1>14. ASSUME Carries(s, p)
       PROVE  \E e, d \in Seq(Seq(Byte)) :
                /\ Frames(z) = Frames(s) \o d /\ r.out = e \o d
                /\ Clean(z) => e = <<>>
  <2>1. CASE \E k : OpensAt(s, k)
    <3>1. PICK k : OpensAt(s, k)
      BY <2>1
    <3>2. p = SubSeq(s, k, Len(s))
      BY <1>14, <3>1 DEF Carries
    <3>3. Frames(x) = Frames(s) \o <<full>>
      BY <3>1, <3>2, ClosesPacket
    <3>4. Frames(s) \in Seq(Seq(Byte))
      BY FramesType
    <3>5. Frames(z) = Frames(s) \o (<<full>> \o c)
      <4> DEFINE f == <<full>>
                 g == Frames(s)
      <4>1. f \in Seq(Seq(Byte)) /\ g \in Seq(Seq(Byte)) /\ c \in Seq(Seq(Byte))
        BY <1>7, <3>4
      <4>2. Frames(z) = (g \o f) \o c
        BY <1>9, <3>3
      <4>. HIDE DEF full, c, x, f, g
      <4>3. Regroups(g, f, c)
        BY <4>1, Regroup
      <4>. QED
        BY <4>2, <4>3 DEF Regroups, f, g
    <3>. QED
      BY <1>6, <1>7, <3>5
  <2>2. CASE \A k : ~OpensAt(s, k)
    <3>1. Apart(s, cut)
      BY <2>2, OpenIs, ApartIfClosed
    <3>2. Frames(x) = Frames(s) \o <<>>
      BY <1>10, <3>1, Join
    <3>3. Frames(z) = Frames(s) \o c
      BY <1>9, <3>2, FramesType, ConcatEmptySeq
    <3>. QED
      BY <1>6, <1>7, <1>11, <2>2, <3>3
  <2>. QED
    BY <2>1, <2>2
<1>15. ASSUME Clean(z), Short(s, p) PROVE Short(z, r.left)
  <2>1. PICK k : OpensAt(s, k)
    BY <1>11, <1>15
  <2>2. Len(p) <= Len(s) - k + 1 /\ k \in 1..Len(s)
    BY <1>15, <2>1 DEF Short, OpensAt
  <2>3. Len(s) + (m - 1) - k + 1 <= MaxFrame - 1
    <3> DEFINE pre == SubSeq(cut, 1, m - 1)
               last == SubSeq(cut, (m - 1) + 1, m)
    <3>1. m \in 1..Len(cut)
      BY <1>1
    <3>2. pre \in Seq(Byte) /\ Len(pre) = m - 1 /\ \A i \in 1..m - 1 : pre[i] = cut[i]
      BY <3>1, PrefixIs
    <3>3. /\ 1 \in 1..Len(cut) + 1 /\ m - 1 \in Int /\ 1 - 1 <= m - 1 /\ m - 1 <= Len(cut)
          /\ (m - 1) + 1 \in 1..Len(cut) + 1 /\ m \in Int /\ ((m - 1) + 1) - 1 <= m /\ m <= Len(cut)
      BY <1>1
    <3>4. last \in Seq(Byte)
      BY <3>3, PieceIs
    <3>5. cut = pre \o last
      <4>1. SubSeq(cut, 1, m) = pre \o last
        BY <3>3, CutAt
      <4>. QED
        BY <4>1, SubSeqFull
    <3>. HIDE DEF pre, last
    <3>6. x = (s \o pre) \o last
      <4>1. Regroups(s, pre, last)
        BY <3>2, <3>4, Regroup
      <4>. QED
        BY <3>5, <4>1 DEF Regroups
    <3>7. s \o pre \in Seq(Byte) /\ Len(s \o pre) = Len(s) + Len(pre)
      BY <3>2, ConcatIs
    <3>8. Legal(s \o pre)
      BY <1>3, <3>4, <3>6, <3>7, LegalPrefix
    <3>9. OpensAt(s \o pre, k)
      <4>1. \A i \in 1..Len(pre) : ~Marker(pre[i])
        BY <3>2
      <4>. QED
        BY <2>1, <3>2, <4>1, OpensJoin
    <3>10. Len(s \o pre) - k + 1 <= MaxFrame - 1
      BY <3>7, <3>8, <3>9, LegalFits
    <3>11. Len(s \o pre) = Len(s) + (m - 1)
      BY <3>2, <3>7
    <3>. QED
      BY <2>2, <3>10, <3>11
  <2>4. Len(full) <= MaxFrame
    <3>1. MaxFrame \in Nat
      BY ParseAssumption
    <3>2. /\ Len(s) \in Nat /\ m \in Nat /\ Len(p) \in Nat /\ Len(full) = Len(p) + m
          /\ k \in Nat
      BY <1>1, <2>2
    <3>. HIDE DEF m, full
    <3>. QED
      BY <2>2, <2>3, <3>1, <3>2
  <2>5. Short(z, b.left)
    <3>. HIDE DEF full, x
    <3>. QED
      BY <1>1, <1>3, <1>12, <2>4, RestIs DEF full
  <2>. QED
    BY <1>6, <2>5
<1>. QED
  BY <1>1, <1>4, <1>6, <1>7, <1>10, <1>13, <1>14, <1>15 DEF Fed, r

\* a call of process_on_buf_have_data
LEMMA FedHaveData ==
  ASSUME NEW s \in Seq(Byte), NEW buff \in Seq(Byte), Len(buff) > 0, Legal(s \o buff),
         pkt \in Seq(Byte)
  PROVE  Fed(s, pkt, buff, HaveData(buff))
<1> DEFINE n == Len(buff)
           i == FirstMarker(buff)
<1>0. n \in Nat /\ 1 \in 1..Len(buff) + 1
  <2>1. n \in Nat
    OBVIOUS
  <2>. QED
    BY <2>1
<1>1. /\ i \in 1..n + 1
      /\ \A j \in 1..i - 1 : ~Marker(buff[j])
      /\ i <= n => Marker(buff[i])
  <2>1. /\ i \in 1..n + 1
        /\ \A j \in 1..i - 1 : buff[j] \notin {SOI, EOI}
        /\ i <= n => buff[i] \in {SOI, EOI}
    BY <1>0, FindIs DEF FirstMarker
  <2>. QED
    BY <2>1 DEF Marker
<1>2. CASE i > n
  <2>1. HaveData(buff) = [out |-> <<>>, left |-> pkt \o buff]
    <3>1. i \in Int /\ n \in Int /\ i > n
      BY <1>0, <1>1, <1>2
    <3>. QED
      BY <3>1 DEF HaveData, Extend
  <2>. HIDE DEF i
  <2>2. \A j \in 1..n : ~Marker(buff[j])
    BY <1>0, <1>1, <1>2
  <2>. QED
    BY <2>1, <2>2, FedNoMarker
<1>3. CASE i <= n /\ buff[i] = SOI
  <2> DEFINE pre == SubSeq(buff, 1, i - 1)
             rest == SubSeq(buff, i, n)
  <2>1. HaveData(buff) = BufEmpty(rest, pkt)
    <3>1. i \in Int /\ n \in Int /\ i <= n /\ buff[i] = SOI
      BY <1>0, <1>1, <1>3
    <3>. QED
      BY <3>1 DEF HaveData
  <2>. HIDE DEF i
  <2>2. i \in 1..n /\ i \in 1..n + 1 /\ n \in Int /\ i - 1 <= n /\ n <= n
        /\ i - 1 \in Int /\ 1 - 1 <= i - 1 /\ (i - 1) + 1 = i /\ n - i + 1 > 0 /\ 1 \in 1..n - i + 1
    BY <1>0, <1>1, <1>3
  <2>3. pre \in Seq(Byte) /\ Len(pre) = i - 1 /\ \A j \in 1..i - 1 : pre[j] = buff[j]
    BY <2>2, PrefixIs
  <2>4. rest \in Seq(Byte) /\ Len(rest) = n - i + 1 /\ \A j \in 1..n - i + 1 : rest[j] = buff[i + j - 1]
    BY <2>2, PieceIs
  <2>5. rest[1] = SOI /\ Len(rest) > 0
    <3>1. i + 1 - 1 = i
      BY <2>2
    <3>. QED
      BY <1>3, <2>2, <2>4, <3>1
  <2>6. buff = pre \o rest
    <3>1. SubSeq(buff, 1, n) = pre \o rest
      BY <1>0, <2>2, CutAt
    <3>. QED
      BY <3>1, SubSeqFull
  <2>7. \A j \in 1..Len(pre) : ~Marker(pre[j])
    BY <1>1, <2>3
  <2>. HIDE DEF pre, rest
  <2>. QED
    BY <2>1, <2>3, <2>4, <2>5, <2>6, <2>7, FedSoi
<1>4. CASE i <= n /\ buff[i] = EOI
  <2> DEFINE cut == SubSeq(buff, 1, i)
             rest == SubSeq(buff, i + 1, n)
  <2>1. HaveData(buff) = [BufEmpty(rest, pkt \o cut) EXCEPT !.out = <<pkt \o cut>> \o @]
    <3>1. i \in Int /\ n \in Int /\ i <= n /\ buff[i] # SOI
      BY <1>0, <1>1, <1>4, ParseAssumption
    <3>. QED
      BY <3>1 DEF HaveData, Extend
  <2>. HIDE DEF i
  <2>2. i \in 1..n /\ i \in Int /\ 1 - 1 <= i /\ i <= n /\ i - 1 + 1 = i /\ i > 0
        /\ i + 1 \in 1..n + 1 /\ n \in Int /\ (i + 1) - 1 <= n /\ n <= n
    BY <1>0, <1>1, <1>4
  <2>3. cut \in Seq(Byte) /\ Len(cut) = i /\ \A j \in 1..i : cut[j] = buff[j]
    <3>1. cut \in Seq(Byte) /\ Len(cut) = i - 1 + 1 /\ \A j \in 1..i - 1 + 1 : cut[j] = buff[1 + j - 1]
      BY <1>0, <2>2, PieceIs
    <3>2. \A j \in 1..i : 1 + j - 1 = j
      BY <2>2
    <3>. QED
      BY <2>2, <3>1, <3>2
  <2>4. rest \in Seq(Byte)
    BY <2>2, PieceIs
  <2>5. buff = cut \o rest
    <3>1. SubSeq(buff, 1, n) = cut \o rest
      BY <1>0, <2>2, CutAt
    <3>. QED
      BY <3>1, SubSeqFull
  <2>6. Len(cut) > 0 /\ cut[Len(cut)] = EOI /\ \A j \in 1..Len(cut) - 1 : ~Marker(cut[j])
    <3>1. i \in 1..i /\ \A j \in 1..i - 1 : j \in 1..i
      BY <2>2
    <3>. QED
      BY <1>1, <1>4, <2>2, <2>3, <3>1
  <2>. HIDE DEF cut, rest
  <2>. QED
    <3>1. Legal(s \o (cut \o rest))
      BY <2>5
    <3>2. Fed(s, pkt, cut \o rest, [BufEmpty(rest, pkt \o cut) EXCEPT !.out = <<pkt \o cut>> \o @])
      BY <2>3, <2>4, <2>6, <3>1, FedEoi
    <3>. QED
      BY <2>1, <2>5, <3>2
<1>. QED
  BY <1>0, <1>1, <1>2, <1>3, <1>4 DEF Marker

-----------------------------------------------------------------------------
(* The packets among what is handed over. *)

Embeds(a, b) ==
  \E f \in [1..Len(a) -> 1..Len(b)] :
    /\ \A i, j \in DOMAIN f : i < j => f[i] < f[j]
    /\ \A i \in DOMAIN f : b[f[i]] = a[i]

LEMMA EmbedsMore ==
  ASSUME NEW T, NEW a \in Seq(T), NEW b \in Seq(T), NEW c \in Seq(T), NEW e \in Seq(T), Embeds(a, b)
  PROVE  Embeds(a \o c, b \o (e \o c))
<1> DEFINE u == a \o c
           v == e \o c
           w == b \o v
           la == Len(a)
           lb == Len(b)
           lc == Len(c)
           le == Len(e)
<1>1. /\ u \in Seq(T) /\ la \in Nat /\ lc \in Nat /\ Len(u) = la + lc
      /\ \A i \in 1..la : u[i] = a[i]
      /\ \A i \in 1..lc : u[la + i] = c[i]
  BY ConcatIs
<1>2. /\ v \in Seq(T) /\ le \in Nat /\ Len(v) = le + lc
      /\ \A i \in 1..lc : v[le + i] = c[i]
  BY ConcatIs
<1>2a. v \in Seq(T)
  BY <1>2
<1>. HIDE DEF u, v, la, lc, le
<1>3. /\ w \in Seq(T) /\ lb \in Nat /\ Len(w) = lb + Len(v)
      /\ \A i \in 1..lb : w[i] = b[i]
      /\ \A i \in 1..Len(v) : w[lb + i] = v[i]
  BY <1>2a, ConcatIs
<1>. HIDE DEF w, lb
<1>4. PICK f \in [1..la -> 1..lb] :
        /\ \A i, j \in 1..la : i < j => f[i] < f[j]
        /\ \A i \in 1..la : b[f[i]] = a[i]
  BY DEF Embeds, la, lb
<1> DEFINE g == [i \in 1..Len(u) |-> IF i <= la THEN f[i] ELSE lb + (le + (i - la))]
<1>5. /\ \A i \in 1..la : i \in 1..Len(u) /\ g[i] = f[i] /\ f[i] \in 1..lb
      /\ \A i \in 1..Len(u) : i \notin 1..la => i - la \in 1..lc /\ g[i] = lb + (le + (i - la))
  <2>1. \A i \in 1..la : i \in 1..Len(u) /\ i <= la
    BY <1>1
  <2>2. \A i \in 1..Len(u) : i \notin 1..la => i - la \in 1..lc /\ ~(i <= la)
    BY <1>1
  <2>. QED
    BY <1>4, <2>1, <2>2
<1>6. \A i \in 1..Len(u) : g[i] \in 1..Len(w) /\ w[g[i]] = u[i]
  <2>1. SUFFICES ASSUME NEW i \in 1..Len(u) PROVE g[i] \in 1..Len(w) /\ w[g[i]] = u[i]
    OBVIOUS
  <2>. HIDE DEF g
  <2>2. CASE i \in 1..la
    <3>1. g[i] = f[i] /\ f[i] \in 1..lb
      BY <1>5, <2>2
    <3>2. g[i] \in 1..Len(w)
      <4>1. lb \in Nat /\ Len(w) \in Nat /\ lb <= Len(w)
        BY <1>2, <1>3
      <4>. QED
        BY <3>1, <4>1
    <3>3. w[g[i]] = b[f[i]]
      BY <1>3, <3>1
    <3>. QED
      BY <1>1, <1>4, <2>2, <3>2, <3>3
  <2>3. CASE i \notin 1..la
    <3>1. i - la \in 1..lc /\ g[i] = lb + (le + (i - la)) /\ la + (i - la) = i
      BY <1>1, <1>5, <2>3
    <3>2. le + (i - la) \in 1..Len(v)
      BY <1>1, <1>2, <3>1
    <3>3. g[i] \in 1..Len(w)
      BY <1>1, <1>2, <1>3, <3>1, <3>2
    <3>4. w[g[i]] = v[le + (i - la)]
      BY <1>3, <3>1, <3>2
    <3>5. v[le + (i - la)] = c[i - la] /\ u[i] = c[i - la]
      BY <1>1, <1>2, <3>1
    <3>. QED
      BY <3>3, <3>4, <3>5
  <2>. QED
    BY <2>2, <2>3
<1>7. \A i, j \in 1..Len(u) : i < j => g[i] < g[j]
  <2>1. SUFFICES ASSUME NEW i \in 1..Len(u), NEW j \in 1..Len(u), i < j PROVE g[i] < g[j]
    OBVIOUS
  <2>. HIDE DEF g
  <2>2. CASE j \in 1..la
    <3>1. i \in 1..la
      BY <1>1, <2>1, <2>2
    <3>2. f[i] < f[j]
      BY <1>4, <2>1, <2>2, <3>1
    <3>3. g[i] = f[i] /\ g[j] = f[j]
      BY <1>5, <2>2, <3>1
    <3>. QED
      BY <3>2, <3>3
  <2>3. CASE i \in 1..la /\ j \notin 1..la
    <3>1. g[i] \in 1..lb /\ j - la \in 1..lc /\ g[j] = lb + (le + (j - la))
      BY <1>5, <2>3
    <3>2. lb \in Nat /\ le \in Nat /\ lc \in Nat
      BY <1>1, <1>2, <1>3
    <3>. HIDE DEF lb, le, lc
    <3> DEFINE d == j - la
    <3>3. d \in 1..lc /\ g[j] = lb + (le + d)
      BY <3>1
    <3>. HIDE DEF d
    <3>. QED
      BY <3>1, <3>2, <3>3
  <2>4. CASE i \notin 1..la /\ j \notin 1..la
    <3>1. /\ g[i] = lb + (le + (i - la)) /\ g[j] = lb + (le + (j - la))
      BY <1>5, <2>4
    <3>2. /\ lb \in Nat /\ le \in Nat /\ la \in Nat
          /\ i \in Nat /\ j \in Nat /\ i < j
      BY <1>1, <1>2, <1>3, <2>1
    <3>3. lb + (le + (i - la)) < lb + (le + (j - la))
      BY <3>2
    <3>. QED
      BY <3>1, <3>3
  <2>. QED
    BY <2>2, <2>3, <2>4
<1>8. g \in [1..Len(u) -> 1..Len(w)] /\ DOMAIN g = 1..Len(u)
  BY <1>6
<1>. HIDE DEF g
<1>9. Embeds(u, w)
  BY <1>6, <1>7, <1>8 DEF Embeds
<1>. QED
  BY <1>9 DEF u, v, w

LEMMA SuffixIs ==
  ASSUME NEW T, NEW e \in Seq(T), NEW c \in Seq(T)
  PROVE  IsSuffix(c, e \o c)
<1> DEFINE z == e \o c
           u == Reverse(c)
           v == Reverse(z)
           n == Len(c)
           m == Len(z)
<1>1. /\ z \in Seq(T) /\ n \in Nat /\ Len(e) \in Nat /\ m = Len(e) + n
      /\ \A i \in 1..n : z[Len(e) + i] = c[i]
  BY ConcatIs
<1>. HIDE DEF z, n, m
<1>2. u \in Seq(T) /\ Len(u) = n /\ \A i \in 1..n : u[i] = c[n - i + 1]
  <2>0. n \in Nat
    BY <1>1
  <2>1. u = [i \in 1..n |-> c[(n - i) + 1]]
    BY DEF Reverse, n
  <2>. HIDE DEF u
  <2>2. \A i \in 1..n : (n - i) + 1 \in 1..n
    BY <2>0
  <2>3. \A i \in 1..n : c[(n - i) + 1] \in T
    BY <2>2, ElementOfSeq DEF n
  <2>. QED
    BY <2>0, <2>1, <2>3
<1>3. v \in Seq(T) /\ Len(v) = m /\ \A i \in 1..m : v[i] = z[m - i + 1]
  <2>0. m \in Nat
    BY <1>1
  <2>1. v = [i \in 1..m |-> z[(m - i) + 1]]
    BY DEF Reverse, m
  <2>. HIDE DEF v
  <2>2. \A i \in 1..m : (m - i) + 1 \in 1..m
    BY <2>0
  <2>3. \A i \in 1..m : z[(m - i) + 1] \in T
    BY <1>1, <2>2, ElementOfSeq DEF m
  <2>. QED
    BY <2>0, <2>1, <2>3
<1>. HIDE DEF u, v
<1>4. /\ 1 \in 1..Len(u) + 1 /\ n \in Int /\ 1 - 1 <= n /\ n <= Len(u) /\ n - 1 + 1 = n
      /\ 1 \in 1..Len(v) + 1 /\ n <= Len(v)
  BY <1>1, <1>2, <1>3
<1> DEFINE a == SubSeq(u, 1, n)
           b == SubSeq(v, 1, n)
<1>5. a \in Seq(T) /\ Len(a) = n - 1 + 1 /\ \A i \in 1..n - 1 + 1 : a[i] = u[1 + i - 1]
  BY <1>2, <1>4, PieceIs
<1>6. b \in Seq(T) /\ Len(b) = n - 1 + 1 /\ \A i \in 1..n - 1 + 1 : b[i] = v[1 + i - 1]
  BY <1>3, <1>4, PieceIs
<1>. HIDE DEF a, b
<1>7. \A i \in 1..n : u[i] = v[i]
  <2>1. SUFFICES ASSUME NEW i \in 1..n PROVE u[i] = v[i]
    OBVIOUS
  <2>2. i \in 1..m /\ n - i + 1 \in 1..n /\ Len(e) + (n - i + 1) = m - i + 1
    BY <1>1
  <2>. QED
    BY <1>1, <1>2, <1>3, <2>2
<1>8. \A i \in 1..n : a[i] = b[i]
  <2>1. \A i \in 1..n : i \in 1..n - 1 + 1 /\ 1 + i - 1 = i
    BY <1>1
  <2>. QED
    BY <1>5, <1>6, <1>7, <2>1
<1>9. a = b
  BY <1>4, <1>5, <1>6, <1>8, SeqEqual
<1>10. IsPrefix(u, v)
  BY <1>2, <1>4, <1>9 DEF IsPrefix, a, b
<1>. QED
  BY <1>10 DEF IsSuffix, u, v, z

LEMMA NewIs ==
  ASSUME NEW T, NEW x \in Seq(T), NEW y \in Seq(T)
  PROVE  SubSeq(x \o y, Len(x) + 1, Len(x \o y)) = y
<1>1. Len(x \o y) = Len(x) + Len(y) /\ Len(y) \in Nat
  BY ConcatIs
<1>2. 1 \in 1..Len(y) + 1 /\ Len(y) \in Int /\ 1 - 1 <= Len(y) /\ Len(y) <= Len(y)
  BY <1>1
<1>3. SubSeq(x \o y, Len(x) + 1, Len(x) + Len(y)) = SubSeq(y, 1, Len(y))
  BY <1>2, PieceOfRight
<1>. QED
  BY <1>1, <1>3, SubSeqFull

LEMMA CleanPrefix ==
  ASSUME NEW x \in Seq(Byte), NEW y \in Seq(Byte), Clean(x \o y)
  PROVE  Clean(x)
<1> DEFINE z == x \o y
<1>1. /\ z \in Seq(Byte) /\ Len(x) \in Nat /\ Len(y) \in Nat /\ Len(z) = Len(x) + Len(y)
      /\ \A i \in 1..Len(x) : z[i] = x[i]
  BY ConcatIs
<1>2. SUFFICES ASSUME NEW i \in 1..Len(x) PROVE x[i] = SOI \/ Open(SubSeq(x, 1, i - 1))
  BY DEF Clean
<1>3. i \in 1..Len(z) /\ 1 \in 1..Len(x) + 1 /\ i - 1 \in Int /\ 1 - 1 <= i - 1 /\ i - 1 <= Len(x)
  BY <1>1, <1>2
<1>4. SubSeq(z, 1, i - 1) = SubSeq(x, 1, i - 1)
  BY <1>3, PieceOfLeft
<1>5. z[i] = SOI \/ Open(SubSeq(z, 1, i - 1))
  BY <1>3 DEF Clean
<1>. QED
  BY <1>1, <1>2, <1>4, <1>5

-----------------------------------------------------------------------------
(* The invariant. *)

ParseInv ==
  /\ ParseTypeOK
  /\ Legal(stream)
  /\ strayed = "no" => Carries(stream, pkt)
  /\ strayed # "wild" /\ Clean(stream) => Short(stream, pkt)
  /\ PacketsExact
  /\ PacketsNotLost

LEMMA ParseInit_Inv ==
  ParseInit => ParseInv
<1>1. SUFFICES ASSUME ParseInit PROVE ParseInv
  OBVIOUS
<1>2. pkt = <<>> /\ got = <<>> /\ stream = <<>> /\ strayed = "no"
  BY <1>1 DEF ParseInit
<1>3. <<>> \in Seq(Byte) /\ <<>> \in Seq(Seq(Byte)) /\ Len(<<>>) = 0
  BY EmptySeq
<1>4. 1..0 = {}
  OBVIOUS
<1>5. MaxStream \in Nat /\ MaxFrame \in Nat
  BY ParseAssumption
<1>6. ParseTypeOK
  BY <1>2, <1>3, <1>5 DEF ParseTypeOK
<1>7. Legal(stream) /\ \A k : ~OpensAt(stream, k)
  BY <1>2, <1>3, <1>4 DEF Legal, OpensAt
<1>8. Frames(stream) = <<>>
  <2>1. \A b, e : ~IsPacket(<<>>, b, e)
    BY <1>3, <1>4 DEF IsPacket
  <2>. QED
    BY <1>2, <1>3, <2>1, FramesNone
<1>9. PacketsExact
  BY <1>2, <1>8 DEF PacketsExact
<1>10. PacketsNotLost
  <2> DEFINE f == [i \in {} |-> 1]
  <2>1. f \in [1..Len(Frames(stream)) -> 1..Len(got)] /\ DOMAIN f = {}
    BY <1>3, <1>4, <1>8
  <2>. QED
    BY <2>1 DEF PacketsNotLost
<1>11. Carries(stream, pkt) /\ Short(stream, pkt)
  BY <1>2, <1>3, <1>5, <1>7 DEF Carries, Short
<1>. QED
  BY <1>6, <1>7, <1>9, <1>10, <1>11 DEF ParseInv

\* both kinds of a call: what is handed over, and what it leaves
LEMMA CallIs ==
  ASSUME ParseInv, NEW buff \in Chunks, parse_pkt(buff)
  PROVE  /\ strayed # "wild" /\ strayed' = strayed /\ stream' = stream \o buff
         /\ \E r : Fed(stream, pkt, buff, r) /\ pkt' = r.left /\ got' = got \o r.out
<1>1. pkt \in Seq(Byte) /\ stream \in Seq(Byte) /\ Len(stream) <= MaxStream /\ Legal(stream)
  BY DEF ParseInv, ParseTypeOK
<1>2. buff \in Seq(Byte) /\ Len(buff) > 0 /\ Legal(stream \o buff)
  BY <1>1, ChunkIs
<1>3. strayed # "wild" /\ strayed' = strayed
  BY DEF parse_pkt
<1>4. CASE pkt = <<>>
  <2>1. Deliver(buff, BufEmpty(buff, pkt))
    BY <1>4 DEF parse_pkt
  <2>2. Fed(stream, pkt, buff, BufEmpty(buff, pkt))
    BY <1>1, <1>2, <1>4, FedEmpty
  <2>. QED
    BY <1>3, <2>1, <2>2 DEF Deliver
<1>5. CASE pkt # <<>>
  <2>1. Deliver(buff, HaveData(buff))
    BY <1>5 DEF parse_pkt
  <2>2. Fed(stream, pkt, buff, HaveData(buff))
    BY <1>1, <1>2, FedHaveData
  <2>. QED
    BY <1>3, <2>1, <2>2 DEF Deliver
<1>. QED
  BY <1>4, <1>5

LEMMA StrayIs ==
  ASSUME ParseInv, NEW buff \in Chunks, ParseStray(buff)
  PROVE  /\ strayed # "wild" /\ strayed' \in {"yes", "wild"} /\ stream' = stream \o buff
         /\ pkt' \in Seq(Byte) /\ \E e \in Seq(Seq(Byte)) : got' = got \o e
         /\ \A i \in 1..Len(buff) : ~Marker(buff[i])
         /\ strayed' = "yes" => pkt' = pkt
<1>1. pkt \in Seq(Byte) /\ stream \in Seq(Byte) /\ Len(stream) <= MaxStream /\ Legal(stream)
  BY DEF ParseInv, ParseTypeOK
<1>2. buff \in Seq(Byte) /\ Len(buff) \in Nat /\ Len(buff) > 0
  BY <1>1, ChunkIs
<1> DEFINE full == Extend(buff) \o <<EOI>>
<1>3. full \in Seq(Byte)
  <2>1. <<EOI>> \in Seq(Byte)
    BY DEF Byte
  <2>2. pkt \o buff \in Seq(Byte)
    BY <1>1, <1>2
  <2>. QED
    BY <2>1, <2>2 DEF Extend
<1>4. \A i \in 1..Len(buff) : ~Marker(buff[i])
  <2>1. FirstMarker(buff) > Len(buff)
    BY DEF ParseStray
  <2>2. 1 \in 1..Len(buff) + 1
    BY <1>2
  <2>3. /\ FirstMarker(buff) \in 1..Len(buff) + 1
        /\ \A j \in 1..FirstMarker(buff) - 1 : buff[j] \notin {SOI, EOI}
    BY <1>2, <2>2, FindIs DEF FirstMarker
  <2>4. \A i \in 1..Len(buff) : i \in 1..FirstMarker(buff) - 1
    BY <1>2, <2>1, <2>3
  <2>. QED
    BY <2>3, <2>4 DEF Marker
<1>5. CASE Deliver(buff, [out |-> <<>>, left |-> pkt]) /\ strayed' = "yes"
  <2>1. pkt' = pkt /\ got' = got \o <<>> /\ stream' = stream \o buff
    BY <1>5 DEF Deliver
  <2>2. <<>> \in Seq(Seq(Byte))
    BY EmptySeq
  <2>3. strayed # "wild"
    BY DEF ParseStray
  <2>4. \E e \in Seq(Seq(Byte)) : got' = got \o e
    BY <2>1, <2>2
  <2>. QED
    BY <1>1, <1>4, <1>5, <2>1, <2>3, <2>4
<1>6. CASE Deliver(buff, [out |-> <<full>>, left |-> full]) /\ strayed' = "wild"
  <2>. HIDE DEF full
  <2>1. pkt' = full /\ got' = got \o <<full>> /\ stream' = stream \o buff
    BY <1>6 DEF Deliver
  <2>2. <<full>> \in Seq(Seq(Byte))
    BY <1>3
  <2>3. strayed # "wild"
    BY DEF ParseStray
  <2>4. \E e \in Seq(Seq(Byte)) : got' = got \o e
    BY <2>1, <2>2
  <2>. QED
    BY <1>3, <1>4, <1>6, <2>1, <2>3, <2>4
<1>. QED
  BY <1>5, <1>6 DEF ParseStray

LEMMA ParseNext_Inv ==
  ASSUME ParseInv, ParseNext
  PROVE  ParseInv'
<1>1. PICK buff \in Chunks : parse_pkt(buff) \/ ParseStray(buff)
  BY DEF ParseNext
<1> DEFINE z == stream \o buff
<1>2. /\ pkt \in Seq(Byte) /\ got \in Seq(Seq(Byte)) /\ stream \in Seq(Byte)
      /\ Len(stream) <= MaxStream /\ Legal(stream) /\ strayed \in {"no", "yes", "wild"}
  BY DEF ParseInv, ParseTypeOK
<1>3. /\ buff \in Seq(Byte) /\ Len(buff) \in Nat /\ Len(buff) > 0
      /\ z \in Seq(Byte) /\ Len(z) <= MaxStream /\ Legal(z)
  BY <1>2, ChunkIs
<1>4. Clean(z) => Clean(stream)
  BY <1>2, <1>3, CleanPrefix
<1>5. CASE parse_pkt(buff)
  <2>1. strayed # "wild" /\ strayed' = strayed /\ stream' = z
    BY <1>5, CallIs
  <2>2. PICK r : Fed(stream, pkt, buff, r) /\ pkt' = r.left /\ got' = got \o r.out
    BY <1>5, CallIs
  <2>3. r.out \in Seq(Seq(Byte)) /\ r.left \in Seq(Byte)
    BY <2>2 DEF Fed
  <2>4. ParseTypeOK'
    <3>1. got' \in Seq(Seq(Byte))
      BY <1>2, <2>2, <2>3, ConcatIs
    <3>. QED
      BY <1>2, <1>3, <2>1, <2>2, <2>3, <3>1 DEF ParseTypeOK
  <2>5. Legal(stream)'
    BY <1>3, <2>1
  <2>6. strayed = "no" => Carries(z, r.left)
    BY <2>2 DEF Fed, ParseInv
  <2>7. Clean(z) => Short(z, r.left)
    BY <1>4, <2>1, <2>2 DEF Fed, ParseInv
  <2>8. ASSUME strayed = "no"
        PROVE  (Clean(z) => got' = Frames(z)) /\ Embeds(Frames(z), got')
    <3>1. PICK e \in Seq(Seq(Byte)), c \in Seq(Seq(Byte)) :
            /\ Frames(z) = Frames(stream) \o c /\ r.out = e \o c
            /\ Clean(z) => e = <<>>
      BY <2>2, <2>8 DEF Fed, ParseInv
    <3>2. Frames(stream) \in Seq(Seq(Byte))
      BY <1>2, FramesType
    <3>3. ASSUME Clean(z) PROVE got' = Frames(z)
      <4>1. got = Frames(stream)
        BY <1>4, <2>8, <3>3 DEF ParseInv, PacketsExact
      <4>2. r.out = c
        BY <3>1, <3>3, ConcatEmptySeq
      <4>. QED
        BY <2>2, <3>1, <4>1, <4>2
    <3>4. Embeds(Frames(stream), got)
      BY <2>8 DEF ParseInv, PacketsNotLost, Embeds
    <3>5. Embeds(Frames(stream) \o c, got \o (e \o c))
      BY <1>2, <3>2, <3>4, EmbedsMore
    <3>6. Embeds(Frames(z), got')
      BY <2>2, <3>1, <3>5
    <3>. QED
      BY <3>3, <3>6
  <2>9. PacketsExact' /\ PacketsNotLost'
    <3>1. strayed' = "no" => (Clean(stream') => got' = Frames(stream')) /\ Embeds(Frames(stream'), got')
      BY <2>1, <2>8
    <3>2. PacketsExact'
      BY <3>1 DEF PacketsExact
    <3>3. PacketsNotLost'
      BY <3>1 DEF PacketsNotLost, Embeds
    <3>. QED
      BY <3>2, <3>3
  <2>10. (strayed = "no" => Carries(stream, pkt))'
    BY <2>1, <2>2, <2>6
  <2>11. (strayed # "wild" /\ Clean(stream) => Short(stream, pkt))'
    BY <2>1, <2>2, <2>7
  <2>. QED
    BY <2>4, <2>5, <2>9, <2>10, <2>11 DEF ParseInv
<1>6. CASE ParseStray(buff)
  <2>1. /\ strayed # "wild" /\ strayed' \in {"yes", "wild"} /\ stream' = z
        /\ pkt' \in Seq(Byte) /\ \E e \in Seq(Seq(Byte)) : got' = got \o e
        /\ \A i \in 1..Len(buff) : ~Marker(buff[i])
        /\ strayed' = "yes" => pkt' = pkt
    BY <1>6, StrayIs
  <2>2. ParseTypeOK'
    <3>1. got' \in Seq(Seq(Byte))
      BY <1>2, <2>1, ConcatIs
    <3>. QED
      BY <1>3, <2>1, <3>1 DEF ParseTypeOK
  <2>3. Legal(stream)'
    BY <1>3, <2>1
  <2>4. strayed' # "no"
    BY <2>1
  <2>5. ASSUME strayed' = "yes", Clean(z) PROVE Short(z, pkt')
    <3>1. Short(stream, pkt) /\ pkt' = pkt
      BY <1>4, <2>1, <2>5 DEF ParseInv
    <3>2. SUFFICES ASSUME NEW k, OpensAt(z, k) PROVE Len(pkt) <= Len(z) - k + 1
      BY <3>1 DEF Short
    <3>3. OpensAt(stream, k)
      <4>1. ASSUME k - Len(stream) \in 1..Len(buff), OpensAt(buff, k - Len(stream)) PROVE FALSE
        BY <2>1, <4>1 DEF OpensAt, Marker
      <4>. QED
        BY <1>2, <1>3, <3>2, <4>1, OpensJoin
    <3>4. Len(pkt) <= Len(stream) - k + 1
      BY <3>1, <3>3 DEF Short
    <3>5. /\ Len(pkt) \in Nat /\ Len(stream) \in Nat /\ Len(z) = Len(stream) + Len(buff)
          /\ k \in 1..Len(stream)
      BY <1>2, <1>3, <3>3, ConcatIs DEF OpensAt
    <3>. HIDE DEF z
    <3>. QED
      BY <1>3, <3>4, <3>5
  <2>6. (strayed = "no" => Carries(stream, pkt))' /\ PacketsExact' /\ PacketsNotLost'
    BY <2>4 DEF PacketsExact, PacketsNotLost
  <2>7. (strayed # "wild" /\ Clean(stream) => Short(stream, pkt))'
    BY <2>1, <2>5
  <2>. QED
    BY <2>2, <2>3, <2>6, <2>7 DEF ParseInv
<1>. QED
  BY <1>1, <1>5, <1>6

LEMMA ParseStutter_Inv ==
  ASSUME ParseInv, UNCHANGED parseVars
  PROVE  ParseInv'
<1>1. pkt' = pkt /\ got' = got /\ stream' = stream /\ strayed' = strayed
  BY DEF parseVars
<1>2. ParseTypeOK' /\ PacketsExact' /\ PacketsNotLost'
  BY <1>1 DEF ParseInv, ParseTypeOK, PacketsExact, PacketsNotLost
<1>3. Legal(stream)' /\ (strayed = "no" => Carries(stream, pkt))'
      /\ (strayed # "wild" /\ Clean(stream) => Short(stream, pkt))'
  BY <1>1 DEF ParseInv
<1>. QED
  BY <1>2, <1>3 DEF ParseInv

THEOREM ParseInvariant == ParseSpec => []ParseInv
<1>1. ParseInit => ParseInv
  BY ParseInit_Inv
<1>2. ParseInv /\ [ParseNext]_parseVars => ParseInv'
  BY ParseNext_Inv, ParseStutter_Inv
<1>. QED
  BY <1>1, <1>2, PTL DEF ParseSpec

\* The variables of the parser keep their types.
THEOREM ParseTypeCorrect == ParseSpec => []ParseTypeOK
<1>1. ParseInv => ParseTypeOK
  BY DEF ParseInv
<1>. QED
  BY <1>1, ParseInvariant, PTL

\* However a stream without noise is cut, recv_cb gets exactly its packets
\* (parse_pkt and the two functions it chooses from).
THEOREM PacketsAreExact == ParseSpec => []PacketsExact
<1>1. ParseInv => PacketsExact
  BY DEF ParseInv
<1>. QED
  BY <1>1, ParseInvariant, PTL

\* With noise between the packets recv_cb still gets all of them, in order.
THEOREM PacketsAreNotLost == ParseSpec => []PacketsNotLost
<1>1. ParseInv => PacketsNotLost
  BY DEF ParseInv
<1>. QED
  BY <1>1, ParseInvariant, PTL

\* What is carried from chunk to chunk is never longer than a packet: pkt.data
\* does not overflow.
THEOREM CarryAlwaysFits == ParseSpec => []CarryFits
<1>1. ParseInv => CarryFits
  BY DEF ParseInv, CarryFits, Short
<1>. QED
  BY <1>1, ParseInvariant, PTL

\* A packet within a chunk is handed over by the call that gets the chunk.
THEOREM DeliveryIsPrompt == ParseSpec => PromptDelivery
<1> DEFINE new(s, t) == SubSeq(t, Len(s) + 1, Len(t))
<1>1. ASSUME ParseInv, ParseNext
      PROVE  IsSuffix(Frames(new(stream, stream')), new(got, got'))
  <2>1. PICK buff \in Chunks : parse_pkt(buff) \/ ParseStray(buff)
    BY <1>1 DEF ParseNext
  <2>2. got \in Seq(Seq(Byte)) /\ stream \in Seq(Byte) /\ Len(stream) <= MaxStream /\ Legal(stream)
    BY <1>1 DEF ParseInv, ParseTypeOK
  <2>3. buff \in Seq(Byte)
    BY <2>2, ChunkIs
  <2>4. \E e \in Seq(Seq(Byte)) : got' = got \o (e \o Frames(buff)) /\ stream' = stream \o buff
    <3>1. CASE parse_pkt(buff)
      <4>1. PICK r : Fed(stream, pkt, buff, r) /\ got' = got \o r.out
        BY <1>1, <3>1, CallIs
      <4>2. PICK e \in Seq(Seq(Byte)) : r.out = e \o Frames(buff)
        BY <4>1 DEF Fed
      <4>3. stream' = stream \o buff
        BY <1>1, <3>1, CallIs
      <4>. QED
        BY <4>1, <4>2, <4>3
    <3>2. CASE ParseStray(buff)
      <4>1. PICK e \in Seq(Seq(Byte)) : got' = got \o e
        BY <1>1, <3>2, StrayIs
      <4>2. stream' = stream \o buff /\ \A i \in 1..Len(buff) : ~Marker(buff[i])
        BY <1>1, <3>2, StrayIs
      <4>3. Frames(buff) = <<>>
        <5>1. \A i \in 1..Len(buff) : buff[i] # EOI
          BY <4>2 DEF Marker
        <5>. QED
          BY <2>2, <2>3, <5>1, ApartNoEoi
      <4>4. e \o Frames(buff) = e
        BY <4>1, <4>3, ConcatEmptySeq
      <4>. QED
        BY <4>1, <4>2, <4>4
    <3>. QED
      BY <2>1, <3>1, <3>2
  <2>5. PICK e \in Seq(Seq(Byte)) : got' = got \o (e \o Frames(buff)) /\ stream' = stream \o buff
    BY <2>4
  <2>6. Frames(buff) \in Seq(Seq(Byte))
    BY <2>3, FramesType
  <2>7. new(stream, stream') = buff
    BY <2>2, <2>3, <2>5, NewIs
  <2>8. new(got, got') = e \o Frames(buff)
    <3> DEFINE d == e \o Frames(buff)
    <3>1. d \in Seq(Seq(Byte))
      BY <2>5, <2>6, ConcatIs
    <3>2. got' = got \o d
      BY <2>5
    <3>. HIDE DEF d
    <3>3. SubSeq(got \o d, Len(got) + 1, Len(got \o d)) = d
      BY <2>2, <3>1, NewIs
    <3>. QED
      BY <3>2, <3>3 DEF d
  <2>9. IsSuffix(Frames(buff), e \o Frames(buff))
    BY <2>5, <2>6, SuffixIs
  <2>. QED
    BY <2>7, <2>8, <2>9
<1>2. ParseInv /\ [ParseNext]_parseVars
        => [IsSuffix(Frames(new(stream, stream')), new(got, got'))]_parseVars
  BY <1>1
<1>. QED
  BY <1>2, ParseInvariant, PTL DEF ParseSpec, PromptDelivery
=============================================================================
