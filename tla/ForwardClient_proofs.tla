------------------------- MODULE ForwardClient_proofs -------------------------
(***************************************************************************)
(* Proofs about ForwardClient, for any kinds of reports, any addresses,    *)
(* any number of lines typed and any way the stream is cut into chunks.    *)
(***************************************************************************)
EXTENDS ForwardClient, ParsePkt_proofs

-----------------------------------------------------------------------------
(* The last address that a sequence of packets brings. *)

\* x is the address the first m packets of q leave behind when a was there before
LatestIn(x, a, q, m) ==
  \/ x = a /\ \A k \in 1..m : q[k][2] \notin Addressing
  \/ \E k \in 1..m : /\ q[k][2] \in Addressing /\ x = q[k][3]
                     /\ \A j \in k + 1..m : q[j][2] \notin Addressing

LEMMA LatestStep ==
  ASSUME NEW x, NEW a, NEW q, NEW m \in Nat, LatestIn(x, a, q, m)
  PROVE  LatestIn(Keeps(x, q[m + 1]), a, q, m + 1)
<1>1. m + 1 \in 1..m + 1 /\ \A k \in 1..m + 1 : k \in 1..m \/ k = m + 1
  OBVIOUS
<1>2. CASE q[m + 1][2] \in Addressing
  <2>1. Keeps(x, q[m + 1]) = q[m + 1][3]
    BY <1>2 DEF Keeps
  <2>2. (m + 1) + 1..m + 1 = {}
    OBVIOUS
  <2>. QED
    BY <1>1, <1>2, <2>1, <2>2 DEF LatestIn
<1>3. CASE q[m + 1][2] \notin Addressing
  <2>1. Keeps(x, q[m + 1]) = x
    BY <1>3 DEF Keeps
  <2>2. CASE x = a /\ \A k \in 1..m : q[k][2] \notin Addressing
    BY <1>1, <1>3, <2>1, <2>2 DEF LatestIn
  <2>3. CASE \E k \in 1..m : /\ q[k][2] \in Addressing /\ x = q[k][3]
                             /\ \A j \in k + 1..m : q[j][2] \notin Addressing
    <3>1. PICK k \in 1..m : /\ q[k][2] \in Addressing /\ x = q[k][3]
                            /\ \A j \in k + 1..m : q[j][2] \notin Addressing
      BY <2>3
    <3>2. k \in 1..m + 1 /\ \A j \in k + 1..m + 1 : j \in k + 1..m \/ j = m + 1
      OBVIOUS
    <3>3. \A j \in k + 1..m + 1 : q[j][2] \notin Addressing
      BY <1>3, <3>1, <3>2
    <3>. QED
      BY <2>1, <3>1, <3>2, <3>3 DEF LatestIn
  <2>. QED
    BY <2>2, <2>3 DEF LatestIn
<1>. QED
  BY <1>2, <1>3

LEMMA LatestOnce ==
  ASSUME NEW x, NEW y, NEW a, NEW q, NEW m \in Nat, LatestIn(x, a, q, m), LatestIn(y, a, q, m)
  PROVE  x = y
<1>1. CASE \A k \in 1..m : q[k][2] \notin Addressing
  BY <1>1 DEF LatestIn
<1>2. CASE ~ \A k \in 1..m : q[k][2] \notin Addressing
  <2>1. PICK k \in 1..m : /\ q[k][2] \in Addressing /\ x = q[k][3]
                          /\ \A j \in k + 1..m : q[j][2] \notin Addressing
    BY <1>2 DEF LatestIn
  <2>2. PICK l \in 1..m : /\ q[l][2] \in Addressing /\ y = q[l][3]
                          /\ \A j \in l + 1..m : q[j][2] \notin Addressing
    BY <1>2 DEF LatestIn
  <2>3. ~(l \in k + 1..m) /\ ~(k \in l + 1..m)
    BY <2>1, <2>2
  <2>4. k = l
    BY <2>3
  <2>. QED
    BY <2>1, <2>2, <2>4
<1>. QED
  BY <1>1, <1>2

\* the recursion of Kept is over the naturals
LEMMA KeptRuns ==
  ASSUME NEW a, NEW q, Len(q) \in Nat
  PROVE  \E f : /\ f = [i \in 0..Len(q) |-> IF i = 0 THEN a ELSE Keeps(f[i - 1], q[i])]
                /\ Kept(a, q) = f[Len(q)]
<1> DEFINE n == Len(q)
           D == 0..n
           Value(g, i) == IF i = 0 THEN a ELSE Keeps(g[i - 1], q[i])
           Solves(g, k) == /\ g = [j \in D |-> g[j]]
                           /\ \A j \in D : j <= k => g[j] = Value(g, j)
           Bad == {k \in D : ~ \E g : Solves(g, k)}
<1>1. 0 \notin Bad
  <2> DEFINE g == [j \in D |-> a]
  <2>1. g = [j \in D |-> g[j]] /\ \A j \in D : g[j] = a
    OBVIOUS
  <2>. HIDE DEF g
  <2>2. \A j \in D : j <= 0 => j = 0
    OBVIOUS
  <2>3. Solves(g, 0)
    BY <2>1, <2>2
  <2>. QED
    BY <2>3
<1>2. ASSUME NEW k \in Nat, k + 1 \in D, NEW g, Solves(g, k)
      PROVE  \E h : Solves(h, k + 1)
  <2> DEFINE v == Keeps(g[k], q[k + 1])
             h == [j \in D |-> IF j = k + 1 THEN v ELSE g[j]]
  <2>1. h = [j \in D |-> h[j]] /\ h[k + 1] = v /\ \A j \in D : j # k + 1 => h[j] = g[j]
    BY <1>2
  <2>2. v = Value(h, k + 1)
    <3>1. k \in D /\ k # k + 1 /\ (k + 1) - 1 = k /\ k + 1 # 0
      BY <1>2
    <3>2. h[k] = g[k]
      BY <2>1, <3>1
    <3>. HIDE DEF h
    <3>. QED
      BY <3>1, <3>2
  <2>. HIDE DEF h, v
  <2>3. ASSUME NEW j \in D, j <= k + 1 PROVE h[j] = Value(h, j)
    <3>1. CASE j = k + 1
      BY <2>1, <2>2, <3>1
    <3>2. CASE j # k + 1
      <4>1. j <= k /\ (j # 0 => j - 1 \in D /\ j - 1 # k + 1)
        BY <1>2, <2>3, <3>2
      <4>2. g[j] = Value(g, j)
        BY <1>2, <4>1
      <4>3. j # 0 => h[j - 1] = g[j - 1]
        BY <2>1, <4>1
      <4>. QED
        BY <2>1, <3>2, <4>2, <4>3
    <3>. QED
      BY <3>1, <3>2
  <2>4. Solves(h, k + 1)
    BY <2>1, <2>3
  <2>. QED
    BY <2>4
<1>3. Bad = {}
  <2>1. SUFFICES ASSUME Bad # {} PROVE FALSE
    OBVIOUS
  <2>2. PICK k \in Bad : \A l \in Bad : k <= l
    <3>1. Bad \in SUBSET Nat
      OBVIOUS
    <3>. HIDE DEF Bad
    <3>. QED
      BY <2>1, <3>1, LeastNat
  <2>3. k \in 0..n /\ k # 0
    BY <1>1
  <2>4. k - 1 \in Nat /\ k - 1 \in D /\ ~(k <= k - 1) /\ (k - 1) + 1 = k /\ (k - 1) + 1 \in D
    BY <2>3
  <2>5. k - 1 \notin Bad
    BY <2>2, <2>4
  <2>6. \E g : Solves(g, k - 1)
    BY <2>4, <2>5
  <2>. HIDE DEF Solves
  <2>7. \E h : Solves(h, (k - 1) + 1)
    BY <1>2, <2>4, <2>6
  <2>. QED
    BY <2>4, <2>7
<1>4. PICK g : g = [j \in D |-> Value(g, j)]
  <2>1. n \in D
    OBVIOUS
  <2>2. PICK g : Solves(g, n)
    BY <1>3, <2>1
  <2>3. \A j \in D : g[j] = Value(g, j)
    <3>1. \A j \in D : j <= n
      OBVIOUS
    <3>. QED
      BY <2>2, <3>1
  <2>4. g = [j \in D |-> Value(g, j)]
    BY <2>2, <2>3
  <2>. QED
    BY <2>4
<1> DEFINE f == CHOOSE f : f = [i \in D |-> Value(f, i)]
<1>5. f = [i \in D |-> Value(f, i)]
  BY <1>4
<1>6. Kept(a, q) = f[n]
  BY DEF Kept
<1>. QED
  BY <1>5, <1>6

\* on_received_pkt, called for the packets of q one by one
LEMMA KeptLatest ==
  ASSUME NEW a, NEW q, Len(q) \in Nat
  PROVE  LatestIn(Kept(a, q), a, q, Len(q))
<1> DEFINE n == Len(q)
<1>1. PICK f : /\ f = [i \in 0..n |-> IF i = 0 THEN a ELSE Keeps(f[i - 1], q[i])]
               /\ Kept(a, q) = f[n]
  BY KeptRuns
<1>2. f[0] = a /\ \A i \in 0..n : i # 0 => f[i] = Keeps(f[i - 1], q[i])
  <2>1. 0 \in 0..n
    OBVIOUS
  <2>. QED
    BY <1>1, <2>1
<1> DEFINE Bad == {m \in 0..n : ~LatestIn(f[m], a, q, m)}
<1>3. Bad = {}
  <2>1. SUFFICES ASSUME Bad # {} PROVE FALSE
    OBVIOUS
  <2>2. PICK m \in Bad : \A l \in Bad : m <= l
    <3>1. Bad \in SUBSET Nat
      OBVIOUS
    <3>. HIDE DEF Bad
    <3>. QED
      BY <2>1, <3>1, LeastNat
  <2>3. m \in 0..n /\ ~LatestIn(f[m], a, q, m)
    BY <2>2
  <2>4. m # 0
    <3>1. LatestIn(a, a, q, 0)
      <4>1. 1..0 = {}
        OBVIOUS
      <4>. QED
        BY <4>1 DEF LatestIn
    <3>. QED
      BY <1>2, <2>3, <3>1
  <2>5. m - 1 \in Nat /\ m - 1 \in 0..n /\ ~(m <= m - 1) /\ (m - 1) + 1 = m
    BY <2>3, <2>4
  <2>6. m - 1 \notin Bad
    BY <2>2, <2>5
  <2>7. LatestIn(f[m - 1], a, q, m - 1)
    BY <2>5, <2>6
  <2>8. LatestIn(Keeps(f[m - 1], q[(m - 1) + 1]), a, q, (m - 1) + 1)
    BY <2>5, <2>7, LatestStep
  <2>9. f[m] = Keeps(f[m - 1], q[m])
    BY <1>2, <2>3, <2>4
  <2>. QED
    BY <2>3, <2>5, <2>8, <2>9
<1>4. n \in 0..n
  OBVIOUS
<1>5. LatestIn(f[n], a, q, n)
  BY <1>3, <1>4
<1>. QED
  BY <1>1, <1>5

LEMMA LatestJoin ==
  ASSUME NEW q \in Seq(Seq(Byte)), NEW r \in Seq(Seq(Byte)), NEW x, NEW y, NEW a,
         LatestIn(x, a, q, Len(q)), LatestIn(y, x, r, Len(r))
  PROVE  LatestIn(y, a, q \o r, Len(q \o r))
<1> DEFINE z == q \o r
           n == Len(q)
           m == Len(r)
<1>1. /\ n \in Nat /\ m \in Nat /\ Len(z) = n + m
      /\ \A i \in 1..n : z[i] = q[i]
      /\ \A i \in 1..m : z[n + i] = r[i]
  BY ConcatIs
<1>2. LatestIn(x, a, q, n) /\ LatestIn(y, x, r, m)
  OBVIOUS
<1>3. SUFFICES LatestIn(y, a, z, n + m)
  BY <1>1
<1>. HIDE DEF z, n, m
<1>4. CASE y = x /\ \A k \in 1..m : r[k][2] \notin Addressing
  <2>1. ASSUME NEW j \in n + 1..n + m PROVE z[j][2] \notin Addressing
    <3>1. j - n \in 1..m /\ n + (j - n) = j
      BY <1>1
    <3>2. z[n + (j - n)] = r[j - n]
      BY <1>1, <3>1
    <3>. QED
      BY <1>4, <3>1, <3>2
  <2>2. CASE x = a /\ \A k \in 1..n : q[k][2] \notin Addressing
    <3>1. ASSUME NEW k \in 1..n + m PROVE z[k][2] \notin Addressing
      <4>1. k \in 1..n \/ k \in n + 1..n + m
        BY <1>1
      <4>. QED
        BY <1>1, <2>1, <2>2, <4>1
    <3>. QED
      BY <1>1, <1>4, <2>2, <3>1 DEF LatestIn
  <2>3. CASE ~(x = a /\ \A k \in 1..n : q[k][2] \notin Addressing)
    <3>1. PICK k \in 1..n : /\ q[k][2] \in Addressing /\ x = q[k][3]
                            /\ \A j \in k + 1..n : q[j][2] \notin Addressing
      BY <1>2, <2>3 DEF LatestIn
    <3>2. k \in 1..n + m /\ z[k] = q[k]
      BY <1>1
    <3>3. ASSUME NEW j \in k + 1..n + m PROVE z[j][2] \notin Addressing
      <4>1. (j \in k + 1..n /\ j \in 1..n) \/ j \in n + 1..n + m
        BY <1>1
      <4>. QED
        BY <1>1, <2>1, <3>1, <4>1
    <3>. QED
      BY <1>1, <1>4, <3>1, <3>2, <3>3 DEF LatestIn
  <2>. QED
    BY <2>2, <2>3
<1>5. CASE ~(y = x /\ \A k \in 1..m : r[k][2] \notin Addressing)
  <2>1. PICK k \in 1..m : /\ r[k][2] \in Addressing /\ y = r[k][3]
                          /\ \A j \in k + 1..m : r[j][2] \notin Addressing
    BY <1>2, <1>5 DEF LatestIn
  <2>2. n + k \in 1..n + m /\ z[n + k] = r[k]
    BY <1>1
  <2>3. ASSUME NEW j \in (n + k) + 1..n + m PROVE z[j][2] \notin Addressing
    <3>1. j - n \in k + 1..m /\ j - n \in 1..m /\ n + (j - n) = j
      BY <1>1
    <3>2. z[n + (j - n)] = r[j - n]
      BY <1>1, <3>1
    <3>. QED
      BY <2>1, <3>1, <3>2
  <2>. QED
    BY <1>1, <2>1, <2>2, <2>3 DEF LatestIn
<1>. QED
  BY <1>4, <1>5

LEMMA LastAddrLatest ==
  ASSUME NEW s \in Seq(Byte)
  PROVE  LatestIn(LastAddr(s), NoAddr, Frames(s), Len(Frames(s)))
<1> DEFINE q == Frames(s)
           n == Len(q)
           I == {i \in 1..n : q[i][2] \in Addressing}
           k == IF I # {} THEN Max(I) ELSE 0
<1>1. n \in Nat
  <2>1. q \in Seq(Seq(Byte))
    BY FramesType
  <2>. QED
    BY <2>1
<1>2. LastAddr(s) = IF k = 0 THEN NoAddr ELSE q[k][3]
  BY DEF LastAddr, SelectLastInSeq
<1>. HIDE DEF q, n
<1>3. CASE I = {}
  <2>1. LastAddr(s) = NoAddr /\ \A i \in 1..n : q[i][2] \notin Addressing
    BY <1>2, <1>3
  <2>. QED
    BY <2>1 DEF LatestIn, q, n
<1>4. CASE I # {}
  <2>1. I \in SUBSET (0..n)
    BY <1>1
  <2>2. k \in I /\ \A i \in I : i <= k
    BY <1>1, <1>4, <2>1, MaxIsGreatest
  <2>3. k \in 1..n /\ q[k][2] \in Addressing /\ k # 0 /\ \A i \in I : i <= k
    BY <1>1, <2>2
  <2>4. LastAddr(s) = q[k][3]
    BY <1>2, <2>3
  <2>. HIDE DEF k
  <2>5. ASSUME NEW j \in k + 1..n PROVE q[j][2] \notin Addressing
    <3>1. j \in 1..n /\ ~(j <= k)
      BY <1>1, <2>3
    <3>. QED
      BY <2>3, <3>1
  <2>. QED
    BY <2>3, <2>4, <2>5 DEF LatestIn, q, n
<1>. QED
  BY <1>3, <1>4

-----------------------------------------------------------------------------
(* The stream: reports one after the other. *)

\* what a report has at its i-th byte, counted through the stream
At(i) ==
  IF i % 4 = 1 THEN {SOI}
  ELSE IF i % 4 = 2 THEN Kind
  ELSE IF i % 4 = 3 THEN Addr
  ELSE {EOI}

Orderly(s) == \A i \in 1..Len(s) : s[i] \in At(i)

LEMMA AtIs ==
  ASSUME NEW i \in Nat, NEW b, b \in At(i)
  PROVE  /\ b \in Byte
         /\ i % 4 \in 0..3
         /\ b = SOI <=> i % 4 = 1
         /\ b = EOI <=> i % 4 = 0
         /\ i % 4 = 3 => b \in Addr
<1>1. i % 4 \in 0..3
  OBVIOUS
<1>2. /\ SOI \notin Kind \cup Addr /\ EOI \notin Kind \cup Addr /\ SOI # EOI
      /\ Byte = {SOI, EOI} \cup Kind \cup Addr
  BY ParseAssumption, ClientAssumption DEF Byte
<1> DEFINE r == i % 4
<1>3. \/ r = 1 /\ b = SOI
      \/ r = 2 /\ b \in Kind
      \/ r = 3 /\ b \in Addr
      \/ r = 0 /\ b = EOI
  BY <1>1 DEF At
<1>. HIDE DEF r
<1>4. /\ b \in Byte /\ (b = SOI <=> r = 1) /\ (b = EOI <=> r = 0) /\ (r = 3 => b \in Addr)
  BY <1>2, <1>3
<1>. QED
  BY <1>1, <1>4 DEF r

\* the report that the byte before the i-th belongs to
LEMMA ReportOf ==
  ASSUME NEW i \in Nat \ {0}, i % 4 # 1
  PROVE  \E k \in 1..i - 1 : /\ k % 4 = 1 /\ i - k <= 3
                             /\ i % 4 # 0 => i - k <= 2
                             /\ \A j \in k + 1..i - 1 : j % 4 # 0 /\ j % 4 # 1
<1>1. i % 4 = 2 \/ i % 4 = 3 \/ i % 4 = 0
  OBVIOUS
<1>2. CASE i % 4 = 2
  <2>1. i - 1 \in 1..i - 1 /\ (i - 1) % 4 = 1 /\ i - (i - 1) <= 2 /\ (i - 1) + 1..i - 1 = {}
    BY <1>2
  <2>. QED
    BY <2>1
<1>3. CASE i % 4 = 3
  <2>1. i - 2 \in 1..i - 1 /\ (i - 2) % 4 = 1 /\ i - (i - 2) <= 2 /\ (i - 1) % 4 = 2
    BY <1>3
  <2>2. \A j \in (i - 2) + 1..i - 1 : j = i - 1
    OBVIOUS
  <2>3. \A j \in (i - 2) + 1..i - 1 : j % 4 # 0 /\ j % 4 # 1
    BY <2>1, <2>2
  <2>. QED
    BY <2>1, <2>3
<1>4. CASE i % 4 = 0
  <2>1. /\ i - 3 \in 1..i - 1 /\ (i - 3) % 4 = 1 /\ i - (i - 3) <= 3
        /\ (i - 1) % 4 = 3 /\ (i - 2) % 4 = 2
    BY <1>4
  <2>2. \A j \in (i - 3) + 1..i - 1 : j = i - 1 \/ j = i - 2
    OBVIOUS
  <2>3. \A j \in (i - 3) + 1..i - 1 : j % 4 # 0 /\ j % 4 # 1
    BY <2>1, <2>2
  <2>. QED
    BY <1>4, <2>1, <2>3
<1>. QED
  BY <1>1, <1>2, <1>3, <1>4

LEMMA OrderlyFrames ==
  ASSUME NEW s \in Seq(Byte), Orderly(s)
  PROVE  \A k \in 1..Len(Frames(s)) : Frames(s)[k][3] \in Addr
<1> DEFINE end == Ascending(Ends(s))
<1>1. Lists(end, Ends(s))
  <2>1. Len(s) \in Nat /\ Ends(s) \in SUBSET (1..Len(s))
    BY EndsAre
  <2>. QED
    BY <2>1, AscendingIs
<1>. HIDE DEF end
<1>2. /\ Frames(s) = [k \in 1..Len(end) |-> PacketTo(s, end[k])]
      /\ Len(Frames(s)) = Len(end) /\ \A k \in 1..Len(end) : end[k] \in Ends(s)
  BY <1>1, FramesBy
<1>3. ASSUME NEW e \in Ends(s) PROVE PacketTo(s, e)[3] \in Addr
  <2> DEFINE b == Before(s, e)
  <2>1. IsPacket(s, b, e)
    BY EndsAre
  <2>. HIDE DEF b
  <2>2. Len(s) \in Nat /\ b \in 1..Len(s) /\ e \in 1..Len(s) /\ b < e /\ s[b] = SOI /\ s[e] = EOI
    BY <2>1 DEF IsPacket
  <2>3. s[b] \in At(b) /\ s[e] \in At(e) /\ b \in Nat /\ e \in Nat
    BY <2>2 DEF Orderly
  <2>4. b % 4 = 1 /\ e % 4 = 0
    BY <2>2, <2>3, AtIs
  <2>5. e >= b + 3 /\ (b + 2) % 4 = 3 /\ b + 2 \in 1..Len(s) /\ b + 2 \in Nat
    BY <2>2, <2>4
  <2>6. s[b + 2] \in At(b + 2)
    BY <2>5 DEF Orderly
  <2>7. s[b + 2] \in Addr
    BY <2>5, <2>6, AtIs
  <2>8. PacketTo(s, e) = SubSeq(s, b, e)
    BY DEF PacketTo, b
  <2>9. \A i \in 1..e - b + 1 : SubSeq(s, b, e)[i] = s[b + i - 1]
    <3>1. b \in 1..Len(s) + 1 /\ e \in Int /\ b - 1 <= e /\ e <= Len(s)
      BY <2>2
    <3>. QED
      BY <3>1, PieceIs
  <2>10. 3 \in 1..e - b + 1 /\ b + 3 - 1 = b + 2
    BY <2>2, <2>5
  <2>. QED
    BY <2>7, <2>8, <2>9, <2>10
<1>. QED
  BY <1>2, <1>3

LEMMA OrderlyClean ==
  ASSUME NEW s \in Seq(Byte), Orderly(s)
  PROVE  Clean(s)
<1>1. SUFFICES ASSUME NEW i \in 1..Len(s), s[i] # SOI PROVE Open(SubSeq(s, 1, i - 1))
  BY DEF Clean
<1> DEFINE u == SubSeq(s, 1, i - 1)
<1>2. u \in Seq(Byte) /\ Len(u) = i - 1 /\ \A j \in 1..i - 1 : u[j] = s[j]
  BY PrefixIs
<1>3. Len(s) \in Nat /\ i \in Nat \ {0} /\ i % 4 # 1
  <2>1. Len(s) \in Nat /\ i \in Nat \ {0}
    OBVIOUS
  <2>2. s[i] \in At(i)
    BY DEF Orderly
  <2>. QED
    BY <1>1, <2>1, <2>2, AtIs
<1>4. PICK k \in 1..i - 1 : k % 4 = 1 /\ \A j \in k + 1..i - 1 : j % 4 # 0
  BY <1>3, ReportOf
<1>. HIDE DEF u
<1>5. \A j \in 1..i - 1 : j \in 1..Len(s) /\ j \in Nat /\ u[j] = s[j] /\ s[j] \in At(j)
  <2>1. \A j \in 1..i - 1 : j \in 1..Len(s) /\ j \in Nat
    BY <1>3
  <2>. QED
    BY <1>2, <2>1 DEF Orderly
<1>6. u[k] = SOI
  BY <1>4, <1>5, AtIs
<1>7. ASSUME NEW j \in k + 1..i - 1 PROVE u[j] # EOI
  <2>1. j \in 1..i - 1
    BY <1>3
  <2>. QED
    BY <1>4, <1>5, <1>7, <2>1, AtIs
<1>8. Open(u)
  BY <1>2, <1>6, <1>7, OpenBySoi
<1>. QED
  BY <1>8 DEF u

LEMMA OpenLenIs ==
  ASSUME NEW s \in Seq(Byte), NEW k \in 1..Len(s), s[k] = SOI, \A j \in k + 1..Len(s) : s[j] # SOI
  PROVE  OpenLen(s) = Len(s) - k + 1
<1> DEFINE I == {i \in 1..Len(s) : s[i] = SOI}
<1>1. Len(s) \in Nat
  OBVIOUS
<1>2. k \in I /\ \A i \in I : i <= k
  BY <1>1
<1>3. Max(I) = k
  <2>1. I \in SUBSET (0..Len(s)) /\ I # {}
    BY <1>1, <1>2
  <2>. HIDE DEF I
  <2>2. Max(I) \in I /\ \A y \in I : y <= Max(I)
    BY <1>1, <2>1, MaxIsGreatest
  <2>3. k <= Max(I) /\ Max(I) <= k /\ Max(I) \in 0..Len(s)
    BY <1>2, <2>1, <2>2
  <2>. QED
    BY <1>1, <2>3
<1>4. OpenLen(s) = Len(s) - Max(I) + 1
  BY <1>2 DEF OpenLen, SelectLastInSeq
<1>. QED
  BY <1>3, <1>4

\* reports are what the devices may send
LEMMA OrderlyLegal ==
  ASSUME NEW u \in Seq(Byte), Orderly(u), NEW b, b \in At(Len(u) + 1)
  PROVE  LegalNext(u, b)
<1> DEFINE n == Len(u) + 1
<1>1. n \in Nat \ {0} /\ Len(u) \in Nat /\ n - 1 = Len(u)
  OBVIOUS
<1>2. /\ n % 4 \in 0..3 /\ (b = SOI <=> n % 4 = 1) /\ (b = EOI <=> n % 4 = 0)
  BY <1>1, AtIs
<1>3. SOI # EOI /\ MaxFrame \in Nat /\ MaxFrame >= 4
  BY ParseAssumption, ClientAssumption
<1>. HIDE DEF n
<1>4. \A j \in 1..n - 1 : j \in Nat /\ j \in 1..Len(u) /\ u[j] \in At(j)
  BY <1>1 DEF Orderly
<1>5. CASE n % 4 = 1
  <2>1. ~Open(u)
    <3>1. CASE n = 1
      <4>1. \A k : ~OpensAt(u, k)
        BY <1>1, <3>1 DEF OpensAt
      <4>. QED
        BY <4>1, OpenIs
    <3>2. CASE n # 1
      <4>1. n - 1 \in 1..n - 1 /\ (n - 1) % 4 = 0
        BY <1>1, <1>5, <3>2
      <4>2. u[n - 1] = EOI
        BY <1>4, <4>1, AtIs
      <4>3. Len(u) > 0 /\ u[Len(u)] = EOI
        BY <1>1, <3>2, <4>2
      <4>. QED
        BY <4>3, ClosedByEoi
    <3>. QED
      BY <3>1, <3>2
  <2>2. b = SOI
    BY <1>2, <1>5
  <2>. QED
    BY <2>1, <2>2 DEF LegalNext
<1>6. CASE n % 4 = 0
  <2>1. b = EOI
    BY <1>2, <1>6
  <2>. QED
    BY <1>3, <2>1 DEF LegalNext
<1>7. CASE n % 4 # 1 /\ n % 4 # 0
  <2>1. b # SOI /\ b # EOI
    BY <1>2, <1>7
  <2>2. PICK k \in 1..n - 1 : k % 4 = 1 /\ n - k <= 2 /\ \A j \in k + 1..n - 1 : j % 4 # 1
    BY <1>1, <1>7, ReportOf
  <2>3. u[k] = SOI
    BY <1>4, <2>2, AtIs
  <2>4. ASSUME NEW j \in k + 1..Len(u) PROVE u[j] # SOI
    <3>1. j \in k + 1..n - 1 /\ j \in 1..n - 1
      BY <1>1, <2>2
    <3>. QED
      BY <1>4, <2>2, <3>1, AtIs
  <2>5. k \in 1..Len(u)
    BY <1>1
  <2>6. OpenLen(u) = Len(u) - k + 1
    BY <2>3, <2>4, <2>5, OpenLenIs
  <2>7. OpenLen(u) < MaxFrame - 1
    BY <1>1, <1>3, <2>2, <2>5, <2>6
  <2>. QED
    BY <2>1, <2>7 DEF LegalNext
<1>. QED
  BY <1>2, <1>5, <1>6, <1>7

LEMMA TwoReports ==
  ASSUME NEW r1 \in Reports, NEW r2 \in Reports
  PROVE  /\ r1 \o r2 \in Seq(Byte) /\ Len(r1 \o r2) = 8
         /\ \A i \in 1..8 : (r1 \o r2)[i] \in At(i)
<1>1. ASSUME NEW r \in Reports
      PROVE  /\ r \in Seq(Byte) /\ Len(r) = 4
             /\ r[1] = SOI /\ r[2] \in Kind /\ r[3] \in Addr /\ r[4] = EOI
  <2>1. PICK k \in Kind, a \in Addr : r = <<SOI, k, a, EOI>>
    BY <1>1 DEF Reports
  <2>2. SOI \in Byte /\ EOI \in Byte /\ k \in Byte /\ a \in Byte
    BY ClientAssumption DEF Byte
  <2>. QED
    BY <2>1, <2>2
<1> DEFINE z == r1 \o r2
<1>2. Len(r1) = 4 /\ Len(r2) = 4
  BY <1>1
<1>2a. r1 \in Seq(Byte) /\ r2 \in Seq(Byte)
  BY <1>1
<1>3. /\ z \in Seq(Byte) /\ Len(z) = Len(r1) + Len(r2)
      /\ \A i \in 1..Len(r1) : z[i] = r1[i]
      /\ \A i \in 1..Len(r2) : z[Len(r1) + i] = r2[i]
  BY <1>2a, ConcatIs
<1>. HIDE DEF z
<1>4. \A i \in 1..4 : z[i] = r1[i] /\ z[4 + i] = r2[i]
  BY <1>2, <1>3
<1>5. z[1] = SOI /\ z[2] \in Kind /\ z[3] \in Addr /\ z[4] = EOI
  BY <1>1, <1>4
<1>6. z[4 + 1] = SOI /\ z[4 + 2] \in Kind /\ z[4 + 3] \in Addr /\ z[4 + 4] = EOI
  BY <1>1, <1>4
<1>7. /\ At(1) = {SOI} /\ At(2) = Kind /\ At(3) = Addr /\ At(4) = {EOI}
      /\ At(5) = {SOI} /\ At(6) = Kind /\ At(7) = Addr /\ At(8) = {EOI}
  BY DEF At
<1>8. ASSUME NEW i \in 1..8 PROVE z[i] \in At(i)
  <2>1. i = 1 \/ i = 2 \/ i = 3 \/ i = 4 \/ i = 5 \/ i = 6 \/ i = 7 \/ i = 8
    OBVIOUS
  <2>2. z[5] = SOI /\ z[6] \in Kind /\ z[7] \in Addr /\ z[8] = EOI
    BY <1>6
  <2>. QED
    BY <1>5, <1>7, <2>1, <2>2
<1>9. Len(z) = 8
  BY <1>2, <1>3
<1>. QED
  BY <1>3, <1>8, <1>9 DEF z

LEMMA ChunkOrderly ==
  ASSUME stream \in Seq(Byte), Len(stream) <= MaxStream, Orderly(stream), NEW buff \in ReportChunks
  PROVE  buff \in Chunks /\ buff \in Seq(Byte) /\ Orderly(stream \o buff)
<1> DEFINE l == Len(stream)
           done == l % 4
           z == stream \o buff
           room == IF MaxStream - l < MaxChunk THEN MaxStream - l ELSE MaxChunk
<1>1. l \in Nat /\ MaxStream \in Nat /\ MaxChunk \in Nat /\ done \in 0..3
  BY ParseAssumption
<1>2. PICK r1 \in Reports, r2 \in Reports, n \in 1..8 - done :
        buff = SubSeq(r1 \o r2, done + 1, done + n)
  <2> DEFINE pairs == {r1 \o r2 : r1, r2 \in Reports}
  <2> DEFINE pieces == { SubSeq(q, done + 1, done + n) : q \in pairs, n \in 1..8 - done }
  <2>0. ReportChunks = {s \in pieces : Len(s) <= MaxChunk /\ Len(stream) + Len(s) <= MaxStream}
    BY DEF ReportChunks
  <2>. HIDE DEF pieces
  <2>1a. buff \in pieces
    BY <2>0
  <2>. HIDE DEF done, pairs
  <2>1. buff \in { SubSeq(q, done + 1, done + n) : q \in pairs, n \in 1..8 - done }
    BY <2>1a DEF pieces
  <2>2. PICK q \in pairs, n \in 1..8 - done : buff = SubSeq(q, done + 1, done + n)
    BY <2>1
  <2>3. PICK r1 \in Reports, r2 \in Reports : q = r1 \o r2
    BY DEF pairs
  <2>. QED
    BY <2>2, <2>3
<1>3. Len(buff) <= MaxChunk /\ l + Len(buff) <= MaxStream
  BY DEF ReportChunks
<1> DEFINE two == r1 \o r2
<1>4. two \in Seq(Byte) /\ Len(two) = 8 /\ \A i \in 1..8 : two[i] \in At(i)
  BY TwoReports
<1>4a. buff = SubSeq(two, done + 1, done + n) /\ n \in 1..8 - done
  BY <1>2
<1>4b. \A j \in Nat : At(done + j) = At(l + j)
  <2>1. \A j \in Nat : (done + j) % 4 = (l + j) % 4
    BY <1>1
  <2>. QED
    BY <2>1 DEF At
<1>. HIDE DEF two, done
<1>5. /\ buff \in Seq(Byte) /\ Len(buff) = n
      /\ \A j \in 1..n : buff[j] \in At(l + j)
  <2>1. /\ done + 1 \in 1..Len(two) + 1 /\ done + n \in Int /\ (done + 1) - 1 <= done + n /\ done + n <= Len(two)
        /\ (done + n) - (done + 1) + 1 = n
    BY <1>1, <1>4, <1>4a
  <2>2. /\ buff \in Seq(Byte) /\ Len(buff) = (done + n) - (done + 1) + 1
        /\ \A j \in 1..(done + n) - (done + 1) + 1 : buff[j] = two[(done + 1) + j - 1]
    BY <1>4, <1>4a, <2>1, PieceIs
  <2>3. ASSUME NEW j \in 1..n PROVE buff[j] \in At(l + j)
    <3>1. (done + 1) + j - 1 = done + j /\ done + j \in 1..8 /\ j \in Nat
      BY <1>1, <1>4a
    <3>. QED
      BY <1>4, <1>4b, <2>1, <2>2, <3>1
  <2>. QED
    BY <2>1, <2>2, <2>3
<1>6. n \in Nat /\ n > 0
  BY <1>1, <1>4a
<1>5a. buff \in Seq(Byte)
  BY <1>5
<1>7. /\ z \in Seq(Byte) /\ Len(z) = l + Len(buff)
      /\ \A i \in 1..l : z[i] = stream[i]
      /\ \A i \in 1..Len(buff) : z[l + i] = buff[i]
  BY <1>5a, ConcatIs
<1>. HIDE DEF z, l
<1>8. \A i \in 1..l : stream[i] \in At(i)
  BY DEF Orderly, l
<1>9. ASSUME NEW i \in 1..l + n PROVE z[i] \in At(i)
  <2>1. CASE i \in 1..l
    BY <1>7, <1>8, <2>1
  <2>2. CASE ~(i \in 1..l)
    <3>1. i - l \in 1..n /\ l + (i - l) = i
      BY <1>1, <1>6, <2>2
    <3>2. z[l + (i - l)] = buff[i - l] /\ buff[i - l] \in At(l + (i - l))
      BY <1>5, <1>7, <3>1
    <3>. QED
      BY <3>1, <3>2
  <2>. QED
    BY <2>1, <2>2
<1>10. Orderly(z)
  BY <1>5, <1>7, <1>9 DEF Orderly
<1>11. ASSUME NEW i \in 1..n
       PROVE  LegalNext(stream \o SubSeq(buff, 1, i - 1), buff[i])
  <2> DEFINE u == stream \o SubSeq(buff, 1, i - 1)
  <2>1. i - 1 \in 0..Len(buff) /\ l + i - 1 = l + (i - 1) /\ l + (i - 1) \in Nat /\ l + (i - 1) <= l + n
    BY <1>1, <1>5, <1>6
  <2>2. u = SubSeq(z, 1, l + (i - 1))
    BY <1>5, <2>1, PieceAcross DEF z, l
  <2>3. /\ u \in Seq(Byte) /\ Len(u) = l + (i - 1)
        /\ \A j \in 1..l + (i - 1) : u[j] = z[j]
    <3>1. /\ 1 \in 1..Len(z) + 1 /\ l + (i - 1) \in Int /\ 1 - 1 <= l + (i - 1) /\ l + (i - 1) <= Len(z)
          /\ (l + (i - 1)) - 1 + 1 = l + (i - 1)
      BY <1>1, <1>5, <1>7, <2>1
    <3>0. z \in Seq(Byte)
      BY <1>7
    <3>2. /\ u \in Seq(Byte) /\ Len(u) = (l + (i - 1)) - 1 + 1
          /\ \A j \in 1..(l + (i - 1)) - 1 + 1 : u[j] = z[1 + j - 1]
      <4> DEFINE e == l + (i - 1)
      <4>1. 1 \in 1..Len(z) + 1 /\ e \in Int /\ 1 - 1 <= e /\ e <= Len(z)
        BY <3>1
      <4>. HIDE DEF e
      <4>2. /\ SubSeq(z, 1, e) \in Seq(Byte) /\ Len(SubSeq(z, 1, e)) = e - 1 + 1
            /\ \A j \in 1..e - 1 + 1 : SubSeq(z, 1, e)[j] = z[1 + j - 1]
        BY <3>0, <4>1, PieceIs
      <4>. QED
        BY <2>2, <4>2 DEF e
    <3>3. \A j \in 1..l + (i - 1) : 1 + j - 1 = j
      BY <2>1
    <3>. QED
      BY <3>1, <3>2, <3>3
  <2>. HIDE DEF u
  <2>4. Orderly(u)
    <3>1. \A j \in 1..l + (i - 1) : j \in 1..l + n
      BY <1>1, <1>6, <2>1
    <3>. QED
      BY <1>9, <2>3, <3>1 DEF Orderly
  <2>5. buff[i] \in At(Len(u) + 1)
    <3>1. l + (i - 1) + 1 = l + i
      BY <1>1
    <3>. QED
      BY <1>5, <2>3, <3>1
  <2>6. LegalNext(u, buff[i])
    BY <2>3, <2>4, <2>5, OrderlyLegal
  <2>. QED
    BY <2>6 DEF u
<1>12. buff \in Chunks
  <2>1. n \in 1..room
    BY <1>1, <1>3, <1>5, <1>6
  <2>2. buff \in [1..n -> Byte]
    BY <1>5
  <2>3. Chunks = { s \in UNION {[1..m -> Byte] : m \in 1..room} :
                     \A i \in 1..Len(s) : LegalNext(stream \o SubSeq(s, 1, i - 1), s[i]) }
    BY DEF Chunks, l
  <2>. HIDE DEF room
  <2>4. \A i \in 1..Len(buff) : LegalNext(stream \o SubSeq(buff, 1, i - 1), buff[i])
    BY <1>5, <1>11
  <2>. QED
    BY <2>1, <2>2, <2>3, <2>4
<1>. QED
  BY <1>5, <1>10, <1>12 DEF z

-----------------------------------------------------------------------------
(* The invariant. *)

Message == {Quit} \cup [addr : Addr \cup {NoAddr}, at : Nat]

Types ==
  /\ phase \in {"address", "select", "socket", "console", "exited", "undefined"}
  /\ reported \in BOOLEAN
  /\ sock \in {"none", "up", "closed", "broken", "reset"}
  /\ stdin \in {"open", "eof"}
  /\ typed \in 0..MaxTyped /\ read \in 0..typed
  /\ quitting \in BOOLEAN
  /\ wrote \in Seq(Message)

\* the parser sees reports only, and what it made of them is in device_addr
StreamInv ==
  /\ ParseInv /\ Orderly(stream)
  /\ strayed # "no" => phase = "undefined"
  /\ device_addr \in Addr \cup {NoAddr}
  /\ strayed = "no" => device_addr = LastAddr(stream)

\* a command goes by what had been parsed when it was written
LedInv ==
  \A i \in 1..Len(wrote) :
    /\ wrote[i].at \in 0..Len(stream)
    /\ strayed = "no" /\ wrote[i] # Quit => wrote[i].addr = LastAddr(SubSeq(stream, 1, wrote[i].at))

\* the console's branch is taken when there is something to read
LoopInv ==
  /\ phase = "address" => read = 0 /\ wrote = <<>>
  /\ phase \in {"select", "socket", "console"} => read >= 1
  /\ phase = "console" \/ (phase = "socket" /\ reported) => ConsoleReady
  /\ OneCommandPerLine

ClientInv == Types /\ StreamInv /\ LedInv /\ LoopInv

-----------------------------------------------------------------------------
(* The messages written. *)

LEMMA QuitIs == Quit \in Message /\ Quit.at = 0 /\ Quit.addr = "quit"
BY DEF Quit, Message

LEMMA LedIs ==
  ASSUME device_addr \in Addr \cup {NoAddr}, Len(stream) \in Nat
  PROVE  Led \in Message /\ Led # Quit /\ Led.addr = device_addr /\ Led.at = Len(stream)
<1>1. Led.addr = device_addr /\ Led.at = Len(stream) /\ Led \in Message
  BY DEF Led, Message
<1>2. device_addr # "quit"
  BY ClientAssumption
<1>. QED
  BY <1>1, <1>2, QuitIs

\* write is called by the console's branch only
LEMMA WroteStep ==
  ASSUME [Next]_vars, ~Console
  PROVE  wrote' = wrote
<1>1. CASE UNCHANGED vars
  BY <1>1 DEF vars, clientVars
<1>2. CASE ServerLeaves \/ Type \/ TypeEof
  BY <1>2 DEF ServerLeaves, Type, TypeEof, clientVars
<1>3. CASE Connect \/ SelectReturns
  BY <1>3 DEF Connect, SelectReturns
<1>4. CASE Receive \/ ReceiveStray \/ ReceiveEnd \/ ReceiveFails \/ SigTstp
  BY <1>4 DEF Receive, ReceiveStray, ReceiveEnd, ReceiveFails, SigTstp
<1>. QED
  BY <1>1, <1>2, <1>3, <1>4 DEF Next

LEMMA ConsoleIs ==
  ASSUME Console
  PROVE  /\ phase = "console" /\ read' \in Lines
         /\ UNCHANGED <<parseVars, reported, device_addr, consoleVars>>
         /\ \/ wrote' = wrote /\ phase' \in {"select", "exited"}
            \/ wrote' = Append(wrote, Quit) /\ phase' = "exited"
            \/ wrote' = Append(wrote, Led) /\ phase' = "select"
         /\ sock' \in {"up", "closed", "broken"}
<1>1. CASE Send(Quit, "exited")
  BY <1>1 DEF Console, Send
<1>2. CASE Send(Led, "select")
  BY <1>2 DEF Console, Send
<1>. QED
  BY <1>1, <1>2 DEF Console

LEMMA LinesAre ==
  ASSUME Types
  PROVE  /\ typed \in Nat /\ read \in Nat /\ read <= typed /\ typed <= MaxTyped /\ MaxTyped \in Nat
         /\ \A l \in Lines : l \in 0..typed /\ l >= read /\ (read < typed => l >= read + 1)
                             /\ (~(read < typed) => l = read)
<1>1. typed \in Nat /\ read \in Nat /\ read <= typed /\ typed <= MaxTyped /\ MaxTyped \in Nat
  BY ClientAssumption DEF Types
<1>2. CASE read < typed
  BY <1>1, <1>2 DEF Lines
<1>3. CASE ~(read < typed)
  BY <1>1, <1>3 DEF Lines
<1>. QED
  BY <1>1, <1>2, <1>3

-----------------------------------------------------------------------------
(* Types. *)

LEMMA TypesNext ==
  ASSUME Types, StreamInv, [Next]_vars
  PROVE  Types'
<1>0. /\ phase \in {"address", "select", "socket", "console", "exited", "undefined"}
      /\ reported \in BOOLEAN
      /\ sock \in {"none", "up", "closed", "broken", "reset"}
      /\ stdin \in {"open", "eof"}
      /\ typed \in 0..MaxTyped /\ read \in 0..typed
      /\ quitting \in BOOLEAN
      /\ wrote \in Seq(Message)
  BY DEF Types
<1>0a. AfterSocket \in {"select", "console"} /\ ConsoleReady \in BOOLEAN
  BY DEF AfterSocket, ConsoleReady
<1>1. CASE UNCHANGED vars
  BY <1>0, <1>1 DEF vars, consoleVars, clientVars, Types
<1>2. CASE ServerLeaves
  BY <1>0, <1>2 DEF ServerLeaves, consoleVars, clientVars, Types
<1>3. CASE Type
  <2>1. typed' \in 0..MaxTyped /\ read \in 0..typed'
    BY <1>0, <1>3, ClientAssumption DEF Type
  <2>. QED
    BY <1>0, <1>3, <2>1 DEF Type, clientVars, Types
<1>4. CASE TypeEof
  BY <1>0, <1>4 DEF TypeEof, clientVars, Types
<1>5. CASE Connect
  <2>1. read' \in 0..typed
    BY <1>5, LinesAre DEF Connect
  <2>. QED
    BY <1>0, <1>5, <2>1 DEF Connect, consoleVars, Types
<1>6. CASE SelectReturns
  <2>1. phase' \in {"socket", "console"} /\ reported' \in BOOLEAN
    BY <1>0a, <1>6 DEF SelectReturns
  <2>. QED
    BY <1>0, <1>6, <2>1 DEF SelectReturns, consoleVars, Types
<1>7. CASE Receive
  <2>1. phase' \in {"select", "console"}
    BY <1>0a, <1>7 DEF Receive
  <2>. QED
    BY <1>0, <1>7, <2>1 DEF Receive, consoleVars, Types
<1>8. CASE ReceiveStray
  BY <1>0, <1>8 DEF ReceiveStray, consoleVars, Types
<1>9. CASE ReceiveEnd
  <2>1. phase' \in {"select", "console"}
    BY <1>0a, <1>9 DEF ReceiveEnd
  <2>. QED
    BY <1>0, <1>9, <2>1 DEF ReceiveEnd, consoleVars, Types
<1>10. CASE ReceiveFails
  BY <1>0, <1>10 DEF ReceiveFails, consoleVars, Types
<1>11. CASE Console
  <2>1. /\ read' \in Lines /\ phase' \in {"select", "exited"} /\ sock' \in {"up", "closed", "broken"}
        /\ reported' = reported /\ UNCHANGED consoleVars
        /\ wrote' = wrote \/ wrote' = Append(wrote, Quit) \/ wrote' = Append(wrote, Led)
    BY <1>11, ConsoleIs
  <2>2. read' \in 0..typed
    BY <2>1, LinesAre
  <2>3. Quit \in Message /\ Led \in Message
    <3>1. Len(stream) \in Nat /\ device_addr \in Addr \cup {NoAddr}
      <4>1. stream \in Seq(Byte)
        BY DEF StreamInv, ParseInv, ParseTypeOK
      <4>. QED
        BY <4>1 DEF StreamInv
    <3>. QED
      BY <3>1, QuitIs, LedIs
  <2>4. wrote' \in Seq(Message)
    BY <1>0, <2>1, <2>3
  <2>. QED
    BY <1>0, <2>1, <2>2, <2>4 DEF consoleVars, Types
<1>12. CASE SigTstp
  BY <1>0, <1>12 DEF SigTstp, consoleVars, Types
<1>. QED
  BY <1>1, <1>2, <1>3, <1>4, <1>5, <1>6, <1>7, <1>8, <1>9, <1>10, <1>11, <1>12 DEF Next

-----------------------------------------------------------------------------
(* The stream and the address. *)

\* the steps that leave the parser alone
LEMMA Elsewhere ==
  ASSUME [Next]_vars, ~Receive, ~ReceiveStray
  PROVE  /\ UNCHANGED parseVars /\ device_addr' = device_addr
         /\ phase = "undefined" => phase' = "undefined"
<1>1. CASE UNCHANGED vars
  BY <1>1 DEF vars, clientVars
<1>2. CASE ServerLeaves \/ Type \/ TypeEof
  BY <1>2 DEF ServerLeaves, Type, TypeEof, clientVars
<1>3. CASE Connect \/ SelectReturns
  BY <1>3 DEF Connect, SelectReturns
<1>4. CASE ReceiveEnd \/ ReceiveFails \/ SigTstp
  BY <1>4 DEF ReceiveEnd, ReceiveFails, SigTstp
<1>5. CASE Console
  BY <1>5, ConsoleIs
<1>. QED
  BY <1>1, <1>2, <1>3, <1>4, <1>5 DEF Next

LEMMA ReceiveStream ==
  ASSUME StreamInv, Receive
  PROVE  /\ StreamInv' /\ strayed = "no" /\ strayed' = "no"
         /\ \E b \in Seq(Byte) : stream' = stream \o b
<1>1. strayed = "no" /\ phase = "socket"
  BY DEF StreamInv, Receive
<1>2. PICK buff \in ReportChunks : parse_pkt(buff)
  BY DEF Receive
<1>3. /\ pkt \in Seq(Byte) /\ got \in Seq(Seq(Byte)) /\ stream \in Seq(Byte) /\ Len(stream) <= MaxStream
      /\ ParseInv /\ Orderly(stream)
  BY DEF StreamInv, ParseInv, ParseTypeOK
<1>4. buff \in Chunks /\ buff \in Seq(Byte) /\ Orderly(stream \o buff)
  BY <1>2, <1>3, ChunkOrderly
<1>5. strayed' = "no" /\ stream' = stream \o buff
  BY <1>1, <1>2, <1>3, <1>4, CallIs
<1>6. PICK r : Fed(stream, pkt, buff, r) /\ got' = got \o r.out
  BY <1>2, <1>3, <1>4, CallIs
<1>7. r.out \in Seq(Seq(Byte))
  BY <1>6 DEF Fed
<1>8. ParseInv'
  BY <1>2, <1>3, <1>4, ParseNext_Inv DEF ParseNext
<1>9. Orderly(stream')
  BY <1>4, <1>5
<1>10. got = Frames(stream) /\ got' = Frames(stream')
  <2>1. stream' \in Seq(Byte)
    BY <1>8 DEF ParseInv, ParseTypeOK
  <2>2. Clean(stream) /\ Clean(stream')
    BY <1>3, <1>9, <2>1, OrderlyClean
  <2>3. PacketsExact /\ PacketsExact'
    BY <1>3, <1>8 DEF ParseInv
  <2>. QED
    BY <1>1, <1>5, <2>2, <2>3 DEF PacketsExact
<1>11. device_addr' = Kept(device_addr, r.out)
  <2> DEFINE new == r.out
  <2>1. new \in Seq(Seq(Byte)) /\ got' = got \o new
    BY <1>6, <1>7
  <2>2. device_addr' = Kept(device_addr, SubSeq(got', Len(got) + 1, Len(got')))
    BY DEF Receive
  <2>. HIDE DEF new
  <2>3. SubSeq(got', Len(got) + 1, Len(got')) = new
    BY <1>3, <2>1, NewIs
  <2>. QED
    BY <2>2, <2>3 DEF new
<1>12. LatestIn(device_addr', NoAddr, got', Len(got'))
  <2>1. LatestIn(device_addr, NoAddr, got, Len(got))
    <3>1. device_addr = LastAddr(stream)
      BY <1>1 DEF StreamInv
    <3>. QED
      BY <1>3, <1>10, <3>1, LastAddrLatest
  <2> DEFINE new == r.out
             x == device_addr'
  <2>2. new \in Seq(Seq(Byte)) /\ Len(new) \in Nat
    <3>1. new \in Seq(Seq(Byte))
      BY <1>7
    <3>. HIDE DEF new
    <3>. QED
      BY <3>1
  <2>3. x = Kept(device_addr, new) /\ got' = got \o new
    BY <1>6, <1>11
  <2>. HIDE DEF new, x
  <2>4. LatestIn(x, device_addr, new, Len(new))
    BY <2>2, <2>3, KeptLatest
  <2>5. LatestIn(x, NoAddr, got \o new, Len(got \o new))
    BY <1>3, <2>1, <2>2, <2>4, LatestJoin
  <2>6. LatestIn(x, NoAddr, got', Len(got'))
    BY <2>3, <2>5
  <2>. QED
    BY <2>6 DEF x
<1>13. stream' \in Seq(Byte) /\ got' \in Seq(Seq(Byte))
  BY <1>8 DEF ParseInv, ParseTypeOK
<1>14. device_addr' = LastAddr(stream')
  <2>1. Len(got') \in Nat
    BY <1>13
  <2>2. LatestIn(LastAddr(stream'), NoAddr, got', Len(got'))
    BY <1>10, <1>13, LastAddrLatest
  <2>. QED
    BY <1>12, <2>1, <2>2, LatestOnce
<1>15. device_addr' \in Addr \cup {NoAddr}
  <2>1. \A k \in 1..Len(got') : got'[k][3] \in Addr
    BY <1>9, <1>10, <1>13, OrderlyFrames
  <2>. QED
    BY <1>12, <2>1 DEF LatestIn
<1>16. Orderly(stream)' /\ (strayed = "no" => device_addr = LastAddr(stream))'
  BY <1>9, <1>14
<1>17. StreamInv'
  BY <1>5, <1>8, <1>15, <1>16 DEF StreamInv
<1>. QED
  BY <1>1, <1>4, <1>5, <1>17

LEMMA StreamNext ==
  ASSUME StreamInv, [Next]_vars
  PROVE  /\ StreamInv'
         /\ strayed' = "no" => strayed = "no"
         /\ \E b \in Seq(Byte) : stream' = stream \o b
<1>1. CASE Receive
  BY <1>1, ReceiveStream
<1>2. CASE ReceiveStray
  <2>1. /\ stream \in Seq(Byte) /\ Len(stream) <= MaxStream /\ ParseInv /\ Orderly(stream)
        /\ device_addr \in Addr \cup {NoAddr}
    BY DEF StreamInv, ParseInv, ParseTypeOK
  <2>2. PICK buff \in ReportChunks : ParseStray(buff)
    BY <1>2 DEF ReceiveStray
  <2>3. buff \in Chunks /\ buff \in Seq(Byte) /\ Orderly(stream \o buff)
    BY <2>1, <2>2, ChunkOrderly
  <2>4. strayed' # "no" /\ stream' = stream \o buff
    BY <2>1, <2>2, <2>3, StrayIs
  <2>5. ParseInv'
    BY <2>1, <2>2, <2>3, ParseNext_Inv DEF ParseNext
  <2>6. phase' = "undefined" /\ device_addr' = device_addr
    BY <1>2 DEF ReceiveStray
  <2>7. Orderly(stream)'
    BY <2>3, <2>4
  <2>8. StreamInv'
    BY <2>1, <2>4, <2>5, <2>6, <2>7 DEF StreamInv
  <2>. QED
    BY <2>3, <2>4, <2>8
<1>3. CASE ~Receive /\ ~ReceiveStray
  <2>1. /\ UNCHANGED parseVars /\ device_addr' = device_addr
        /\ phase = "undefined" => phase' = "undefined"
    BY <1>3, Elsewhere
  <2>2. stream' = stream /\ strayed' = strayed
    BY <2>1 DEF parseVars
  <2>3. ParseInv'
    BY <2>1, ParseStutter_Inv DEF StreamInv
  <2>4. Orderly(stream)' /\ (strayed = "no" => device_addr = LastAddr(stream))'
    BY <2>1, <2>2 DEF StreamInv
  <2>5. StreamInv'
    BY <2>1, <2>2, <2>3, <2>4 DEF StreamInv
  <2>6. <<>> \in Seq(Byte) /\ stream \in Seq(Byte)
    BY EmptySeq DEF StreamInv, ParseInv, ParseTypeOK
  <2>7. stream' = stream \o <<>>
    BY <2>2, <2>6, ConcatEmptySeq
  <2>. QED
    BY <2>2, <2>5, <2>6, <2>7
<1>. QED
  BY <1>1, <1>2, <1>3

\* a longer stream does not change what an earlier command was to say
LEMMA LedNext ==
  ASSUME Types, StreamInv, LedInv, [Next]_vars
  PROVE  LedInv'
<1>1. PICK b \in Seq(Byte) : stream' = stream \o b
  BY StreamNext
<1>2. stream \in Seq(Byte) /\ Len(stream) \in Nat /\ wrote \in Seq(Message) /\ Len(wrote) \in Nat
  BY DEF StreamInv, ParseInv, ParseTypeOK, Types
<1>3. Len(stream') = Len(stream) + Len(b) /\ Len(b) \in Nat
  BY <1>1, <1>2, ConcatIs
<1>4. strayed' = "no" => strayed = "no"
  BY StreamNext
<1> DEFINE Right(m, t) == m.addr = LastAddr(SubSeq(t, 1, m.at))
<1>5. ASSUME NEW i \in 1..Len(wrote)
      PROVE  /\ wrote[i].at \in 0..Len(stream')
             /\ strayed' = "no" /\ wrote[i] # Quit => Right(wrote[i], stream')
  <2>1. /\ wrote[i].at \in 0..Len(stream)
        /\ strayed = "no" /\ wrote[i] # Quit => Right(wrote[i], stream)
    BY DEF LedInv
  <2> DEFINE n == wrote[i].at
  <2>2. n \in 0..Len(stream) /\ n \in 0..Len(stream')
    <3>1. n \in 0..Len(stream)
      BY <2>1
    <3>. HIDE DEF n
    <3>. QED
      BY <1>2, <1>3, <3>1
  <2>3. SubSeq(stream \o b, 1, n) = SubSeq(stream, 1, n)
    <3>. HIDE DEF n
    <3>1. 1 \in 1..Len(stream) + 1 /\ n \in Int /\ 1 - 1 <= n /\ n <= Len(stream)
      BY <1>2, <2>2
    <3>. QED
      BY <1>2, <3>1, PieceOfLeft
  <2>. QED
    BY <1>1, <1>4, <2>1, <2>2, <2>3
<1>6. CASE wrote' = wrote
  BY <1>5, <1>6 DEF LedInv
<1>7. CASE wrote' # wrote
  <2>1. Console
    BY <1>7, WroteStep
  <2>2. PICK m \in {Quit, Led} : wrote' = Append(wrote, m)
    BY <1>7, <2>1, ConsoleIs
  <2>3. stream' = stream /\ strayed' = strayed
    BY <2>1, ConsoleIs DEF parseVars
  <2>4. m.at \in 0..Len(stream) /\ (strayed = "no" /\ m # Quit => Right(m, stream))
    <3>1. CASE m = Quit
      BY <1>2, <3>1, QuitIs
    <3>2. CASE m = Led
      <4>1. device_addr \in Addr \cup {NoAddr} /\ (strayed = "no" => device_addr = LastAddr(stream))
        BY DEF StreamInv
      <4>2. m.addr = device_addr /\ m.at = Len(stream)
        BY <1>2, <3>2, <4>1, LedIs
      <4>3. SubSeq(stream, 1, Len(stream)) = stream
        BY <1>2, SubSeqFull
      <4>4. Len(stream) \in 0..Len(stream)
        BY <1>2
      <4>. QED
        BY <4>1, <4>2, <4>3, <4>4
    <3>. QED
      BY <3>1, <3>2
  <2>5. m \in Message
    <3>1. device_addr \in Addr \cup {NoAddr}
      BY DEF StreamInv
    <3>. QED
      BY <1>2, <3>1, QuitIs, LedIs
  <2>6. /\ Len(wrote') = Len(wrote) + 1
        /\ \A i \in 1..Len(wrote) : wrote'[i] = wrote[i]
        /\ wrote'[Len(wrote) + 1] = m
    BY <1>2, <2>2, <2>5
  <2>7. \A i \in 1..Len(wrote') : i \in 1..Len(wrote) \/ i = Len(wrote) + 1
    BY <1>2, <2>6
  <2>8. ASSUME NEW i \in 1..Len(wrote')
        PROVE  /\ wrote'[i].at \in 0..Len(stream')
               /\ strayed' = "no" /\ wrote'[i] # Quit => Right(wrote'[i], stream')
    <3>1. CASE i \in 1..Len(wrote)
      BY <1>5, <2>6, <3>1
    <3>2. CASE i = Len(wrote) + 1
      BY <2>3, <2>4, <2>6, <3>2
    <3>. QED
      BY <2>7, <3>1, <3>2
  <2>. QED
    BY <2>8 DEF LedInv
<1>. QED
  BY <1>6, <1>7

-----------------------------------------------------------------------------
(* The loop and the console. *)

\* the steps of others
LEMMA LoopIdle ==
  ASSUME Types, LoopInv, wrote' = wrote, read' = read, phase' = phase, reported' = reported,
         stdin' = stdin \/ stdin' = "eof", typed' = typed \/ typed' = typed + 1
  PROVE  LoopInv'
<1>1. typed \in Nat /\ read \in Nat
  BY LinesAre
<1>2. ConsoleReady => ConsoleReady'
  <2>1. read < typed => read' < typed'
    BY <1>1
  <2>. QED
    BY <2>1 DEF ConsoleReady
<1>3. OneCommandPerLine'
  BY DEF LoopInv, OneCommandPerLine
<1>. QED
  BY <1>2, <1>3 DEF LoopInv

\* the steps of the loop that read no line
LEMMA LoopMoves ==
  ASSUME Types, LoopInv, wrote' = wrote, read' = read, stdin' = stdin, typed' = typed,
         phase \in {"select", "socket", "console"}, phase' \in {"select", "socket", "console"},
         phase' = "console" => ConsoleReady,
         phase' = "socket" /\ reported' => ConsoleReady
  PROVE  LoopInv'
<1>1. ConsoleReady' <=> ConsoleReady
  BY DEF ConsoleReady
<1>2. read' >= 1
  BY DEF LoopInv
<1>3. OneCommandPerLine'
  BY DEF LoopInv, OneCommandPerLine
<1>. QED
  BY <1>1, <1>2, <1>3 DEF LoopInv

\* the steps that end it
LEMMA LoopStops ==
  ASSUME Types, LoopInv, wrote' = wrote, read' = read, stdin' = stdin, typed' = typed,
         phase # "exited", phase' \in {"exited", "undefined"}
  PROVE  LoopInv'
<1>1. OneCommandPerLine'
  BY DEF LoopInv, OneCommandPerLine
<1>. QED
  BY <1>1 DEF LoopInv

LEMMA LoopNext ==
  ASSUME Types, StreamInv, LoopInv, [Next]_vars
  PROVE  LoopInv'
<1>0. /\ typed \in Nat /\ read \in Nat /\ read <= typed
      /\ wrote \in Seq(Message) /\ Len(wrote) \in Nat
      /\ phase \in {"address", "select", "socket", "console", "exited", "undefined"}
  <2>1. wrote \in Seq(Message) /\ phase \in {"address", "select", "socket", "console", "exited", "undefined"}
    BY DEF Types
  <2>. QED
    BY <2>1, LinesAre
<1>1. CASE UNCHANGED vars
  <2>1. UNCHANGED <<consoleVars, clientVars>>
    BY <1>1 DEF vars
  <2>. QED
    BY <2>1, LoopIdle DEF consoleVars, clientVars
<1>2. CASE ServerLeaves
  <2>1. UNCHANGED <<consoleVars, clientVars>>
    BY <1>2 DEF ServerLeaves
  <2>. QED
    BY <2>1, LoopIdle DEF consoleVars, clientVars
<1>3. CASE Type
  <2>1. typed' = typed + 1 /\ UNCHANGED <<stdin, clientVars>>
    BY <1>3 DEF Type
  <2>. QED
    BY <2>1, LoopIdle DEF clientVars
<1>4. CASE TypeEof
  <2>1. stdin' = "eof" /\ typed' = typed /\ UNCHANGED clientVars
    BY <1>4 DEF TypeEof
  <2>. QED
    BY <2>1, LoopIdle DEF clientVars
<1>5. CASE Connect
  <2>1. /\ phase = "address" /\ read' \in Lines /\ UNCHANGED <<consoleVars, reported, wrote>>
        /\ (read < typed /\ phase' = "select") \/ phase' = "exited"
    BY <1>5 DEF Connect
  <2>2. read = 0 /\ wrote = <<>>
    BY <2>1 DEF LoopInv
  <2>3. read' \in Nat /\ (phase' = "select" => read' >= 1)
    <3>1. read' \in 0..typed /\ (read < typed => read' >= read + 1)
      BY <2>1, LinesAre
    <3>. QED
      BY <1>0, <2>1, <2>2, <3>1
  <2>4. Len(wrote') = 0
    BY <2>1, <2>2, EmptySeq
  <2>4a. 1..0 = {}
    OBVIOUS
  <2>5. OneCommandPerLine'
    <3>1. CASE read' = 0
      BY <2>4, <2>4a, <3>1 DEF OneCommandPerLine
    <3>2. CASE read' # 0
      <4> DEFINE r == read'
      <4>0. r \in Nat /\ r # 0
        BY <2>3, <3>2
      <4>. HIDE DEF r
      <4>1. 0 <= r - 1
        BY <4>0
      <4>. QED
        BY <2>4, <2>4a, <3>2, <4>1 DEF OneCommandPerLine, r
    <3>. QED
      BY <3>1, <3>2
  <2>. QED
    BY <2>1, <2>3, <2>5 DEF LoopInv
<1>6. CASE SelectReturns
  <2>1. /\ phase = "select" /\ UNCHANGED <<consoleVars, read, wrote>>
        /\ phase' \in {"socket", "console"} /\ (phase' = "console" => ConsoleReady)
    BY <1>6 DEF SelectReturns
  <2>2. reported' => ConsoleReady
    BY <1>6 DEF SelectReturns
  <2>. QED
    BY <2>1, <2>2, LoopMoves DEF consoleVars
<1>7. CASE Receive \/ ReceiveEnd
  <2>1. phase = "socket" /\ phase' = AfterSocket /\ UNCHANGED <<consoleVars, reported, read, wrote>>
    BY <1>7 DEF Receive, ReceiveEnd
  <2>2. reported => ConsoleReady
    BY <2>1 DEF LoopInv
  <2>3. phase' \in {"select", "console"} /\ (phase' = "console" => reported)
    BY <2>1 DEF AfterSocket
  <2>. QED
    BY <2>1, <2>2, <2>3, LoopMoves DEF consoleVars
<1>8. CASE ReceiveStray \/ ReceiveFails
  <2>1. phase = "socket" /\ phase' = "undefined" /\ UNCHANGED <<consoleVars, read, wrote>>
    BY <1>8 DEF ReceiveStray, ReceiveFails
  <2>. QED
    BY <2>1, LoopStops DEF consoleVars
<1>9. CASE SigTstp
  <2>1. phase # "exited" /\ phase' = "exited" /\ UNCHANGED <<consoleVars, read, wrote>>
    BY <1>9 DEF SigTstp
  <2>. QED
    BY <2>1, LoopStops DEF consoleVars
<1>10. CASE Console
  <2>1. /\ phase = "console" /\ read' \in Lines
        /\ reported' = reported /\ UNCHANGED consoleVars
        /\ \/ wrote' = wrote /\ phase' \in {"select", "exited"}
           \/ wrote' = Append(wrote, Quit) /\ phase' = "exited"
           \/ wrote' = Append(wrote, Led) /\ phase' = "select"
    BY <1>10, ConsoleIs
  <2>2. /\ read >= 1 /\ ConsoleReady
        /\ stdin = "open" => Len(wrote) <= read - 1
        /\ \A i \in 1..Len(wrote) : wrote[i] # Quit
    BY <1>0, <2>1 DEF LoopInv, OneCommandPerLine
  <2>3. /\ read' \in Nat /\ read' >= read /\ (read < typed => read' >= read + 1)
    <3>1. read' \in 0..typed /\ read' >= read /\ (read < typed => read' >= read + 1)
      BY <2>1, LinesAre
    <3>. QED
      BY <1>0, <3>1
  <2>4. stdin' = stdin /\ (stdin = "open" => read < typed)
    BY <2>1, <2>2 DEF ConsoleReady, consoleVars
  <2>5. Quit \in Message /\ Led \in Message /\ Led # Quit
    <3>1. device_addr \in Addr \cup {NoAddr} /\ Len(stream) \in Nat
      <4>1. stream \in Seq(Byte)
        BY DEF StreamInv, ParseInv, ParseTypeOK
      <4>. QED
        BY <4>1 DEF StreamInv
    <3>. QED
      BY <3>1, QuitIs, LedIs
  <2>6. /\ Len(wrote') \in Nat /\ Len(wrote') <= Len(wrote) + 1
        /\ \A i \in 1..Len(wrote') : wrote'[i] = Quit => i = Len(wrote') /\ phase' = "exited"
    <3>1. CASE wrote' = wrote
      BY <1>0, <2>2, <3>1
    <3>2. CASE wrote' # wrote
      <4>1. PICK m \in {Quit, Led} : wrote' = Append(wrote, m) /\ (m = Quit => phase' = "exited")
        BY <2>1, <2>5, <3>2
      <4>2. m \in Message
        BY <2>5
      <4>3. /\ Len(wrote') = Len(wrote) + 1
            /\ \A i \in 1..Len(wrote) : wrote'[i] = wrote[i]
            /\ wrote'[Len(wrote) + 1] = m
        BY <1>0, <4>1, <4>2
      <4>4. \A i \in 1..Len(wrote') : i \in 1..Len(wrote) \/ i = Len(wrote')
        BY <1>0, <4>3
      <4>5. \A i \in 1..Len(wrote') : wrote'[i] = Quit => i = Len(wrote') /\ phase' = "exited"
        BY <2>2, <4>1, <4>3, <4>4
      <4>. QED
        BY <1>0, <4>3, <4>5
    <3>. QED
      BY <3>1, <3>2
  <2>7. read' >= 1 /\ (stdin' = "open" => Len(wrote') <= read' - 1)
    BY <1>0, <2>2, <2>3, <2>4, <2>6
  <2>8. OneCommandPerLine'
    BY <2>3, <2>6, <2>7 DEF OneCommandPerLine
  <2>9. phase' \in {"select", "exited"}
    BY <2>1
  <2>. QED
    BY <2>7, <2>8, <2>9 DEF LoopInv
<1>. QED
  BY <1>1, <1>2, <1>3, <1>4, <1>5, <1>6, <1>7, <1>8, <1>9, <1>10 DEF Next

-----------------------------------------------------------------------------
(* The theorems. *)

LEMMA ClientInit ==
  Init => ClientInv
<1>1. SUFFICES ASSUME Init PROVE ClientInv
  OBVIOUS
<1>2. /\ ParseInit /\ phase = "address" /\ reported = FALSE /\ device_addr = NoAddr /\ sock = "none"
      /\ stdin = "open" /\ typed = 0 /\ read = 0 /\ quitting = FALSE /\ wrote = <<>>
  BY <1>1 DEF Init
<1>3. stream = <<>> /\ strayed = "no" /\ Len(<<>>) = 0 /\ 1..0 = {}
  BY <1>2, EmptySeq DEF ParseInit
<1>4. Types
  <2>1. 0 \in 0..MaxTyped /\ 0 \in 0..0
    BY ClientAssumption
  <2>2. <<>> \in Seq(Message)
    BY EmptySeq
  <2>. QED
    BY <1>2, <2>1, <2>2 DEF Types
<1>5. StreamInv
  <2>1. ParseInv
    BY <1>2, ParseInit_Inv
  <2>2. Orderly(stream)
    BY <1>3 DEF Orderly
  <2>3. LastAddr(<<>>) = NoAddr
    <3>1. <<>> \in Seq(Byte)
      BY EmptySeq
    <3>2. \A b, e : ~IsPacket(<<>>, b, e)
      BY <1>3 DEF IsPacket
    <3>3. Frames(<<>>) = <<>>
      BY <3>1, <3>2, FramesNone
    <3>4. LatestIn(LastAddr(<<>>), NoAddr, <<>>, 0)
      BY <1>3, <3>1, <3>3, LastAddrLatest
    <3>. QED
      BY <1>3, <3>4 DEF LatestIn
  <2>. QED
    BY <1>2, <1>3, <2>1, <2>2, <2>3 DEF StreamInv
<1>6. LedInv
  BY <1>2, <1>3 DEF LedInv
<1>7. LoopInv
  <2>1. OneCommandPerLine
    BY <1>2, <1>3 DEF OneCommandPerLine
  <2>. QED
    BY <1>2, <2>1 DEF LoopInv
<1>. QED
  BY <1>4, <1>5, <1>6, <1>7 DEF ClientInv

THEOREM ClientInvariant == Spec => []ClientInv
<1>1. Init => ClientInv
  BY ClientInit
<1>2. ClientInv /\ [Next]_vars => ClientInv'
  <2>1. SUFFICES ASSUME ClientInv, [Next]_vars PROVE ClientInv'
    OBVIOUS
  <2>2. Types /\ StreamInv /\ LedInv /\ LoopInv
    BY <2>1 DEF ClientInv
  <2>3. Types' /\ StreamInv' /\ LedInv' /\ LoopInv'
    BY <2>1, <2>2, TypesNext, StreamNext, LedNext, LoopNext
  <2>. QED
    BY <2>3 DEF ClientInv
<1>. QED
  BY <1>1, <1>2, PTL DEF Spec

\* The client's variables keep their types, and a LED command carries an address
\* a report has brought, or none, and never one from ahead of the stream.
THEOREM ClientTypeCorrect == Spec => []TypeOK
<1>1. ClientInv => TypeOK
  <2>1. SUFFICES ASSUME ClientInv PROVE TypeOK
    OBVIOUS
  <2>2. Types /\ StreamInv /\ LedInv
    BY <2>1 DEF ClientInv
  <2>3. ParseTypeOK /\ device_addr \in Addr \cup {NoAddr}
    BY <2>2 DEF StreamInv, ParseInv
  <2>4. ASSUME NEW i \in 1..Len(wrote)
        PROVE  \/ wrote[i] = Quit
               \/ wrote[i].addr \in Addr \cup {NoAddr} /\ wrote[i].at \in 0..Len(stream)
    <3>1. wrote[i] \in Message
      <4>1. wrote \in Seq(Message)
        BY <2>2 DEF Types
      <4>. QED
        BY <4>1, ElementOfSeq
    <3>2. wrote[i].at \in 0..Len(stream)
      BY <2>2 DEF LedInv
    <3>. QED
      BY <3>1, <3>2 DEF Message
  <2>. QED
    BY <2>2, <2>3, <2>4 DEF TypeOK, Types
<1>. QED
  BY <1>1, ClientInvariant, PTL

\* A LED command names the device whose report came last in what the client had
\* read, however the reports were cut up (on_received_pkt, handle_message).
THEOREM LedCorrect == Spec => []LedAddressesLatest
<1>1. ClientInv => LedAddressesLatest
  BY DEF ClientInv, LedInv, LedAddressesLatest
<1>. QED
  BY <1>1, ClientInvariant, PTL

\* While the console is open a line after the address switches the LED at most
\* once, and "quit" is the last thing the server hears (handle_message).
THEOREM ConsoleCorrect == Spec => []OneCommandPerLine
<1>1. ClientInv => OneCommandPerLine
  BY DEF ClientInv, LoopInv
<1>. QED
  BY <1>1, ClientInvariant, PTL
=============================================================================
