--------------------------- MODULE Ascending_proofs ---------------------------
(***************************************************************************)
(* The ascending enumeration of a finite set of numbers exists, is unique, *)
(* and can be put together from those of its parts.                        *)
(***************************************************************************)
EXTENDS Ascending, Sequences, SequenceTheorems, FunctionTheorems, FiniteSetTheorems, WellFoundedInduction, TLAPS

\* every set of naturals has a least member; proofs by induction take the least
\* counterexample
LEMMA LeastNat ==
  ASSUME NEW T \in SUBSET Nat, T # {}
  PROVE  \E x \in T : \A y \in T : x <= y
<1>1. PICK x \in T : \A y \in T : ~(<<y, x>> \in OpToRel(<, Nat))
  BY NatLessThanWellFounded, WFMin
<1>2. \A y \in T : ~(y < x)
  BY <1>1 DEF OpToRel
<1>. QED
  BY <1>2

-----------------------------------------------------------------------------
(* Existence and uniqueness. *)

\* q lists the numbers of S in ascending order
Lists(q, S) ==
  /\ q \in Seq(S)
  /\ \A i, j \in 1..Len(q) : i < j => q[i] < q[j]
  /\ \A x \in S : \E i \in 1..Len(q) : q[i] = x

LEMMA ListsAppend ==
  ASSUME NEW S \in SUBSET Int, NEW q, Lists(q, S), NEW x \in Int, \A y \in S : y < x
  PROVE  Lists(Append(q, x), S \cup {x})
<1> DEFINE r == Append(q, x)
<1>1. /\ q \in Seq(S \cup {x}) /\ q \in Seq(S)
      /\ Len(q) \in Nat
  BY DEF Lists
<1>2. /\ r \in Seq(S \cup {x}) /\ Len(r) = Len(q) + 1
      /\ \A i \in 1..Len(q) : r[i] = q[i] /\ q[i] \in S
      /\ r[Len(q) + 1] = x
  BY <1>1
<1>. HIDE DEF r
<1>3. \A i \in 1..Len(r) : i \in 1..Len(q) \/ i = Len(q) + 1
  BY <1>1, <1>2
<1>4. ASSUME NEW i \in 1..Len(r), NEW j \in 1..Len(r), i < j
      PROVE  r[i] < r[j]
  <2>1. i \in 1..Len(q)
    BY <1>1, <1>2, <1>3, <1>4
  <2>2. CASE j \in 1..Len(q)
    BY <1>2, <1>4, <2>1, <2>2 DEF Lists
  <2>3. CASE j = Len(q) + 1
    BY <1>2, <2>1, <2>3
  <2>. QED
    BY <1>3, <2>2, <2>3
<1>5. ASSUME NEW y \in S \cup {x}
      PROVE  \E i \in 1..Len(r) : r[i] = y
  <2>1. CASE y = x
    BY <1>1, <1>2, <2>1
  <2>2. CASE y \in S
    <3>1. PICK i \in 1..Len(q) : q[i] = y
      BY <2>2 DEF Lists
    <3>2. i \in 1..Len(r)
      BY <1>1, <1>2
    <3>. QED
      BY <1>2, <3>1, <3>2
  <2>. QED
    BY <2>1, <2>2
<1>. QED
  BY <1>2, <1>4, <1>5 DEF Lists, r

LEMMA ListExists ==
  ASSUME NEW n \in Nat, NEW S \in SUBSET (1..n)
  PROVE  \E q : Lists(q, S)
<1> DEFINE Bad == {m \in 0..n : \E T \in SUBSET (1..m) : ~ \E q : Lists(q, T)}
<1>1. SUFFICES Bad = {}
  <2>1. n \in 0..n
    OBVIOUS
  <2>. QED
    BY <2>1
<1>2. SUFFICES ASSUME Bad # {} PROVE FALSE
  OBVIOUS
<1>3. PICK m \in Bad : \A k \in Bad : m <= k
  <2>1. Bad \in SUBSET Nat
    OBVIOUS
  <2>. QED
    BY <1>2, <2>1, LeastNat
<1>4. PICK T \in SUBSET (1..m) : ~ \E q : Lists(q, T)
  OBVIOUS
<1>5. m # 0
  <2>1. SUFFICES ASSUME m = 0 PROVE FALSE
    OBVIOUS
  <2>2. T = {}
    BY <1>4, <2>1
  <2>3. Lists(<<>>, {})
    BY EmptySeq DEF Lists
  <2>. QED
    BY <1>4, <2>2, <2>3
<1>6. m - 1 \in 0..n /\ m - 1 \notin Bad
  BY <1>3, <1>5
<1>7. PICK q : Lists(q, T \ {m})
  <2>1. T \ {m} \in SUBSET (1..m - 1)
    BY <1>5
  <2>. QED
    BY <1>6, <2>1
<1>8. CASE m \in T
  <2>1. T \ {m} \in SUBSET Int /\ m \in Int /\ \A y \in T \ {m} : y < m
    OBVIOUS
  <2>2. Lists(Append(q, m), (T \ {m}) \cup {m})
    BY <1>7, <2>1, ListsAppend
  <2>3. (T \ {m}) \cup {m} = T
    BY <1>8
  <2>. QED
    BY <1>4, <2>2, <2>3
<1>9. CASE m \notin T
  BY <1>4, <1>7, <1>9
<1>. QED
  BY <1>8, <1>9

\* a set of numbers has one ascending list
LEMMA ListsUnique ==
  ASSUME NEW S \in SUBSET Int, NEW q, NEW r, Lists(q, S), Lists(r, S)
  PROVE  q = r
<1>1. /\ q \in Seq(S) /\ r \in Seq(S) /\ Len(q) \in Nat /\ Len(r) \in Nat
      /\ \A i \in 1..Len(q) : q[i] \in S /\ q[i] \in Int
      /\ \A i \in 1..Len(r) : r[i] \in S /\ r[i] \in Int
  <2>1. q \in Seq(S) /\ r \in Seq(S)
    BY DEF Lists
  <2>2. \A x \in S : x \in Int
    OBVIOUS
  <2>. QED
    BY <2>1, <2>2, LenProperties, ElementOfSeq
<1> DEFINE Bad == {i \in Nat : i \in 1..Len(q) /\ ~(i \in 1..Len(r) /\ q[i] = r[i])}
<1>2. ASSUME NEW i \in 1..Len(q), \A k \in 1..i - 1 : k \in 1..Len(r) /\ q[k] = r[k]
      PROVE  i \in 1..Len(r) /\ q[i] = r[i]
  <2>1. PICK j \in 1..Len(r) : r[j] = q[i]
    BY <1>1 DEF Lists
  <2>2. j >= i
    <3>1. SUFFICES ASSUME j < i PROVE FALSE
      BY <1>1
    <3>2. j \in 1..i - 1 /\ j \in 1..Len(q)
      BY <1>1, <3>1
    <3>3. q[j] = q[i]
      BY <1>2, <2>1, <3>2
    <3>4. q[j] < q[i]
      BY <3>1, <3>2 DEF Lists
    <3>. QED
      BY <1>1, <3>2, <3>3, <3>4
  <2>3. i \in 1..Len(r)
    BY <1>1, <2>2
  <2>4. PICK k \in 1..Len(q) : q[k] = r[i]
    BY <1>1, <2>3 DEF Lists
  <2>5. k >= i
    <3>1. SUFFICES ASSUME k < i PROVE FALSE
      BY <1>1
    <3>2. k \in 1..i - 1 /\ k \in 1..Len(r)
      BY <1>1, <1>2, <3>1
    <3>3. r[k] = r[i]
      BY <1>2, <2>4, <3>2
    <3>4. r[k] < r[i]
      BY <2>3, <3>1, <3>2 DEF Lists
    <3>. QED
      BY <1>1, <2>3, <3>2, <3>3, <3>4
  <2>6. CASE j > i /\ k > i
    <3>1. r[i] < r[j]
      BY <2>3, <2>6 DEF Lists
    <3>2. q[i] < q[k]
      BY <2>6 DEF Lists
    <3>. QED
      BY <1>1, <2>1, <2>3, <2>4, <3>1, <3>2
  <2>. QED
    BY <1>1, <2>1, <2>2, <2>3, <2>4, <2>5, <2>6
<1>3. Bad = {}
  <2>1. SUFFICES ASSUME Bad # {} PROVE FALSE
    OBVIOUS
  <2>2. PICK i \in Bad : \A k \in Bad : i <= k
    <3>1. Bad \in SUBSET Nat
      OBVIOUS
    <3>. QED
      BY <2>1, <3>1, LeastNat
  <2>3. \A k \in 1..i - 1 : k \in Nat /\ k \in 1..Len(q) /\ ~(i <= k)
    BY <1>1
  <2>4. \A k \in 1..i - 1 : k \in 1..Len(r) /\ q[k] = r[k]
    BY <2>2, <2>3
  <2>. QED
    BY <1>2, <2>4
<1>4. \A i \in 1..Len(q) : i \in 1..Len(r) /\ q[i] = r[i]
  BY <1>1, <1>3
<1>5. Len(r) <= Len(q)
  <2>1. SUFFICES ASSUME Len(q) < Len(r) PROVE FALSE
    BY <1>1
  <2>2. Len(q) + 1 \in 1..Len(r)
    BY <1>1, <2>1
  <2>3. PICK k \in 1..Len(q) : q[k] = r[Len(q) + 1]
    BY <1>1, <2>2 DEF Lists
  <2>4. k \in 1..Len(r) /\ k < Len(q) + 1 /\ r[k] = r[Len(q) + 1]
    BY <1>1, <1>4, <2>3
  <2>5. r[k] < r[Len(q) + 1]
    BY <2>2, <2>4 DEF Lists
  <2>. QED
    BY <1>1, <2>2, <2>4, <2>5
<1>6. Len(q) <= Len(r)
  <2>1. CASE Len(q) = 0
    BY <1>1, <2>1
  <2>2. CASE Len(q) # 0
    <3>1. Len(q) \in 1..Len(q)
      BY <1>1, <2>2
    <3>2. Len(q) \in 1..Len(r)
      BY <1>4, <3>1
    <3>. QED
      BY <1>1, <3>2
  <2>. QED
    BY <2>1, <2>2
<1>7. Len(q) = Len(r)
  BY <1>1, <1>5, <1>6
<1>. QED
  BY <1>1, <1>4, <1>7, SeqEqual

-----------------------------------------------------------------------------
(* The operator. *)

LEMMA AscendingIs ==
  ASSUME NEW n \in Nat, NEW S \in SUBSET (1..n)
  PROVE  Lists(Ascending(S), S)
<1> DEFINE m == Cardinality(S)
           Up(q) == \A i, j \in DOMAIN q : i < j => q[i] < q[j]
<1>1. PICK r : Lists(r, S)
  BY ListExists
<1>2. /\ r \in [1..Len(r) -> S] /\ Len(r) \in Nat /\ DOMAIN r = 1..Len(r)
      /\ \A i \in 1..Len(r) : r[i] \in Int
  <2>1. r \in Seq(S) /\ \A x \in S : x \in Int
    BY <1>1 DEF Lists
  <2>. QED
    BY <2>1, LenProperties, ElementOfSeq
<1>3. ASSUME NEW k \in Nat, NEW q \in [1..k -> S], Up(q)
      PROVE  q \in Injection(1..k, S)
  <2>1. ASSUME NEW i \in 1..k, NEW j \in 1..k, i # j PROVE q[i] # q[j]
    <3>1. q[i] \in Int /\ q[j] \in Int /\ (i < j \/ j < i)
      <4>1. q[i] \in S /\ q[j] \in S
        BY <1>3
      <4>2. \A x \in S : x \in Int
        OBVIOUS
      <4>3. q[i] \in Int /\ q[j] \in Int
        BY <4>1, <4>2
      <4>4. i < j \/ j < i
        BY <2>1
      <4>. QED
        BY <4>3, <4>4
    <3>2. CASE i < j
      <4>1. q[i] < q[j]
        BY <1>3, <3>2
      <4>. QED
        BY <3>1, <4>1
    <3>3. CASE j < i
      <4>1. q[j] < q[i]
        BY <1>3, <3>3
      <4>. QED
        BY <3>1, <4>1
    <3>. QED
      BY <3>1, <3>2, <3>3
  <2>. QED
    BY <2>1 DEF Injection, IsInjective
<1>4. r \in Bijection(1..Len(r), S)
  <2>1. r \in Injection(1..Len(r), S)
    BY <1>1, <1>2, <1>3 DEF Lists
  <2>2. r \in Surjection(1..Len(r), S)
    BY <1>1, <1>2 DEF Lists, Surjection
  <2>. QED
    BY <2>1, <2>2 DEF Bijection
<1>5. m = Len(r)
  <2>1. ExistsBijection(1..Len(r), S)
    BY <1>4 DEF ExistsBijection
  <2>. QED
    BY <1>2, <2>1, FS_CountingElements
<1>6. r \in [1..m -> S] /\ Up(r)
  BY <1>1, <1>2, <1>5 DEF Lists
<1> DEFINE q == Ascending(S)
<1>7. q \in [1..m -> S] /\ Up(q)
  BY <1>6 DEF Ascending
<1>. HIDE DEF q
<1>8. q \in Surjection(1..m, S)
  <2>1. IsFiniteSet(S) /\ IsFiniteSet(1..m) /\ Cardinality(1..m) = m
    <3>1. IsFiniteSet(1..n)
      BY FS_Interval
    <3>2. IsFiniteSet(S)
      BY <3>1, FS_Subset
    <3>3. m \in Nat
      BY <1>2, <1>5
    <3>. QED
      BY <3>2, <3>3, FS_Interval
  <2>2. q \in Injection(1..m, S)
    BY <1>2, <1>3, <1>5, <1>7
  <2>. QED
    BY <2>1, <2>2, FS_Injection
<1>9. q \in Seq(S) /\ Len(q) = m
  BY <1>2, <1>5, <1>7
<1>10. \A x \in S : \E i \in 1..Len(q) : q[i] = x
  BY <1>8, <1>9 DEF Surjection
<1>11. \A i, j \in 1..Len(q) : i < j => q[i] < q[j]
  BY <1>7, <1>9
<1>. QED
  BY <1>9, <1>10, <1>11 DEF Lists, q

LEMMA AscendingUnique ==
  ASSUME NEW n \in Nat, NEW S \in SUBSET (1..n), NEW q, Lists(q, S)
  PROVE  Ascending(S) = q
<1>1. S \in SUBSET Int
  OBVIOUS
<1>. QED
  BY <1>1, AscendingIs, ListsUnique

-----------------------------------------------------------------------------
(* Putting lists together. *)

LEMMA ListsEmpty == Lists(<<>>, {})
BY EmptySeq DEF Lists

LEMMA ListsSingle ==
  ASSUME NEW x \in Int
  PROVE  Lists(<<x>>, {x})
<1>1. <<x>> \in Seq({x}) /\ Len(<<x>>) = 1 /\ <<x>>[1] = x
  OBVIOUS
<1>2. \A i \in 1..Len(<<x>>) : i = 1
  BY <1>1
<1>3. 1 \in 1..Len(<<x>>)
  BY <1>1
<1>. QED
  BY <1>1, <1>2, <1>3 DEF Lists

LEMMA ListsConcat ==
  ASSUME NEW S \in SUBSET Int, NEW T \in SUBSET Int, NEW q, NEW r,
         Lists(q, S), Lists(r, T), \A x \in S : \A y \in T : x < y
  PROVE  Lists(q \o r, S \cup T)
<1> DEFINE u == q \o r
<1>1. /\ q \in Seq(S \cup T) /\ r \in Seq(S \cup T)
      /\ q \in Seq(S) /\ r \in Seq(T)
      /\ Len(q) \in Nat /\ Len(r) \in Nat
  BY DEF Lists
<1>2. /\ \A i \in 1..Len(q) : q[i] \in S
      /\ \A i \in 1..Len(r) : r[i] \in T
  BY <1>1, ElementOfSeq
<1>3. /\ u \in Seq(S \cup T) /\ Len(u) = Len(q) + Len(r)
      /\ \A i \in 1..Len(q) + Len(r) : u[i] = IF i <= Len(q) THEN q[i] ELSE r[i - Len(q)]
  BY <1>1, ConcatProperties
<1>. HIDE DEF u
<1>4. ASSUME NEW i \in 1..Len(u)
      PROVE  \/ i \in 1..Len(q) /\ u[i] = q[i]
             \/ i - Len(q) \in 1..Len(r) /\ i > Len(q) /\ u[i] = r[i - Len(q)]
  <2>1. CASE i <= Len(q)
    BY <1>1, <1>3, <2>1
  <2>2. CASE ~(i <= Len(q))
    <3>1. i - Len(q) \in 1..Len(r) /\ i > Len(q)
      BY <1>1, <1>3, <2>2
    <3>. QED
      BY <1>3, <2>2, <3>1
  <2>. QED
    BY <2>1, <2>2
<1>5. ASSUME NEW i \in 1..Len(u), NEW j \in 1..Len(u), i < j
      PROVE  u[i] < u[j]
  <2>1. CASE i \in 1..Len(q) /\ u[i] = q[i] /\ j \in 1..Len(q) /\ u[j] = q[j]
    BY <1>5, <2>1 DEF Lists
  <2>2. CASE i \in 1..Len(q) /\ u[i] = q[i] /\ j - Len(q) \in 1..Len(r) /\ u[j] = r[j - Len(q)]
    BY <1>2, <2>2
  <2>3. CASE i - Len(q) \in 1..Len(r) /\ i > Len(q) /\ j \in 1..Len(q)
    BY <1>1, <1>5, <2>3
  <2>4. CASE /\ i - Len(q) \in 1..Len(r) /\ u[i] = r[i - Len(q)]
             /\ j - Len(q) \in 1..Len(r) /\ u[j] = r[j - Len(q)]
    <3>1. i - Len(q) < j - Len(q)
      BY <1>1, <1>5
    <3>. QED
      BY <2>4, <3>1 DEF Lists
  <2>. QED
    BY <1>4, <2>1, <2>2, <2>3, <2>4
<1>6. ASSUME NEW x \in S \cup T
      PROVE  \E i \in 1..Len(u) : u[i] = x
  <2>1. CASE x \in S
    <3>1. PICK i \in 1..Len(q) : q[i] = x
      BY <2>1 DEF Lists
    <3>2. i \in 1..Len(u) /\ i \in 1..Len(q) + Len(r) /\ i <= Len(q)
      BY <1>1, <1>3
    <3>. QED
      BY <1>3, <3>1, <3>2
  <2>2. CASE x \in T
    <3>1. PICK i \in 1..Len(r) : r[i] = x
      BY <2>2 DEF Lists
    <3>2. /\ Len(q) + i \in 1..Len(u) /\ Len(q) + i \in 1..Len(q) + Len(r)
          /\ ~(Len(q) + i <= Len(q)) /\ (Len(q) + i) - Len(q) = i
      BY <1>1, <1>3
    <3>3. u[Len(q) + i] = x
      BY <1>3, <3>1, <3>2
    <3>. QED
      BY <3>2, <3>3
  <2>. QED
    BY <2>1, <2>2
<1>. QED
  BY <1>3, <1>5, <1>6 DEF Lists, u

LEMMA ListsShift ==
  ASSUME NEW S \in SUBSET Int, NEW q, Lists(q, S), NEW d \in Int
  PROVE  Lists([k \in 1..Len(q) |-> d + q[k]], {d + x : x \in S})
<1> DEFINE T == {d + x : x \in S}
           r == [k \in 1..Len(q) |-> d + q[k]]
<1>1. q \in Seq(S) /\ Len(q) \in Nat
  BY DEF Lists
<1>2. \A i \in 1..Len(q) : q[i] \in S /\ q[i] \in Int
  BY <1>1, ElementOfSeq
<1>3. \A i \in 1..Len(q) : d + q[i] \in T
  BY <1>2
<1>4. r \in [1..Len(q) -> T] /\ \A i \in 1..Len(q) : r[i] = d + q[i]
  BY <1>3
<1>. HIDE DEF r
<1>5. r \in Seq(T) /\ Len(r) = Len(q)
  BY <1>1, <1>4
<1>6. ASSUME NEW i \in 1..Len(r), NEW j \in 1..Len(r), i < j
      PROVE  r[i] < r[j]
  <2>1. q[i] < q[j]
    BY <1>5, <1>6 DEF Lists
  <2>. QED
    BY <1>2, <1>4, <1>5, <2>1
<1>7. ASSUME NEW y \in T
      PROVE  \E i \in 1..Len(r) : r[i] = y
  <2>1. PICK x \in S : y = d + x
    OBVIOUS
  <2>2. PICK i \in 1..Len(q) : q[i] = x
    BY DEF Lists
  <2>. QED
    BY <1>4, <1>5, <2>1, <2>2
<1>. QED
  BY <1>5, <1>6, <1>7 DEF Lists, r
=============================================================================
