----------------------------- MODULE Shell_proofs -----------------------------
(* Proofs about CommandList, for any commands and any order of their names,  *)
(* and about Shell, for any lines and any limit of argv.                     *)
EXTENDS Shell, Ascending_proofs, TLAPS

\* What InsertAt of a number yields, position by position.
LEMMA Inserted ==
  ASSUME NEW S, NEW s \in Seq(S), NEW p \in 1..(Len(s) + 1), NEW e \in S
  PROVE  /\ InsertAt(s, p, e) \in Seq(S)
         /\ Len(InsertAt(s, p, e)) = Len(s) + 1
         /\ \A i \in 1..(Len(s) + 1) :
              InsertAt(s, p, e)[i] = IF i < p THEN s[i] ELSE IF i = p THEN e ELSE s[i - 1]
<1> DEFINE a == SubSeq(s, 1, p - 1)
           b == SubSeq(s, p, Len(s))
           t == InsertAt(s, p, e)
<1>1. Len(s) \in Nat /\ p \in Nat /\ 1 <= p /\ p <= Len(s) + 1
  OBVIOUS
<1>2. a \in Seq(S) /\ Len(a) = p - 1 /\ \A i \in 1..(p - 1) : a[i] = s[i]
  BY <1>1
<1>3. b \in Seq(S) /\ Len(b) = Len(s) - p + 1 /\ \A i \in 1..(Len(s) - p + 1) : b[i] = s[p + i - 1]
  BY <1>1
<1>4. t = (a \o <<e>>) \o b
  BY DEF InsertAt
<1> HIDE DEF a, b, t
<1>5. /\ a \o <<e>> \in Seq(S) /\ Len(a \o <<e>>) = p
      /\ \A i \in 1..p : (a \o <<e>>)[i] = IF i < p THEN a[i] ELSE e
  BY <1>1, <1>2
<1>6. t \in Seq(S) /\ Len(t) = Len(s) + 1
  BY <1>1, <1>3, <1>4, <1>5
<1>7. \A i \in 1..Len(t) : t[i] = IF i <= p THEN (a \o <<e>>)[i] ELSE b[i - p]
  BY <1>1, <1>3, <1>4, <1>5, <1>6
<1>8. \A i \in 1..Len(t) : t[i] = IF i < p THEN s[i] ELSE IF i = p THEN e ELSE s[i - 1]
  <2> SUFFICES ASSUME NEW i \in 1..Len(t)
               PROVE  t[i] = IF i < p THEN s[i] ELSE IF i = p THEN e ELSE s[i - 1]
    OBVIOUS
  <2>1. CASE i <= p
    BY <1>1, <1>2, <1>5, <1>7, <2>1
  <2>2. CASE i > p
    <3>1. i - p \in 1..(Len(s) - p + 1) /\ p + (i - p) - 1 = i - 1
      BY <1>1, <1>6, <2>2
    <3>2. b[i - p] = s[i - 1]
      BY <1>3, <3>1
    <3>. QED
      BY <1>1, <1>6, <1>7, <2>2, <3>2
  <2>. QED
    BY <1>1, <1>6, <2>1, <2>2
<1>. QED
  BY <1>1, <1>6, <1>8 DEF t

IInv == ListTypeOK /\ ListComplete /\ ListOrdered

LEMMA InitInv == ListInit => IInv
  BY DEF ListInit, IInv, ListTypeOK, ListComplete, ListOrdered

\* The neighbours of the place of insertion bound the new command, and by the order
\* of the list so do all the others.
LEMMA InstallInv ==
  ASSUME IInv, NEW cmd \in Command, command_install(cmd)
  PROVE  IInv'
<1> DEFINE n == Len(installed) + 1
<1>1. /\ installed \in Seq(Command) /\ user \in Seq(1..Len(installed))
      /\ Len(user) = Len(installed) /\ Len(installed) \in Nat
  BY DEF IInv, ListTypeOK, ListComplete
<1>2. /\ installed' \in Seq(Command) /\ Len(installed') = n
      /\ installed'[n] = cmd /\ \A k \in 1..Len(installed) : installed'[k] = installed[k]
  BY <1>1 DEF command_install
<1>3. PICK p \in 1..(Len(user) + 1) : Place(cmd, p) /\ user' = InsertAt(user, p, n)
  BY DEF command_install, Linked
<1>4. /\ user' \in Seq(1..n) /\ Len(user') = n
      /\ \A i \in 1..n : user'[i] = IF i < p THEN user[i] ELSE IF i = p THEN n ELSE user[i - 1]
  <2>1. user \in Seq(1..n) /\ n \in 1..n
    <3>1. \A i \in 1..Len(user) : user[i] \in 1..n
      BY <1>1
    <3>. QED
      BY <1>1, <3>1
  <2>2. p \in 1..(Len(user) + 1) /\ Len(user) + 1 = n
    BY <1>1, <1>3
  <2> HIDE DEF n
  <2>3. /\ InsertAt(user, p, n) \in Seq(1..n)
        /\ Len(InsertAt(user, p, n)) = Len(user) + 1
        /\ \A i \in 1..(Len(user) + 1) : InsertAt(user, p, n)[i]
             = IF i < p THEN user[i] ELSE IF i = p THEN n ELSE user[i - 1]
    BY <2>1, <2>2, Inserted
  <2>. QED
    BY <1>3, <2>2, <2>3
<1>5. p \in 1..n /\ \A i \in 1..Len(user) : user[i] \in 1..Len(installed) /\ user[i] < n
  BY <1>1, <1>3
<1> HIDE DEF n
<1>6. n \in Nat \ {0} /\ Len(installed) = n - 1 /\ Len(user) = n - 1
  BY <1>1 DEF n
<1>7. ListTypeOK'
  <2>1. DOMAIN installed' = 1..n
    BY <1>2
  <2>. QED
    BY <1>2, <1>4, <2>1 DEF ListTypeOK
<1>8. ListComplete'
  <2>1. \A i, j \in 1..n : user'[i] = user'[j] => i = j
    <3> SUFFICES ASSUME NEW i \in 1..n, NEW j \in 1..n, user'[i] = user'[j], i < j
                 PROVE  FALSE
      BY <1>6
    <3>1. \A k, l \in 1..(n - 1) : user[k] = user[l] => k = l
      BY <1>6 DEF IInv, ListComplete
    <3>2. /\ i < p => i \in 1..(n - 1)
          /\ j > p => j - 1 \in 1..(n - 1)
          /\ i > p => i - 1 \in 1..(n - 1)
          /\ j < p => j \in 1..(n - 1)
      BY <1>5, <1>6
    <3>3. \A k \in 1..(n - 1) : user[k] # n
      BY <1>5, <1>6
    <3>4. p \in Nat /\ i \in Nat /\ j \in Nat
      BY <1>5
    <3>5. CASE j < p
      <4>1. user'[i] = user[i] /\ user'[j] = user[j] /\ i < p
        BY <1>4, <3>4, <3>5
      <4>2. i \in 1..(n - 1) /\ j \in 1..(n - 1)
        BY <3>2, <3>5, <4>1
      <4>3. i # j
        BY <3>4
      <4>4. user[i] = user[j]
        BY <4>1
      <4>. QED
        BY <3>1, <4>2, <4>3, <4>4
    <3>6. CASE j = p
      <4>1. user'[i] = user[i] /\ user'[j] = n /\ i < p
        BY <1>4, <3>4, <3>6
      <4>. QED
        BY <3>2, <3>3, <4>1
    <3>7. CASE j > p /\ i < p
      <4>1. user'[i] = user[i] /\ user'[j] = user[j - 1] /\ i # j - 1
        BY <1>4, <3>4, <3>7
      <4>. QED
        BY <3>1, <3>2, <3>7, <4>1
    <3>8. CASE j > p /\ i = p
      <4>1. user'[i] = n /\ user'[j] = user[j - 1]
        BY <1>4, <3>4, <3>8
      <4>. QED
        BY <3>2, <3>3, <3>8, <4>1
    <3>9. CASE j > p /\ i > p
      <4>1. user'[i] = user[i - 1] /\ user'[j] = user[j - 1] /\ i - 1 # j - 1
        BY <1>4, <3>4, <3>9
      <4>. QED
        BY <3>1, <3>2, <3>9, <4>1
    <3>. QED
      BY <3>4, <3>5, <3>6, <3>7, <3>8, <3>9
  <2>. QED
    BY <1>2, <1>4, <2>1 DEF ListComplete
<1>9. ListOrdered'
  <2> DEFINE R(k)     == Rank[installed'[k].name]
             Below(k, l) == R(k) < R(l) \/ (installed'[k].name = installed'[l].name /\ k < l)
  <2>1. \A k \in 1..n : installed'[k].name \in Name /\ R(k) \in Nat
    <3>1. \A k \in 1..n : installed'[k] \in Command
      BY <1>2
    <3>. QED
      BY <3>1, ListAssumption DEF Command
  <2>2. \A k, l \in 1..n : R(k) = R(l) => installed'[k].name = installed'[l].name
    BY <2>1, ListAssumption
  <2>3. \A i, j \in 1..(n - 1) : i < j => Below(user[i], user[j])
    <3> SUFFICES ASSUME NEW i \in 1..(n - 1), NEW j \in 1..(n - 1), i < j
                 PROVE  Below(user[i], user[j])
      OBVIOUS
    <3>1. installed'[user[i]] = installed[user[i]] /\ installed'[user[j]] = installed[user[j]]
      BY <1>2, <1>5, <1>6
    <3>. QED
      BY <1>6, <3>1 DEF IInv, ListOrdered
  <2>4. \A i \in 1..(p - 1) : R(user[i]) <= R(n)
    <3> SUFFICES ASSUME NEW i \in 1..(p - 1) PROVE R(user[i]) <= R(n)
      OBVIOUS
    <3>1. i \in 1..Len(user) /\ user[i] \in 1..Len(installed) /\ user[i] \in 1..n
      BY <1>5, <1>6
    <3>2. ~(Rank[cmd.name] < Rank[installed[user[i]].name])
      BY <1>3 DEF Place, Smaller
    <3>3. R(user[i]) = Rank[installed[user[i]].name] /\ R(n) = Rank[cmd.name]
      BY <1>2, <3>1
    <3>4. R(user[i]) \in Nat /\ R(n) \in Nat
      BY <1>6, <2>1, <3>1
    <3>. QED
      BY <3>2, <3>3, <3>4
  <2>5. p < n => R(n) < R(user[p])
    <3> SUFFICES ASSUME p < n PROVE R(n) < R(user[p])
      OBVIOUS
    <3>1. p \in 1..Len(user) /\ user[p] \in 1..Len(installed)
      BY <1>5, <1>6
    <3>. QED
      BY <1>2, <1>3, <1>6, <3>1 DEF Place, Smaller
  <2>6. \A i \in p..(n - 1) : R(n) < R(user[i])
    <3> SUFFICES ASSUME NEW i \in p..(n - 1) PROVE R(n) < R(user[i])
      OBVIOUS
    <3>1. p < n /\ p \in 1..(n - 1) /\ i \in 1..(n - 1) /\ (i = p \/ p < i)
      BY <1>5, <1>6
    <3>2. user[p] \in 1..n /\ user[i] \in 1..n /\ n \in 1..n
      BY <1>5, <1>6, <3>1
    <3>3. R(user[p]) <= R(user[i])
      <4>1. CASE i = p
        BY <2>1, <3>2, <4>1
      <4>2. CASE p < i
        <5>1. Below(user[p], user[i])
          BY <2>3, <3>1, <4>2
        <5>2. R(user[p]) \in Nat /\ R(user[i]) \in Nat
          BY <2>1, <3>2
        <5>. QED
          BY <5>1, <5>2
      <4>. QED
        BY <3>1, <4>1, <4>2
    <3>4. R(user[p]) \in Nat /\ R(user[i]) \in Nat /\ R(n) \in Nat
      BY <2>1, <3>2
    <3>. QED
      BY <2>5, <3>1, <3>3, <3>4
  <2>7. \A k, l \in 1..n : R(k) < R(l) \/ (R(k) = R(l) /\ k < l) => Below(k, l)
    BY <2>2
  <2> HIDE DEF R, Below
  <2>8. \A i, j \in 1..n : i < j => Below(user'[i], user'[j])
    <3> SUFFICES ASSUME NEW i \in 1..n, NEW j \in 1..n, i < j
                 PROVE  Below(user'[i], user'[j])
      OBVIOUS
    <3>1. p \in 1..n /\ p \in Nat /\ i \in Nat /\ j \in Nat
      BY <1>5
    <3>2. CASE j < p
      <4>1. i \in 1..(n - 1) /\ j \in 1..(n - 1) /\ user'[i] = user[i] /\ user'[j] = user[j]
        BY <1>4, <1>6, <3>1, <3>2
      <4>. QED
        BY <2>3, <4>1
    <3>3. CASE j = p
      <4>1. i \in 1..(p - 1) /\ i \in 1..Len(user) /\ user'[i] = user[i] /\ user'[j] = n
        BY <1>4, <1>6, <3>1, <3>3
      <4>2. user[i] < n /\ user[i] \in 1..n /\ n \in 1..n
        BY <1>5, <1>6, <4>1
      <4>3. R(user[i]) <= R(n)
        BY <2>4, <4>1
      <4>4. R(user[i]) \in Nat /\ R(n) \in Nat
        BY <2>1, <4>2
      <4>5. R(user[i]) < R(n) \/ (R(user[i]) = R(n) /\ user[i] < n)
        BY <4>2, <4>3, <4>4
      <4>. QED
        BY <2>7, <4>1, <4>2, <4>5
    <3>4. CASE j > p /\ i < p
      <4>1. i \in 1..(n - 1) /\ j - 1 \in 1..(n - 1) /\ i < j - 1
        BY <1>6, <3>1, <3>4
      <4>2. user'[i] = user[i]
        BY <1>4, <3>1, <3>4
      <4>3. user'[j] = user[j - 1]
        BY <1>4, <3>1, <3>4
      <4>. QED
        BY <2>3, <4>1, <4>2, <4>3
    <3>5. CASE j > p /\ i = p
      <4>1. j - 1 \in p..(n - 1) /\ j - 1 \in 1..Len(user) /\ user'[i] = n /\ user'[j] = user[j - 1]
        BY <1>4, <1>6, <3>1, <3>5
      <4>2. R(n) < R(user[j - 1]) /\ user[j - 1] \in 1..n /\ n \in 1..n
        BY <1>5, <1>6, <2>6, <4>1
      <4>. QED
        BY <2>7, <4>1, <4>2
    <3>6. CASE j > p /\ i > p
      <4>1. i - 1 \in 1..(n - 1) /\ j - 1 \in 1..(n - 1) /\ i - 1 < j - 1
        BY <1>6, <3>1, <3>6
      <4>2. user'[i] = user[i - 1] /\ user'[j] = user[j - 1]
        BY <1>4, <3>1, <3>6
      <4>. QED
        BY <2>3, <4>1, <4>2
    <3>. QED
      BY <3>1, <3>2, <3>3, <3>4, <3>5, <3>6
  <2>. QED
    BY <1>4, <2>8 DEF ListOrdered, Below, R
<1>. QED
  BY <1>7, <1>8, <1>9 DEF IInv

LEMMA IInvAlways == ListSpec => []IInv
<1>1. IInv /\ [ListNext]_listVars => IInv'
  <2> SUFFICES ASSUME IInv, [ListNext]_listVars PROVE IInv'
    OBVIOUS
  <2>1. CASE ListNext
    BY <2>1, InstallInv DEF ListNext
  <2>2. CASE UNCHANGED listVars
    BY <2>2 DEF listVars, IInv, ListTypeOK, ListComplete, ListOrdered
  <2>. QED
    BY <2>1, <2>2
<1>. QED
  BY InitInv, <1>1, PTL DEF ListSpec

\* The list holds numbers of installed commands.
THEOREM ListTypeCorrect == ListSpec => []ListTypeOK
<1>1. IInv => ListTypeOK
  BY DEF IInv
<1>. QED
  BY IInvAlways, <1>1, PTL

\* However many commands are installed in whatever order, __command_add loses none.
THEOREM NoCommandLost == ListSpec => []ListComplete
<1>1. IInv => ListComplete
  BY DEF IInv
<1>. QED
  BY IInvAlways, <1>1, PTL

\* The list is always sorted, and an earlier command of a name hides a later one.
THEOREM ListSorted == ListSpec => []ListOrdered
<1>1. IInv => ListOrdered
  BY DEF IInv
<1>. QED
  BY IInvAlways, <1>1, PTL

-----------------------------------------------------------------------------
(* The words of a line. *)

\* from e on, the first word of the line stands at s..t
WordAt(line, e, s, t) ==
  /\ s \in e..Len(line) /\ t \in s..Len(line)
  /\ \A i \in e..s - 1 : ~InWord(line, i)
  /\ \A i \in s..t : InWord(line, i)
  /\ ~InWord(line, t + 1)

\* where the turn after it begins
After(line, t) == IF t = Len(line) THEN Len(line) + 1 ELSE t + 2

LEMMA MinIs ==
  ASSUME NEW T \in SUBSET Nat, T # {}
  PROVE  Min(T) \in T /\ \A y \in T : Min(T) <= y
<1>1. \E x \in T : \A y \in T : x <= y
  BY LeastNat
<1>. QED
  BY <1>1 DEF Min

\* What a turn of command_prepare_argv does.
LEMMA TurnIs ==
  ASSUME NEW line \in Seq(Nat), NEW e \in 1..Len(line) + 1
  PROVE  \/ /\ \A i \in e..Len(line) : ~InWord(line, i)
            /\ \A argc, from : Turn(line, e, argc, from) = <<>>
         \/ \E s, t \in 1..Len(line) :
              /\ WordAt(line, e, s, t)
              /\ \A argc, from : Turn(line, e, argc, from)
                   = <<SubSeq(line, s, t)>>
                     \o IF Full(argc + 1) THEN <<>> ELSE from[<<After(line, t), argc + 1>>]
<1> DEFINE n == Len(line)
           I == {i \in e..n : command_ok_char(line[i])}
           s == IF I # {} THEN Min(I) ELSE 0
           J == {i \in s..n : ~command_ok_char(line[i])}
           gap == IF J # {} THEN Min(J) ELSE 0
           end == IF gap = 0 THEN n ELSE gap - 1
           next == IF gap = 0 THEN n + 1 ELSE gap + 1
<1>0. n \in Nat /\ e \in Nat /\ e >= 1 /\ e <= n + 1
  OBVIOUS
<1>1. \A argc, from : Turn(line, e, argc, from)
        = IF s = 0 THEN <<>>
          ELSE <<SubSeq(line, s, end)>> \o IF Full(argc + 1) THEN <<>> ELSE from[<<next, argc + 1>>]
  BY DEF Turn, SelectInSubSeq
<1>2. \A i \in e..n : InWord(line, i) <=> i \in I
  BY <1>0 DEF InWord
<1>3. CASE I = {}
  <2>1. s = 0
    BY <1>3
  <2>. HIDE DEF s, gap, end, next
  <2>. QED
    BY <1>1, <1>2, <1>3, <2>1
<1>4. CASE I # {}
  <2>1. I \in SUBSET Nat
    BY <1>0
  <2>2. s \in I /\ \A i \in I : s <= i
    BY <1>4, <2>1, MinIs
  <2>. HIDE DEF s
  <2>3. s \in e..n /\ s \in Nat /\ s # 0 /\ s \in 1..n /\ command_ok_char(line[s])
    BY <1>0, <2>2
  <2>4. \A i \in e..s - 1 : i \notin I /\ i \in e..n
    BY <1>0, <2>2, <2>3
  <2>. HIDE DEF I
  <2>5. \A i \in e..s - 1 : ~InWord(line, i)
    BY <1>2, <2>4
  <2>6. /\ end \in s..n /\ \A i \in s..end : InWord(line, i)
        /\ ~InWord(line, end + 1) /\ next = After(line, end)
    <3>1. CASE J = {}
      <4>1. gap = 0 /\ end = n /\ next = n + 1
        BY <3>1
      <4>2. \A i \in s..n : command_ok_char(line[i])
        BY <3>1
      <4>. HIDE DEF J, gap, end, next
      <4>3. \A i \in s..n : i \in 1..n
        BY <1>0, <2>3
      <4>4. \A i \in s..end : InWord(line, i)
        BY <4>1, <4>2, <4>3 DEF InWord
      <4>5. ~(n + 1 \in 1..n)
        BY <1>0
      <4>6. end \in s..n
        BY <1>0, <2>3, <4>1
      <4>. QED
        BY <4>1, <4>4, <4>5, <4>6 DEF InWord, After
    <3>2. CASE J # {}
      <4>1. J \in SUBSET Nat
        BY <2>3
      <4>2. gap \in J /\ \A i \in J : gap <= i
        BY <3>2, <4>1, MinIs
      <4>. HIDE DEF gap
      <4>3. gap \in s..n /\ ~command_ok_char(line[gap])
        BY <4>2
      <4>4. gap # s /\ gap # 0
        BY <2>3, <4>3
      <4>5. end = gap - 1 /\ next = gap + 1 /\ end + 1 = gap /\ end \in s..n /\ end # n /\ end + 2 = gap + 1
        BY <1>0, <2>3, <4>3, <4>4
      <4>6. \A i \in s..end : i \in 1..n /\ i \in s..n /\ ~(gap <= i)
        BY <1>0, <2>3, <4>3, <4>5
      <4>7. \A i \in s..end : InWord(line, i)
        BY <4>2, <4>6 DEF InWord
      <4>. HIDE DEF J, end, next
      <4>. QED
        BY <4>3, <4>5, <4>7 DEF InWord, After
    <3>. QED
      BY <3>1, <3>2
  <2>. HIDE DEF J, gap, end, next
  <2>7. WordAt(line, e, s, end)
    BY <2>3, <2>5, <2>6 DEF WordAt
  <2>8. end \in 1..n
    BY <1>0, <2>3, <2>6
  <2>9. \A argc, from : Turn(line, e, argc, from)
          = <<SubSeq(line, s, end)>>
            \o IF Full(argc + 1) THEN <<>> ELSE from[<<After(line, end), argc + 1>>]
    BY <1>1, <2>3, <2>6
  <2>. HIDE DEF n
  <2>. QED
    BY <2>3, <2>7, <2>8, <2>9 DEF n
<1>. QED
  BY <1>3, <1>4

LEMMA AfterIs ==
  ASSUME NEW line \in Seq(Nat), NEW e \in 1..Len(line) + 1, NEW s, NEW t, WordAt(line, e, s, t)
  PROVE  /\ After(line, t) \in 1..Len(line) + 1 /\ e < After(line, t)
         /\ s \in 1..Len(line) /\ t \in 1..Len(line)
<1>1. s \in e..Len(line) /\ t \in s..Len(line) /\ Len(line) \in Nat
  BY DEF WordAt
<1>. QED
  BY <1>1 DEF After

\* A turn looks only at later ones.
LEMMA TurnDepends ==
  ASSUME NEW line \in Seq(Nat), NEW e \in 1..Len(line) + 1, NEW argc \in Nat, NEW f, NEW g,
         \A j \in 1..Len(line) + 1, a \in Nat : e < j => f[<<j, a>>] = g[<<j, a>>]
  PROVE  Turn(line, e, argc, f) = Turn(line, e, argc, g)
<1>1. CASE \A a, from : Turn(line, e, a, from) = <<>>
  BY <1>1
<1>2. CASE \E s, t \in 1..Len(line) :
             /\ WordAt(line, e, s, t)
             /\ \A a, from : Turn(line, e, a, from)
                  = <<SubSeq(line, s, t)>> \o IF Full(a + 1) THEN <<>> ELSE from[<<After(line, t), a + 1>>]
  <2>1. PICK s \in 1..Len(line), t \in 1..Len(line) :
             /\ WordAt(line, e, s, t)
             /\ \A a, from : Turn(line, e, a, from)
                  = <<SubSeq(line, s, t)>> \o IF Full(a + 1) THEN <<>> ELSE from[<<After(line, t), a + 1>>]
    BY <1>2
  <2>2. After(line, t) \in 1..Len(line) + 1 /\ e < After(line, t)
    BY <2>1, AfterIs
  <2>3. argc + 1 \in Nat
    OBVIOUS
  <2>4. f[<<After(line, t), argc + 1>>] = g[<<After(line, t), argc + 1>>]
    BY <2>2, <2>3
  <2>. QED
    BY <2>1, <2>4
<1>. QED
  BY <1>1, <1>2, TurnIs

\* The recursion is well founded.
LEMMA WordsStep ==
  ASSUME NEW line \in Seq(Nat), NEW e \in 1..Len(line) + 1, NEW argc \in Nat
  PROVE  Words(line)[<<e, argc>>] = Turn(line, e, argc, Words(line))
<1> DEFINE n == Len(line)
           E == 1..n + 1
           D == E \X Nat
           Solves(g, k) == /\ g = [p \in D |-> g[p]]
                           /\ \A j \in E, a \in Nat :
                                j >= n + 1 - k => g[<<j, a>>] = Turn(line, j, a, g)
           Bad == {k \in 0..n : ~ \E g : Solves(g, k)}
<1>0. n \in Nat
  OBVIOUS
<1>1. 0 \notin Bad
  <2> DEFINE g == [p \in D |-> <<>>]
  <2>1. g = [p \in D |-> g[p]]
    OBVIOUS
  <2>2. \A a \in Nat : <<n + 1, a>> \in D
    BY <1>0
  <2>3. \A a \in Nat : g[<<n + 1, a>>] = <<>>
    BY <2>2
  <2>. HIDE DEF g
  <2>4. \A a : Turn(line, n + 1, a, g) = <<>>
    <3>1. n + 1 \in 1..Len(line) + 1
      BY <1>0
    <3>2. \A s, t : ~WordAt(line, n + 1, s, t)
      BY <1>0 DEF WordAt
    <3>. QED
      BY <3>1, <3>2, TurnIs
  <2>5. \A j \in E : j >= n + 1 - 0 => j = n + 1
    BY <1>0
  <2>6. Solves(g, 0)
    BY <2>1, <2>3, <2>4, <2>5
  <2>. QED
    BY <2>6
<1>2. ASSUME NEW k \in Nat, k + 1 \in 0..n, NEW g, Solves(g, k)
      PROVE  \E h : Solves(h, k + 1)
  <2> DEFINE c == n + 1 - (k + 1)
             h == [p \in D |-> IF p[1] = c THEN Turn(line, c, p[2], g) ELSE g[p]]
  <2>1. c \in E
    BY <1>0, <1>2
  <2>2. h = [p \in D |-> h[p]]
    OBVIOUS
  <2>3. \A j \in E, a \in Nat : h[<<j, a>>] = IF j = c THEN Turn(line, c, a, g) ELSE g[<<j, a>>]
    OBVIOUS
  <2>. HIDE DEF h
  <2>4. ASSUME NEW j \in E, NEW a \in Nat, j >= c PROVE h[<<j, a>>] = Turn(line, j, a, h)
    <3>0. \A l \in E, b \in Nat : j < l => g[<<l, b>>] = h[<<l, b>>]
      BY <1>0, <2>1, <2>3, <2>4
    <3>1. Turn(line, j, a, g) = Turn(line, j, a, h)
      BY <3>0, TurnDepends
    <3>2. CASE j = c
      BY <2>3, <3>1, <3>2
    <3>3. CASE j # c
      <4>0. j \in Int /\ k \in Int /\ n \in Int
        BY <1>0, <1>2
      <4>1. j >= n + 1 - k
        BY <2>4, <3>3, <4>0
      <4>. QED
        BY <1>2, <2>3, <3>1, <3>3, <4>1
    <3>. QED
      BY <3>2, <3>3
  <2>5. Solves(h, k + 1)
    BY <2>2, <2>4
  <2>. QED
    BY <2>5
<1>3. Bad = {}
  <2>1. SUFFICES ASSUME Bad # {} PROVE FALSE
    OBVIOUS
  <2>2. PICK k \in Bad : \A l \in Bad : k <= l
    <3>1. Bad \in SUBSET Nat
      BY <1>0
    <3>. HIDE DEF Bad
    <3>. QED
      BY <2>1, <3>1, LeastNat
  <2>3. k \in 0..n /\ k # 0
    BY <1>1
  <2>4. k - 1 \in Nat /\ (k - 1) + 1 \in 0..n /\ k - 1 \in 0..n /\ ~(k <= k - 1) /\ (k - 1) + 1 = k
    BY <1>0, <2>3
  <2>5. k - 1 \notin Bad
    BY <2>2, <2>4
  <2>6. \E g : Solves(g, k - 1)
    BY <2>4, <2>5
  <2>. HIDE DEF Solves
  <2>7. \E h : Solves(h, (k - 1) + 1)
    BY <1>2, <2>4, <2>6
  <2>. QED
    BY <2>4, <2>7
<1>4. \E g : Solves(g, n)
  <2>1. n \in 0..n
    BY <1>0
  <2>2. n \notin Bad
    <3>. HIDE DEF Bad
    <3>. QED
      BY <1>3
  <2>. HIDE DEF Solves
  <2>. QED
    BY <2>1, <2>2
<1>5. PICK g : g = [p \in D |-> Turn(line, p[1], p[2], g)]
  <2>1. PICK g : Solves(g, n)
    BY <1>4
  <2>2. \A j \in E : j >= n + 1 - n
    BY <1>0
  <2>3. \A j \in E, a \in Nat : g[<<j, a>>] = Turn(line, j, a, g)
    BY <2>1, <2>2
  <2>4. \A p \in D : g[p] = Turn(line, p[1], p[2], g)
    <3> SUFFICES ASSUME NEW p \in D PROVE g[p] = Turn(line, p[1], p[2], g)
      OBVIOUS
    <3>1. p[1] \in E /\ p[2] \in Nat /\ p = <<p[1], p[2]>>
      OBVIOUS
    <3>. QED
      BY <2>3, <3>1
  <2>5. g = [p \in D |-> Turn(line, p[1], p[2], g)]
    BY <2>1, <2>4
  <2>. QED
    BY <2>5
<1>. HIDE DEF Bad, Solves
<1>6. Words(line) = [p \in D |-> Turn(line, p[1], p[2], Words(line))]
  BY <1>5 DEF Words
<1>7. <<e, argc>> \in D
  OBVIOUS
<1>. QED
  BY <1>6, <1>7

\* the words that begin at e or behind it
BeginsFrom(line, e) == {i \in 1..Len(line) : InWord(line, i) /\ ~InWord(line, i - 1) /\ i >= e}
Pieces(line, e) ==
  LET begin == Ascending(BeginsFrom(line, e))
  IN [n \in 1..Len(begin) |-> SubSeq(line, begin[n], WordEnd(line, begin[n]))]

LEMMA WordsOfIs ==
  ASSUME NEW line \in Seq(Nat)
  PROVE  WordsOf(line) = Pieces(line, 1)
<1>1. BeginsFrom(line, 1) = {i \in 1..Len(line) : InWord(line, i) /\ ~InWord(line, i - 1)}
  BY DEF BeginsFrom
<1>. QED
  BY <1>1 DEF WordsOf, Pieces

LEMMA BeginsAscend ==
  ASSUME NEW line \in Seq(Nat), NEW e
  PROVE  /\ BeginsFrom(line, e) \in SUBSET (1..Len(line))
         /\ BeginsFrom(line, e) \in SUBSET Int
         /\ Lists(Ascending(BeginsFrom(line, e)), BeginsFrom(line, e))
<1>1. BeginsFrom(line, e) \in SUBSET (1..Len(line)) /\ Len(line) \in Nat
  BY DEF BeginsFrom
<1>2. BeginsFrom(line, e) \in SUBSET Int
  BY <1>1
<1>3. Lists(Ascending(BeginsFrom(line, e)), BeginsFrom(line, e))
  BY <1>1, AscendingIs
<1>. QED
  BY <1>1, <1>2, <1>3

\* Every word has an end, and only one.
LEMMA EndIs ==
  ASSUME NEW line \in Seq(Nat), NEW i \in 1..Len(line), NEW t \in i..Len(line),
         ~InWord(line, t + 1), \A k \in i..t : InWord(line, k)
  PROVE  WordEnd(line, i) = t
<1> DEFINE P(j) == ~InWord(line, j + 1) /\ \A k \in i..j : InWord(line, k)
<1>1. ASSUME NEW j \in i..Len(line), P(j) PROVE j = t
  <2>0. Len(line) \in Nat /\ i \in Nat
    OBVIOUS
  <2>1. ~(j < t)
    <3>1. j < t => j + 1 \in i..t
      BY <2>0
    <3>. QED
      BY <1>1, <3>1
  <2>2. ~(t < j)
    <3>1. t < j => t + 1 \in i..j
      BY <2>0
    <3>. QED
      BY <1>1, <3>1
  <2>. QED
    BY <2>0, <2>1, <2>2
<1>. QED
  BY <1>1 DEF WordEnd

\* e is where a turn may begin: it does not cut a word
Between(line, e) == e = Len(line) + 1 \/ (e \in 1..Len(line) /\ ~InWord(line, e - 1))

LEMMA BetweenAfter ==
  ASSUME NEW line \in Seq(Nat), NEW e \in 1..Len(line) + 1, NEW s, NEW t, WordAt(line, e, s, t)
  PROVE  Between(line, After(line, t))
<1>1. t \in 1..Len(line) /\ ~InWord(line, t + 1) /\ Len(line) \in Nat
  BY AfterIs DEF WordAt
<1>2. CASE t = Len(line)
  BY <1>2 DEF After, Between
<1>3. CASE t # Len(line)
  <2>1. After(line, t) = t + 2 /\ t + 2 - 1 = t + 1 /\ t + 2 \in 1..Len(line) + 1
    BY <1>1, <1>3 DEF After
  <2>2. t + 2 = Len(line) + 1 \/ t + 2 \in 1..Len(line)
    BY <1>1, <2>1
  <2>. QED
    BY <1>1, <2>1, <2>2 DEF Between
<1>. QED
  BY <1>2, <1>3

\* Without a word left, nothing begins; else the first word begins, and then those
\* that begin after it.
LEMMA BeginsNone ==
  ASSUME NEW line \in Seq(Nat), NEW e \in 1..Len(line) + 1,
         \A i \in e..Len(line) : ~InWord(line, i)
  PROVE  BeginsFrom(line, e) = {}
<1>1. ASSUME NEW i \in BeginsFrom(line, e) PROVE FALSE
  <2>1. i \in 1..Len(line) /\ InWord(line, i) /\ i >= e
    BY <1>1 DEF BeginsFrom
  <2>2. i \in e..Len(line)
    BY <2>1
  <2>. QED
    BY <2>1, <2>2
<1>. QED
  BY <1>1

LEMMA BeginsOne ==
  ASSUME NEW line \in Seq(Nat), NEW e \in 1..Len(line) + 1, Between(line, e),
         NEW s, NEW t, WordAt(line, e, s, t)
  PROVE  /\ BeginsFrom(line, e) = {s} \cup BeginsFrom(line, After(line, t))
         /\ \A y \in BeginsFrom(line, After(line, t)) : s < y
<1> DEFINE n == Len(line)
           a == After(line, t)
<1>1. /\ n \in Nat /\ e \in 1..n /\ s \in e..n /\ t \in s..n /\ s \in 1..n
      /\ \A i \in e..s - 1 : ~InWord(line, i)
      /\ \A i \in s..t : InWord(line, i)
      /\ ~InWord(line, t + 1)
  <2>1. s \in e..n /\ t \in s..n /\ n \in Nat
    BY DEF WordAt
  <2>2. e \in 1..n /\ s \in 1..n
    BY <2>1
  <2>. QED
    BY <2>1, <2>2 DEF WordAt
<1>2. a = IF t = n THEN n + 1 ELSE t + 2
  BY DEF After
<1>3. ~InWord(line, e - 1)
  <2>1. e # n + 1
    BY <1>1
  <2>. QED
    BY <2>1 DEF Between
<1>. HIDE DEF a, n
<1>4. s \in BeginsFrom(line, e)
  <2>1. InWord(line, s) /\ s >= e
    BY <1>1
  <2>2. ~InWord(line, s - 1)
    <3>1. CASE s = e
      BY <1>3, <3>1
    <3>2. CASE s # e
      <4>1. s - 1 \in e..s - 1
        BY <1>1, <3>2
      <4>. QED
        BY <1>1, <4>1
    <3>. QED
      BY <3>1, <3>2
  <2>. QED
    BY <1>1, <2>1, <2>2 DEF BeginsFrom, n
<1>5. ASSUME NEW i \in BeginsFrom(line, a) PROVE i \in BeginsFrom(line, e) /\ s < i
  <2>1. i \in 1..n /\ i >= a /\ InWord(line, i) /\ ~InWord(line, i - 1)
    BY <1>5 DEF BeginsFrom, n
  <2>2. i >= e /\ s < i
    BY <1>1, <1>2, <2>1
  <2>. QED
    BY <2>1, <2>2 DEF BeginsFrom, n
<1>6. ASSUME NEW i \in BeginsFrom(line, e), i # s PROVE i \in BeginsFrom(line, a)
  <2>1. i \in 1..n /\ i >= e /\ InWord(line, i) /\ ~InWord(line, i - 1)
    BY <1>6 DEF BeginsFrom, n
  <2>2. ~(i < s)
    <3>1. i < s => i \in e..s - 1
      BY <1>1, <2>1
    <3>. QED
      BY <1>1, <2>1, <3>1
  <2>3. ~(i \in s + 1..t)
    <3>1. i \in s + 1..t => i - 1 \in s..t
      BY <1>1, <2>1
    <3>. QED
      BY <1>1, <2>1, <3>1
  <2>4. i # t + 1
    BY <1>1, <2>1
  <2>5. i >= a
    BY <1>1, <1>2, <1>6, <2>1, <2>2, <2>3, <2>4
  <2>. QED
    BY <2>1, <2>5 DEF BeginsFrom, n
<1>7. BeginsFrom(line, e) = {s} \cup BeginsFrom(line, a)
  BY <1>4, <1>5, <1>6
<1>. QED
  BY <1>5, <1>7 DEF a

LEMMA PiecesNone ==
  ASSUME NEW line \in Seq(Nat), NEW e, BeginsFrom(line, e) = {}
  PROVE  Pieces(line, e) = <<>>
<1>1. Ascending({}) = <<>>
  <2>1. {} \in SUBSET (1..0)
    OBVIOUS
  <2>. QED
    BY <2>1, ListsEmpty, AscendingUnique
<1>. QED
  BY <1>1 DEF Pieces

LEMMA PiecesTyped ==
  ASSUME NEW line \in Seq(Nat), NEW e
  PROVE  Pieces(line, e) \in Seq(Seq(Nat))
<1> DEFINE b == Ascending(BeginsFrom(line, e))
<1>1. b \in Seq(BeginsFrom(line, e)) /\ Len(b) \in Nat
  <2>1. b \in Seq(BeginsFrom(line, e))
    BY BeginsAscend DEF Lists
  <2>. QED
    BY <2>1
<1>2. \A n \in 1..Len(b) : b[n] \in BeginsFrom(line, e)
  BY <1>1
<1>. HIDE DEF b
<1>3. ASSUME NEW i \in BeginsFrom(line, e) PROVE SubSeq(line, i, WordEnd(line, i)) \in Seq(Nat)
  <2>1. i \in 1..Len(line) /\ InWord(line, i) /\ Len(line) \in Nat
    BY <1>3 DEF BeginsFrom
  <2>2. \E t \in i..Len(line) : ~InWord(line, t + 1) /\ \A k \in i..t : InWord(line, k)
    <3> DEFINE T == {t \in i..Len(line) : ~InWord(line, t + 1)}
    <3>1. T \in SUBSET Nat
      BY <2>1
    <3>2. Len(line) \in T
      BY <2>1 DEF InWord
    <3>3. PICK t \in T : \A y \in T : t <= y
      BY <3>1, <3>2, LeastNat
    <3>4. t \in i..Len(line) /\ ~InWord(line, t + 1)
      BY <3>3
    <3>5. ASSUME NEW k \in i..t PROVE InWord(line, k)
      <4>1. CASE k = i
        BY <2>1, <4>1
      <4>2. CASE k # i
        <5>1. k - 1 \in i..Len(line) /\ ~(t <= k - 1) /\ (k - 1) + 1 = k
          BY <2>1, <3>4, <4>2
        <5>2. k - 1 \notin T
          <6>. HIDE DEF T
          <6>. QED
            BY <3>3, <5>1
        <5>. QED
          BY <5>1, <5>2
      <4>. QED
        BY <4>1, <4>2
    <3>. QED
      BY <3>4, <3>5
  <2>3. WordEnd(line, i) \in i..Len(line)
    BY <2>2 DEF WordEnd
  <2>4. WordEnd(line, i) \in Int /\ i \in Int
    BY <2>1, <2>3
  <2>5. \A k \in i..WordEnd(line, i) : line[k] \in Nat
    BY <2>1, <2>3
  <2>. QED
    BY <2>4, <2>5, SubSeqProperties
<1>4. Pieces(line, e) = [n \in 1..Len(b) |-> SubSeq(line, b[n], WordEnd(line, b[n]))]
  BY DEF Pieces, b
<1>5. \A n \in 1..Len(b) : SubSeq(line, b[n], WordEnd(line, b[n])) \in Seq(Nat)
  BY <1>2, <1>3
<1>. QED
  BY <1>1, <1>4, <1>5

LEMMA PiecesOne ==
  ASSUME NEW line \in Seq(Nat), NEW e \in 1..Len(line) + 1, Between(line, e),
         NEW s, NEW t, WordAt(line, e, s, t)
  PROVE  Pieces(line, e) = <<SubSeq(line, s, t)>> \o Pieces(line, After(line, t))
<1> DEFINE A == BeginsFrom(line, e)
           B == BeginsFrom(line, After(line, t))
           b == Ascending(B)
           W(i) == SubSeq(line, i, WordEnd(line, i))
           p == [n \in 1..Len(b) |-> W(b[n])]
<1>1. /\ A = {s} \cup B /\ \A y \in B : s < y
  BY BeginsOne
<1>2. s \in Int /\ s \in 1..Len(line) /\ WordEnd(line, s) = t
  <2>1. s \in e..Len(line) /\ t \in s..Len(line)
    BY DEF WordAt
  <2>2. s \in 1..Len(line)
    BY <2>1
  <2>3. ~InWord(line, t + 1) /\ \A k \in s..t : InWord(line, k)
    BY DEF WordAt
  <2>. QED
    BY <2>1, <2>2, <2>3, EndIs
<1>3. Lists(b, B) /\ B \in SUBSET Int
  BY BeginsAscend
<1>4. Ascending(A) = <<s>> \o b
  <2>1. Lists(<<s>>, {s}) /\ {s} \in SUBSET Int
    BY <1>2, ListsSingle
  <2>. HIDE DEF A, B, b
  <2>2. Lists(<<s>> \o b, {s} \cup B)
    BY <1>1, <1>3, <2>1, ListsConcat
  <2>3. A \in SUBSET (1..Len(line)) /\ Len(line) \in Nat
    BY BeginsAscend DEF A
  <2>4. Lists(<<s>> \o b, A)
    BY <1>1, <2>2
  <2>. QED
    BY <2>3, <2>4, AscendingUnique
<1>5. b \in Seq(Int) /\ Len(b) \in Nat
  <2>1. b \in Seq(B)
    BY <1>3 DEF Lists
  <2>. HIDE DEF B, b
  <2>2. b \in Seq(Int)
    <3>1. Len(b) \in Nat /\ b = [i \in 1..Len(b) |-> b[i]] /\ \A i \in 1..Len(b) : b[i] \in B
      BY <2>1
    <3>2. \A i \in 1..Len(b) : b[i] \in Int
      BY <1>3, <3>1
    <3>. QED
      BY <3>1, <3>2
  <2>. QED
    BY <2>2
<1>6. Pieces(line, e) = [n \in 1..Len(<<s>> \o b) |-> W((<<s>> \o b)[n])]
  BY <1>4 DEF Pieces
<1>7. Pieces(line, After(line, t)) = p
  BY DEF Pieces
<1>. HIDE DEF A, B, b
<1>8. /\ <<s>> \o b \in Seq(Int) /\ Len(<<s>> \o b) = 1 + Len(b)
      /\ (<<s>> \o b)[1] = s
      /\ \A n \in 2..1 + Len(b) : (<<s>> \o b)[n] = b[n - 1]
  BY <1>2, <1>5
<1>9. W(s) = SubSeq(line, s, t)
  BY <1>2
<1>. HIDE DEF W
<1>10. [n \in 1..1 + Len(b) |-> W((<<s>> \o b)[n])] = <<W(s)>> \o p
  <2> DEFINE q == [n \in 1..1 + Len(b) |-> W((<<s>> \o b)[n])]
             T == {W(i) : i \in Int}
  <2>1. p \in Seq(T) /\ Len(p) = Len(b) /\ \A n \in 1..Len(b) : p[n] = W(b[n])
    BY <1>5
  <2>2. q \in Seq(T) /\ Len(q) = 1 + Len(b) /\ q[1] = W(s)
        /\ \A n \in 2..1 + Len(b) : q[n] = W(b[n - 1])
    <3>1. \A n \in 1..1 + Len(b) : (<<s>> \o b)[n] \in Int
      BY <1>8
    <3>2. 1 + Len(b) \in Nat /\ 1 \in 1..1 + Len(b)
      BY <1>5
    <3>3. \A n \in 2..1 + Len(b) : n \in 1..1 + Len(b)
      BY <1>5
    <3>4. \A n \in 1..1 + Len(b) : W((<<s>> \o b)[n]) \in T
      BY <3>1
    <3>5. q[1] = W(s) /\ \A n \in 2..1 + Len(b) : q[n] = W(b[n - 1])
      BY <1>8, <3>2, <3>3
    <3>6. q \in Seq(T) /\ Len(q) = 1 + Len(b)
      <4>. HIDE DEF T
      <4>. QED
        BY <3>2, <3>4
    <3>. QED
      BY <3>5, <3>6
  <2>3. W(s) \in T
    BY <1>2
  <2>. HIDE DEF p, q, T
  <2>4. /\ <<W(s)>> \o p \in Seq(T) /\ Len(<<W(s)>> \o p) = 1 + Len(b)
        /\ (<<W(s)>> \o p)[1] = W(s)
        /\ \A n \in 2..1 + Len(b) : (<<W(s)>> \o p)[n] = p[n - 1]
    <3>1. <<W(s)>> \in Seq(T) /\ Len(<<W(s)>>) = 1 /\ <<W(s)>>[1] = W(s)
      BY <2>3
    <3>2. p \in Seq(T) /\ Len(p) = Len(b)
      BY <2>1
    <3> DEFINE w == <<W(s)>>
    <3>. HIDE DEF w
    <3>3. w \in Seq(T) /\ Len(w) = 1 /\ w[1] = W(s)
      BY <3>1 DEF w
    <3>4. /\ w \o p \in Seq(T) /\ Len(w \o p) = Len(w) + Len(p)
          /\ \A i \in 1..Len(w) + Len(p) : (w \o p)[i] = IF i <= Len(w) THEN w[i] ELSE p[i - Len(w)]
      BY <3>2, <3>3, ConcatProperties
    <3>5. /\ (w \o p)[1] = W(s)
          /\ \A n \in 2..1 + Len(b) : (w \o p)[n] = p[n - 1]
      BY <1>5, <3>2, <3>3, <3>4
    <3>. QED
      BY <3>2, <3>3, <3>4, <3>5 DEF w
  <2>5. ASSUME NEW n \in 1..1 + Len(b) PROVE q[n] = (<<W(s)>> \o p)[n]
    <3>1. CASE n = 1
      BY <2>2, <2>4, <3>1
    <3>2. CASE n # 1
      <4>1. n \in 2..1 + Len(b) /\ n - 1 \in 1..Len(b)
        BY <1>5, <3>2
      <4>. QED
        BY <2>1, <2>2, <2>4, <4>1
    <3>. QED
      BY <3>1, <3>2
  <2>6. q = <<W(s)>> \o p
    BY <2>2, <2>4, <2>5, SeqEqual
  <2>. QED
    BY <2>6 DEF q
<1>11. Pieces(line, e) = <<W(s)>> \o p
  BY <1>6, <1>8, <1>10
<1>. QED
  BY <1>7, <1>9, <1>11

\* the first k of a sequence
Take(q, k) == SubSeq(q, 1, Min({Len(q), k}))

LEMMA MinOfTwo ==
  ASSUME NEW m \in Nat, NEW k \in Nat
  PROVE  Min({m, k}) = IF m <= k THEN m ELSE k
<1>1. Min({m, k}) \in {m, k} /\ \A y \in {m, k} : Min({m, k}) <= y
  <2>1. {m, k} \in SUBSET Nat /\ {m, k} # {}
    OBVIOUS
  <2>. QED
    BY <2>1, MinIs
<1>. QED
  BY <1>1

LEMMA TakeIs ==
  ASSUME NEW T, NEW q \in Seq(T), NEW k \in Nat
  PROVE  /\ Take(q, k) \in Seq(T)
         /\ Len(Take(q, k)) = IF Len(q) <= k THEN Len(q) ELSE k
         /\ \A i \in 1..Len(Take(q, k)) : Take(q, k)[i] = q[i]
<1> DEFINE m == IF Len(q) <= k THEN Len(q) ELSE k
<1>1. Take(q, k) = SubSeq(q, 1, m) /\ Len(q) \in Nat
  BY MinOfTwo DEF Take
<1>2. m \in 0..Len(q)
  BY <1>1
<1>. HIDE DEF m
<1>3. /\ SubSeq(q, 1, m) \in Seq(T) /\ Len(SubSeq(q, 1, m)) = m
      /\ \A i \in 1..m : SubSeq(q, 1, m)[i] = q[i]
  BY <1>1, <1>2
<1>. QED
  BY <1>1, <1>3 DEF m

LEMMA TakeNone ==
  ASSUME NEW T, NEW q \in Seq(T)
  PROVE  Take(q, 0) = <<>> /\ \A k \in Nat : Take(<<>>, k) = <<>>
<1>1. Take(q, 0) \in Seq(T) /\ Len(Take(q, 0)) = 0
  <2>1. Len(q) \in Nat /\ Len(Take(q, 0)) = (IF Len(q) <= 0 THEN Len(q) ELSE 0) /\ Take(q, 0) \in Seq(T)
    BY TakeIs
  <2>. QED
    BY <2>1
<1>2. ASSUME NEW k \in Nat PROVE Take(<<>>, k) = <<>>
  <2>1. <<>> \in Seq(T) /\ Len(<<>>) = 0
    OBVIOUS
  <2>2. Take(<<>>, k) \in Seq(T) /\ Len(Take(<<>>, k)) = IF Len(<<>>) <= k THEN Len(<<>>) ELSE k
    BY <2>1, TakeIs
  <2>3. Len(Take(<<>>, k)) = 0
    BY <2>1, <2>2
  <2>. QED
    BY <2>2, <2>3, EmptySeq
<1>. QED
  BY <1>1, <1>2, EmptySeq

LEMMA TakeOne ==
  ASSUME NEW T, NEW x \in T, NEW q \in Seq(T), NEW k \in Nat
  PROVE  Take(<<x>> \o q, k + 1) = <<x>> \o Take(q, k)
<1> DEFINE u == <<x>> \o q
           v == Take(q, k)
           w == <<x>> \o v
           y == Take(u, k + 1)
<1>1. /\ u \in Seq(T) /\ Len(q) \in Nat /\ Len(u) = Len(q) + 1 /\ u[1] = x
      /\ \A i \in 2..Len(q) + 1 : u[i] = q[i - 1]
  OBVIOUS
<1>2. /\ v \in Seq(T) /\ Len(v) = (IF Len(q) <= k THEN Len(q) ELSE k)
      /\ \A i \in 1..Len(v) : v[i] = q[i]
  BY TakeIs
<1>. HIDE DEF v
<1>3. Len(v) \in Nat
  BY <1>2
<1>4. /\ w \in Seq(T) /\ Len(w) = Len(v) + 1 /\ w[1] = x
      /\ \A i \in 2..Len(v) + 1 : w[i] = v[i - 1]
  BY <1>2, <1>3
<1>. HIDE DEF u, w
<1>5. /\ y \in Seq(T) /\ Len(y) = (IF Len(u) <= k + 1 THEN Len(u) ELSE k + 1)
      /\ \A i \in 1..Len(y) : y[i] = u[i]
  BY <1>1, TakeIs
<1>. HIDE DEF y
<1>6. Len(y) = Len(w)
  BY <1>1, <1>2, <1>4, <1>5
<1>7. ASSUME NEW i \in 1..Len(y) PROVE y[i] = w[i]
  <2>1. CASE i = 1
    BY <1>1, <1>4, <1>5, <2>1
  <2>2. CASE i # 1
    <3>1. i \in 2..Len(v) + 1 /\ i - 1 \in 1..Len(v) /\ i \in 2..Len(q) + 1
      BY <1>1, <1>2, <1>3, <1>4, <1>6, <2>2
    <3>. QED
      BY <1>1, <1>2, <1>4, <1>5, <3>1
  <2>. QED
    BY <2>1, <2>2
<1>8. y = w
  BY <1>4, <1>5, <1>6, <1>7, SeqEqual
<1>. QED
  BY <1>8 DEF u, v, w, y

\* From where a turn may begin, command_prepare_argv finds the words that begin there
\* or later, as many as argv still has room for.
LEMMA WordsAre ==
  ASSUME NEW line \in Seq(Nat)
  PROVE  \A e \in 1..Len(line) + 1, argc \in 0..MaxArgc - 1 :
           Between(line, e) => Words(line)[<<e, argc>>] = Take(Pieces(line, e), MaxArgc - argc)
<1> DEFINE n == Len(line)
           P(e) == \A argc \in 0..MaxArgc - 1 :
                     Between(line, e) =>
                       Words(line)[<<e, argc>>] = Take(Pieces(line, e), MaxArgc - argc)
           Bad == {k \in 0..n : ~P(n + 1 - k)}
<1>0. n \in Nat /\ MaxArgc \in Nat /\ MaxArgc # 0
  BY ShellAssumption
<1>1. ASSUME NEW e \in 1..n + 1, \A j \in 1..n + 1 : e < j => P(j)
      PROVE  P(e)
  <2> SUFFICES ASSUME NEW argc \in 0..MaxArgc - 1, Between(line, e)
               PROVE  Words(line)[<<e, argc>>] = Take(Pieces(line, e), MaxArgc - argc)
    OBVIOUS
  <2>0. argc \in Nat /\ argc + 1 \in Nat /\ MaxArgc - argc \in Nat /\ MaxArgc - argc # 0
    BY <1>0
  <2>1. Words(line)[<<e, argc>>] = Turn(line, e, argc, Words(line))
    BY <2>0, WordsStep
  <2>2. CASE /\ \A i \in e..Len(line) : ~InWord(line, i)
             /\ \A a, from : Turn(line, e, a, from) = <<>>
    <3>1. Pieces(line, e) = <<>>
      BY <2>2, BeginsNone, PiecesNone
    <3>2. Take(<<>>, MaxArgc - argc) = <<>>
      <4>1. <<>> \in Seq(Nat)
        OBVIOUS
      <4>. QED
        BY <2>0, <4>1, TakeNone
    <3>. QED
      BY <2>1, <2>2, <3>1, <3>2
  <2>3. CASE \E s, t \in 1..Len(line) :
               /\ WordAt(line, e, s, t)
               /\ \A a, from : Turn(line, e, a, from)
                    = <<SubSeq(line, s, t)>>
                      \o IF Full(a + 1) THEN <<>> ELSE from[<<After(line, t), a + 1>>]
    <3>1. PICK s \in 1..Len(line), t \in 1..Len(line) :
               /\ WordAt(line, e, s, t)
               /\ \A a, from : Turn(line, e, a, from)
                    = <<SubSeq(line, s, t)>>
                      \o IF Full(a + 1) THEN <<>> ELSE from[<<After(line, t), a + 1>>]
      BY <2>3
    <3> DEFINE x == SubSeq(line, s, t)
               next == After(line, t)
               q == Pieces(line, next)
    <3>2. Pieces(line, e) = <<x>> \o q /\ next \in 1..n + 1 /\ e < next /\ Between(line, next)
      <4>1. Pieces(line, e) = <<x>> \o q
        BY <3>1, PiecesOne
      <4>2. next \in 1..n + 1 /\ e < next
        BY <3>1, AfterIs
      <4>3. Between(line, next)
        BY <3>1, BetweenAfter
      <4>. QED
        BY <4>1, <4>2, <4>3
    <3>3. q \in Seq(Seq(Nat)) /\ x \in Seq(Nat)
      <4>1. \A i \in s..t : line[i] \in Nat
        BY <3>1
      <4>2. x \in Seq(Nat)
        BY <4>1, SubSeqProperties
      <4>. QED
        BY <4>2, PiecesTyped
    <3>4. Words(line)[<<e, argc>>]
            = <<x>> \o IF Full(argc + 1) THEN <<>> ELSE Words(line)[<<next, argc + 1>>]
      BY <2>1, <3>1
    <3>. HIDE DEF x, next, q
    <3>5. Take(<<x>> \o q, (MaxArgc - argc - 1) + 1) = <<x>> \o Take(q, MaxArgc - argc - 1)
      <4>1. MaxArgc - argc - 1 \in Nat
        BY <1>0, <2>0
      <4>. QED
        BY <3>3, <4>1, TakeOne
    <3>6. (MaxArgc - argc - 1) + 1 = MaxArgc - argc
      BY <1>0, <2>0
    <3>7. CASE Full(argc + 1)
      <4>1. MaxArgc - argc - 1 = 0
        BY <1>0, <2>0, <3>7 DEF Full
      <4>2. Take(q, 0) = <<>>
        BY <3>3, TakeNone
      <4>. QED
        BY <3>2, <3>4, <3>5, <3>6, <3>7, <4>1, <4>2
    <3>8. CASE ~Full(argc + 1)
      <4>1. argc + 1 \in 0..MaxArgc - 1 /\ MaxArgc - (argc + 1) = MaxArgc - argc - 1
        BY <1>0, <2>0, <3>8 DEF Full
      <4>2. Words(line)[<<next, argc + 1>>] = Take(q, MaxArgc - (argc + 1))
        BY <1>1, <3>2, <4>1 DEF q
      <4>. QED
        BY <3>2, <3>4, <3>5, <3>6, <3>8, <4>1, <4>2
    <3>. QED
      BY <3>7, <3>8
  <2>. QED
    BY <2>2, <2>3, TurnIs
<1>. HIDE DEF P
<1>2. Bad = {}
  <2>1. SUFFICES ASSUME Bad # {} PROVE FALSE
    OBVIOUS
  <2>2. PICK k \in Bad : \A l \in Bad : k <= l
    <3>1. Bad \in SUBSET Nat
      BY <1>0
    <3>. HIDE DEF Bad
    <3>. QED
      BY <2>1, <3>1, LeastNat
  <2>3. k \in 0..n /\ ~P(n + 1 - k) /\ n + 1 - k \in 1..n + 1
    BY <1>0
  <2>4. ASSUME NEW j \in 1..n + 1, n + 1 - k < j PROVE P(j)
    <3>1. n + 1 - j \in 0..n /\ n + 1 - (n + 1 - j) = j /\ ~(k <= n + 1 - j)
      BY <1>0, <2>3, <2>4
    <3>2. n + 1 - j \notin Bad
      BY <2>2, <3>1
    <3>. QED
      BY <3>1, <3>2
  <2>. QED
    BY <1>1, <2>3, <2>4
<1>3. ASSUME NEW e \in 1..n + 1 PROVE P(e)
  <2>1. n + 1 - e \in 0..n /\ n + 1 - (n + 1 - e) = e
    BY <1>0
  <2>2. n + 1 - e \notin Bad
    <3>. HIDE DEF Bad
    <3>. QED
      BY <1>2
  <2>. QED
    BY <2>1, <2>2
<1>. QED
  BY <1>3 DEF P

\* What command_prepare_argv finds in a line.
LEMMA ArgvIs ==
  ASSUME NEW line \in Seq(Nat)
  PROVE  /\ command_prepare_argv(line) = Take(WordsOf(line), MaxArgc)
         /\ WordsOf(line) \in Seq(Seq(Nat))
         /\ command_prepare_argv(line) \in Seq(Seq(Nat))
         /\ command_prepare_argv(line) = <<>> <=> WordsOf(line) = <<>>
         /\ WordsOf(line) # <<>> => Head(command_prepare_argv(line)) = WordsOf(line)[1]
<1> DEFINE v == command_prepare_argv(line)
           w == WordsOf(line)
<1>1. w = Pieces(line, 1) /\ w \in Seq(Seq(Nat))
  BY WordsOfIs, PiecesTyped
<1>2. v = Take(w, MaxArgc)
  <2>1. 1 \in 1..Len(line) + 1 /\ 0 \in 0..MaxArgc - 1 /\ MaxArgc - 0 = MaxArgc
    BY ShellAssumption
  <2>2. Between(line, 1)
    BY DEF Between, InWord
  <2>. QED
    BY <1>1, <2>1, <2>2, WordsAre DEF command_prepare_argv
<1>3. MaxArgc \in Nat /\ MaxArgc # 0
  BY ShellAssumption
<1>. HIDE DEF v, w
<1>4. /\ v \in Seq(Seq(Nat)) /\ Len(v) = (IF Len(w) <= MaxArgc THEN Len(w) ELSE MaxArgc)
      /\ \A i \in 1..Len(v) : v[i] = w[i]
  BY <1>1, <1>2, <1>3, TakeIs
<1>5. v = <<>> <=> w = <<>>
  <2>1. Len(v) = 0 <=> Len(w) = 0
    BY <1>1, <1>3, <1>4
  <2>. QED
    BY <1>1, <1>4, <2>1, EmptySeq
<1>6. w # <<>> => Head(v) = w[1]
  <2>1. v # <<>> => Head(v) = v[1] /\ 1 \in 1..Len(v)
    BY <1>4
  <2>. QED
    BY <1>4, <1>5, <2>1
<1>. QED
  BY <1>1, <1>2, <1>4, <1>5, <1>6 DEF v, w

-----------------------------------------------------------------------------
(* The lookup. *)

\* every installed command is on the list
LEMMA AllListed ==
  ASSUME IInv, NEW k \in 1..Len(installed)
  PROVE  \E i \in 1..Len(user) : user[i] = k
<1> DEFINE N == 1..Len(installed)
<1>1. /\ user \in [N -> N] /\ Len(installed) \in Nat /\ Len(user) = Len(installed)
      /\ \A i, j \in N : user[i] = user[j] => i = j
  <2>1. installed \in Seq(Command) /\ user \in Seq(DOMAIN installed)
    BY DEF IInv, ListTypeOK
  <2>2. Len(installed) \in Nat /\ DOMAIN installed = N
    BY <2>1
  <2>3. user \in Seq(N) /\ Len(user) = Len(installed)
    BY <2>1, <2>2 DEF IInv, ListComplete
  <2>4. user \in [N -> N]
    BY <2>3
  <2>. QED
    BY <2>2, <2>3, <2>4 DEF IInv, ListComplete
<1>2. IsFiniteSet(N)
  BY <1>1, FS_Interval
<1>. HIDE DEF N
<1>3. user \in Injection(N, N)
  BY <1>1 DEF Injection, IsInjective
<1>4. user \in Surjection(N, N)
  BY <1>2, <1>3, FS_Injection
<1>5. \E i \in N : user[i] = k
  <2>1. k \in N
    BY DEF N
  <2>. QED
    BY <1>4, <2>1 DEF Surjection
<1>. QED
  BY <1>1, <1>5 DEF N

\* The number of the command installed first under a name.
LEMMA FindIs ==
  ASSUME IInv, NEW name
  PROVE  LET Ids == {k \in 1..Len(installed) : installed[k].name = name}
         IN command_find(name) = IF Ids = {} THEN 0 ELSE Min(Ids)
<1> DEFINE Ids == {k \in 1..Len(installed) : installed[k].name = name}
           I == {i \in 1..Len(user) : installed[user[i]].name = name}
           p == IF I # {} THEN Min(I) ELSE 0
<1>1. /\ Len(installed) \in Nat /\ Len(user) = Len(installed)
      /\ \A i \in 1..Len(user) : user[i] \in 1..Len(installed)
      /\ \A i \in 1..Len(installed) : installed[i].name \in Name
  <2>1. installed \in Seq(Command) /\ user \in Seq(DOMAIN installed)
    BY DEF IInv, ListTypeOK
  <2>2. Len(installed) \in Nat /\ DOMAIN installed = 1..Len(installed)
    BY <2>1
  <2>3. \A i \in 1..Len(installed) : installed[i] \in Command
    BY <2>1
  <2>4. \A i \in 1..Len(installed) : installed[i].name \in Name
    BY <2>3 DEF Command
  <2>5. Len(user) = Len(installed)
    BY DEF IInv, ListComplete
  <2>6. \A i \in 1..Len(user) : user[i] \in 1..Len(installed)
    BY <2>1, <2>2
  <2>. QED
    BY <2>2, <2>4, <2>5, <2>6
<1>2. command_find(name) = IF p = 0 THEN 0 ELSE user[p]
  BY DEF command_find, SelectInSeq
<1>3. CASE I = {}
  <2>1. Ids = {}
    <3>1. ASSUME NEW k \in Ids PROVE FALSE
      <4>1. PICK i \in 1..Len(user) : user[i] = k
        BY AllListed
      <4>2. i \in I
        BY <4>1
      <4>. QED
        BY <1>3, <4>2
    <3>. QED
      BY <3>1
  <2>. QED
    BY <1>2, <1>3, <2>1
<1>4. CASE I # {}
  <2>1. I \in SUBSET Nat
    OBVIOUS
  <2>2. p \in I /\ \A i \in I : p <= i
    BY <1>4, <2>1, MinIs
  <2>. HIDE DEF p
  <2>3. p \in 1..Len(user) /\ p # 0 /\ installed[user[p]].name = name
    BY <2>2
  <2>4. user[p] \in Ids
    BY <1>1, <2>3
  <2>5. ASSUME NEW k \in Ids PROVE user[p] <= k
    <3>1. PICK i \in 1..Len(user) : user[i] = k
      BY AllListed
    <3>2. i \in I
      BY <3>1
    <3>3. p <= i
      BY <2>2, <3>2
    <3>4. CASE i = p
      BY <1>1, <2>3, <3>1, <3>4
    <3>5. CASE p < i
      <4>1. Rank[name] < Rank[name] \/ user[p] < user[i]
        BY <2>3, <3>1, <3>5 DEF IInv, ListOrdered
      <4>2. name \in Name /\ Rank[name] \in Nat
        BY <1>1, <2>3, ListAssumption
      <4>. QED
        BY <1>1, <2>3, <3>1, <4>1, <4>2
    <3>. QED
      BY <1>1, <2>3, <3>3, <3>4, <3>5
  <2>6. Ids \in SUBSET Nat
    OBVIOUS
  <2>9. \A k \in Ids : k \in Int
    OBVIOUS
  <2>. HIDE DEF Ids
  <2>7. Min(Ids) \in Ids /\ \A k \in Ids : Min(Ids) <= k
    BY <2>4, <2>6, MinIs
  <2>8. user[p] = Min(Ids)
    <3>1. user[p] <= Min(Ids) /\ Min(Ids) <= user[p]
      BY <2>4, <2>5, <2>7
    <3>2. user[p] \in Int /\ Min(Ids) \in Int
      BY <2>4, <2>7, <2>9
    <3>. QED
      BY <3>1, <3>2
  <2>. QED
    BY <1>2, <2>3, <2>4, <2>8 DEF Ids
<1>. QED
  BY <1>3, <1>4

-----------------------------------------------------------------------------
(* The shell. *)

\* What holds of every line executed: what the run of it was told, and what became
\* of it, with the commands that are installed.
RanOK ==
  \A i \in 1..Len(ran) :
    LET argv == command_prepare_argv(ran[i].line)
        id   == IF argv = <<>> THEN 0 ELSE command_find(Head(argv))
    IN /\ ran[i].argv = argv
       /\ ran[i].what = Outcome(argv, id)
       /\ ran[i].id = IF ran[i].what = "run" THEN id ELSE 0

LastQuits == ran # <<>> /\ Quits(Len(ran))
NothingAfter == \A i \in 1..Len(ran) : Quits(i) => i = Len(ran)

\* The loop's flag tells whether the line executed last was a quit; nothing is
\* executed before the loop or once the flag is set.
FlagOK ==
  /\ phase \in {"init", "no shell"} => ran = <<>>
  /\ phase \notin {"init", "no shell"} => (stop <=> LastQuits)
  /\ phase \in {"read", "exec"} => ~stop
  /\ phase = "done" => stop
  /\ NothingAfter

\* exec is called with a line that was read; the bound on installations holds
Types == TypeOK /\ Len(installed) <= MaxInstalled /\ (phase = "exec" => in_buf \in Lines)

ShellInv == IInv /\ Types /\ RanOK /\ FlagOK

LEMMA ShellInitInv == Init => ShellInv
<1> SUFFICES ASSUME Init PROVE ShellInv
  OBVIOUS
<1>1. IInv
  BY InitInv DEF Init
<1>2. Types
  <2>1. ListTypeOK /\ Len(installed) = 0
    BY <1>1 DEF IInv, Init, ListInit
  <2>2. ran \in Seq([line : Lines, argv : Seq(Seq(Nat)), what : {"invalid", "help", "run", "unknown"},
                     id : 0..MaxInstalled])
    BY DEF Init
  <2>. QED
    BY <2>1, <2>2, ListAssumption DEF Init, Types, TypeOK
<1>3. RanOK /\ FlagOK
  BY DEF Init, RanOK, FlagOK, NothingAfter
<1>. QED
  BY <1>1, <1>2, <1>3 DEF ShellInv

LEMMA OutcomeIs ==
  ASSUME NEW argv, NEW id
  PROVE  Outcome(argv, id) \in {"invalid", "help", "run", "unknown"}
BY DEF Outcome

\* A line is executed with the commands that are installed.
LEMMA ExecIs ==
  ASSUME ShellInv, NEW line \in Lines
  PROVE  LET argv == command_prepare_argv(line)
             id   == IF argv = <<>> THEN 0 ELSE command_find(Head(argv))
         IN /\ argv \in Seq(Seq(Nat))
            /\ id \in 0..Len(installed) /\ id \in 0..MaxInstalled
<1> DEFINE argv == command_prepare_argv(line)
           Ids == {k \in 1..Len(installed) : installed[k].name = Head(argv)}
<1>1. argv \in Seq(Seq(Nat))
  BY ArgvIs, ShellAssumption
<1>2. command_find(Head(argv)) = IF Ids = {} THEN 0 ELSE Min(Ids)
  BY FindIs DEF ShellInv
<1>3. Len(installed) \in Nat /\ Len(installed) <= MaxInstalled /\ MaxInstalled \in Nat
  <2>1. installed \in Seq(Command)
    BY DEF ShellInv, IInv, ListTypeOK
  <2>2. Len(installed) <= MaxInstalled
    BY DEF ShellInv, Types
  <2>. QED
    BY <2>1, <2>2, ListAssumption
<1>4. Ids # {} => Min(Ids) \in 1..Len(installed)
  <2>1. Ids \in SUBSET Nat
    OBVIOUS
  <2>2. Ids \subseteq 1..Len(installed)
    OBVIOUS
  <2>. HIDE DEF Ids
  <2>. QED
    BY <2>1, <2>2, MinIs
<1>. HIDE DEF Ids
<1>5. command_find(Head(argv)) \in 0..Len(installed)
  BY <1>2, <1>3, <1>4
<1>. QED
  BY <1>1, <1>3, <1>5

LEMMA ShellStepInv ==
  ASSUME ShellInv, [Next]_vars
  PROVE  ShellInv'
<1> DEFINE Entry == [line : Lines, argv : Seq(Seq(Nat)),
                     what : {"invalid", "help", "run", "unknown"}, id : 0..MaxInstalled]
<1>0. /\ IInv /\ Types /\ RanOK /\ FlagOK
      /\ ListTypeOK /\ phase \in {"init", "top", "read", "exec", "done", "no shell"}
      /\ stop \in BOOLEAN /\ in_buf \in Lines \cup {<<>>} /\ ran \in Seq(Entry)
  BY DEF ShellInv, Types, TypeOK
<1>. HIDE DEF Entry
<1>1. CASE Install
  <2>1. PICK cmd \in Command : command_install(cmd)
    BY <1>1 DEF Install
  <2>2. IInv'
    BY <1>0, <2>1, InstallInv
  <2>3. UNCHANGED shellVars /\ phase = "init" /\ ran = <<>>
    BY <1>0, <1>1 DEF Install, FlagOK
  <2>4. Len(installed') <= MaxInstalled
    <3>1. Len(installed) < MaxInstalled /\ installed' = Append(installed, cmd)
      BY <2>1 DEF command_install
    <3>2. Len(installed) \in Nat /\ Len(installed') = Len(installed) + 1
      <4>1. installed \in Seq(Command)
        BY <1>0 DEF ListTypeOK
      <4>. QED
        BY <3>1, <4>1
    <3>3. Len(installed) <= MaxInstalled /\ MaxInstalled \in Nat
      BY <1>0, ListAssumption DEF Types
    <3>. QED
      BY <3>1, <3>2, <3>3
  <2>5. Types'
    BY <1>0, <2>2, <2>3, <2>4 DEF Types, TypeOK, IInv, shellVars
  <2>6. RanOK' /\ FlagOK'
    BY <2>3 DEF RanOK, FlagOK, NothingAfter, shellVars
  <2>. QED
    BY <2>2, <2>5, <2>6 DEF ShellInv
\* the steps of the loop leave the list as it is
<1>2. ASSUME UNCHANGED listVars PROVE IInv' /\ ListTypeOK' /\ Len(installed') = Len(installed)
  <2>1. UNCHANGED <<installed, user>>
    BY <1>2 DEF listVars
  <2>2. ListTypeOK'
    BY <1>0, <2>1 DEF ListTypeOK
  <2>3. ListComplete'
    BY <1>0, <2>1 DEF IInv, ListComplete
  <2>4. ListOrdered'
    <3>1. ListOrdered
      BY <1>0 DEF IInv
    <3>. QED
      BY <2>1, <3>1 DEF ListOrdered
  <2>. QED
    BY <2>1, <2>2, <2>3, <2>4 DEF IInv
<1>3. ASSUME UNCHANGED <<listVars, ran>> PROVE RanOK'
  <2>1. UNCHANGED <<installed, user, ran>>
    BY <1>3 DEF listVars
  <2>2. \A name : command_find(name)' = command_find(name)
    BY <2>1 DEF command_find, SelectInSeq
  <2>. QED
    BY <1>0, <2>1, <2>2 DEF RanOK
<1>4. CASE InitFails \/ Start \/ Top \/ ReadNothing \/ UNCHANGED vars
  <2>1. /\ UNCHANGED <<listVars, in_buf, ran>>
        /\ phase' \in {"init", "top", "read", "exec", "done", "no shell"}
        /\ stop' \in BOOLEAN /\ (phase' = "exec" => phase = "exec")
    BY <1>0, <1>4 DEF InitFails, Start, Top, ReadNothing, vars, shellVars
  <2>2. Types'
    BY <1>0, <1>2, <2>1 DEF Types, TypeOK
  <2>3. FlagOK'
    <3>1. UNCHANGED <<installed, ran>>
      BY <2>1 DEF listVars
    <3>2. (LastQuits' <=> LastQuits) /\ NothingAfter'
      BY <1>0, <3>1 DEF FlagOK, LastQuits, NothingAfter, Quits
    <3>3. CASE InitFails
      BY <1>0, <3>2, <3>3 DEF InitFails, FlagOK
    <3>4. CASE Start
      <4>1. phase = "init" /\ phase' = "top" /\ ~stop' /\ ran = <<>>
        BY <1>0, <3>4 DEF Start, FlagOK
      <4>2. ~LastQuits'
        BY <3>2, <4>1 DEF LastQuits
      <4>. QED
        BY <3>2, <4>1, <4>2 DEF FlagOK
    <3>5. CASE Top
      <4>1. phase = "top" /\ (phase' = IF stop THEN "done" ELSE "read") /\ (stop' <=> stop)
        BY <3>5 DEF Top
      <4>2. stop <=> LastQuits
        BY <1>0, <4>1 DEF FlagOK
      <4>. QED
        BY <3>2, <4>1, <4>2 DEF FlagOK
    <3>6. CASE ReadNothing \/ UNCHANGED vars
      <4>1. /\ (phase = "read" /\ phase' = "top") \/ (phase' = phase /\ ran' = ran)
            /\ stop' <=> stop
        BY <3>1, <3>6 DEF ReadNothing, vars, shellVars
      <4>. QED
        BY <1>0, <3>2, <4>1 DEF FlagOK
    <3>. QED
      BY <1>4, <3>3, <3>4, <3>5, <3>6
  <2>. QED
    BY <1>2, <1>3, <2>1, <2>2, <2>3 DEF ShellInv
<1>5. CASE ReadLine
  <2>1. /\ UNCHANGED <<listVars, stop, ran>> /\ phase = "read" /\ phase' = "exec" /\ in_buf' \in Lines
    BY <1>5 DEF ReadLine
  <2>2. Types'
    BY <1>0, <1>2, <2>1 DEF Types, TypeOK
  <2>3. FlagOK'
    <3>1. UNCHANGED <<installed, ran>>
      BY <2>1 DEF listVars
    <3>2. (LastQuits' <=> LastQuits) /\ NothingAfter'
      BY <1>0, <3>1 DEF FlagOK, LastQuits, NothingAfter, Quits
    <3>3. stop' <=> stop
      BY <2>1
    <3>. QED
      BY <1>0, <2>1, <3>2, <3>3 DEF FlagOK
  <2>. QED
    BY <1>2, <1>3, <2>1, <2>2, <2>3 DEF ShellInv
<1>6. CASE ExecLine
  <2> DEFINE argv == command_prepare_argv(in_buf)
             id   == IF argv = <<>> THEN 0 ELSE command_find(Head(argv))
             what == Outcome(argv, id)
             new  == [line |-> in_buf, argv |-> argv, what |-> what,
                      id |-> IF what = "run" THEN id ELSE 0]
             n    == Len(ran)
  <2>1. /\ phase = "exec" /\ ran' = Append(ran, new) /\ phase' = "top"
        /\ stop' = (stop \/ (what = "run" /\ installed[id].exec = "quit"))
        /\ UNCHANGED <<installed, user, in_buf>> /\ UNCHANGED listVars
    BY <1>6 DEF ExecLine, listVars
  <2>2. in_buf \in Lines /\ ~stop
    BY <1>0, <2>1 DEF Types, FlagOK
  <2>3. /\ argv \in Seq(Seq(Nat)) /\ id \in 0..MaxInstalled
        /\ what \in {"invalid", "help", "run", "unknown"} /\ 0 \in 0..MaxInstalled
    <3>1. argv \in Seq(Seq(Nat)) /\ id \in 0..MaxInstalled
      BY <2>2, ExecIs
    <3>. HIDE DEF id, argv
    <3>. QED
      BY <3>1, OutcomeIs, ListAssumption
  <2>4. \A name : command_find(name)' = command_find(name)
    BY <2>1 DEF command_find, SelectInSeq
  <2>5. /\ new.line = in_buf /\ new.argv = argv /\ new.what = what
        /\ new.id = IF what = "run" THEN id ELSE 0
    OBVIOUS
  <2>. HIDE DEF id, argv, what
  <2>6. new \in Entry
    BY <2>2, <2>3 DEF Entry
  <2>. HIDE DEF new
  <2>7. /\ ran' \in Seq(Entry) /\ n \in Nat /\ Len(ran') = n + 1 /\ ran'[n + 1] = new
        /\ \A i \in 1..n : ran'[i] = ran[i]
    BY <1>0, <2>1, <2>6
  <2>8. Types'
    <3>1. TypeOK'
      BY <1>0, <1>2, <2>1, <2>7 DEF TypeOK, Entry
    <3>. QED
      BY <1>0, <1>2, <2>1, <3>1 DEF Types
  <2>9. RanOK'
    <3> SUFFICES ASSUME NEW i \in 1..n + 1
                 PROVE  LET a == command_prepare_argv(ran'[i].line)
                            k == IF a = <<>> THEN 0 ELSE command_find(Head(a))
                        IN /\ ran'[i].argv = a
                           /\ ran'[i].what = Outcome(a, k)
                           /\ ran'[i].id = IF ran'[i].what = "run" THEN k ELSE 0
      BY <2>4, <2>7 DEF RanOK
    <3>1. CASE i \in 1..n
      BY <1>0, <2>7, <3>1 DEF RanOK
    <3>2. CASE i = n + 1
      BY <2>5, <2>7, <3>2 DEF argv, id, what
    <3>. QED
      BY <2>7, <3>1, <3>2
  <2>10. FlagOK'
    <3> DEFINE Q(r, i) == r[i].what = "run" /\ installed[r[i].id].exec = "quit"
    <3>1. \A i \in 1..n : Q(ran', i) <=> Q(ran, i)
      BY <2>7
    <3>2. Q(ran', n + 1) <=> stop'
      <4>1. CASE what = "run"
        BY <2>1, <2>2, <2>5, <2>7, <4>1
      <4>2. CASE what # "run"
        BY <2>1, <2>2, <2>5, <2>7, <4>2
      <4>. QED
        BY <4>1, <4>2
    <3>3. \A i \in 1..n : ~Q(ran, i)
      <4>1. ~LastQuits /\ NothingAfter
        BY <1>0, <2>1, <2>2 DEF FlagOK
      <4>. HIDE DEF n
      <4>2. \A i \in 1..n : Q(ran, i) => i = n
        BY <4>1 DEF NothingAfter, Quits, n
      <4>3. ran # <<>> => ~Q(ran, n)
        BY <4>1 DEF LastQuits, Quits, n
      <4>4. n # 0 => ran # <<>>
        BY DEF n
      <4>. QED
        BY <2>7, <4>2, <4>3, <4>4
    <3>4. ran' # <<>>
      BY <2>7
    <3>5. \A i \in 1..n + 1 : i \in 1..n \/ i = n + 1
      BY <2>7
    <3>. HIDE DEF n, Q
    <3>6. \A i \in 1..n + 1 : Q(ran', i) => i = n + 1
      BY <3>1, <3>3, <3>5
    <3>7. NothingAfter'
      BY <2>1, <2>7, <3>6 DEF NothingAfter, Quits, Q
    <3>8. LastQuits' <=> Q(ran', n + 1)
      BY <2>1, <2>7, <3>4 DEF LastQuits, Quits, Q
    <3>. QED
      BY <2>1, <3>2, <3>7, <3>8 DEF FlagOK
  <2>. QED
    BY <1>2, <2>1, <2>8, <2>9, <2>10 DEF ShellInv
<1>. QED
  BY <1>1, <1>4, <1>5, <1>6 DEF Next

LEMMA ShellInductive == Spec => []ShellInv
BY ShellInitInv, ShellStepInv, PTL DEF Spec

\* Every variable of the shell keeps its type, for any lines and any commands.
THEOREM ShellTypeCorrect == Spec => []TypeOK
<1>1. ShellInv => TypeOK
  BY DEF ShellInv, Types
<1>. QED
  BY <1>1, ShellInductive, PTL

\* In the shell as well the list of commands stays complete and sorted.
THEOREM ShellKeepsList == Spec => [](ListComplete /\ ListOrdered)
<1>1. ShellInv => ListComplete /\ ListOrdered
  BY DEF ShellInv, IInv
<1>. QED
  BY <1>1, ShellInductive, PTL

\* Of a line that was executed, argv held the words, up to its limit.
LEMMA RanWords ==
  ASSUME ShellInv, NEW i \in 1..Len(ran)
  PROVE  /\ ran[i].line \in Seq(Nat)
         /\ ran[i].argv = Take(WordsOf(ran[i].line), MaxArgc)
<1>1. ran[i].line \in Lines
  <2> DEFINE Entry == [line : Lines, argv : Seq(Seq(Nat)),
                       what : {"invalid", "help", "run", "unknown"}, id : 0..MaxInstalled]
  <2>1. ran \in Seq(Entry)
    BY DEF ShellInv, Types, TypeOK
  <2>2. ran[i] \in Entry
    <3>. HIDE DEF Entry
    <3>. QED
      BY <2>1
  <2>. QED
    BY <2>2
<1>2. ran[i].line \in Seq(Nat)
  BY <1>1, ShellAssumption
<1>3. ran[i].argv = command_prepare_argv(ran[i].line)
  BY DEF ShellInv, RanOK
<1>. QED
  BY <1>2, <1>3, ArgvIs

\* Whatever line is typed, argv holds its words, the first MaxArgc if there are more.
THEOREM ArgvCorrect == Spec => []ArgvIsWords
<1>1. ShellInv => ArgvIsWords
  <2> SUFFICES ASSUME ShellInv PROVE ArgvIsWords
    OBVIOUS
  <2>. QED
    BY RanWords DEF ArgvIsWords, Take
<1>. QED
  BY <1>1, ShellInductive, PTL

\* Whatever is installed in whatever order, what runs is the command installed first
\* under the name typed, and it does run unless the name is "?".
THEOREM FirstRuns == Spec => []FirstInstalledRuns
<1>1. ShellInv => FirstInstalledRuns
  <2> SUFFICES ASSUME ShellInv, NEW i \in 1..Len(ran)
               PROVE  LET name == WordsOf(ran[i].line)[1]
                          Ids == {k \in 1..Len(installed) : installed[k].name = name}
                      IN IF WordsOf(ran[i].line) = <<>> \/ name = Question \/ Ids = {}
                         THEN ran[i].id = 0
                         ELSE ran[i].id = Min(Ids)
    BY DEF FirstInstalledRuns
  <2> DEFINE w    == WordsOf(ran[i].line)
             Ids  == {k \in 1..Len(installed) : installed[k].name = w[1]}
             argv == command_prepare_argv(ran[i].line)
             id   == IF argv = <<>> THEN 0 ELSE command_find(Head(argv))
  <2>1. ran[i].what = Outcome(argv, id) /\ ran[i].id = IF ran[i].what = "run" THEN id ELSE 0
    BY DEF ShellInv, RanOK
  <2>2. (argv = <<>> <=> w = <<>>) /\ (w # <<>> => Head(argv) = w[1])
    BY RanWords, ArgvIs
  <2>3. command_find(w[1]) = IF Ids = {} THEN 0 ELSE Min(Ids)
    BY FindIs DEF ShellInv
  <2>4. Ids # {} => Min(Ids) # 0
    <3>1. Ids \in SUBSET Nat /\ \A k \in Ids : k # 0
      OBVIOUS
    <3>. HIDE DEF Ids
    <3>. QED
      BY <3>1, MinIs
  <2>. HIDE DEF w, Ids, argv
  <2>5. CASE w = <<>>
    <3>1. Outcome(argv, id) = "invalid"
      BY <2>2, <2>5 DEF Outcome
    <3>. QED
      BY <2>1, <2>5, <3>1 DEF w
  <2>6. CASE w # <<>> /\ w[1] = Question
    <3>1. Outcome(argv, id) = "help"
      BY <2>2, <2>6 DEF Outcome
    <3>. QED
      BY <2>1, <2>6, <3>1 DEF w
  <2>7. CASE w # <<>> /\ w[1] # Question
    <3>1. id = IF Ids = {} THEN 0 ELSE Min(Ids)
      BY <2>2, <2>3, <2>7
    <3>. HIDE DEF id
    <3>2. CASE Ids = {}
      <4>1. id = 0 /\ ran[i].id = 0
        BY <2>1, <3>1, <3>2
      <4>. QED
        BY <3>2, <4>1 DEF w, Ids
    <3>3. CASE Ids # {}
      <4>1. id = Min(Ids) /\ Outcome(argv, id) = "run"
        BY <2>2, <2>4, <2>7, <3>1, <3>3 DEF Outcome
      <4>. QED
        BY <2>1, <2>7, <3>3, <4>1 DEF w, Ids
    <3>. QED
      BY <3>2, <3>3
  <2>. QED
    BY <2>5, <2>6, <2>7
<1>. QED
  BY <1>1, ShellInductive, PTL

\* quit is the last thing the shell does, and the only way its loop ends.
THEOREM QuitCorrect == Spec => []QuitIsLast
<1>1. ShellInv => QuitIsLast
  BY DEF ShellInv, FlagOK, LastQuits, NothingAfter, QuitIsLast
<1>. QED
  BY <1>1, ShellInductive, PTL
=============================================================================
