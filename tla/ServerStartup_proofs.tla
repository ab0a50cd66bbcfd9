------------------------- MODULE ServerStartup_proofs -------------------------
(***************************************************************************)
(* Proofs about ServerStartup, for every configuration file, any length of *)
(* the buffer and any number of comments.                                  *)
(***************************************************************************)
EXTENDS ServerStartup, SequenceTheorems, FiniteSetTheorems, WellFoundedInduction, TLAPS

-----------------------------------------------------------------------------
(* The least and the greatest number of a set. *)

LEMMA MinIsLeast ==
  ASSUME NEW T \in SUBSET Nat, T # {}
  PROVE  Min(T) \in T /\ \A y \in T : Min(T) <= y
<1>1. PICK x \in T : \A y \in T : ~(<<y, x>> \in OpToRel(<, Nat))
  BY NatLessThanWellFounded, WFMin
<1>2. \A y \in T : x <= y
  <2>1. \A y \in T : ~(y < x)
    BY <1>1 DEF OpToRel
  <2>. QED
    BY <2>1
<1>. QED
  BY <1>2 DEF Min

LEMMA MaxIsGreatest ==
  ASSUME NEW n \in Nat, NEW T \in SUBSET (0..n), T # {}
  PROVE  Max(T) \in T /\ \A y \in T : y <= Max(T)
<1> DEFINE D == {n - y : y \in T}
<1>1. D \in SUBSET Nat /\ D # {}
  <2>1. \A y \in T : n - y \in Nat
    OBVIOUS
  <2>. QED
    BY <2>1
<1>2. Min(D) \in D /\ \A y \in D : Min(D) <= y
  BY <1>1, MinIsLeast
<1>3. PICK x \in T : n - x = Min(D)
  BY <1>2
<1>4. \A y \in T : n - x <= n - y
  BY <1>2, <1>3
<1>. HIDE DEF D
<1>5. \A y \in T : y <= x
  BY <1>4
<1>6. \E z \in T : \A y \in T : z >= y
  BY <1>5
<1>. QED
  BY <1>6 DEF Max

-----------------------------------------------------------------------------
(* What one turn of read_conf_value's loop sees. *)

\* at stands in the text
InText == file \in Seq(Token) /\ at \in Nat /\ at < Len(file)

LEMMA LineEndIs ==
  ASSUME InText
  PROVE  /\ LineEnd(at) \in at+1..Len(file) /\ LineEnd(at) <= at + LineMax
         /\ \A i \in at+1..LineEnd(at) : file[i] = "\n" => i = LineEnd(at)
         /\ \/ file[LineEnd(at)] = "\n" \/ LineEnd(at) = Len(file)
            \/ LineEnd(at) = at + LineMax
<1> DEFINE T == {at + LineMax, Len(file)} \cup {i \in at+1..Len(file) : file[i] = "\n"}
<1>0. LineMax \in Nat \ {0} /\ Len(file) \in Nat /\ at \in Nat /\ at < Len(file)
  BY IniAssumption DEF InText
<1>1. T \in SUBSET Nat /\ T # {}
  BY <1>0
<1>2. LineEnd(at) \in T /\ \A y \in T : LineEnd(at) <= y
  BY <1>1, MinIsLeast DEF LineEnd
<1>. QED
  BY <1>0, <1>2

LEMMA fgetsIs ==
  ASSUME InText
  PROVE  /\ fgets \in Seq(Token) /\ Len(fgets) = LineEnd(at) - at
         /\ \A i \in 1..(LineEnd(at) - at) : fgets[i] = file[at + i]
<1>1. /\ LineEnd(at) \in at+1..Len(file) /\ at \in Nat /\ Len(file) \in Nat
      /\ file \in Seq(Token)
  BY LineEndIs DEF InText
<1>2. at + 1 \in 1..Len(file) + 1 /\ LineEnd(at) \in at + 1 - 1..Len(file)
  BY <1>1
<1>. QED
  BY <1>1, <1>2, SubSeqProperties DEF fgets

\* The text of a line runs from its first to its last token that is not a blank.
TextOf(s, p, q) ==
  /\ p \in 1..Len(s) /\ q \in p..Len(s)
  /\ s[p] \notin Blank /\ s[q] \notin Blank
  /\ \A i \in 1..Len(s) : s[i] \notin Blank => p <= i /\ i <= q

LEMMA strtrimIs ==
  ASSUME NEW s \in Seq(Token)
  PROVE  \/ strtrim(s) = <<>> /\ \A i \in 1..Len(s) : s[i] \in Blank
         \/ \E p, q \in Nat :
              /\ TextOf(s, p, q)
              /\ strtrim(s) \in Seq(Token) /\ Len(strtrim(s)) = q - p + 1
              /\ \A j \in 1..q - p + 1 : strtrim(s)[j] = s[p + j - 1]
<1> DEFINE T == {i \in DOMAIN s : s[i] \notin Blank}
<1>0. Len(s) \in Nat /\ DOMAIN s = 1..Len(s)
  OBVIOUS
<1>1. CASE T = {}
  BY <1>0, <1>1 DEF strtrim
<1>2. CASE T # {}
  <2>1. T \in SUBSET Nat /\ T \in SUBSET (0..Len(s))
    BY <1>0
  <2>2. Min(T) \in T /\ \A y \in T : Min(T) <= y
    BY <1>2, <2>1, MinIsLeast
  <2>3. Max(T) \in T /\ \A y \in T : y <= Max(T)
    BY <1>0, <1>2, <2>1, MaxIsGreatest
  <2>4. TextOf(s, Min(T), Max(T)) /\ Min(T) \in Nat /\ Max(T) \in Nat
    BY <1>0, <2>2, <2>3 DEF TextOf
  <2>5. strtrim(s) = SubSeq(s, Min(T), Max(T))
    BY <1>2 DEF strtrim
  <2>. HIDE DEF T
  <2>6. /\ strtrim(s) \in Seq(Token) /\ Len(strtrim(s)) = Max(T) - Min(T) + 1
        /\ \A j \in 1..Max(T) - Min(T) + 1 : strtrim(s)[j] = s[Min(T) + j - 1]
    <3>1. Min(T) \in 1..Len(s) + 1 /\ Max(T) \in Min(T) - 1..Len(s) /\ Min(T) <= Max(T)
      BY <1>0, <2>4 DEF TextOf
    <3>. QED
      BY <2>5, <3>1, SubSeqProperties
  <2>. QED
    BY <2>4, <2>6
<1>. QED
  BY <1>1, <1>2

\* The piece that fgets returns, in terms of the file: f and g are the places of the
\* first and the last token that is not a blank.
Spans(f, g) ==
  /\ f \in at+1..LineEnd(at) /\ g \in f..LineEnd(at)
  /\ file[f] \notin Blank /\ file[g] \notin Blank
  /\ \A i \in at+1..LineEnd(at) : file[i] \notin Blank => f <= i /\ i <= g
  /\ strtrim(fgets) \in Seq(Token) /\ Len(strtrim(fgets)) = g - f + 1
  /\ \A j \in 1..g - f + 1 : strtrim(fgets)[j] = file[f + j - 1]

LEMMA PieceIs ==
  ASSUME InText
  PROVE  \/ strtrim(fgets) = <<>> /\ \A i \in at+1..LineEnd(at) : file[i] \in Blank
         \/ \E f, g \in Nat : Spans(f, g)
<1> DEFINE e == LineEnd(at)
<1>0. /\ at \in Nat /\ e \in Nat /\ e > at
      /\ fgets \in Seq(Token) /\ Len(fgets) = e - at
      /\ \A i \in 1..(e - at) : fgets[i] = file[at + i]
  BY LineEndIs, fgetsIs DEF InText
<1>. HIDE DEF e
<1>1. \A i \in at+1..e : i - at \in 1..(e - at) /\ fgets[i - at] = file[i]
  <2> SUFFICES ASSUME NEW i \in at+1..e PROVE i - at \in 1..(e - at) /\ fgets[i - at] = file[i]
    OBVIOUS
  <2>1. i - at \in 1..(e - at) /\ at + (i - at) = i
    BY <1>0
  <2>. QED
    BY <1>0, <2>1
<1>2. CASE strtrim(fgets) = <<>> /\ \A i \in 1..Len(fgets) : fgets[i] \in Blank
  <2>1. \A i \in at+1..e : file[i] \in Blank
    BY <1>0, <1>1, <1>2
  <2>. QED
    BY <1>2, <2>1 DEF e
<1>3. ASSUME NEW p \in Nat, NEW q \in Nat,
             TextOf(fgets, p, q),
             strtrim(fgets) \in Seq(Token), Len(strtrim(fgets)) = q - p + 1,
             \A j \in 1..q - p + 1 : strtrim(fgets)[j] = fgets[p + j - 1]
      PROVE  \E f, g \in Nat : Spans(f, g)
  <2>1. /\ p \in 1..(e - at) /\ q \in p..(e - at)
        /\ fgets[p] \notin Blank /\ fgets[q] \notin Blank
    BY <1>0, <1>3 DEF TextOf
  <2>2. /\ at + p \in at+1..e /\ at + q \in (at + p)..e /\ at + p \in Nat /\ at + q \in Nat
        /\ (at + q) - (at + p) + 1 = q - p + 1
    BY <1>0, <2>1
  <2>3. file[at + p] \notin Blank /\ file[at + q] \notin Blank
    BY <1>0, <2>1
  <2>4. \A i \in at+1..e : file[i] \notin Blank => at + p <= i /\ i <= at + q
    <3> SUFFICES ASSUME NEW i \in at+1..e, file[i] \notin Blank PROVE at + p <= i /\ i <= at + q
      OBVIOUS
    <3>1. p <= i - at /\ i - at <= q
      BY <1>0, <1>1, <1>3 DEF TextOf
    <3>. QED
      BY <1>0, <2>1, <3>1
  <2>5. \A j \in 1..q - p + 1 : strtrim(fgets)[j] = file[(at + p) + j - 1]
    <3> SUFFICES ASSUME NEW j \in 1..q - p + 1
                 PROVE  strtrim(fgets)[j] = file[(at + p) + j - 1]
      OBVIOUS
    <3>1. p + j - 1 \in 1..(e - at) /\ at + (p + j - 1) = (at + p) + j - 1
      BY <1>0, <2>1
    <3>. QED
      BY <1>0, <1>3, <3>1
  <2>6. Spans(at + p, at + q)
    BY <1>3, <2>2, <2>3, <2>4, <2>5 DEF Spans, e
  <2>. QED
    BY <2>2, <2>6
<1>. QED
  BY <1>0, <1>2, <1>3, strtrimIs

\* The first "=" of a line, or else its first space.
LEMMA CutIs ==
  ASSUME NEW s \in Seq(Token)
  PROVE  /\ Cut(s) \in 0..Len(s)
         /\ (\E i \in 1..Len(s) : s[i] = "=") =>
              Cut(s) > 0 /\ s[Cut(s)] = "=" /\ \A i \in 1..Len(s) : s[i] = "=" => Cut(s) <= i
         /\ (\A i \in 1..Len(s) : s[i] # "=") =>
              IF \E i \in 1..Len(s) : s[i] = " "
              THEN Cut(s) > 0 /\ s[Cut(s)] = " " /\ \A i \in 1..Len(s) : s[i] = " " => Cut(s) <= i
              ELSE Cut(s) = 0
<1> DEFINE Places(c) == {i \in DOMAIN s : s[i] = c}
<1>0. Len(s) \in Nat /\ DOMAIN s = 1..Len(s)
  OBVIOUS
<1>1. ASSUME NEW c, Places(c) # {}
      PROVE  Min(Places(c)) \in Places(c) /\ \A y \in Places(c) : Min(Places(c)) <= y
  <2>1. Places(c) \in SUBSET Nat
    BY <1>0
  <2>. QED
    BY <1>1, <2>1, MinIsLeast
<1>2. CASE \E i \in 1..Len(s) : s[i] = "="
  <2>1. Places("=") # {}
    BY <1>0, <1>2
  <2>2. Cut(s) = Min(Places("="))
    BY <2>1 DEF Cut
  <2>3. Cut(s) \in Places("=") /\ \A y \in Places("=") : Cut(s) <= y
    BY <1>1, <2>1, <2>2
  <2>4. /\ Cut(s) \in 1..Len(s) /\ s[Cut(s)] = "="
        /\ \A i \in 1..Len(s) : s[i] = "=" => Cut(s) <= i
    BY <1>0, <2>3
  <2>5. Cut(s) > 0 /\ Cut(s) \in 0..Len(s)
    <3>1. Cut(s) \in 1..Len(s)
      BY <2>4
    <3>. QED
      BY <1>0, <3>1
  <2>. HIDE DEF Places
  <2>. QED
    BY <1>2, <2>4, <2>5
<1>3. CASE (\A i \in 1..Len(s) : s[i] # "=") /\ \E i \in 1..Len(s) : s[i] = " "
  <2>1. Places("=") = {} /\ Places(" ") # {}
    BY <1>0, <1>3
  <2>2. Cut(s) = Min(Places(" "))
    BY <2>1 DEF Cut
  <2>3. Cut(s) \in Places(" ") /\ \A y \in Places(" ") : Cut(s) <= y
    BY <1>1, <2>1, <2>2
  <2>4. /\ Cut(s) \in 1..Len(s) /\ s[Cut(s)] = " "
        /\ \A i \in 1..Len(s) : s[i] = " " => Cut(s) <= i
    BY <1>0, <2>3
  <2>5. Cut(s) > 0 /\ Cut(s) \in 0..Len(s)
    <3>1. Cut(s) \in 1..Len(s)
      BY <2>4
    <3>. QED
      BY <1>0, <3>1
  <2>. HIDE DEF Places
  <2>. QED
    BY <1>3, <2>4, <2>5
<1>4. CASE (\A i \in 1..Len(s) : s[i] # "=") /\ \A i \in 1..Len(s) : s[i] # " "
  <2>1. Places("=") = {} /\ Places(" ") = {}
    BY <1>0, <1>4
  <2>2. Cut(s) = 0
    BY <2>1 DEF Cut
  <2>3. Cut(s) \in 0..Len(s)
    BY <1>0, <2>2
  <2>. HIDE DEF Places
  <2>. QED
    BY <1>4, <2>2, <2>3
<1>. QED
  BY <1>2, <1>3, <1>4

-----------------------------------------------------------------------------
(* Lines: a piece is what the properties call a line.                      *)

OnLine == at < Len(file) => at + 1 \in Starts

LEMMA NewlineEnds ==
  ASSUME InText, NEW i \in Int, at < i, i < LineEnd(at)
  PROVE  file[i] # "\n" /\ i \in 1..Len(file)
<1>1. LineEnd(at) \in at+1..Len(file) /\ at \in Nat /\ Len(file) \in Nat
  BY LineEndIs DEF InText
<1>2. i \in at+1..LineEnd(at) /\ i # LineEnd(at) /\ i \in 1..Len(file)
  BY <1>1
<1>. QED
  BY <1>2, LineEndIs

LEMMA LineAtIs ==
  ASSUME InText
  PROVE  LineAt(at + 1) = at+1..LineEnd(at)
<1>0. /\ LineMax \in Nat \ {0} /\ at \in Nat /\ Len(file) \in Nat /\ DOMAIN file = 1..Len(file)
      /\ LineEnd(at) \in at+1..Len(file) /\ LineEnd(at) \in Nat /\ LineEnd(at) <= at + LineMax
  <2>1. LineMax \in Nat \ {0} /\ at \in Nat /\ Len(file) \in Nat /\ DOMAIN file = 1..Len(file)
    BY IniAssumption DEF InText
  <2>2. LineEnd(at) \in at+1..Len(file) /\ LineEnd(at) <= at + LineMax
    BY LineEndIs
  <2>. QED
    BY <2>1, <2>2
<1>1. ASSUME NEW l \in LineAt(at + 1) PROVE l \in at+1..LineEnd(at)
  <2>1. /\ l \in 1..Len(file) /\ at + 1 <= l /\ l < at + 1 + LineMax
        /\ \A m \in at+1..l-1 : file[m] # "\n"
    BY <1>0, <1>1 DEF LineAt
  <2>2. ASSUME l > LineEnd(at) PROVE FALSE
    <3>1. LineEnd(at) \in at+1..l-1
      BY <1>0, <2>1, <2>2
    <3>2. file[LineEnd(at)] # "\n"
      BY <2>1, <3>1
    <3>3. LineEnd(at) = Len(file) \/ LineEnd(at) = at + LineMax
      BY <3>2, LineEndIs
    <3>. QED
      BY <1>0, <2>1, <2>2, <3>3
  <2>. QED
    BY <1>0, <2>1, <2>2
<1>2. ASSUME NEW l \in at+1..LineEnd(at) PROVE l \in LineAt(at + 1)
  <2>1. l \in 1..Len(file) /\ at + 1 <= l /\ l < at + 1 + LineMax
    BY <1>0
  <2>2. \A m \in at+1..l-1 : file[m] # "\n"
    <3> SUFFICES ASSUME NEW m \in at+1..l-1 PROVE file[m] # "\n"
      OBVIOUS
    <3>1. m \in Int /\ at < m /\ m < LineEnd(at)
      BY <1>0
    <3>. QED
      BY <3>1, NewlineEnds
  <2>. QED
    BY <1>0, <2>1, <2>2 DEF LineAt
<1>. QED
  BY <1>1, <1>2

\* Pieces of one line are LineMax apart.
LEMMA Apart ==
  ASSUME NEW m \in Nat, NEW n \in Nat, NEW l \in Nat \ {0}, n * l > m * l
  PROVE  n * l >= m * l + l
<1>1. CASE n <= m
  <2>1. PICK d \in Nat : m = n + d
    <3>1. m - n \in Nat /\ m = n + (m - n)
      BY <1>1
    <3>. QED
      BY <3>1
  <2>2. (n + d) * l = n * l + d * l /\ d * l >= 0
    OBVIOUS
  <2>. QED
    BY <2>1, <2>2
<1>2. CASE n > m
  <2>1. PICK d \in Nat : n = m + 1 + d
    <3>1. n - m - 1 \in Nat /\ n = m + 1 + (n - m - 1)
      BY <1>2
    <3>. QED
      BY <3>1
  <2>2. (m + 1 + d) * l = m * l + l + d * l /\ d * l >= 0
    OBVIOUS
  <2>. QED
    BY <2>1, <2>2
<1>. QED
  BY <1>1, <1>2

\* b is the start of the line, newline to newline, that a piece at a belongs to.
From(a, b) ==
  /\ b \in 1..a
  /\ b = 1 \/ file[b - 1] = "\n"
  /\ \A l \in b..a-1 : file[l] # "\n"

\* A piece starts where its reader does.
LEMMA OneStart ==
  ASSUME InText, OnLine, NEW b \in Starts, b > at, b <= LineEnd(at)
  PROVE  b = at + 1
<1> SUFFICES ASSUME b # at + 1 PROVE FALSE
  OBVIOUS
<1>0. /\ LineMax \in Nat \ {0} /\ at \in Nat /\ Len(file) \in Nat /\ DOMAIN file = 1..Len(file)
      /\ LineEnd(at) \in Nat /\ LineEnd(at) <= at + LineMax /\ at + 1 \in Starts /\ b \in 1..Len(file)
  <2>1. LineMax \in Nat \ {0} /\ at \in Nat /\ Len(file) \in Nat /\ DOMAIN file = 1..Len(file)
    BY IniAssumption DEF InText
  <2>2. LineEnd(at) \in at+1..Len(file) /\ LineEnd(at) <= at + LineMax
    BY LineEndIs
  <2>3. at + 1 \in Starts
    BY DEF OnLine, InText
  <2>4. b \in 1..Len(file)
    BY <2>1 DEF Starts
  <2>. QED
    BY <2>1, <2>2, <2>3, <2>4
<1>1. PICK x \in 1..at+1, m \in 0..at+1 : From(at + 1, x) /\ at + 1 = x + m * LineMax
  BY <1>0 DEF Starts, From
<1>2. PICK y \in 1..b, n \in 0..b : From(b, y) /\ b = y + n * LineMax
  BY <1>0 DEF Starts, From
<1>3. x \in Nat /\ y \in Nat /\ m \in Nat /\ n \in Nat /\ b \in Nat /\ x <= at + 1 /\ y <= b /\ at + 1 < b
      /\ x >= 1 /\ y >= 1
  BY <1>0, <1>1, <1>2
<1>12. /\ x = 1 \/ file[x - 1] = "\n"
       /\ \A l \in x..at : file[l] # "\n"
  <2>1. From(at + 1, x)
    BY <1>1
  <2>2. (at + 1) - 1 = at
    BY <1>0
  <2>. QED
    BY <2>1, <2>2 DEF From
<1>13. /\ y = 1 \/ file[y - 1] = "\n"
       /\ \A l \in y..b-1 : file[l] # "\n"
  <2>1. From(b, y)
    BY <1>2
  <2>. QED
    BY <2>1 DEF From
<1>4. \A l \in x..b-1 : file[l] # "\n"
  <2> SUFFICES ASSUME NEW l \in x..b-1 PROVE file[l] # "\n"
    OBVIOUS
  <2>1. CASE l <= at
    <3>1. l \in x..at
      BY <1>0, <1>3, <2>1
    <3>. QED
      BY <1>12, <3>1
  <2>2. CASE l > at
    <3>1. l \in Int /\ at < l /\ l < LineEnd(at)
      BY <1>0, <1>3, <2>2
    <3>. QED
      BY <3>1, NewlineEnds
  <2>. QED
    BY <1>0, <1>3, <2>1, <2>2
<1>5. ~(x < y)
  <2>1. SUFFICES ASSUME x < y PROVE FALSE
    OBVIOUS
  <2>2. y - 1 \in x..b-1 /\ y # 1
    BY <1>3, <2>1
  <2>. QED
    BY <1>4, <1>13, <2>2
<1>6. ~(y < x)
  <2>1. SUFFICES ASSUME y < x PROVE FALSE
    OBVIOUS
  <2>2. x - 1 \in y..b-1 /\ x # 1
    BY <1>0, <1>3, <2>1
  <2>. QED
    BY <1>12, <1>13, <2>2
<1>7. x = y
  BY <1>3, <1>5, <1>6
<1>8. m * LineMax \in Nat /\ n * LineMax \in Nat
  BY <1>0, <1>3
<1>9. n * LineMax > m * LineMax
  BY <1>1, <1>2, <1>3, <1>7, <1>8
<1>10. n * LineMax >= m * LineMax + LineMax
  BY <1>0, <1>3, <1>9, Apart
<1>11. b >= at + 1 + LineMax
  BY <1>0, <1>1, <1>2, <1>3, <1>7, <1>8, <1>10
<1>. QED
  BY <1>0, <1>3, <1>11

\* And so does the next one.
LEMMA NextOnLine ==
  ASSUME InText, OnLine, LineEnd(at) < Len(file)
  PROVE  LineEnd(at) + 1 \in Starts
<1> DEFINE e == LineEnd(at)
<1>0. /\ LineMax \in Nat \ {0} /\ at \in Nat /\ Len(file) \in Nat /\ DOMAIN file = 1..Len(file)
      /\ e \in Nat /\ e >= at + 1 /\ e < Len(file) /\ e + 1 \in DOMAIN file /\ at + 1 \in Starts
  <2>1. LineMax \in Nat \ {0} /\ at \in Nat /\ Len(file) \in Nat /\ DOMAIN file = 1..Len(file)
    BY IniAssumption DEF InText
  <2>2. e \in at+1..Len(file)
    BY LineEndIs
  <2>3. at + 1 \in Starts
    BY DEF OnLine, InText
  <2>4. e \in Nat /\ e >= at + 1 /\ e < Len(file) /\ e + 1 \in DOMAIN file
    BY <2>1, <2>2
  <2>. QED
    BY <2>1, <2>3, <2>4
<1>1. CASE file[e] = "\n"
  <2>1. (e + 1) - 1 = e /\ e + 1 \in 1..e+1 /\ 0 \in 0..e+1 /\ e + 1 = (e + 1) + 0 * LineMax
    BY <1>0
  <2>2. \A l \in e+1..(e+1)-1 : file[l] # "\n"
    BY <1>0
  <2>. QED
    BY <1>0, <1>1, <2>1, <2>2 DEF Starts
<1>2. CASE file[e] # "\n"
  <2>1. e = at + LineMax
    BY <1>0, <1>2, LineEndIs
  <2>2. PICK x \in 1..at+1, m \in 0..at+1 : From(at + 1, x) /\ at + 1 = x + m * LineMax
    BY <1>0 DEF Starts, From
  <2>3. x \in Nat /\ x <= at + 1 /\ m \in Nat /\ x >= 1 /\ m <= at + 1
    BY <1>0, <2>2
  <2>. HIDE DEF e
  <2>4. (m + 1) * LineMax = m * LineMax + LineMax /\ m * LineMax \in Nat
    BY <1>0, <2>3
  <2>5. e + 1 = x + (m + 1) * LineMax
    BY <1>0, <2>1, <2>2, <2>3, <2>4
  <2>6. x \in 1..e+1 /\ m + 1 \in 0..e+1
    BY <1>0, <2>3
  <2>10. /\ x = 1 \/ file[x - 1] = "\n"
         /\ \A l \in x..at : file[l] # "\n"
    <3>1. From(at + 1, x)
      BY <2>2
    <3>2. (at + 1) - 1 = at
      BY <1>0
    <3>. QED
      BY <3>1, <3>2 DEF From
  <2>7. \A l \in x..(e+1)-1 : file[l] # "\n"
    <3> SUFFICES ASSUME NEW l \in x..(e+1)-1 PROVE file[l] # "\n"
      OBVIOUS
    <3>1. CASE l <= at
      <4>1. l \in x..at
        BY <1>0, <2>3, <3>1
      <4>. QED
        BY <2>10, <4>1
    <3>2. CASE l = e
      BY <1>2, <3>2
    <3>3. CASE l > at /\ l # e
      <4>1. l \in Int /\ at < l /\ l < e
        BY <1>0, <2>3, <3>3
      <4>. QED
        BY <4>1, NewlineEnds DEF e
    <3>. QED
      BY <1>0, <2>3, <3>1, <3>2, <3>3
  <2>9. e + 1 \in Starts
    BY <1>0, <2>5, <2>6, <2>7, <2>10 DEF Starts
  <2>. QED
    BY <2>9 DEF e
<1>. QED
  BY <1>1, <1>2

LEMMA FirstStart ==
  ASSUME file \in Seq(Token), 0 < Len(file)
  PROVE  1 \in Starts
<1>1. /\ DOMAIN file = 1..Len(file) /\ 1 \in 1..Len(file) /\ LineMax \in Nat
      /\ 1 \in 1..1 /\ 0 \in 0..1 /\ 1 = 1 + 0 * LineMax
  BY IniAssumption
<1>2. \A l \in 1..1-1 : file[l] # "\n"
  OBVIOUS
<1>. QED
  BY <1>1, <1>2 DEF Starts

LEMMA FirstStartNext ==
  ASSUME file' \in Seq(Token), 0 < Len(file')
  PROVE  1 \in Starts'
<1>1. /\ DOMAIN file' = 1..Len(file') /\ 1 \in 1..Len(file') /\ LineMax \in Nat
      /\ 1 \in 1..1 /\ 0 \in 0..1 /\ 1 = 1 + 0 * LineMax
  BY IniAssumption
<1>2. \A l \in 1..1-1 : file'[l] # "\n"
  OBVIOUS
<1>. QED
  BY <1>1, <1>2 DEF Starts

LEMMA WordIsSolid ==
  ASSUME NEW w \in Word
  PROVE  w \notin Blank /\ w # "=" /\ w # "#" /\ w # "\n" /\ w # " "
BY IniAssumption DEF Blank

\* What About and Gives say of a line holds of its piece.
LEMMA AboutSpans ==
  ASSUME InText, NEW key \in Word, NEW k \in DOMAIN file, About(at + 1, key, k)
  PROVE  /\ k \in Nat /\ k + 1 <= LineEnd(at)
         /\ \E g \in Nat : Spans(k, g) /\ k + 1 <= g
<1>0. /\ at \in Nat /\ Len(file) \in Nat /\ k \in Nat /\ at + 1 <= k /\ k + 1 <= LineEnd(at)
      /\ Space(at + 1, k - 1) /\ file[k] = key
      /\ LineEnd(at) \in Nat /\ LineEnd(at) <= Len(file)
  <2>1. /\ at \in Nat /\ Len(file) \in Nat /\ DOMAIN file = 1..Len(file)
        /\ LineEnd(at) \in at+1..Len(file)
    BY LineEndIs DEF InText
  <2>2. k \in at+1..LineEnd(at) /\ k + 1 \in at+1..LineEnd(at)
    BY LineAtIs DEF About
  <2>3. Space(at + 1, k - 1) /\ file[k] = key
    BY DEF About
  <2>. QED
    BY <2>1, <2>2, <2>3
<1>1. \E l \in (k + 1)..LineEnd(at) : file[l] \notin Blank
  <2>1. CASE file[k + 1] = "="
    <3>1. k + 1 \in (k + 1)..LineEnd(at)
      BY <1>0
    <3>. QED
      BY <2>1, <3>1 DEF Blank
  <2>2. ASSUME NEW l \in LineAt(at + 1), k < l, file[l] \notin Blank
        PROVE  \E m \in (k + 1)..LineEnd(at) : file[m] \notin Blank
    <3>1. l \in at+1..LineEnd(at)
      BY LineAtIs
    <3>2. l \in (k + 1)..LineEnd(at)
      BY <1>0, <2>2, <3>1
    <3>. QED
      BY <2>2, <3>2
  <2>. QED
    BY <2>1, <2>2 DEF About
<1>2. PICK l \in (k + 1)..LineEnd(at) : file[l] \notin Blank
  BY <1>1
<1>9. /\ l \in Nat /\ k + 1 <= l /\ l <= LineEnd(at)
  BY <1>0, <1>2
<1>4. file[k] \notin Blank /\ k \in at+1..LineEnd(at) /\ l \in at+1..LineEnd(at)
  <2>1. file[k] \notin Blank
    BY <1>0, WordIsSolid
  <2>2. k \in at+1..LineEnd(at) /\ l \in at+1..LineEnd(at)
    BY <1>0, <1>9
  <2>. QED
    BY <2>1, <2>2
<1>5. PICK f \in Nat, g \in Nat : Spans(f, g)
  BY <1>4, PieceIs
<1>6. f <= k /\ l <= g
  BY <1>2, <1>4, <1>5 DEF Spans
<1>7. ~(f < k)
  <2>1. SUFFICES ASSUME f < k PROVE FALSE
    OBVIOUS
  <2>2. f \in at+1..k-1 /\ file[f] \notin Blank
    <3>1. f \in at+1..LineEnd(at) /\ file[f] \notin Blank
      BY <1>5 DEF Spans
    <3>2. f \in Int /\ at + 1 <= f
      BY <1>0, <3>1
    <3>3. f \in at+1..k-1
      BY <1>0, <2>1, <3>2
    <3>. QED
      BY <3>1, <3>3
  <2>3. file[f] \in Blank
    BY <1>0, <2>2 DEF Space
  <2>. QED
    BY <2>2, <2>3
<1>8. f = k /\ k + 1 <= g /\ k + 1 <= LineEnd(at)
  <2>1. f \in Nat /\ g \in Nat
    BY <1>5
  <2>. QED
    BY <1>0, <1>6, <1>7, <1>9, <2>1
<1>. QED
  BY <1>0, <1>5, <1>8

\* A line about a key is an item with that key.
LEMMA AboutIsItem ==
  ASSUME InText, NEW key \in Word, NEW k \in DOMAIN file, About(at + 1, key, k)
  PROVE  LET s == strtrim(fgets) IN
         /\ IsItem(s) /\ ~IsComment(s) /\ Cut(s) = 2 /\ KeyOf(s) = <<key>>
         /\ s \in Seq(Token) /\ Len(s) \in Nat /\ Len(s) >= 2
         /\ \A j \in 1..Len(s) : s[j] = file[k + j - 1]
         /\ \A i \in at+1..LineEnd(at) : file[i] \notin Blank => i <= k + Len(s) - 1
<1> DEFINE s == strtrim(fgets)
<1>1. PICK g \in Nat : Spans(k, g) /\ k + 1 <= g
  BY AboutSpans
<1>2. /\ at \in Nat /\ k \in Nat /\ k \in at+1..LineEnd(at) /\ g \in k..LineEnd(at)
      /\ LineEnd(at) \in Nat /\ LineEnd(at) <= Len(file) /\ Len(file) \in Nat
      /\ \A i \in at+1..LineEnd(at) : file[i] \notin Blank => i <= g
      /\ s \in Seq(Token) /\ Len(s) = g - k + 1
      /\ \A j \in 1..g - k + 1 : s[j] = file[k + j - 1]
  <2>1. at \in Nat /\ Len(file) \in Nat /\ LineEnd(at) \in at+1..Len(file)
    BY LineEndIs DEF InText
  <2>2. k \in Nat
    BY AboutSpans
  <2>3. LineEnd(at) \in Nat /\ LineEnd(at) <= Len(file)
    BY <2>1
  <2>. QED
    BY <1>1, <2>1, <2>2, <2>3 DEF Spans
<1>. HIDE DEF s
<1>3. Len(s) \in Nat /\ Len(s) >= 2 /\ k + Len(s) - 1 = g
  BY <1>1, <1>2
<1>4. s[1] = key /\ s[2] = file[k + 1]
  <2>1. k + 1 - 1 = k /\ k + 2 - 1 = k + 1 /\ 1 \in 1..g - k + 1 /\ 2 \in 1..g - k + 1
    BY <1>1, <1>2
  <2>. QED
    BY <1>2, <2>1 DEF About
<1>5. Cut(s) = 2
  <2>0. Cut(s) \in 0..Len(s) /\ 1 \in 1..Len(s) /\ 2 \in 1..Len(s)
    <3>1. Cut(s) \in 0..Len(s)
      BY <1>2, CutIs
    <3>3. 1 \in 1..Len(s) /\ 2 \in 1..Len(s)
      BY <1>3
    <3>. QED
      BY <3>1, <3>3
  <2>1. CASE file[k + 1] = "="
    <3>1. Cut(s) > 0 /\ s[Cut(s)] = "=" /\ Cut(s) <= 2
      BY <1>2, <1>4, <2>0, <2>1, CutIs
    <3>2. Cut(s) # 1
      BY <1>4, <3>1, WordIsSolid
    <3>. QED
      BY <1>3, <2>0, <3>1, <3>2
  <2>2. CASE file[k + 1] = " " /\ \A l \in LineAt(at + 1) : file[l] # "="
    <3>1. \A j \in 1..Len(s) : s[j] # "="
      <4> SUFFICES ASSUME NEW j \in 1..Len(s) PROVE s[j] # "="
        OBVIOUS
      <4>1. k + j - 1 \in at+1..LineEnd(at) /\ j \in 1..g - k + 1
        <5>1. j \in 1..g - k + 1
          BY <1>2
        <5>2. at + 1 <= k /\ g <= LineEnd(at) /\ g \in Int
          BY <1>2
        <5>. QED
          BY <1>2, <5>1, <5>2
      <4>2. s[j] = file[k + j - 1] /\ k + j - 1 \in LineAt(at + 1)
        BY <1>2, <4>1, LineAtIs
      <4>. QED
        BY <2>2, <4>2
    <3>2. Cut(s) > 0 /\ s[Cut(s)] = " " /\ Cut(s) <= 2
      BY <1>2, <1>4, <2>0, <2>2, <3>1, CutIs
    <3>3. Cut(s) # 1
      BY <1>4, <3>2, WordIsSolid
    <3>4. Cut(s) \in Int
      BY <1>3, <2>0
    <3>5. Cut(s) > 0 /\ Cut(s) <= 2
      BY <3>2
    <3>. QED
      BY <3>3, <3>4, <3>5
  <2>. QED
    BY <2>1, <2>2 DEF About
<1>6. KeyOf(s) = <<key>>
  <2>1. KeyOf(s) = SubSeq(s, 1, 1)
    BY <1>5 DEF KeyOf
  <2>2. SubSeq(s, 1, 1) \in Seq(Token) /\ Len(SubSeq(s, 1, 1)) = 1 /\ SubSeq(s, 1, 1)[1] = s[1]
    BY <1>2, <1>3
  <2>3. <<key>> \in Seq(Token) /\ Len(<<key>>) = 1 /\ <<key>>[1] = key
    BY DEF Token
  <2>4. \A j \in 1..1 : SubSeq(s, 1, 1)[j] = <<key>>[j]
    BY <1>4, <2>2, <2>3
  <2>. QED
    BY <2>1, <2>2, <2>3, <2>4, SeqEqual
<1>7. s # <<>> /\ s[1] # "#"
  <2>1. s # <<>>
    BY <1>3
  <2>. QED
    BY <1>4, <2>1, WordIsSolid
<1>8. \A j \in 1..Len(s) : s[j] = file[k + j - 1]
  BY <1>2
<1>9. IsItem(s) /\ ~IsComment(s)
  BY <1>5, <1>7 DEF IsItem, IsComment
<1>10. \A i \in at+1..LineEnd(at) : file[i] \notin Blank => i <= k + Len(s) - 1
  BY <1>2, <1>3
<1>. QED
  BY <1>2, <1>3, <1>5, <1>6, <1>8, <1>9, <1>10 DEF s

\* And an item with a key is a line about it.
LEMMA ItemIsAbout ==
  ASSUME InText, NEW key \in Word,
         IsItem(strtrim(fgets)), KeyOf(strtrim(fgets)) = <<key>>
  PROVE  \E k \in DOMAIN file : About(at + 1, key, k)
<1> DEFINE s == strtrim(fgets)
           e == LineEnd(at)
<1>0. at \in Nat /\ Len(file) \in Nat /\ DOMAIN file = 1..Len(file) /\ e \in at+1..Len(file)
  BY LineEndIs DEF InText
<1>1. PICK f \in Nat, g \in Nat : Spans(f, g)
  BY PieceIs DEF IsItem
<1>2. /\ f \in at+1..e /\ g \in f..e
      /\ \A i \in at+1..e : file[i] \notin Blank => f <= i /\ i <= g
      /\ s \in Seq(Token) /\ Len(s) = g - f + 1
      /\ \A j \in 1..g - f + 1 : s[j] = file[f + j - 1]
      /\ file[f] \notin Blank /\ file[g] \notin Blank
  BY <1>1 DEF Spans
<1>3. IsItem(s) /\ KeyOf(s) = <<key>>
  OBVIOUS
<1>. HIDE DEF s, e
<1>4. at + 1 <= f /\ f <= g /\ g <= e /\ e <= Len(file) /\ e \in Nat
  BY <1>0, <1>1, <1>2
<1>5. Cut(s) \in 0..Len(s) /\ Cut(s) > 0 /\ Len(s) \in Nat
  <2>1. s \in Seq(Token) /\ Len(s) \in Nat
    BY <1>2
  <2>2. Cut(s) \in 0..Len(s)
    BY <2>1, CutIs
  <2>3. Cut(s) > 0
    BY <1>3 DEF IsItem
  <2>. QED
    BY <2>1, <2>2, <2>3
<1>6. Cut(s) = 2 /\ Len(s) >= 2
  <2>1. Cut(s) - 1 \in 0..Len(s) /\ 1 \in 1..Len(s) + 1
    BY <1>5
  <2>2. Len(SubSeq(s, 1, Cut(s) - 1)) = Cut(s) - 1
    <3>1. Len(SubSeq(s, 1, Cut(s) - 1)) = IF 1 <= Cut(s) - 1 THEN (Cut(s) - 1) - 1 + 1 ELSE 0
      BY <1>2, <2>1, SubSeqProperties
    <3>. QED
      BY <1>5, <3>1
  <2>3. Cut(s) - 1 = 1
    BY <1>3, <2>2 DEF KeyOf
  <2>. QED
    BY <1>5, <2>3
<1>7. s[1] = file[f] /\ s[2] = file[f + 1] /\ f + 1 <= g /\ f + 1 \in f..e
  <2>1. Len(s) = g - f + 1 /\ Len(s) >= 2
    BY <1>2, <1>6
  <2>2. f + 1 <= g /\ 1 \in 1..g - f + 1 /\ 2 \in 1..g - f + 1 /\ f + 1 - 1 = f /\ f + 2 - 1 = f + 1
    BY <1>1, <2>1
  <2>. QED
    BY <1>2, <1>4, <2>2
<1>8. file[f] = key
  <2>1. SubSeq(s, 1, 1)[1] = s[1]
    BY <1>2, <1>5, <1>6
  <2>2. <<key>>[1] = key
    OBVIOUS
  <2>3. KeyOf(s) = SubSeq(s, 1, 1)
    BY <1>6 DEF KeyOf
  <2>. QED
    BY <1>3, <1>7, <2>1, <2>2, <2>3
<1>9. f \in LineAt(at + 1) /\ f + 1 \in LineAt(at + 1) /\ f \in DOMAIN file
  <2>1. f \in at+1..e /\ f + 1 \in at+1..e /\ f \in DOMAIN file
    BY <1>0, <1>1, <1>4, <1>7
  <2>. QED
    BY <2>1, LineAtIs DEF e
<1>10. Space(at + 1, f - 1)
  <2> SUFFICES ASSUME NEW i \in (at + 1)..(f - 1) PROVE file[i] \in Blank
    BY DEF Space
  <2>1. i \in at+1..e /\ ~(f <= i)
    BY <1>0, <1>1, <1>4
  <2>. QED
    BY <1>2, <2>1
<1>12. About(at + 1, key, f) \/ file[f + 1] # "="
  BY <1>8, <1>9, <1>10 DEF About
<1>13. ASSUME file[f + 1] # "=" PROVE About(at + 1, key, f)
  <2>1. \A j \in 1..Len(s) : s[j] # "="
    <3>1. s[Cut(s)] # "="
      BY <1>6, <1>7, <1>13
    <3>. QED
      BY <1>2, <3>1, CutIs
  <2>2. s[Cut(s)] = " "
    <3>1. (\E i \in 1..Len(s) : s[i] = " ") => s[Cut(s)] = " "
      BY <1>2, <2>1, CutIs
    <3>2. (\A i \in 1..Len(s) : s[i] # " ") => Cut(s) = 0
      BY <1>2, <2>1, CutIs
    <3>3. Cut(s) # 0
      BY <1>5
    <3>. QED
      BY <3>1, <3>2, <3>3
  <2>3. file[f + 1] = " "
    BY <1>6, <1>7, <2>2
  <2>4. g \in LineAt(at + 1) /\ f < g
    <3>1. g \in at+1..e /\ f < g
      BY <1>0, <1>1, <1>4, <1>7
    <3>. QED
      BY <3>1, LineAtIs DEF e
  <2>5. \A l \in LineAt(at + 1) : file[l] # "="
    <3> SUFFICES ASSUME NEW l \in LineAt(at + 1), file[l] = "=" PROVE FALSE
      OBVIOUS
    <3>1. l \in at+1..e
      BY LineAtIs DEF e
    <3>2. file[l] \notin Blank
      BY DEF Blank
    <3>3. f <= l /\ l <= g
      BY <1>2, <3>1, <3>2
    <3>4. l - f + 1 \in 1..g - f + 1 /\ f + (l - f + 1) - 1 = l
      BY <1>0, <1>1, <3>1, <3>3
    <3>5. l - f + 1 \in 1..Len(s)
      BY <1>2, <3>4
    <3>. QED
      BY <1>2, <2>1, <3>4, <3>5
  <2>. QED
    BY <1>2, <1>8, <1>9, <1>10, <2>3, <2>4, <2>5 DEF About
<1>. QED
  BY <1>9, <1>12, <1>13

\* STRTOL makes of the item the number of the word that the line gives.
LEMMA ValueIs ==
  ASSUME InText, NEW key \in Word, NEW v \in Word,
         NEW k \in DOMAIN file, NEW i \in LineAt(at + 1),
         About(at + 1, key, k), file[i] = v, k + 1 < i, Space(k + 2, i - 1)
  PROVE  strtol(ValueOf(strtrim(fgets))) = Number[v]
<1> DEFINE s == strtrim(fgets)
           value == ValueOf(s)
           solid == {j \in DOMAIN value : value[j] \notin Blank}
           m == i - k - 1
<1>0. /\ s \in Seq(Token) /\ Len(s) \in Nat /\ Len(s) >= 2 /\ Cut(s) = 2
      /\ \A j \in 1..Len(s) : s[j] = file[k + j - 1]
      /\ \A j \in at+1..LineEnd(at) : file[j] \notin Blank => j <= k + Len(s) - 1
  BY AboutIsItem
<1>1. /\ k \in Nat /\ i \in Nat /\ k + 1 < i /\ i \in at+1..LineEnd(at)
      /\ at \in Nat /\ LineEnd(at) \in Nat
  <2>1. at \in Nat /\ Len(file) \in Nat /\ LineEnd(at) \in at+1..Len(file) /\ DOMAIN file = 1..Len(file)
    BY LineEndIs DEF InText
  <2>2. i \in at+1..LineEnd(at)
    BY LineAtIs
  <2>. QED
    BY <2>1, <2>2
<1>6. i \in at+1..LineEnd(at) /\ file[i] \notin Blank
  BY <1>1, WordIsSolid
<1>7. i <= k + Len(s) - 1
  BY <1>0, <1>6
<1>. HIDE DEF s
<1>18. /\ Len(s) \in Nat /\ k \in Nat /\ i \in Nat
       /\ k + 1 < i /\ i <= k + Len(s) - 1
  BY <1>0, <1>1, <1>7
<1>8. /\ value \in Seq(Token) /\ Len(value) = Len(s) - 2
      /\ \A j \in 1..Len(s) - 2 : value[j] = s[j + 2]
  <2>1. value = SubSeq(s, 3, Len(s)) /\ 3 \in 1..Len(s) + 1 /\ 3 <= Len(s)
    <3>1. 3 <= Len(s) /\ 3 \in 1..Len(s) + 1
      BY <1>18
    <3>2. value = SubSeq(s, Cut(s) + 1, Len(s))
      BY DEF ValueOf
    <3>. QED
      BY <1>0, <3>1, <3>2
  <2>2. /\ SubSeq(s, 3, Len(s)) \in Seq(Token) /\ Len(SubSeq(s, 3, Len(s))) = Len(s) - 3 + 1
        /\ \A j \in 1..Len(s) - 3 + 1 : SubSeq(s, 3, Len(s))[j] = s[3 + j - 1]
    BY <1>0, <2>1, SubSeqProperties
  <2>3. Len(s) - 3 + 1 = Len(s) - 2 /\ \A j \in Nat : 3 + j - 1 = j + 2
    BY <1>0
  <2>. QED
    BY <2>1, <2>2, <2>3
<1>. HIDE DEF value
<1>9. \A j \in 1..Len(s) - 2 : value[j] = file[k + 1 + j]
  <2> SUFFICES ASSUME NEW j \in 1..Len(s) - 2 PROVE value[j] = file[k + 1 + j]
    OBVIOUS
  <2>1. j + 2 \in 1..Len(s) /\ k + (j + 2) - 1 = k + 1 + j
    BY <1>0, <1>1
  <2>. QED
    BY <1>0, <1>8, <2>1
<1>10. m \in 1..Len(s) - 2 /\ value[m] = v
  <2>1. m \in Nat /\ 1 <= m
    BY <1>18
  <2>2. m <= Len(s) - 2 /\ k + 1 + m = i
    BY <1>18
  <2>3. m \in 1..Len(s) - 2
    BY <1>18, <2>1, <2>2
  <2>. QED
    BY <1>9, <2>2, <2>3
<1>11. \A j \in 1..Len(s) - 2 : j < m => value[j] \in Blank
  <2> SUFFICES ASSUME NEW j \in 1..Len(s) - 2, j < m PROVE value[j] \in Blank
    OBVIOUS
  <2>1. k + 1 + j \in (k + 2)..(i - 1)
    BY <1>18
  <2>. QED
    BY <1>9, <2>1 DEF Space
<1>12. DOMAIN value = 1..Len(s) - 2
  BY <1>0, <1>8
<1>13. solid \in SUBSET Nat /\ m \in solid
  <2>1. \A j \in DOMAIN value : j \in Nat
    BY <1>12
  <2>2. m \in DOMAIN value /\ value[m] \notin Blank
    BY <1>10, <1>12, WordIsSolid
  <2>. QED
    BY <2>1, <2>2
<1>14. Min(solid) \in solid /\ Min(solid) <= m
  BY <1>13, MinIsLeast
<1>15. ~(Min(solid) < m)
  BY <1>11, <1>12, <1>14
<1>16. Min(solid) = m
  <2>1. m \in Nat /\ Min(solid) \in Nat
    BY <1>13, <1>14
  <2>. HIDE DEF m, solid
  <2>. QED
    BY <1>14, <1>15, <2>1
<1>17. strtol(value) = Number[v]
  BY <1>10, <1>13, <1>16 DEF strtol
<1>. QED
  BY <1>17 DEF value, s

LEMMA strtolIsNat ==
  ASSUME NEW value \in Seq(Token)
  PROVE  strtol(value) \in Nat
BY StartupAssumption DEF strtol

-----------------------------------------------------------------------------
(* Types. *)

LEMMA KeyIs == Key = {"MODE", "BAUDRATE", "DATA_BITS", "PARITY", "STOP_BITS"}
<1>1. DOMAIN Keys = 1..5
  BY DEF Keys
<1>2. /\ Keys[1] = "MODE" /\ Keys[2] = "BAUDRATE" /\ Keys[3] = "DATA_BITS"
      /\ Keys[4] = "PARITY" /\ Keys[5] = "STOP_BITS"
  BY DEF Keys
<1>3. \A i \in 1..5 : i = 1 \/ i = 2 \/ i = 3 \/ i = 4 \/ i = 5
  OBVIOUS
<1>. QED
  BY <1>1, <1>2, <1>3 DEF Key

LEMMA KeysAre ==
  /\ Len(Keys) = 5
  /\ \A n \in 0..4 : Keys[n + 1] \in Key /\ (Keys[n + 1] = "BAUDRATE" <=> n = 1)
<1>1. /\ Len(Keys) = 5
      /\ Keys[1] = "MODE" /\ Keys[2] = "BAUDRATE" /\ Keys[3] = "DATA_BITS"
      /\ Keys[4] = "PARITY" /\ Keys[5] = "STOP_BITS"
  BY DEF Keys
<1>2. \A n \in 0..4 : n + 1 = 1 \/ n + 1 = 2 \/ n + 1 = 3 \/ n + 1 = 4 \/ n + 1 = 5
  OBVIOUS
<1>3. ASSUME NEW n \in 0..4
      PROVE  Keys[n + 1] \in Key /\ (Keys[n + 1] = "BAUDRATE" <=> n = 1)
  BY <1>1, <1>2, KeyIs
<1>. QED
  BY <1>1, <1>3

\* r is t but for one field.
But(r, t, fields) ==
  /\ r \in Termios
  /\ "raw" \notin fields => r.raw = t.raw
  /\ "csize" \notin fields => r.csize = t.csize
  /\ "parenb" \notin fields => r.parenb = t.parenb
  /\ "parodd" \notin fields => r.parodd = t.parodd
  /\ "cstopb" \notin fields => r.cstopb = t.cstopb
  /\ "inpck" \notin fields => r.inpck = t.inpck
  /\ "speed" \notin fields => r.speed = t.speed
  /\ r.left = t.left

LEMMA SetRaw ==
  ASSUME NEW t \in Termios, NEW x \in BOOLEAN
  PROVE  But([t EXCEPT !.raw = x], t, {"raw"}) /\ [t EXCEPT !.raw = x].raw = x
BY DEF But, Termios

LEMMA SetParenb ==
  ASSUME NEW t \in Termios, NEW x \in BOOLEAN
  PROVE  But([t EXCEPT !.parenb = x], t, {"parenb"}) /\ [t EXCEPT !.parenb = x].parenb = x
BY DEF But, Termios

LEMMA SetParodd ==
  ASSUME NEW t \in Termios, NEW x \in BOOLEAN
  PROVE  But([t EXCEPT !.parodd = x], t, {"parodd"}) /\ [t EXCEPT !.parodd = x].parodd = x
BY DEF But, Termios

LEMMA SetInpck ==
  ASSUME NEW t \in Termios, NEW x \in BOOLEAN
  PROVE  But([t EXCEPT !.inpck = x], t, {"inpck"}) /\ [t EXCEPT !.inpck = x].inpck = x
BY DEF But, Termios

LEMMA SetCstopb ==
  ASSUME NEW t \in Termios, NEW x \in BOOLEAN
  PROVE  But([t EXCEPT !.cstopb = x], t, {"cstopb"}) /\ [t EXCEPT !.cstopb = x].cstopb = x
BY DEF But, Termios

LEMMA SetCsize ==
  ASSUME NEW t \in Termios, NEW x \in {5, 7, 8}
  PROVE  But([t EXCEPT !.csize = x], t, {"csize"}) /\ [t EXCEPT !.csize = x].csize = x
BY DEF But, Termios

LEMMA SetSpeed ==
  ASSUME NEW t \in Termios, NEW x \in Supported
  PROVE  But([t EXCEPT !.speed = x], t, {"speed"}) /\ [t EXCEPT !.speed = x].speed = x
BY DEF But, Termios, Supported

\* Several fields at once.
LEMMA SetFields ==
  ASSUME NEW t \in Termios, NEW x \in BOOLEAN, NEW y \in BOOLEAN, NEW z \in BOOLEAN, NEW n \in {5, 7, 8}
  PROVE  /\ [t EXCEPT !.parenb = x, !.parodd = y, !.inpck = z] =
              [[[t EXCEPT !.parenb = x] EXCEPT !.parodd = y] EXCEPT !.inpck = z]
         /\ [t EXCEPT !.csize = n, !.raw = x, !.inpck = z] =
              [[[t EXCEPT !.csize = n] EXCEPT !.raw = x] EXCEPT !.inpck = z]
         /\ [t EXCEPT !.raw = x, !.csize = n, !.parenb = y] =
              [[[t EXCEPT !.raw = x] EXCEPT !.csize = n] EXCEPT !.parenb = y]
<1>1. [t EXCEPT !.parenb = x, !.parodd = y, !.inpck = z] =
        [[[t EXCEPT !.parenb = x] EXCEPT !.parodd = y] EXCEPT !.inpck = z]
  BY DEF Termios
<1>2. [t EXCEPT !.csize = n, !.raw = x, !.inpck = z] =
        [[[t EXCEPT !.csize = n] EXCEPT !.raw = x] EXCEPT !.inpck = z]
  BY DEF Termios
<1>3. [t EXCEPT !.raw = x, !.csize = n, !.parenb = y] =
        [[[t EXCEPT !.raw = x] EXCEPT !.csize = n] EXCEPT !.parenb = y]
  BY DEF Termios
<1>. QED
  BY <1>1, <1>2, <1>3

\* What serial_setup makes of the line t it found.
Line(r, t) ==
  /\ r \in Termios /\ r.csize = 5 /\ r.left = t.left
  /\ r.speed = (IF ctrl.speed \in Supported THEN ctrl.speed ELSE 9600)
  /\ ctrl.raw => r.raw = TRUE /\ r.inpck = FALSE
  /\ ctrl.stop = 1 => r.cstopb = FALSE
  /\ ctrl.stop = 2 => r.cstopb = TRUE
  /\ ctrl.parity = 79 => r.parenb = TRUE /\ r.parodd = TRUE
  /\ ctrl.parity = 69 => r.parenb = TRUE /\ r.parodd = FALSE
  /\ ctrl.raw /\ ctrl.parity \notin {79, 69} => r.parenb = FALSE

LEMMA ConfiguredIs == ctrl \in Control => \A t \in Termios : Line(Configured(t), t)
<1> SUFFICES ASSUME NEW t \in Termios, ctrl \in Control PROVE Line(Configured(t), t)
  OBVIOUS
<1> DEFINE a == Raw(t)
           b == DataBits(a)
           d == ParityBits(b)
           e == LineSpeed(d)
           f == StopBits(e)
<1>0. ctrl.raw \in BOOLEAN /\ TRUE \in BOOLEAN /\ FALSE \in BOOLEAN
  BY DEF Control
<1>1. a \in Termios /\ a.left = t.left /\ (ctrl.raw => a.raw = TRUE /\ a.parenb = FALSE)
  <2> DEFINE t1 == [t EXCEPT !.raw = TRUE]
             t2 == [t1 EXCEPT !.csize = 8]
             t3 == [t2 EXCEPT !.parenb = FALSE]
  <2>1. But(t1, t, {"raw"}) /\ t1.raw = TRUE
    BY SetRaw
  <2>. HIDE DEF t1
  <2>2. But(t2, t1, {"csize"})
    BY <2>1, SetCsize DEF But
  <2>. HIDE DEF t2
  <2>5. But(t3, t2, {"parenb"}) /\ t3.parenb = FALSE
    BY <2>2, SetParenb DEF But
  <2>. HIDE DEF t3
  <2>3. t3 \in Termios /\ t3.left = t.left /\ t3.raw = TRUE /\ t3.parenb = FALSE
    BY <2>1, <2>2, <2>5 DEF But
  <2>4. cfmakeraw(t) = t3
    BY SetFields DEF cfmakeraw, t1, t2, t3
  <2>. QED
    BY <2>3, <2>4 DEF Raw
<1>. HIDE DEF a
<1>2. b \in Termios /\ b.left = a.left /\ b.raw = a.raw /\ b.parenb = a.parenb
  <2>1. CASE ctrl.bits = 8 \/ (ctrl.bits = 7 /\ a.csize = 5)
    <3>1. b = [a EXCEPT !.csize = ctrl.bits] /\ ctrl.bits \in {5, 7, 8}
      BY <2>1 DEF DataBits
    <3>. HIDE DEF b
    <3>2. But([a EXCEPT !.csize = ctrl.bits], a, {"csize"})
      BY <1>1, <3>1, SetCsize
    <3>. QED
      BY <3>1, <3>2 DEF But
  <2>2. CASE ~(ctrl.bits = 8 \/ (ctrl.bits = 7 /\ a.csize = 5))
    BY <1>1, <2>2 DEF DataBits
  <2>. QED
    BY <2>1, <2>2
<1>. HIDE DEF b
<1>3. /\ d \in Termios /\ d.raw = b.raw /\ d.left = b.left
      /\ ctrl.parity = 79 => d.parenb = TRUE /\ d.parodd = TRUE
      /\ ctrl.parity = 69 => d.parenb = TRUE /\ d.parodd = FALSE
      /\ b.parenb = FALSE /\ ctrl.parity \notin {79, 69} => d.parenb = FALSE
  <2>1. CASE ctrl.parity = 79 \/ ctrl.parity = 69
    <3>5. ctrl.parity = 79 => d = [b EXCEPT !.parenb = TRUE, !.parodd = TRUE, !.inpck = TRUE]
      BY DEF ParityBits
    <3>6. ctrl.parity = 69 => d = [b EXCEPT !.parenb = TRUE, !.parodd = FALSE, !.inpck = TRUE]
      BY DEF ParityBits
    <3>. HIDE DEF d
    <3>1. ASSUME NEW y \in BOOLEAN, d = [b EXCEPT !.parenb = TRUE, !.parodd = y, !.inpck = TRUE]
          PROVE  d \in Termios /\ d.raw = b.raw /\ d.left = b.left /\ d.parenb = TRUE /\ d.parodd = y
      <4> DEFINE b1 == [b EXCEPT !.parenb = TRUE]
                 b2 == [b1 EXCEPT !.parodd = y]
                 b3 == [b2 EXCEPT !.inpck = TRUE]
      <4>2. d = b3
        BY <1>2, <3>1, SetFields
      <4>1. But(b1, b, {"parenb"}) /\ b1.parenb = TRUE
        BY <1>2, SetParenb
      <4>. HIDE DEF b1
      <4>3. But(b2, b1, {"parodd"}) /\ b2.parodd = y
        BY <4>1, SetParodd DEF But
      <4>. HIDE DEF b2
      <4>4. But(b3, b2, {"inpck"})
        BY <4>3, SetInpck DEF But
      <4>. HIDE DEF b3
      <4>. QED
        BY <4>1, <4>2, <4>3, <4>4 DEF But
    <3>2. CASE ctrl.parity = 79
      <4>1. d \in Termios /\ d.raw = b.raw /\ d.left = b.left /\ d.parenb = TRUE /\ d.parodd = TRUE
        BY <3>1, <3>2, <3>5
      <4>. QED
        BY <3>2, <4>1
    <3>3. CASE ctrl.parity = 69
      <4>1. d \in Termios /\ d.raw = b.raw /\ d.left = b.left /\ d.parenb = TRUE /\ d.parodd = FALSE
        BY <3>1, <3>3, <3>6
      <4>. QED
        BY <3>3, <4>1
    <3>. QED
      BY <2>1, <3>2, <3>3
  <2>2. CASE ctrl.parity = 78
    <3>1. d = [b EXCEPT !.parenb = FALSE]
      BY <2>2 DEF ParityBits
    <3>. HIDE DEF d
    <3>3. But([b EXCEPT !.parenb = FALSE], b, {"parenb"}) /\ [b EXCEPT !.parenb = FALSE].parenb = FALSE
      BY <1>2, SetParenb
    <3>2. d \in Termios /\ d.raw = b.raw /\ d.left = b.left /\ d.parenb = FALSE
      BY <3>1, <3>3 DEF But
    <3>. QED
      BY <2>2, <3>2
  <2>3. CASE ctrl.parity \notin {79, 69, 78}
    <3>1. d = b
      BY <2>3 DEF ParityBits
    <3>. QED
      BY <1>2, <2>3, <3>1
  <2>. QED
    BY <2>1, <2>2, <2>3
<1>. HIDE DEF d
<1>4. /\ But(e, d, {"speed"})
      /\ e.speed = (IF ctrl.speed \in Supported THEN ctrl.speed ELSE 9600)
  <2>1. (IF ctrl.speed \in Supported THEN ctrl.speed ELSE 9600) \in Supported
    BY DEF Supported
  <2>2. PICK v \in Supported : v = (IF ctrl.speed \in Supported THEN ctrl.speed ELSE 9600)
    BY <2>1
  <2>3. e = [d EXCEPT !.speed = v]
    BY <2>2 DEF LineSpeed
  <2>4. But([d EXCEPT !.speed = v], d, {"speed"}) /\ [d EXCEPT !.speed = v].speed = v
    BY <1>3, SetSpeed
  <2>. HIDE DEF e
  <2>. QED
    BY <2>2, <2>3, <2>4
<1>. HIDE DEF e
<1>5. /\ But(f, e, {"cstopb"})
      /\ ctrl.stop = 1 => f.cstopb = FALSE
      /\ ctrl.stop = 2 => f.cstopb = TRUE
  <2>1. e \in Termios
    BY <1>4 DEF But
  <2>2. CASE ctrl.stop = 1
    <3>1. f = [e EXCEPT !.cstopb = FALSE]
      BY <2>2 DEF StopBits
    <3>2. But([e EXCEPT !.cstopb = FALSE], e, {"cstopb"}) /\ [e EXCEPT !.cstopb = FALSE].cstopb = FALSE
      BY <2>1, SetCstopb
    <3>. HIDE DEF f
    <3>. QED
      BY <2>2, <3>1, <3>2
  <2>3. CASE ctrl.stop = 2
    <3>1. f = [e EXCEPT !.cstopb = TRUE]
      BY <2>3 DEF StopBits
    <3>2. But([e EXCEPT !.cstopb = TRUE], e, {"cstopb"}) /\ [e EXCEPT !.cstopb = TRUE].cstopb = TRUE
      BY <2>1, SetCstopb
    <3>. HIDE DEF f
    <3>. QED
      BY <2>3, <3>1, <3>2
  <2>4. CASE ctrl.stop \notin {1, 2}
    BY <2>1, <2>4 DEF StopBits, But
  <2>. QED
    BY <2>2, <2>3, <2>4
<1>. HIDE DEF f
<1>6. /\ But(Important(f), f, {"csize", "raw", "inpck"}) /\ Important(f).csize = 5
      /\ Important(f).raw = (f.raw \/ ctrl.raw) /\ Important(f).inpck = (f.inpck /\ ~ctrl.raw)
  <2>1. f \in Termios /\ f.raw \in BOOLEAN /\ f.inpck \in BOOLEAN
    BY <1>5 DEF But, Termios
  <2>2. PICK x \in BOOLEAN : x = (f.raw \/ ctrl.raw)
    BY <1>0, <2>1
  <2>7. PICK z \in BOOLEAN : z = (f.inpck /\ ~ctrl.raw)
    BY <1>0, <2>1
  <2> DEFINE f1 == [f EXCEPT !.csize = 5]
             f2 == [f1 EXCEPT !.raw = x]
             f3 == [f2 EXCEPT !.inpck = z]
  <2>4. Important(f) = [f EXCEPT !.csize = 5, !.raw = x, !.inpck = z]
    BY <2>2, <2>7 DEF Important
  <2>5. Important(f) = f3
    BY <2>1, <2>4, SetFields
  <2>3. But(f1, f, {"csize"}) /\ f1.csize = 5
    BY <2>1, SetCsize
  <2>. HIDE DEF f1
  <2>6. But(f2, f1, {"raw"}) /\ f2.raw = x
    BY <2>3, SetRaw DEF But
  <2>. HIDE DEF f2
  <2>8. But(f3, f2, {"inpck"}) /\ f3.inpck = z
    BY <2>6, SetInpck DEF But
  <2>. HIDE DEF f3
  <2>. QED
    BY <2>2, <2>3, <2>5, <2>6, <2>7, <2>8 DEF But
<1>7. Configured(t) = Important(f)
  BY DEF Configured, a, b, d, e, f
<1>8. /\ Important(f) \in Termios /\ Important(f).speed = e.speed
      /\ Important(f).cstopb = f.cstopb /\ Important(f).parenb = d.parenb
      /\ Important(f).parodd = d.parodd /\ Important(f).left = t.left
  BY <1>1, <1>2, <1>3, <1>4, <1>5, <1>6 DEF But
<1>9. ctrl.raw => Important(f).raw = TRUE /\ Important(f).inpck = FALSE
  BY <1>6
<1>. QED
  BY <1>1, <1>2, <1>3, <1>4, <1>5, <1>6, <1>7, <1>8, <1>9 DEF Line

LEMMA ConfiguredTyped ==
  ASSUME NEW t \in Termios, ctrl \in Control
  PROVE  /\ Configured(t) \in Termios
         /\ Configured(t).speed = (IF ctrl.speed \in Supported THEN ctrl.speed ELSE 9600)
BY ConfiguredIs DEF Line

LEMMA FoundAre == Sane \in Termios /\ Found \subseteq Termios
<1>1. Sane \in Termios
  BY DEF Sane, Termios
<1>2. Found \subseteq Termios
  BY DEF Found
<1>. QED
  BY <1>1, <1>2

\* An item's value is text, and so is what a caller's buffer may hold.
LEMMA ValueIsText ==
  ASSUME InText, IsItem(strtrim(fgets))
  PROVE  ValueOf(strtrim(fgets)) \in Seq(Token)
<1> DEFINE s == strtrim(fgets)
<1>1. s \in Seq(Token) /\ Len(s) \in Nat
  <2>1. PICK f \in Nat, g \in Nat : Spans(f, g)
    BY PieceIs DEF IsItem
  <2>. QED
    BY <2>1 DEF Spans
<1>. HIDE DEF s
<1>2. Cut(s) \in 0..Len(s)
  BY <1>1, CutIs
<1>3. Cut(s) + 1 \in Int /\ \A i \in Cut(s) + 1..Len(s) : s[i] \in Token
  BY <1>1, <1>2
<1>4. SubSeq(s, Cut(s) + 1, Len(s)) \in Seq(Token)
  BY <1>1, <1>3, SubSeqProperties
<1>. QED
  BY <1>4 DEF ValueOf, s

LEMMA DefaultFileIsText == DefaultFile \in Seq(Token)
<1>1. /\ "MODE" \in Token /\ "BAUDRATE" \in Token /\ "DATA_BITS" \in Token
      /\ "PARITY" \in Token /\ "STOP_BITS" \in Token /\ "RAW" \in Token
      /\ "115200" \in Token /\ "8" \in Token /\ "'N'" \in Token /\ "1" \in Token
      /\ "=" \in Token /\ "\r" \in Token /\ "\n" \in Token
  BY StartupAssumption DEF Token, Blank
<1>. QED
  BY <1>1 DEF DefaultFile

\* The file is not read before it may have been created.
NotBegun == phase \in {"open", "config"} => at = 0 /\ asked = 0 /\ num = 0

\* What one step of the reader does to the counters and the buffers.
LEMMA ReadKeyTyped ==
  ASSUME TypeOK, ReadKey
  PROVE  TypeOK'
<1>0. /\ file \in Seq(Token) /\ Len(file) \in Nat /\ at \in 0..Len(file)
      /\ num \in 0..MaxComment + 1 /\ MaxComment \in Nat /\ conf \in [Key -> Seq(Token)]
      /\ asked \in 0..4 /\ beyond \in BOOLEAN /\ smashed \in BOOLEAN /\ file' = file
      /\ UNCHANGED <<phase, fd, exists, ctrl, tio>>
  BY IniAssumption, KeysAre
  DEF TypeOK, ReadKey, ReadLine, SkipLine, KeepComment, OtherItem, ReadNext,
      Returns, KeyFound, KeyMissing, Return
<1>1. ASSUME NEW key \in Key, ReadLine(key), UNCHANGED asked PROVE TypeOK'
  <2>1. at' \in 0..Len(file)
    <3>1. at < Len(file) /\ at' = LineEnd(at)
      BY <1>1 DEF ReadLine, SkipLine, KeepComment, OtherItem, ReadNext
    <3>2. LineEnd(at) \in at+1..Len(file)
      BY <1>0, <3>1, LineEndIs DEF InText
    <3>. QED
      BY <1>0, <3>1, <3>2
  <2>2. num' \in 0..MaxComment + 1
    BY <1>0, <1>1 DEF ReadLine, SkipLine, KeepComment, OtherItem, Freed
  <2>3. beyond' \in BOOLEAN /\ conf' = conf /\ smashed' = smashed
    BY <1>0, <1>1 DEF ReadLine, SkipLine, KeepComment, OtherItem
  <2>. QED
    BY <1>0, <1>1, <2>1, <2>2, <2>3 DEF TypeOK
<1>2. ASSUME NEW key \in Key, Returns(key), asked' = asked + 1 PROVE TypeOK'
  <2>1. ASSUME KeyFound(key) PROVE conf' \in [Key -> Seq(Token)] /\ smashed' \in BOOLEAN
    <3>1. at < Len(file) /\ IsItem(strtrim(fgets)) /\ strcpy(key, ValueOf(strtrim(fgets)))
      BY <2>1 DEF KeyFound
    <3>2. ValueOf(strtrim(fgets)) \in Seq(Token)
      BY <1>0, <3>1, ValueIsText DEF InText
    <3>3. DOMAIN conf = Key
      BY <1>0
    <3>4. smashed' \in BOOLEAN
      BY <1>0, <3>1 DEF strcpy
    <3>5. conf' \in [Key -> Seq(Token)]
      <4> DEFINE value == ValueOf(strtrim(fgets))
      <4>1. strcpy(key, value) /\ value \in Seq(Token)
        BY <3>1, <3>2
      <4>. HIDE DEF value
      <4>2. conf' = [conf EXCEPT ![key] = value] \/ conf' \in [Key -> Garbage]
        BY <3>3, <4>1 DEF strcpy
      <4>3. [Key -> Garbage] \subseteq [Key -> Seq(Token)]
        BY IniAssumption
      <4>4. [conf EXCEPT ![key] = value] \in [Key -> Seq(Token)]
        BY <1>0, <1>2, <4>1
      <4>. QED
        BY <4>2, <4>3, <4>4
    <3>. QED
      BY <3>4, <3>5
  <2>2. ASSUME KeyMissing(key) PROVE conf' \in [Key -> Seq(Token)] /\ smashed' \in BOOLEAN
    <3>1. smashed' = smashed /\ \E value \in Seq(Token) : conf' = [conf EXCEPT ![key] = value]
      BY <2>2, IniAssumption DEF KeyMissing
    <3>. QED
      BY <1>0, <1>2, <3>1
  <2>5. conf' \in [Key -> Seq(Token)] /\ smashed' \in BOOLEAN
    BY <1>2, <2>1, <2>2 DEF Returns
  <2>3. at' = 0 /\ num' = 0 /\ beyond' = beyond
    BY <1>2 DEF Returns, KeyFound, KeyMissing, Return
  <2>4. asked' \in 0..Len(Keys)
    BY <1>0, <1>2, KeysAre
  <2>. QED
    BY <1>0, <2>3, <2>4, <2>5 DEF TypeOK
<1>3. Keys[asked + 1] \in Key
  BY <1>0, KeysAre
<1>. QED
  BY <1>1, <1>2, <1>3 DEF ReadKey

LEMMA TypeStep ==
  ASSUME TypeOK, NotBegun, [Next]_vars
  PROVE  TypeOK' /\ NotBegun'
<1>0. ASSUME phase' \notin {"open", "config"} PROVE NotBegun'
  BY <1>0 DEF NotBegun
<1>1. CASE ReadKey
  BY <1>0, <1>1, ReadKeyTyped DEF ReadKey
<1>2. CASE Open
  BY <1>2 DEF Open, iniVars, TypeOK, NotBegun
<1>3. CASE CreateConfig
  <2>1. CASE UNCHANGED <<exists, file>>
    BY <1>0, <1>3, <2>1 DEF CreateConfig, TypeOK
  <2>2. CASE exists' = TRUE /\ file' = DefaultFile
    <3>1. at' \in 0..Len(file') /\ file' \in Seq(Token)
      BY <1>3, <2>2, DefaultFileIsText DEF CreateConfig, NotBegun
    <3>. QED
      BY <1>0, <1>3, <2>2, <3>1 DEF CreateConfig, TypeOK
  <2>. QED
    BY <1>3, <2>1, <2>2 DEF CreateConfig
<1>4. CASE ReadConfig
  <2>1. \A key \in Key : strtol(conf[key]) \in Nat
    BY strtolIsNat DEF TypeOK
  <2>2. ctrl' \in Control
    BY <1>4, <2>1, KeyIs DEF ReadConfig, Control
  <2>. QED
    BY <1>0, <1>4, <2>2 DEF ReadConfig, iniVars, TypeOK
<1>5. CASE SerialSetup
  <2>1. \A t \in Found : Configured(t) \in Termios
    BY FoundAre, ConfiguredTyped DEF TypeOK
  <2>2. tio' \in Termios
    BY <1>5, <2>1 DEF SerialSetup
  <2>. QED
    BY <1>0, <1>5, <2>2 DEF SerialSetup, iniVars, TypeOK
<1>6. CASE ReadConfigCrashes \/ ReadConfigFails \/ SerialSetupFails \/ CreateServer \/ UNCHANGED vars
  BY <1>6
  DEF ReadConfigCrashes, ReadConfigFails, SerialSetupFails, CreateServer, vars, iniVars, TypeOK, NotBegun
<1>. QED
  BY <1>1, <1>2, <1>3, <1>4, <1>5, <1>6 DEF Next

LEMMA TypeInit == Init => TypeOK /\ NotBegun
<1> SUFFICES ASSUME Init PROVE TypeOK /\ NotBegun
  OBVIOUS
<1>1. /\ file \in Seq(Token) /\ conf = [k \in Key |-> <<>>] /\ at = 0 /\ num = 0 /\ beyond = FALSE
      /\ smashed = FALSE
  <2>1. PICK text \in IF exists THEN Texts ELSE {<<>>} : IniInit(text, Key)
    BY DEF Init
  <2>2. text \in Seq(Token)
    <3>1. <<>> \in Seq(Token) /\ Texts \subseteq Seq(Token)
      BY StartupAssumption
    <3>. QED
      BY <2>1, <3>1
  <2>. QED
    BY <2>1, <2>2 DEF IniInit
<1>2. tio \in Termios
  BY FoundAre DEF Init
<1>3. ctrl \in Control
  BY DEF Init, Control
<1>4. at \in 0..Len(file) /\ num \in 0..MaxComment + 1 /\ asked \in 0..Len(Keys)
  BY <1>1, KeysAre, IniAssumption DEF Init
<1>. QED
  <2>1. conf \in [Key -> Seq(Token)]
    BY <1>1
  <2>2. /\ fd \in Device /\ exists \in BOOLEAN /\ beyond \in BOOLEAN /\ smashed \in BOOLEAN
        /\ phase = "open" /\ asked = 0
    BY <1>1 DEF Init, Device
  <2>. QED
    BY <1>1, <1>2, <1>3, <1>4, <2>1, <2>2 DEF TypeOK, NotBegun

LEMMA TypeInductive == Spec => [](TypeOK /\ NotBegun)
BY TypeInit, TypeStep, PTL DEF Spec

\* The reader never leaves its text, and what it gets stays text, whatever file it
\* is given and whatever an unset buffer holds.
THEOREM StartupTypeCorrect == Spec => []TypeOK
BY TypeInductive, PTL

-----------------------------------------------------------------------------
(* The line. *)

\* After serial_setup the line is what it made of some line.
SetUp == phase \in {"listen", "serving"} => \E t \in Found : tio = Configured(t)

LEMMA SetUpInit == Init => SetUp
BY DEF Init, SetUp

LEMMA SetUpStep ==
  ASSUME SetUp, [Next]_vars
  PROVE  SetUp'
<1>1. ASSUME ctrl' = ctrl PROVE \A t : Configured(t)' = Configured(t)
  BY <1>1 DEF Configured, Important, StopBits, LineSpeed, ParityBits, DataBits, Raw
<1>2. CASE SerialSetup
  <2>1. ctrl' = ctrl /\ \E found \in Found : tio' = Configured(found)
    BY <1>2 DEF SerialSetup
  <2>. QED
    BY <1>1, <2>1 DEF SetUp
<1>3. CASE Open \/ CreateConfig \/ ReadKey \/ ReadConfig \/ ReadConfigCrashes \/ ReadConfigFails
  BY <1>3 DEF Open, CreateConfig, ReadKey, ReadConfig, ReadConfigCrashes, ReadConfigFails, SetUp
<1>4. CASE SerialSetupFails \/ CreateServer \/ UNCHANGED vars
  <2>1. UNCHANGED <<ctrl, tio>> /\ (phase' = "failed" \/ phase' = phase \/ (phase = "listen" /\ phase' = "serving"))
    BY <1>4 DEF SerialSetupFails, CreateServer, vars
  <2>. QED
    BY <1>1, <2>1 DEF SetUp
<1>. QED
  BY <1>2, <1>3, <1>4 DEF Next

LEMMA SameEffect ==
  ASSUME ctrl \in Control, ctrl.raw, ctrl.stop \in {1, 2},
         NEW t \in Termios, NEW u \in Termios, t.left = u.left
  PROVE  Effect(Configured(t)) = Effect(Configured(u))
<1> DEFINE r == Configured(t)
           q == Configured(u)
<1>1. Line(r, t) /\ Line(q, u)
  BY ConfiguredIs
<1>. HIDE DEF r, q
<1>2. /\ r \in Termios /\ q \in Termios
      /\ r.csize = q.csize /\ r.speed = q.speed /\ r.raw = q.raw /\ r.cstopb = q.cstopb
      /\ r.inpck = q.inpck /\ r.left = q.left /\ r.parenb = q.parenb
      /\ r.parenb = FALSE \/ r.parodd = q.parodd
  <2>1. /\ r \in Termios /\ q \in Termios /\ r.csize = q.csize /\ r.speed = q.speed
    BY <1>1 DEF Line
  <2>2. r.raw = TRUE /\ q.raw = TRUE /\ r.inpck = FALSE /\ q.inpck = FALSE /\ r.left = q.left
    BY <1>1 DEF Line
  <2>3. r.cstopb = q.cstopb
    <3>1. CASE ctrl.stop = 1
      <4>1. r.cstopb = FALSE
        BY <1>1, <3>1 DEF Line
      <4>2. q.cstopb = FALSE
        BY <1>1, <3>1 DEF Line
      <4>. QED
        BY <4>1, <4>2
    <3>2. CASE ctrl.stop = 2
      <4>1. r.cstopb = TRUE
        BY <1>1, <3>2 DEF Line
      <4>2. q.cstopb = TRUE
        BY <1>1, <3>2 DEF Line
      <4>. QED
        BY <4>1, <4>2
    <3>. QED
      BY <3>1, <3>2
  <2>4. r.parenb = q.parenb /\ (r.parenb = FALSE \/ r.parodd = q.parodd)
    <3>1. CASE ctrl.parity = 79
      <4>1. r.parenb = TRUE /\ q.parenb = TRUE
        BY <1>1, <3>1 DEF Line
      <4>2. r.parodd = TRUE /\ q.parodd = TRUE
        BY <1>1, <3>1 DEF Line
      <4>. QED
        BY <4>1, <4>2
    <3>2. CASE ctrl.parity = 69
      <4>1. r.parenb = TRUE /\ q.parenb = TRUE
        BY <1>1, <3>2 DEF Line
      <4>2. r.parodd = FALSE
        BY <1>1, <3>2 DEF Line
      <4>3. q.parodd = FALSE
        BY <1>1, <3>2 DEF Line
      <4>. QED
        BY <4>1, <4>2, <4>3
    <3>3. CASE ctrl.parity \notin {79, 69}
      <4>1. r.parenb = FALSE
        BY <1>1, <3>3 DEF Line
      <4>2. q.parenb = FALSE
        BY <1>1, <3>3 DEF Line
      <4>. QED
        BY <4>1, <4>2
    <3>. QED
      BY <3>1, <3>2, <3>3
  <2>. QED
    BY <2>1, <2>2, <2>3, <2>4
<1>3. PICK x \in BOOLEAN : x = (r.parenb /\ r.parodd) /\ x = (q.parenb /\ q.parodd)
  BY <1>2 DEF Termios
<1>4. Effect(r) = [r EXCEPT !.parodd = x] /\ Effect(q) = [q EXCEPT !.parodd = x]
  BY <1>3 DEF Effect
<1>5. /\ But(Effect(r), r, {"parodd"}) /\ Effect(r).parodd = x
      /\ But(Effect(q), q, {"parodd"}) /\ Effect(q).parodd = x
  BY <1>2, <1>4, SetParodd
<1>6. ASSUME NEW a \in Termios, NEW b \in Termios,
             a.raw = b.raw, a.csize = b.csize, a.parenb = b.parenb, a.parodd = b.parodd,
             a.inpck = b.inpck, a.cstopb = b.cstopb, a.speed = b.speed, a.left = b.left
      PROVE  a = b
  BY <1>6 DEF Termios
<1>. QED
  BY <1>2, <1>5, <1>6 DEF But, r, q

\* Whatever mode, parity, stop bits and speed an earlier program left on the port, the
\* server that was told to use raw mode and one or two stop bits sets up the same
\* line; of the flags that the code never touches it keeps what it found.
THEOREM LineCorrect == Spec => []OnlyFlagsLeft
<1>1. TypeOK /\ SetUp => OnlyFlagsLeft
  <2> SUFFICES ASSUME TypeOK, SetUp, phase = "serving", ctrl.raw, ctrl.stop \in {1, 2},
                      NEW found \in Found, found.left = tio.left
               PROVE  Effect(Configured(found)) = Effect(tio)
    BY DEF OnlyFlagsLeft
  <2>1. PICK t \in Found : tio = Configured(t)
    BY DEF SetUp
  <2>2. ctrl \in Control /\ t \in Termios /\ found \in Termios
    BY FoundAre DEF TypeOK
  <2>3. tio.left = t.left
    BY <2>1, <2>2, ConfiguredIs DEF Line
  <2>. QED
    BY <2>1, <2>2, <2>3, SameEffect
<1>2. SetUp /\ [Next]_vars => SetUp'
  BY SetUpStep
<1>3. Init => SetUp
  BY SetUpInit
<1>. QED
  BY <1>1, <1>2, <1>3, StartupTypeCorrect, PTL DEF Spec

-----------------------------------------------------------------------------
(* The speed. *)

LEMMA SameText ==
  ASSUME file' = file
  PROVE  /\ Starts' = Starts
         /\ \A b, l : About(b, "BAUDRATE", l)' <=> About(b, "BAUDRATE", l)
         /\ \A v \in Word : Gives("BAUDRATE", v)' <=> Gives("BAUDRATE", v)
<1>1. Starts' = Starts
  BY DEF Starts
<1>2. \A b : LineAt(b)' = LineAt(b)
  BY DEF LineAt
<1>3. ASSUME NEW b, NEW l
      PROVE  About(b, "BAUDRATE", l)' <=> About(b, "BAUDRATE", l)
  BY <1>2 DEF About, Space
<1>4. ASSUME NEW v \in Word
      PROVE  Gives("BAUDRATE", v)' <=> Gives("BAUDRATE", v)
  BY <1>1, <1>2, <1>3 DEF Gives, Space
<1>. QED
  BY <1>1, <1>3, <1>4

\* None of the lines read so far is about the speed.
NoneYet == \A b \in Starts, l \in DOMAIN file : b <= at => ~About(b, "BAUDRATE", l)

\* What is known of the speed: the reader is at the start of a line; while it looks
\* for BAUDRATE no line behind it was about it; and from then on the speed is the one
\* that is given, unless a value ran over its buffer.
SpeedKnown ==
  exists /\ ~smashed =>
    /\ phase = "read" => OnLine
    /\ phase = "read" /\ asked = 1 => NoneYet
    /\ phase = "read" /\ asked >= 2 =>
         \A v \in Word : Gives("BAUDRATE", v) => strtol(conf["BAUDRATE"]) = Number[v]
    /\ phase = "setup" =>
         \A v \in Word : Gives("BAUDRATE", v) => ctrl.speed = Number[v]
    /\ phase \in {"listen", "serving"} =>
         \A v \in Word : Gives("BAUDRATE", v) =>
           tio.speed = IF Number[v] \in Supported THEN Number[v] ELSE 9600

LEMMA BaudrateIs == "BAUDRATE" \in Word /\ "BAUDRATE" \in Key
BY StartupAssumption, KeyIs

\* A line that is read and not taken is not about the speed.
LEMMA NotAbout ==
  ASSUME InText, OnLine, NoneYet, ReadLine("BAUDRATE")
  PROVE  /\ \A b \in Starts, l \in DOMAIN file :
              b <= LineEnd(at) => ~About(b, "BAUDRATE", l)
         /\ LineEnd(at) < Len(file) => LineEnd(at) + 1 \in Starts
<1>1. ASSUME NEW b \in Starts, NEW k \in DOMAIN file, b <= LineEnd(at), About(b, "BAUDRATE", k)
      PROVE  FALSE
  <2>1. ~(b <= at)
    BY <1>1 DEF NoneYet
  <2>2. b \in Nat /\ at \in Nat
    BY DEF Starts, InText
  <2>3. b > at
    BY <2>1, <2>2
  <2>4. b = at + 1
    BY <1>1, <2>3, OneStart
  <2>5. About(at + 1, "BAUDRATE", k)
    BY <1>1, <2>4
  <2>6. /\ IsItem(strtrim(fgets)) /\ ~IsComment(strtrim(fgets))
        /\ KeyOf(strtrim(fgets)) = <<"BAUDRATE">>
    BY <2>5, BaudrateIs, AboutIsItem
  <2>. QED
    BY <2>6 DEF ReadLine, SkipLine, KeepComment, OtherItem
<1>. QED
  BY <1>1, NextOnLine

\* The line that is taken is the first about the speed, and its value is the speed.
LEMMA TakenIsGiven ==
  ASSUME InText, OnLine, NoneYet,
         IsItem(strtrim(fgets)), KeyOf(strtrim(fgets)) = <<"BAUDRATE">>,
         NEW v \in Word, Gives("BAUDRATE", v)
  PROVE  strtol(ValueOf(strtrim(fgets))) = Number[v]
<1>1. PICK a \in Starts : \E k, i \in LineAt(a) :
        /\ About(a, "BAUDRATE", k)
        /\ k + 1 < i /\ Space(k + 2, i - 1) /\ file[i] = v
        /\ \A b \in Starts, l \in DOMAIN file : b < a => ~About(b, "BAUDRATE", l)
  BY DEF Gives
<1>2. PICK k \in LineAt(a), i \in LineAt(a) :
        /\ About(a, "BAUDRATE", k)
        /\ k + 1 < i /\ Space(k + 2, i - 1) /\ file[i] = v
        /\ \A b \in Starts, l \in DOMAIN file : b < a => ~About(b, "BAUDRATE", l)
  BY <1>1
<1>8. k \in DOMAIN file
  BY DEF LineAt
<1>3. \E l \in DOMAIN file : About(at + 1, "BAUDRATE", l)
  BY BaudrateIs, ItemIsAbout
<1>4. at + 1 \in Starts
  BY DEF OnLine, InText
<1>5. ~(at + 1 < a) /\ ~(a <= at)
  BY <1>2, <1>3, <1>4, <1>8 DEF NoneYet
<1>6. a \in Nat /\ at \in Nat
  BY DEF Starts, InText
<1>7. a = at + 1
  BY <1>5, <1>6
<1>. QED
  BY <1>2, <1>7, <1>8, BaudrateIs, ValueIs

LEMMA SpeedInit == Init => SpeedKnown
BY DEF Init, SpeedKnown

LEMMA SpeedReadKey ==
  ASSUME TypeOK, SpeedKnown, ReadKey
  PROVE  SpeedKnown'
<1> SUFFICES ASSUME ~smashed' PROVE SpeedKnown'
  BY DEF SpeedKnown
<1>0. /\ file \in Seq(Token) /\ Len(file) \in Nat /\ at \in 0..Len(file)
      /\ DOMAIN file = 1..Len(file)
      /\ conf \in [Key -> Seq(Token)] /\ asked \in 0..4
      /\ file' = file /\ phase = "read" /\ phase' = "read" /\ exists
      /\ ~smashed /\ OnLine
  <2>5. ~smashed
    BY DEF ReadKey, ReadLine, SkipLine, KeepComment, OtherItem, Returns, KeyFound, KeyMissing, strcpy
  <2>1. OnLine
    BY <2>5 DEF ReadKey, SpeedKnown
  <2>2. /\ file \in Seq(Token) /\ at \in 0..Len(file)
        /\ conf \in [Key -> Seq(Token)] /\ asked \in 0..4
        /\ phase = "read" /\ phase' = "read" /\ exists
    BY KeysAre DEF TypeOK, ReadKey
  <2>3. file' = file
    BY DEF ReadKey, ReadLine, SkipLine, KeepComment, OtherItem, ReadNext,
           Returns, KeyFound, KeyMissing, Return
  <2>4. Len(file) \in Nat /\ DOMAIN file = 1..Len(file)
    BY <2>2
  <2>. QED
    BY <2>1, <2>2, <2>3, <2>4, <2>5
<1>1. /\ Starts' = Starts
      /\ \A b, l : About(b, "BAUDRATE", l)' <=> About(b, "BAUDRATE", l)
      /\ \A v \in Word : Gives("BAUDRATE", v)' <=> Gives("BAUDRATE", v)
  BY <1>0, SameText
<1>2. SUFFICES /\ OnLine'
               /\ asked' = 1 => NoneYet'
               /\ asked' >= 2 =>
                    \A v \in Word : Gives("BAUDRATE", v)' =>
                      strtol(conf'["BAUDRATE"]) = Number[v]
  <2>1. \A value : strtol(value)' = strtol(value)
    BY DEF strtol
  <2>. QED
    BY <1>0, <2>1 DEF SpeedKnown
<1>3. Keys[asked + 1] \in Key /\ (Keys[asked + 1] = "BAUDRATE" <=> asked = 1)
  BY <1>0, KeysAre
<1>4. ASSUME NEW key \in Key, key = "BAUDRATE" <=> asked = 1, ReadLine(key), UNCHANGED asked
      PROVE  /\ OnLine'
             /\ asked' = 1 => NoneYet'
             /\ asked' >= 2 =>
                  \A v \in Word : Gives("BAUDRATE", v)' =>
                    strtol(conf'["BAUDRATE"]) = Number[v]
  <2>1. at < Len(file) /\ at' = LineEnd(at) /\ conf' = conf
    BY <1>4 DEF ReadLine, SkipLine, KeepComment, OtherItem, ReadNext
  <2>2. InText
    BY <1>0, <2>1 DEF InText
  <2>3. OnLine'
    <3>1. LineEnd(at) < Len(file) => LineEnd(at) + 1 \in Starts
      BY <1>0, <2>2, NextOnLine
    <3>. QED
      BY <1>0, <1>1, <2>1, <3>1 DEF OnLine
  <2>4. ASSUME asked' = 1 PROVE NoneYet'
    <3>1. ReadLine("BAUDRATE") /\ NoneYet
      BY <1>0, <1>4, <2>4 DEF SpeedKnown
    <3>2. \A b \in Starts, l \in DOMAIN file : b <= LineEnd(at) => ~About(b, "BAUDRATE", l)
      BY <1>0, <2>2, <3>1, NotAbout
    <3>. QED
      BY <1>0, <1>1, <2>1, <3>2 DEF NoneYet
  <2>5. ASSUME asked' >= 2, NEW v \in Word, Gives("BAUDRATE", v)'
        PROVE  strtol(conf'["BAUDRATE"]) = Number[v]
    BY <1>0, <1>1, <1>4, <2>1, <2>5 DEF SpeedKnown
  <2>. QED
    BY <2>3, <2>4, <2>5
<1>5. ASSUME NEW key \in Key, key = "BAUDRATE" <=> asked = 1, Returns(key), asked' = asked + 1
      PROVE  /\ OnLine'
             /\ asked' = 1 => NoneYet'
             /\ asked' >= 2 =>
                  \A v \in Word : Gives("BAUDRATE", v)' =>
                    strtol(conf'["BAUDRATE"]) = Number[v]
  <2>1. /\ at' = 0
        /\ \E value : conf' = [conf EXCEPT ![key] = value]
    BY <1>5 DEF Returns, KeyFound, KeyMissing, Return, strcpy
  <2>2. OnLine'
    <3>1. 0 < Len(file) => 1 \in Starts
      BY <1>0, FirstStart
    <3>. QED
      BY <1>0, <1>1, <2>1, <3>1 DEF OnLine
  <2>3. NoneYet'
    <3>1. \A b \in Starts : ~(b <= 0)
      BY <1>0 DEF Starts
    <3>. QED
      BY <1>0, <1>1, <2>1, <3>1 DEF NoneYet
  <2>4. ASSUME asked' >= 2, NEW v \in Word, Gives("BAUDRATE", v)
        PROVE  strtol(conf'["BAUDRATE"]) = Number[v]
    <3>1. CASE asked = 1
      <4>1. NoneYet /\ key = "BAUDRATE"
        BY <1>0, <1>5, <3>1 DEF SpeedKnown
      <4>2. CASE KeyFound(key)
        <5>1. /\ at < Len(file) /\ IsItem(strtrim(fgets))
              /\ KeyOf(strtrim(fgets)) = <<"BAUDRATE">>
              /\ conf' = [conf EXCEPT !["BAUDRATE"] = ValueOf(strtrim(fgets))]
          BY <4>1, <4>2 DEF KeyFound, strcpy
        <5>2. InText
          BY <1>0, <5>1 DEF InText
        <5>3. conf'["BAUDRATE"] = ValueOf(strtrim(fgets))
          BY <1>0, <5>1, BaudrateIs
        <5>4. strtol(ValueOf(strtrim(fgets))) = Number[v]
          BY <1>0, <2>4, <4>1, <5>1, <5>2, TakenIsGiven
        <5>. QED
          BY <5>3, <5>4
      <4>3. CASE KeyMissing(key)
        <5>1. at = Len(file)
          BY <4>3 DEF KeyMissing
        <5>2. PICK k \in DOMAIN file, a \in Starts : About(a, "BAUDRATE", k)
          BY <2>4 DEF Gives, LineAt
        <5>3. a <= at
          BY <1>0, <5>1 DEF Starts
        <5>. QED
          BY <4>1, <5>2, <5>3 DEF NoneYet
      <4>. QED
        BY <1>5, <4>2, <4>3 DEF Returns
    <3>2. CASE asked # 1
      <4>1. asked >= 2 /\ key # "BAUDRATE"
        BY <1>0, <1>5, <2>4, <3>2
      <4>2. conf'["BAUDRATE"] = conf["BAUDRATE"]
        BY <1>0, <2>1, <4>1, BaudrateIs
      <4>3. strtol(conf["BAUDRATE"]) = Number[v]
        BY <1>0, <2>4, <4>1 DEF SpeedKnown
      <4>. QED
        BY <4>2, <4>3
    <3>. QED
      BY <3>1, <3>2
  <2>. QED
    BY <1>1, <2>2, <2>3, <2>4
<1>. QED
  BY <1>3, <1>4, <1>5 DEF ReadKey

LEMMA SpeedStep ==
  ASSUME TypeOK, NotBegun, SpeedKnown, [Next]_vars
  PROVE  SpeedKnown'
<1>1. CASE ReadKey
  BY <1>1, SpeedReadKey
<1>2. CASE Open
  BY <1>2 DEF Open, SpeedKnown
<1>3. CASE CreateConfig
  <2>1. phase' = "read" /\ asked' = 0 /\ at' = 0
    BY <1>3 DEF CreateConfig, NotBegun
  <2>2. OnLine'
    <3>1. file' \in Seq(Token)
      BY <1>3, DefaultFileIsText DEF CreateConfig, TypeOK
    <3>2. 0 < Len(file') => 1 \in Starts'
      BY <3>1, FirstStartNext
    <3>. QED
      BY <2>1, <3>2 DEF OnLine
  <2>. QED
    BY <2>1, <2>2 DEF SpeedKnown
<1>4. CASE ReadConfig
  <2>1. /\ phase = "read" /\ phase' = "setup" /\ asked = 5 /\ file' = file /\ exists' = exists
        /\ smashed' = smashed /\ ctrl'.speed = strtol(conf["BAUDRATE"])
    BY <1>4, KeysAre DEF ReadConfig, iniVars
  <2>2. /\ \A v \in Word : Gives("BAUDRATE", v)' <=> Gives("BAUDRATE", v)
    BY <2>1, SameText
  <2>. QED
    BY <2>1, <2>2 DEF SpeedKnown
<1>5. CASE SerialSetup
  <2>1. /\ phase = "setup" /\ phase' = "listen" /\ file' = file /\ exists' = exists
        /\ smashed' = smashed /\ ctrl \in Control /\ \E found \in Found : tio' = Configured(found)
    BY <1>5 DEF SerialSetup, iniVars, TypeOK
  <2>2. /\ \A v \in Word : Gives("BAUDRATE", v)' <=> Gives("BAUDRATE", v)
    BY <2>1, SameText
  <2>3. tio'.speed = (IF ctrl.speed \in Supported THEN ctrl.speed ELSE 9600)
    BY <2>1, FoundAre, ConfiguredTyped
  <2>4. ASSUME exists, ~smashed, NEW v \in Word, Gives("BAUDRATE", v)
        PROVE  tio'.speed = IF Number[v] \in Supported THEN Number[v] ELSE 9600
    <3>1. ctrl.speed = Number[v]
      BY <2>1, <2>4 DEF SpeedKnown
    <3>. QED
      BY <2>3, <3>1
  <2>. QED
    BY <2>1, <2>2, <2>4 DEF SpeedKnown, Supported
<1>6. CASE ReadConfigFails
  BY <1>6 DEF ReadConfigFails, SpeedKnown
<1>8. CASE ReadConfigCrashes
  <2>1. phase' = "failed"
    BY <1>8 DEF ReadConfigCrashes
  <2>. QED
    BY <2>1 DEF SpeedKnown
<1>7. CASE SerialSetupFails \/ CreateServer \/ UNCHANGED vars
  <2>1. /\ UNCHANGED <<file, at, conf, smashed, exists, asked, ctrl, tio>>
        /\ phase' = "failed" \/ phase' = phase \/ (phase = "listen" /\ phase' = "serving")
    BY <1>7 DEF SerialSetupFails, CreateServer, vars, iniVars
  <2>2. /\ Starts' = Starts
        /\ \A b, l : About(b, "BAUDRATE", l)' <=> About(b, "BAUDRATE", l)
        /\ \A v \in Word : Gives("BAUDRATE", v)' <=> Gives("BAUDRATE", v)
    BY <2>1, SameText
  <2>3. (OnLine' <=> OnLine) /\ (NoneYet' <=> NoneYet)
    BY <2>1, <2>2 DEF OnLine, NoneYet
  <2>4. strtol(conf["BAUDRATE"])' = strtol(conf["BAUDRATE"])
    BY <2>1 DEF strtol
  <2>5. Supported' = Supported
    BY DEF Supported
  <2>. QED
    BY <2>1, <2>2, <2>3, <2>4, <2>5 DEF SpeedKnown
<1>. QED
  BY <1>1, <1>2, <1>3, <1>4, <1>5, <1>6, <1>7, <1>8 DEF Next

\* For every file, with lines of any length, and whatever word its first line about
\* BAUDRATE gives: unless a value ran over its buffer, that word sets the speed.
THEOREM SpeedCorrect == Spec => []SpeedAsConfigured
<1>1. SpeedKnown => SpeedAsConfigured
  BY DEF SpeedKnown, SpeedAsConfigured
<1>2. TypeOK /\ NotBegun /\ SpeedKnown /\ [Next]_vars => SpeedKnown'
  BY SpeedStep
<1>3. Init => SpeedKnown
  BY SpeedInit
<1>. QED
  BY <1>1, <1>2, <1>3, TypeInductive, PTL DEF Spec

-----------------------------------------------------------------------------
(* The comments. *)

\* A piece that starts like a line with an item is an item.
LEMMA ItemLineIs ==
  ASSUME InText, ItemLine(at + 1)
  PROVE  IsItem(strtrim(fgets))
<1> DEFINE s == strtrim(fgets)
           e == LineEnd(at)
<1>0. at \in Nat /\ Len(file) \in Nat /\ e \in at+1..Len(file) /\ e \in Nat /\ LineAt(at + 1) = at+1..e
  <2>1. at \in Nat /\ Len(file) \in Nat /\ e \in at+1..Len(file)
    BY LineEndIs DEF InText
  <2>. QED
    BY <2>1, LineAtIs
<1>1. PICK i \in at+1..e :
        /\ Space(at + 1, i - 1) /\ file[i] \notin Blank \cup {"#"}
        /\ \/ \E j \in at+1..e : file[j] = "="
           \/ \E j, l \in at+1..e : i < j /\ j < l /\ file[j] = " " /\ file[l] \notin Blank
  BY <1>0 DEF ItemLine
<1>2. i \in Nat /\ at + 1 <= i /\ i <= e
  <2>1. i \in at+1..e
    BY <1>1
  <2>. HIDE DEF s, e
  <2>. QED
    BY <1>0, <2>1
\* j is where the item may be cut, l a token there or behind it
<1>4. PICK j \in at+1..e, l \in at+1..e :
        /\ i <= j /\ j <= l /\ file[l] \notin Blank
        /\ file[j] = "=" \/ file[j] = " "
  <2>1. ASSUME NEW j \in at+1..e, file[j] = "="
        PROVE  i <= j /\ j <= j /\ file[j] \notin Blank
    <3>1. file[j] \notin Blank
      BY <2>1 DEF Blank
    <3>2. ASSUME j < i PROVE FALSE
      <4>. HIDE DEF e
      <4>1. j \in (at + 1)..(i - 1)
        BY <1>0, <1>2, <2>1, <3>2
      <4>. QED
        BY <1>1, <3>1, <4>1 DEF Space
    <3>. HIDE DEF e
    <3>. QED
      BY <1>0, <1>2, <3>1, <3>2
  <2>2. ASSUME NEW j \in at+1..e, NEW l \in at+1..e, i < j, j < l
        PROVE  i <= j /\ j <= l
    <3>. HIDE DEF e
    <3>. QED
      BY <1>0, <1>2, <2>2
  <2>. QED
    BY <1>1, <2>1, <2>2
<1>5. j \in Nat /\ l \in Nat /\ i <= j /\ j <= l
  <2>1. j \in at+1..e /\ l \in at+1..e /\ i <= j /\ j <= l
    BY <1>4
  <2>. HIDE DEF s, e
  <2>. QED
    BY <1>0, <2>1
<1>8. i \in at+1..e /\ l \in at+1..e
  OBVIOUS
<1>9. PICK f \in Nat, g \in Nat : Spans(f, g)
  BY <1>1, <1>8, PieceIs
<1>10. /\ f \in at+1..e /\ g \in f..e /\ file[f] \notin Blank
       /\ \A m \in at+1..e : file[m] \notin Blank => f <= m /\ m <= g
       /\ s \in Seq(Token) /\ Len(s) = g - f + 1
       /\ \A m \in 1..g - f + 1 : s[m] = file[f + m - 1]
  BY <1>9 DEF Spans
<1>. HIDE DEF s, e
<1>11. f <= i /\ l <= g
  BY <1>1, <1>4, <1>8, <1>10
<1>12. f = i
  <2>1. CASE f < i
    <3>1. f \in (at + 1)..(i - 1)
      BY <1>0, <1>2, <1>10, <2>1
    <3>. QED
      BY <1>1, <1>10, <3>1 DEF Space
  <2>. QED
    BY <1>2, <1>9, <1>11, <2>1
<1>13. /\ 1 \in 1..g - f + 1 /\ f + 1 - 1 = i
       /\ j - f + 1 \in 1..g - f + 1 /\ f + (j - f + 1) - 1 = j
  BY <1>2, <1>5, <1>9, <1>11, <1>12
<1>14. s # <<>> /\ s[1] # "#"
  <2>1. s # <<>>
    BY <1>10, <1>13
  <2>2. s[1] = file[i]
    BY <1>10, <1>13
  <2>. QED
    BY <1>1, <2>1, <2>2
<1>15. \E m \in 1..Len(s) : s[m] = "=" \/ s[m] = " "
  <2>1. j - f + 1 \in 1..Len(s) /\ s[j - f + 1] = file[j]
    BY <1>10, <1>13
  <2>. QED
    BY <1>4, <2>1
<1>16. Cut(s) > 0
  <2>1. CASE \E m \in 1..Len(s) : s[m] = "="
    BY <1>10, <2>1, CutIs
  <2>2. CASE \A m \in 1..Len(s) : s[m] # "="
    <3>1. \E m \in 1..Len(s) : s[m] = " "
      BY <1>15, <2>2
    <3>. QED
      BY <1>10, <2>2, <3>1, CutIs
  <2>. QED
    BY <2>1, <2>2
<1>. QED
  BY <1>14, <1>16 DEF IsItem, s

\* A comment stands at the start of a line, and there is no item on that line.
LEMMA CommentIs ==
  ASSUME InText, OnLine, IsComment(strtrim(fgets))
  PROVE  at + 1 \in Starts /\ CommentLine(at + 1) /\ ~ItemLine(at + 1)
<1> DEFINE s == strtrim(fgets)
           e == LineEnd(at)
<1>0. /\ at \in Nat /\ Len(file) \in Nat /\ e \in at+1..Len(file)
      /\ \A m \in at+1..e : file[m] = "\n" => m = e
  BY LineEndIs DEF InText
<1>1. PICK f \in Nat, g \in Nat : Spans(f, g)
  BY PieceIs DEF IsComment
<1>2. /\ f \in at+1..e /\ g \in f..e /\ file[f] \notin Blank
      /\ \A m \in at+1..e : file[m] \notin Blank => f <= m /\ m <= g
      /\ Len(s) = g - f + 1
      /\ \A m \in 1..g - f + 1 : s[m] = file[f + m - 1]
  BY <1>1 DEF Spans
<1>3. s[1] = "#"
  BY DEF IsComment
<1>. HIDE DEF s, e
<1>4. file[f] = "#"
  <2>1. 1 \in 1..g - f + 1 /\ f + 1 - 1 = f
    BY <1>1, <1>2
  <2>. QED
    BY <1>2, <1>3, <2>1
<1>5. Space(at + 1, f - 1)
  <2> SUFFICES ASSUME NEW m \in (at + 1)..(f - 1) PROVE file[m] \in Blank
    BY DEF Space
  <2>1. m \in at+1..e /\ ~(f <= m)
    BY <1>0, <1>1, <1>2
  <2>. QED
    BY <1>0, <1>2, <2>1
<1>6. f \in LineAt(at + 1) /\ at < Len(file)
  <2>1. at < Len(file)
    BY <1>0
  <2>. QED
    BY <1>2, <2>1, LineAtIs DEF e
<1>7. CommentLine(at + 1)
  BY <1>4, <1>5, <1>6 DEF CommentLine
<1>9. at + 1 \in Starts
  BY <1>6 DEF OnLine
<1>10. ~ItemLine(at + 1)
  BY <1>3, ItemLineIs DEF IsItem, s
<1>. QED
  BY <1>7, <1>9, <1>10

Comments(a, q) == {c \in Starts : a <= c /\ c <= q /\ CommentLine(c)}

\* n comments with no item between them, the last of them at q or before.
InARow(n, q) ==
  \E a \in Starts :
    /\ \A c \in Starts : a <= c /\ c <= q => ~ItemLine(c)
    /\ Cardinality(Comments(a, q)) >= n

LEMMA CommentsFinite ==
  ASSUME file \in Seq(Token), NEW a, NEW q
  PROVE  IsFiniteSet(Comments(a, q)) /\ Cardinality(Comments(a, q)) \in Nat
<1>1. Comments(a, q) \subseteq 1..Len(file) /\ Len(file) \in Nat
  BY DEF Comments, Starts
<1>2. IsFiniteSet(1..Len(file))
  BY <1>1, FS_Interval
<1>3. IsFiniteSet(Comments(a, q))
  BY <1>1, <1>2, FS_Subset
<1>. QED
  BY <1>3, FS_CardinalityType

\* The row goes on behind a piece without an item ...
LEMMA RowGoesOn ==
  ASSUME InText, OnLine, NEW n \in Nat, InARow(n, at), ~ItemLine(at + 1)
  PROVE  InARow(n, LineEnd(at))
<1>1. PICK a \in Starts :
        /\ \A c \in Starts : a <= c /\ c <= at => ~ItemLine(c)
        /\ Cardinality(Comments(a, at)) >= n
  BY DEF InARow
<1>2. at \in Nat /\ LineEnd(at) \in Nat /\ at <= LineEnd(at) /\ \A c \in Starts : c \in Nat
  BY LineEndIs DEF InText, Starts
<1>3. \A c \in Starts : c <= LineEnd(at) => c <= at \/ c = at + 1
  <2> SUFFICES ASSUME NEW c \in Starts, c <= LineEnd(at), ~(c <= at) PROVE c = at + 1
    OBVIOUS
  <2>1. c > at
    BY <1>2
  <2>. QED
    BY <2>1, OneStart
<1>4. Comments(a, at) \subseteq Comments(a, LineEnd(at))
  BY <1>2 DEF Comments
<1>5. Cardinality(Comments(a, at)) <= Cardinality(Comments(a, LineEnd(at)))
  BY <1>4, CommentsFinite, FS_Subset DEF InText
<1>6. Cardinality(Comments(a, at)) \in Nat /\ Cardinality(Comments(a, LineEnd(at))) \in Nat
  BY CommentsFinite DEF InText
<1>7. Cardinality(Comments(a, LineEnd(at))) >= n
  BY <1>1, <1>5, <1>6
<1>. QED
  BY <1>1, <1>3, <1>7 DEF InARow

\* ... and a comment makes it longer by one.
LEMMA RowGrows ==
  ASSUME InText, OnLine, NEW n \in Nat, n > 0 => InARow(n, at),
         at + 1 \in Starts, CommentLine(at + 1), ~ItemLine(at + 1)
  PROVE  InARow(n + 1, at + 1) /\ InARow(n + 1, LineEnd(at))
<1>1. /\ at \in Nat /\ LineEnd(at) \in Nat /\ at + 1 <= LineEnd(at)
      /\ \A c \in Starts : c \in Nat /\ (c <= at + 1 => c <= at \/ c = at + 1)
  <2>1. at \in Nat /\ LineEnd(at) \in at+1..Len(file) /\ Len(file) \in Nat
    BY LineEndIs DEF InText
  <2>2. LineEnd(at) \in Nat /\ at + 1 <= LineEnd(at)
    BY <2>1
  <2>3. \A c \in Starts : c \in Nat
    BY DEF Starts, InText
  <2>4. \A c \in Nat : c <= at + 1 => c <= at \/ c = at + 1
    BY <2>1
  <2>. QED
    BY <2>1, <2>2, <2>3, <2>4
<1>2. \E a \in Starts :
        /\ \A c \in Starts : a <= c /\ c <= at => ~ItemLine(c)
        /\ Cardinality(Comments(a, at)) >= n /\ a <= at + 1
  <2>1. CASE n > 0
    <3>1. PICK a \in Starts :
            /\ \A c \in Starts : a <= c /\ c <= at => ~ItemLine(c)
            /\ Cardinality(Comments(a, at)) >= n
      BY <2>1 DEF InARow
    <3>2. a <= at
      <4>1. SUFFICES ASSUME ~(a <= at) PROVE FALSE
        OBVIOUS
      <4>2. Comments(a, at) = {}
        BY <1>1, <4>1 DEF Comments
      <4>3. Cardinality(Comments(a, at)) = 0
        BY <4>2, FS_EmptySet
      <4>. QED
        BY <2>1, <3>1, <4>3
    <3>3. a <= at + 1
      BY <1>1, <3>2
    <3>. QED
      BY <3>1, <3>3
  <2>2. CASE n = 0
    <3>1. Cardinality(Comments(at + 1, at)) >= n
      <4>1. Cardinality(Comments(at + 1, at)) \in Nat
        BY CommentsFinite DEF InText
      <4>. QED
        BY <2>2, <4>1
    <3>2. \A c \in Starts : ~(at + 1 <= c /\ c <= at)
      BY <1>1
    <3>3. at + 1 <= at + 1
      BY <1>1
    <3>. QED
      BY <3>1, <3>2, <3>3
  <2>3. n > 0 \/ n = 0
    OBVIOUS
  <2>. QED
    BY <2>1, <2>2, <2>3
<1>3. PICK a \in Starts :
        /\ \A c \in Starts : a <= c /\ c <= at => ~ItemLine(c)
        /\ Cardinality(Comments(a, at)) >= n /\ a <= at + 1
  BY <1>2
<1>4. Comments(a, at + 1) = Comments(a, at) \cup {at + 1}
  <2>1. ASSUME NEW c \in Comments(a, at) PROVE c \in Comments(a, at + 1)
    BY <1>1 DEF Comments
  <2>2. at + 1 \in Comments(a, at + 1)
    <3>1. at + 1 <= at + 1
      BY <1>1
    <3>. QED
      BY <1>3, <3>1 DEF Comments
  <2>3. ASSUME NEW c \in Comments(a, at + 1) PROVE c \in Comments(a, at) \cup {at + 1}
    BY <1>1 DEF Comments
  <2>. QED
    BY <2>1, <2>2, <2>3
<1>5. at + 1 \notin Comments(a, at)
  <2>1. ~(at + 1 <= at)
    BY <1>1
  <2>. QED
    BY <2>1 DEF Comments
<1>6. /\ IsFiniteSet(Comments(a, at))
      /\ Cardinality(Comments(a, at)) \in Nat /\ Cardinality(Comments(a, at + 1)) \in Nat
  BY CommentsFinite DEF InText
<1>7. Cardinality(Comments(a, at + 1)) = Cardinality(Comments(a, at)) + 1
  BY <1>4, <1>5, <1>6, FS_AddElement
<1>8. Cardinality(Comments(a, at + 1)) >= n + 1
  BY <1>3, <1>6, <1>7
<1>9. \A c \in Starts : a <= c /\ c <= at + 1 => ~ItemLine(c)
  BY <1>1, <1>3
<1>10. InARow(n + 1, at + 1)
  BY <1>8, <1>9 DEF InARow
<1>11. \A c \in Starts : c <= LineEnd(at) => c <= at + 1
  <2> SUFFICES ASSUME NEW c \in Starts, c <= LineEnd(at), ~(c <= at + 1) PROVE FALSE
    OBVIOUS
  <2>1. c > at /\ c # at + 1
    BY <1>1
  <2>. QED
    BY <2>1, OneStart
<1>12. Comments(a, LineEnd(at)) = Comments(a, at + 1)
  <2>1. \A c \in Starts : c <= at + 1 => c <= LineEnd(at)
    BY <1>1
  <2>. QED
    BY <1>11, <2>1 DEF Comments
<1>13. InARow(n + 1, LineEnd(at))
  BY <1>8, <1>9, <1>11, <1>12 DEF InARow
<1>. QED
  BY <1>10, <1>13

\* The comments kept follow each other in the file, and so do those that were one
\* too many.
CommentsKnown ==
  /\ phase \in {"open", "config"} => ~beyond
  /\ phase = "read" /\ exists => OnLine /\ (num > 0 => InARow(num, at))
  /\ beyond => \E b \in Starts : InARow(MaxComment + 1, b)

LEMMA SameRows ==
  ASSUME file' = file
  PROVE  Starts' = Starts /\ \A n, q : InARow(n, q)' <=> InARow(n, q)
<1>1. Starts' = Starts
  BY DEF Starts
<1>2. \A b : LineAt(b)' = LineAt(b)
  BY DEF LineAt
<1>3. \A c : (CommentLine(c)' <=> CommentLine(c)) /\ (ItemLine(c)' <=> ItemLine(c))
  BY <1>2 DEF CommentLine, ItemLine, Space
<1>4. \A a, q : Comments(a, q)' = Comments(a, q)
  BY <1>1, <1>3 DEF Comments
<1>5. \A n, q : InARow(n, q)' <=> InARow(n, q)
  BY <1>1, <1>3, <1>4 DEF InARow
<1>. QED
  BY <1>1, <1>5

LEMMA CommentsReadKey ==
  ASSUME TypeOK, CommentsKnown, ReadKey
  PROVE  CommentsKnown'
<1>0. /\ file \in Seq(Token) /\ Len(file) \in Nat /\ at \in 0..Len(file)
      /\ DOMAIN file = 1..Len(file)
      /\ num \in 0..MaxComment + 1 /\ MaxComment \in Nat /\ num \in Nat
      /\ phase = "read" /\ phase' = "read" /\ exists /\ exists' = exists
  <2>1. /\ file \in Seq(Token) /\ at \in 0..Len(file)
        /\ num \in 0..MaxComment + 1 /\ MaxComment \in Nat
        /\ phase = "read" /\ phase' = "read" /\ exists /\ exists' = exists
    BY IniAssumption DEF TypeOK, ReadKey
  <2>2. num \in Nat
    BY <2>1
  <2>. QED
    BY <2>1, <2>2
<1>1. file' = file
  BY DEF ReadKey, ReadLine, SkipLine, KeepComment, OtherItem, ReadNext,
         Returns, KeyFound, KeyMissing, Return
<1>2. /\ Starts' = Starts
      /\ \A n, q : InARow(n, q)' <=> InARow(n, q)
  BY <1>1, SameRows
<1>3. SUFFICES /\ OnLine' /\ (num' > 0 => InARow(num', at'))
               /\ beyond' => \E b \in Starts : InARow(MaxComment + 1, b)
  <2>1. (num' > 0 => InARow(num', at')) => (num > 0 => InARow(num, at))'
    BY <1>2
  <2>2. (\E b \in Starts : InARow(MaxComment + 1, b)) =>
          (\E b \in Starts : InARow(MaxComment + 1, b))'
    BY <1>2
  <2>. QED
    BY <1>0, <1>2, <2>1, <2>2 DEF CommentsKnown
<1>4. /\ OnLine /\ (num > 0 => InARow(num, at))
      /\ beyond => \E b \in Starts : InARow(MaxComment + 1, b)
  BY <1>0 DEF CommentsKnown
<1>5. ASSUME NEW key, ReadLine(key)
      PROVE  /\ OnLine' /\ (num' > 0 => InARow(num', at'))
             /\ beyond' => \E b \in Starts : InARow(MaxComment + 1, b)
  <2>1. at < Len(file) /\ at' = LineEnd(at)
    BY <1>5 DEF ReadLine, SkipLine, KeepComment, OtherItem, ReadNext
  <2>2. InText
    BY <1>0, <2>1 DEF InText
  <2>3. OnLine'
    <3>1. LineEnd(at) < Len(file) => LineEnd(at) + 1 \in Starts
      BY <1>4, <2>2, NextOnLine
    <3>. QED
      BY <1>1, <1>2, <2>1, <3>1 DEF OnLine
  <2>4. CASE SkipLine
    <3>1. ~IsItem(strtrim(fgets)) /\ num' = num /\ beyond' = beyond
      BY <2>4 DEF SkipLine
    <3>2. ~ItemLine(at + 1)
      BY <2>2, <3>1, ItemLineIs
    <3>3. num > 0 => InARow(num, LineEnd(at))
      BY <1>0, <1>4, <2>2, <3>2, RowGoesOn
    <3>. QED
      BY <1>4, <2>1, <2>3, <3>1, <3>3
  <2>5. CASE KeepComment
    <3>1. /\ IsComment(strtrim(fgets))
          /\ num' = (IF num > MaxComment THEN num ELSE num + 1)
          /\ beyond' = (beyond \/ num = MaxComment)
      BY <2>5 DEF KeepComment
    <3>2. at + 1 \in Starts /\ CommentLine(at + 1) /\ ~ItemLine(at + 1)
      BY <1>4, <2>2, <3>1, CommentIs
    <3>3. InARow(num + 1, at + 1) /\ InARow(num + 1, LineEnd(at))
      BY <1>0, <1>4, <2>2, <3>2, RowGrows
    <3>4. num > 0 => InARow(num, LineEnd(at))
      BY <1>0, <1>4, <2>2, <3>2, RowGoesOn
    <3>5. num' > 0 => InARow(num', at')
      <4>1. CASE num > MaxComment
        <5>1. num' = num
          BY <3>1, <4>1
        <5>. QED
          BY <2>1, <3>4, <5>1
      <4>2. CASE ~(num > MaxComment)
        <5>1. num' = num + 1
          BY <3>1, <4>2
        <5>. QED
          BY <2>1, <3>3, <5>1
      <4>. QED
        BY <4>1, <4>2
    <3>6. ASSUME beyond' PROVE \E b \in Starts : InARow(MaxComment + 1, b)
      <4>1. CASE beyond
        BY <1>4, <4>1
      <4>2. CASE num = MaxComment
        BY <3>2, <3>3, <4>2
      <4>. QED
        BY <3>1, <3>6, <4>1, <4>2
    <3>. QED
      BY <2>3, <3>5, <3>6
  <2>6. CASE OtherItem(key)
    <3>1. num' = 0 /\ beyond' = beyond
      BY <2>6 DEF OtherItem, Freed
    <3>. QED
      BY <1>4, <2>3, <3>1
  <2>. QED
    BY <1>5, <2>4, <2>5, <2>6 DEF ReadLine
<1>6. ASSUME NEW key, Returns(key)
      PROVE  /\ OnLine' /\ (num' > 0 => InARow(num', at'))
             /\ beyond' => \E b \in Starts : InARow(MaxComment + 1, b)
  <2>1. at' = 0 /\ num' = 0 /\ beyond' = beyond
    BY <1>6 DEF Returns, KeyFound, KeyMissing, Return
  <2>2. OnLine'
    <3>1. 0 < Len(file) => 1 \in Starts
      BY <1>0, FirstStart
    <3>. QED
      BY <1>0, <1>1, <1>2, <2>1, <3>1 DEF OnLine
  <2>. QED
    BY <1>4, <2>1, <2>2
<1>. QED
  BY <1>5, <1>6 DEF ReadKey

LEMMA CommentsInit == Init => CommentsKnown
BY DEF Init, IniInit, CommentsKnown

LEMMA CommentsStep ==
  ASSUME TypeOK, NotBegun, CommentsKnown, [Next]_vars
  PROVE  CommentsKnown'
<1>1. CASE ReadKey
  BY <1>1, CommentsReadKey
<1>2. CASE CreateConfig
  <2>1. phase' = "read" /\ at' = 0 /\ num' = 0 /\ ~beyond'
    BY <1>2 DEF CreateConfig, NotBegun, CommentsKnown
  <2>2. OnLine'
    <3>1. file' \in Seq(Token)
      BY <1>2, DefaultFileIsText DEF CreateConfig, TypeOK
    <3>2. 0 < Len(file') => 1 \in Starts'
      BY <3>1, FirstStartNext
    <3>. QED
      BY <2>1, <3>2 DEF OnLine
  <2>. QED
    BY <2>1, <2>2 DEF CommentsKnown
<1>3. CASE Open \/ ReadConfig \/ ReadConfigCrashes \/ ReadConfigFails \/ SerialSetup \/ SerialSetupFails
           \/ CreateServer \/ UNCHANGED vars
  <2>1. /\ UNCHANGED <<file, at, num, beyond, exists>>
        /\ phase' = phase \/ phase' \notin {"open", "config", "read"} \/ (phase = "open" /\ phase' = "config")
    BY <1>3
    DEF Open, ReadConfig, ReadConfigCrashes, ReadConfigFails, SerialSetup, SerialSetupFails, CreateServer, vars, iniVars
  <2>2. /\ Starts' = Starts
        /\ \A n, q : InARow(n, q)' <=> InARow(n, q)
    BY <2>1, SameRows
  <2>3. OnLine' <=> OnLine
    BY <2>1, <2>2 DEF OnLine
  <2>4. (num > 0 => InARow(num, at))' <=> (num > 0 => InARow(num, at))
    BY <2>1, <2>2
  <2>5. (\E b \in Starts : InARow(MaxComment + 1, b))' <=>
          (\E b \in Starts : InARow(MaxComment + 1, b))
    BY <2>2
  <2>. QED
    BY <2>1, <2>2, <2>3, <2>4, <2>5 DEF CommentsKnown
<1>. QED
  BY <1>1, <1>2, <1>3 DEF Next

\* For every file, with lines of any length: a comment is kept behind the array's end
\* only if too many follow each other.
THEOREM CommentsCorrect == Spec => []CommentsFit
<1>1. TypeOK /\ CommentsKnown => CommentsFit
  <2> SUFFICES ASSUME TypeOK, CommentsKnown, beyond
               PROVE  \E a, b \in Starts :
                        /\ \A c \in Starts : a <= c /\ c <= b => ~ItemLine(c)
                        /\ Cardinality({c \in Starts : a <= c /\ c <= b /\ CommentLine(c)}) > MaxComment
    BY DEF CommentsFit
  <2>1. PICK b \in Starts : InARow(MaxComment + 1, b)
    BY DEF CommentsKnown
  <2>2. PICK a \in Starts :
          /\ \A c \in Starts : a <= c /\ c <= b => ~ItemLine(c)
          /\ Cardinality(Comments(a, b)) >= MaxComment + 1
    BY <2>1 DEF InARow
  <2>3. Cardinality(Comments(a, b)) \in Nat /\ MaxComment \in Nat
    BY CommentsFinite, IniAssumption DEF TypeOK
  <2>4. Cardinality(Comments(a, b)) > MaxComment
    BY <2>2, <2>3
  <2>. QED
    BY <2>2, <2>4 DEF Comments
<1>2. TypeOK /\ NotBegun /\ CommentsKnown /\ [Next]_vars => CommentsKnown'
  BY CommentsStep
<1>3. Init => CommentsKnown
  BY CommentsInit
<1>. QED
  BY <1>1, <1>2, <1>3, TypeInductive, PTL DEF Spec
=============================================================================
