---------------------------- MODULE Console_proofs ----------------------------
(***************************************************************************)
(* Proofs about the history, the line editor and the shell's terminal, for *)
(* rings of any size, any buffer, any characters and any commands.         *)
(***************************************************************************)
EXTENDS Console, TLAPS

-----------------------------------------------------------------------------
(* HistoryRing. *)

\* The modulo arithmetic of the code walks around the ring.
LEMMA AroundTheRing ==
  ASSUME NEW i \in Slot
  PROVE  /\ After(i) = IF i = N - 1 THEN 0 ELSE i + 1
         /\ Before(i) = IF i = 0 THEN N - 1 ELSE i - 1
         /\ After(i) \in Slot /\ Before(i) \in Slot
<1>1. N \in Nat \ {0} /\ i \in Nat /\ i <= N - 1
  BY HistoryAssumption DEF Slot
<1>2. \A k \in 0..(N - 1) : k % N = k /\ (k + N) % N = k
  BY <1>1
<1>3. After(i) = IF i = N - 1 THEN 0 ELSE i + 1
  <2>1. CASE i = N - 1
    BY <1>1, <1>2, <2>1 DEF After
  <2>2. CASE i # N - 1
    BY <1>1, <1>2, <2>2 DEF After
  <2>. QED
    BY <2>1, <2>2
<1>4. Before(i) = IF i = 0 THEN N - 1 ELSE i - 1
  <2>1. CASE i = 0
    BY <1>1, <1>2, <2>1 DEF Before
  <2>2. CASE i # 0
    <3>1. i - 1 \in 0..(N - 1) /\ (i - 1) + N = i + N - 1
      BY <1>1, <2>2
    <3>. QED
      BY <1>2, <2>2, <3>1 DEF Before
  <2>. QED
    BY <2>1, <2>2
<1>. QED
  BY <1>1, <1>3, <1>4 DEF Slot

\* As long as the ring has never been full, slots fill from 0 on and index has
\* not wrapped.
NotWrapped == Held >= N \/ (current = Held /\ index <= current)

IInv == TypeOK /\ RingHoldsLatest /\ RecallIsRecent /\ NotWrapped

LEMMA InitInv == Init => IInv
<1> SUFFICES ASSUME Init PROVE IInv
  OBVIOUS
<1>1. /\ N \in Nat \ {0} /\ 0 \in Slot
      /\ enable = FALSE /\ current = 0 /\ index = 0 /\ recorded = 0 /\ base = 0 /\ shown = 0
      /\ list = [i \in Slot |-> 0]
  BY HistoryAssumption DEF Init, Slot
<1>2. TypeOK
  <2>1. enable \in BOOLEAN
    BY <1>1
  <2>2. list \in [Slot -> Nat] /\ base \in 0..recorded /\ recorded \in Nat /\ shown \in Nat
    BY <1>1
  <2>. QED
    BY <1>1, <2>1, <2>2 DEF TypeOK
<1>3. RingHoldsLatest
  BY <1>1 DEF RingHoldsLatest, Held, Slot
<1>4. RecallIsRecent /\ NotWrapped
  BY <1>1 DEF RecallIsRecent, NotWrapped, Held
<1>. QED
  BY <1>2, <1>3, <1>4 DEF IInv

LEMMA StepInv ==
  ASSUME IInv, [RingNext]_ringVars
  PROVE  IInv'
<1>0. /\ N \in Nat \ {0} /\ TypeOK /\ RingHoldsLatest /\ RecallIsRecent /\ NotWrapped
      /\ recorded \in Int /\ base \in Int /\ base <= recorded /\ current \in Int /\ index \in Int
  BY HistoryAssumption DEF IInv, TypeOK, Slot
<1>1. ASSUME NEW e \in BOOLEAN, SetEnable(e) PROVE IInv'
  BY <1>0, <1>1
  DEF SetEnable, Clear, IInv, TypeOK, RingHoldsLatest, RecallIsRecent, NotWrapped, Held, Slot
<1>2. CASE Add
  <2>1. After(current) = (IF current = N - 1 THEN 0 ELSE current + 1) /\ After(current) \in Slot
    BY <1>0, AroundTheRing DEF TypeOK
  <2>2. TypeOK'
    BY <1>0, <1>2, <2>1 DEF Add, TypeOK
  <2>3. RingHoldsLatest'
    <3> SUFFICES ASSUME NEW i \in Slot
                 PROVE  list'[i] = IF i < current' THEN recorded' - current' + i + 1
                                   ELSE IF Held' >= N THEN recorded' - current' - N + i + 1
                                   ELSE 0
      BY DEF RingHoldsLatest
    <3>1. /\ list'[i] = IF i = current THEN recorded + 1 ELSE list[i]
          /\ recorded' = recorded + 1 /\ base' = base
          /\ current' = IF current = N - 1 THEN 0 ELSE current + 1
      BY <1>0, <1>2, <2>1 DEF Add, TypeOK
    <3>2. list[i] = IF i < current THEN recorded - current + i + 1
                    ELSE IF recorded - base >= N THEN recorded - current - N + i + 1
                    ELSE 0
      BY <1>0 DEF RingHoldsLatest, Held
    <3>3. i \in Int /\ 0 <= i /\ i <= N - 1 /\ current <= N - 1 /\ 0 <= current
      BY <1>0 DEF TypeOK, Slot
    <3>4. recorded - base >= N \/ current = recorded - base
      BY <1>0 DEF NotWrapped, Held
    <3>. QED
      BY <1>0, <3>1, <3>2, <3>3, <3>4 DEF Held
  <2>4. RecallIsRecent'
    BY <1>2 DEF Add, RecallIsRecent
  <2>5. NotWrapped'
    BY <1>0, <1>2, <2>1 DEF Add, NotWrapped, Held, TypeOK, Slot
  <2>. QED
    BY <2>2, <2>3, <2>4, <2>5 DEF IInv
<1>3. ASSUME NEW s \in Slot, index' = s, shown' = list[s],
             UNCHANGED <<enable, current, list, recorded, base>>,
             Held >= N \/ s <= current
      PROVE  IInv'
  <2>1. TypeOK'
    BY <1>0, <1>3 DEF TypeOK
  <2>2. RingHoldsLatest'
    BY <1>0, <1>3 DEF RingHoldsLatest, Held
  <2>3. RecallIsRecent'
    <3>1. list[s] = IF s < current THEN recorded - current + s + 1
                    ELSE IF Held >= N THEN recorded - current - N + s + 1
                    ELSE 0
      BY <1>0 DEF RingHoldsLatest
    <3>2. s \in Int /\ 0 <= s /\ s <= N - 1 /\ current <= N - 1 /\ 0 <= current
      BY <1>0 DEF TypeOK, Slot
    <3>3. list[s] # 0 => list[s] > base /\ list[s] <= recorded /\ list[s] > recorded - N
      BY <1>0, <3>1, <3>2 DEF Held, NotWrapped
    <3>. QED
      BY <1>3, <3>3 DEF RecallIsRecent
  <2>4. NotWrapped'
    BY <1>0, <1>3 DEF NotWrapped, Held
  <2>. QED
    BY <2>1, <2>2, <2>3, <2>4 DEF IInv
<1>4. CASE Prev
  <2>1. Before(index) = (IF index = 0 THEN N - 1 ELSE index - 1) /\ Before(index) \in Slot
    BY <1>0, AroundTheRing DEF TypeOK
  <2>2. Held >= N \/ Before(index) <= current
    <3>1. CASE index = 0 /\ Held < N
      <4>1. current \in Slot /\ N - 1 \in Slot /\ list[N - 1] # 0
        BY <1>0, <1>4, <2>1, <3>1 DEF Prev, TypeOK
      <4>2. N - 1 < current \/ Held >= N
        BY <1>0, <4>1 DEF RingHoldsLatest
      <4>. QED
        BY <1>0, <2>1, <3>1, <4>1, <4>2 DEF Slot
    <3>2. CASE index # 0 /\ Held < N
      BY <1>0, <2>1, <3>2 DEF NotWrapped, TypeOK, Slot, Held
    <3>. QED
      BY <1>0, <3>1, <3>2 DEF Held
  <2>. QED
    BY <1>3, <1>4, <2>1, <2>2 DEF Prev
<1>5. CASE NextLine
  <2>1. After(index) = (IF index = N - 1 THEN 0 ELSE index + 1) /\ After(index) \in Slot
    BY <1>0, AroundTheRing DEF TypeOK
  <2>2. Held >= N \/ After(index) <= current
    BY <1>0, <1>5, <2>1 DEF NextLine, NotWrapped, TypeOK, Slot, Held
  <2>. QED
    BY <1>3, <1>5, <2>1, <2>2 DEF NextLine
<1>6. CASE NoNext
  BY <1>0, <1>6 DEF NoNext, IInv, TypeOK, RingHoldsLatest, RecallIsRecent, NotWrapped, Held
<1>7. CASE NoPrev \/ UNCHANGED ringVars
  BY <1>0, <1>7
  DEF NoPrev, ringVars, IInv, TypeOK, RingHoldsLatest, RecallIsRecent, NotWrapped, Held
<1>. QED
  BY <1>1, <1>2, <1>4, <1>5, <1>6, <1>7 DEF RingNext

LEMMA Inductive == RingSpec => []IInv
BY InitInv, StepInv, PTL DEF RingSpec

\* struct history is well formed in every reachable state.
THEOREM RingTypeCorrect == RingSpec => []TypeOK
<1>1. IInv => TypeOK
  BY DEF IInv
<1>. QED
  BY <1>1, Inductive, PTL

\* The slots hold the last N lines in order, however often the ring has wrapped.
THEOREM RingCorrect == RingSpec => []RingHoldsLatest
<1>1. IInv => RingHoldsLatest
  BY DEF IInv
<1>. QED
  BY <1>1, Inductive, PTL

\* A recall never returns a line that was overwritten or cleared.
THEOREM RecallCorrect == RingSpec => []RecallIsRecent
<1>1. IInv => RecallIsRecent
  BY DEF IInv
<1>. QED
  BY <1>1, Inductive, PTL

-----------------------------------------------------------------------------
(* The ring implements HistoryList. *)

Age == IF shown = 0 THEN 0 ELSE recorded - shown + 1

LEMMA InitPromise == Init => Promise!Init
BY DEF Init, Promise!Init, Held, Back

LEMMA BackRange ==
  ASSUME IInv
  PROVE  /\ Back \in 0..(N - 1) /\ Held \in Nat
         /\ Back = 0 <=> index = current
         /\ Held < N => index <= current /\ current = Held
BY HistoryAssumption DEF IInv, TypeOK, Slot, NotWrapped, Held, Back

LEMMA StepPromise ==
  ASSUME IInv, [RingNext]_ringVars
  PROVE  [Promise!Next]_(Promise!vars)
<1>0. /\ N \in Nat \ {0} /\ current \in Slot /\ index \in Slot
      /\ recorded \in Nat /\ base \in Nat /\ base <= recorded
      /\ shown \in Nat /\ shown <= recorded
      /\ Back \in 0..(N - 1) /\ Held \in Nat
  BY HistoryAssumption, BackRange DEF IInv, TypeOK, RecallIsRecent
<1>1. ASSUME NEW e \in BOOLEAN, SetEnable(e) PROVE Promise!Switch
  BY <1>0, <1>1 DEF SetEnable, Clear, Promise!Switch, Held, Back, IInv, TypeOK
<1>2. CASE Add
  <2>1. /\ Held' = Held + 1 /\ Back' = 0 /\ shown' = 0 /\ enable' = enable /\ enable
    BY <1>0, <1>2, AroundTheRing DEF Add, Held, Back, Slot
  <2>. QED
    BY <2>1 DEF Promise!Enter, Promise!Next
<1>3. CASE Prev
  <2>1. /\ enable /\ UNCHANGED <<enable, current, list, recorded, base>>
        /\ index' = Before(index) /\ shown' = list[Before(index)] /\ list[Before(index)] # 0
        /\ Before(index) = (IF index = 0 THEN N - 1 ELSE index - 1) /\ Before(index) \in Slot
    BY <1>0, <1>3, AroundTheRing DEF Prev
  <2>2. list[Before(index)] =
          IF Before(index) < current THEN recorded - current + Before(index) + 1
          ELSE IF Held >= N THEN recorded - current - N + Before(index) + 1
          ELSE 0
    BY <2>1 DEF IInv, RingHoldsLatest
  <2>3. Held < N => index <= current /\ current = Held
    BY BackRange
  <2>4. Back' = IF Held >= N /\ Back + 1 = N THEN 0 ELSE Back + 1
    BY <1>0, <2>1, <2>2, <2>3 DEF Back, Slot
  <2>5. recorded - list[Before(index)] + 1 = Back + 1
    BY <1>0, <2>1, <2>2, <2>3 DEF Back, Slot
  <2>6. Back < Held
    BY <1>0, <2>1, <2>2, <2>3 DEF Back, Slot
  <2>. QED
    BY <1>0, <2>1, <2>4, <2>5, <2>6 DEF Promise!Older, Promise!Full, Promise!Next, Held
<1>4. CASE NextLine
  <2>1. /\ enable /\ UNCHANGED <<enable, current, list, recorded, base>> /\ index # current
        /\ index' = After(index) /\ shown' = list[After(index)]
        /\ After(index) = (IF index = N - 1 THEN 0 ELSE index + 1) /\ After(index) \in Slot
    BY <1>0, <1>4, AroundTheRing DEF NextLine
  <2>2. list[After(index)] =
          IF After(index) < current THEN recorded - current + After(index) + 1
          ELSE IF Held >= N THEN recorded - current - N + After(index) + 1
          ELSE 0
    BY <2>1 DEF IInv, RingHoldsLatest
  <2>3. Held < N => index <= current /\ current = Held
    BY BackRange
  <2>4. Back > 0 /\ Back' = Back - 1
    BY <1>0, <2>1, <2>3 DEF Back, Slot
  <2>5. Age' = IF Back = 1 /\ Held >= N THEN N ELSE Back - 1
    <3>1. CASE Back = 1
      BY <1>0, <2>1, <2>2, <2>3, <3>1 DEF Back, Slot, Age, Held
    <3>2. CASE Back # 1
      BY <1>0, <2>1, <2>2, <2>3, <2>4, <3>2 DEF Back, Slot, Age, Held
    <3>. QED
      BY <3>1, <3>2
  <2>. QED
    BY <1>0, <2>1, <2>4, <2>5 DEF Promise!Newer, Promise!Full, Promise!Next, Held, Age
<1>5. CASE NoNext
  <2>1. Back = 0 /\ Back' = 0 /\ Held' = Held /\ shown' = 0 /\ enable /\ enable' = enable
    BY <1>0, <1>5 DEF NoNext, Back, Held, Slot
  <2>. QED
    BY <2>1 DEF Promise!Newer, Promise!Next
<1>6. CASE NoPrev \/ UNCHANGED ringVars
  BY <1>6 DEF NoPrev, ringVars, Promise!vars, Held, Back
<1>. QED
  BY <1>1, <1>2, <1>3, <1>4, <1>5, <1>6 DEF RingNext, Promise!Next

\* The ring keeps the promise of HistoryList for any N: the k-th key up shows the
\* k-th newest line.
THEOREM RingImplementsList == RingSpec => KeepsPromise
<1>1. Init => Promise!Init
  BY InitPromise
<1>2. IInv /\ [RingNext]_ringVars => [Promise!Next]_(Promise!vars)
  BY StepPromise
<1>. QED
  BY <1>1, <1>2, Inductive, PTL DEF RingSpec, KeepsPromise, Promise!Spec

-----------------------------------------------------------------------------
(* LineEditor. *)

\* What a turn of the loop relies on: the line read so far fits with room for one
\* more character, and the screen shows it.
Fits == phase = "reading" => Len(input) < MaxInput
Echoed ==
  /\ phase = "idle" => input = <<>> /\ screen = <<>>
  /\ phase = "reading" => screen = input
  /\ phase = "leave" => screen = input \/ (screen = <<>> /\ input = <<NewLine>>)

EInv == IInv /\ EditorTypeOK /\ Fits /\ Echoed

LEMMA TextIsSeq ==
  ASSUME NEW s \in Text
  PROVE  s \in Seq(Char \cup {NewLine}) /\ Len(s) <= MaxInput
<1>1. PICK n \in 0..MaxInput : s \in [1..n -> Char \cup {NewLine}]
  BY DEF Text
<1>. QED
  BY <1>1, EditorAssumption

LEMMA SeqIsText ==
  ASSUME NEW s \in Seq(Char \cup {NewLine}), Len(s) <= MaxInput
  PROVE  s \in Text
<1>1. Len(s) \in 0..MaxInput /\ s \in [1..Len(s) -> Char \cup {NewLine}]
  BY EditorAssumption
<1>. QED
  BY <1>1 DEF Text

LEMMA ShortTexts == <<>> \in Text /\ <<NewLine>> \in Text
<1>1. /\ <<>> \in Seq(Char \cup {NewLine}) /\ Len(<<>>) <= MaxInput
      /\ <<NewLine>> \in Seq(Char \cup {NewLine}) /\ Len(<<NewLine>>) <= MaxInput
  BY EditorAssumption
<1>. QED
  BY <1>1, SeqIsText

LEMMA EditorInitInv == EditorInit => EInv
<1> SUFFICES ASSUME EditorInit PROVE EInv
  OBVIOUS
<1>1. IInv
  BY InitInv DEF EditorInit
<1>2. <<>> \in Text
  BY ShortTexts
<1>3. EditorTypeOK
  BY <1>1, <1>2 DEF EditorInit, EditorTypeOK, IInv
<1>. QED
  BY <1>1, <1>3 DEF EInv, EditorInit, Fits, Echoed

\* Every step of the editor is a step of the history or leaves it alone.
LEMMA EditorUsesRing ==
  ASSUME [EditorNext]_vars
  PROVE  [RingNext]_ringVars
<1>1. ASSUME NEW k \in Key, Handle(k) PROVE [RingNext]_ringVars
  BY <1>1 DEF Handle, Enter, Erase, Escape, Insert, Swallow, RecallUp, RecallDown, RingNext
<1>2. ASSUME Return PROVE [RingNext]_ringVars
  BY <1>2 DEF Return, RingNext
<1>3. ASSUME Switch PROVE [RingNext]_ringVars
  BY <1>3 DEF Switch, RingNext
<1>4. ASSUME Call \/ ReadError \/ UNCHANGED vars PROVE [RingNext]_ringVars
  BY <1>4 DEF Call, ReadError, vars
<1>. QED
  BY <1>1, <1>2, <1>3, <1>4 DEF EditorNext, ReadKey, ReadEnd

\* A turn of the loop, whatever the key.
LEMMA TurnInv ==
  ASSUME EInv, IInv', phase = "reading", NEW k \in Key, c' = k, Handle(k), UNCHANGED text
  PROVE  EditorTypeOK' /\ Fits' /\ Echoed'
<1>0. /\ MaxInput \in Nat \ {0} /\ TypeOK' /\ index' \in Slot
      /\ input \in Seq(Char \cup {NewLine}) /\ Len(input) < MaxInput /\ screen = input
      /\ text \in [Slot -> Text] /\ esc \in BOOLEAN
  BY EditorAssumption, TextIsSeq DEF EInv, IInv, EditorTypeOK, Fits, Echoed, TypeOK
<1>1. ASSUME input' \in Text, esc' \in BOOLEAN, phase' = "reading" => Len(input') < MaxInput,
             phase' \in {"reading", "leave"},
             screen' = input' \/ (phase' = "leave" /\ screen' = <<>> /\ input' = <<NewLine>>)
      PROVE  EditorTypeOK' /\ Fits' /\ Echoed'
  <2>1. <<>> \in Text
    BY ShortTexts
  <2>2. EditorTypeOK'
    BY <1>0, <1>1, <2>1 DEF EditorTypeOK
  <2>. QED
    BY <1>1, <2>2 DEF Fits, Echoed
<1>2. ASSUME NEW s \in Text, Show(s), esc' \in BOOLEAN
      PROVE  EditorTypeOK' /\ Fits' /\ Echoed'
  <2>1. s \in Seq(Char \cup {NewLine}) /\ Len(s) <= MaxInput
    BY TextIsSeq
  <2>2. input' = s /\ screen' = s /\ phase' = Loop(s)
    BY <1>0, <1>2, <2>1 DEF Show
  <2>. QED
    BY <1>0, <1>1, <1>2, <2>1, <2>2 DEF Loop
<1>3. ASSUME UNCHANGED <<phase, input, screen>>, esc' \in BOOLEAN
      PROVE  EditorTypeOK' /\ Fits' /\ Echoed'
  BY <1>0, <1>1, <1>3, SeqIsText
<1>4. CASE Enter(k)
  <2>1. input' \in Text
    BY <1>0, <1>4, SeqIsText, ShortTexts DEF Enter
  <2>2. screen' = input' \/ (screen' = <<>> /\ input' = <<NewLine>>)
    BY <1>0, <1>4 DEF Enter
  <2>. QED
    BY <1>1, <1>4, <2>1, <2>2 DEF Enter
<1>5. CASE Erase(k)
  <2>1. CASE input = <<>>
    BY <1>0, <1>3, <1>5, <2>1 DEF Erase
  <2>2. CASE input # <<>>
    <3>1. /\ Front(input) \in Seq(Char \cup {NewLine}) /\ Len(Front(input)) < MaxInput
          /\ input' = Front(input) /\ screen' = input' /\ phase' = "reading" /\ esc' = FALSE
      BY <1>0, <1>5, <2>2 DEF Erase, Front
    <3>2. Front(input) \in Text
      BY <1>0, <3>1, SeqIsText
    <3>. QED
      BY <1>1, <3>1, <3>2
  <2>. QED
    BY <2>1, <2>2
<1>6. CASE Escape(k)
  BY <1>3, <1>6 DEF Escape
<1>7. CASE Insert(k)
  <2>1. /\ input' = Append(input, k) /\ screen' = input' /\ esc' \in BOOLEAN
        /\ input' \in Seq(Char \cup {NewLine}) /\ Len(input') = Len(input) + 1
        /\ phase' = Loop(input')
    BY <1>0, <1>7 DEF Insert
  <2>2. input' \in Text
    <3>1. Len(input') <= MaxInput
      BY <1>0, <2>1
    <3>. QED
      BY <2>1, <3>1, SeqIsText
  <2>. QED
    BY <1>0, <1>1, <2>1, <2>2 DEF Loop
<1>8. CASE Swallow(k)
  BY <1>0, <1>3, <1>8 DEF Swallow
<1>9. CASE RecallUp(k)
  BY <1>0, <1>2, <1>3, <1>9 DEF RecallUp
<1>10. CASE RecallDown(k)
  <2>1. <<>> \in Text /\ text[index'] \in Text
    BY <1>0, ShortTexts
  <2>. QED
    BY <1>0, <1>2, <1>3, <1>10, <2>1 DEF RecallDown
<1>. QED
  BY <1>4, <1>5, <1>6, <1>7, <1>8, <1>9, <1>10 DEF Handle

LEMMA EditorStepInv ==
  ASSUME EInv, [EditorNext]_vars
  PROVE  EInv'
<1>1. IInv'
  BY EditorUsesRing, StepInv DEF EInv
<1>2. TypeOK'
  BY <1>1 DEF IInv
<1>3. ASSUME NEW k \in Key, ReadKey(k) PROVE EInv'
  BY <1>1, <1>3, TurnInv DEF EInv, ReadKey
<1>4. CASE ReadEnd
  BY <1>1, <1>4, TurnInv DEF EInv, ReadEnd
<1>5. CASE Return
  <2>1. <<>> \in Text
    BY ShortTexts
  <2>2. text' \in [Slot -> Text]
    BY <1>5 DEF Return, EInv, EditorTypeOK
  <2>3. EditorTypeOK'
    BY <1>2, <1>5, <2>1, <2>2 DEF Return, EditorTypeOK
  <2>. QED
    BY <1>1, <1>5, <2>3 DEF Return, EInv, Fits, Echoed
<1>6. CASE Call
  BY <1>1, <1>2, <1>6, EditorAssumption DEF Call, EInv, EditorTypeOK, Fits, Echoed
<1>7. CASE ReadError
  BY <1>1, <1>2, <1>7 DEF ReadError, EInv, EditorTypeOK, Fits, Echoed
<1>8. CASE Switch
  BY <1>1, <1>2, <1>8 DEF Switch, editVars, EInv, EditorTypeOK, Fits, Echoed
<1>9. CASE UNCHANGED vars
  BY <1>1, <1>2, <1>9 DEF vars, editVars, EInv, EditorTypeOK, Fits, Echoed
<1>. QED
  BY <1>3, <1>4, <1>5, <1>6, <1>7, <1>8, <1>9 DEF EditorNext

LEMMA EditorInductive == EditorSpec => []EInv
BY EditorInitInv, EditorStepInv, PTL DEF EditorSpec

\* The buffer never holds more than MAX_INPUT_BUFF_SIZE characters, nor the history
\* a longer line, for any keys, recalls and ends of input.
THEOREM EditorTypeCorrect == EditorSpec => []EditorTypeOK
<1>1. EInv => EditorTypeOK
  BY DEF EInv
<1>. QED
  BY <1>1, EditorInductive, PTL

\* The echo never drifts from the buffer.
THEOREM EchoCorrect == EditorSpec => []ScreenIsInput
<1>1. EInv => ScreenIsInput
  BY DEF EInv, EditorTypeOK, Echoed, ScreenIsInput
<1>. QED
  BY <1>1, EditorInductive, PTL

LEMMA StepIsSeen ==
  ASSUME EInv, [EditorNext]_vars, text' # text
  PROVE  /\ enable /\ screen # <<>>
         /\ text' = [text EXCEPT ![current] = screen]
         /\ list'[current] = recorded'
<1>1. Return /\ enable /\ Worth(input)
  BY DEF EditorNext, ReadKey, ReadEnd, ReadError, Return, Call, Switch, vars, editVars
<1>2. screen = input /\ input # <<>>
  BY <1>1 DEF EInv, Echoed, Return, Worth
<1>3. list' = [list EXCEPT ![current] = recorded + 1] /\ recorded' = recorded + 1
  BY <1>1 DEF Return, Add
<1>4. current \in Slot /\ list \in [Slot -> Nat]
  BY DEF EInv, IInv, TypeOK
<1>. QED
  BY <1>1, <1>2, <1>3, <1>4 DEF Return

\* A line enters the history as the user saw it, in the slot of the oldest.
THEOREM HistoryCorrect == EditorSpec => HistoryIsSeen
<1>1. EInv /\ [EditorNext]_vars =>
        [text' # text =>
           /\ enable /\ screen # <<>>
           /\ text' = [text EXCEPT ![current] = screen]
           /\ list'[current] = recorded']_vars
  BY StepIsSeen DEF vars, editVars
<1>. QED
  BY <1>1, EditorInductive, PTL DEF EditorSpec, HistoryIsSeen

-----------------------------------------------------------------------------
(* Console. *)

\* The editor works only while the shell waits for it, and the history of a shell
\* that runs is on.
InStep ==
  /\ shell \in {"off", "ready", "top", "in", "exec", "done", "no shell"}
  /\ shell # "in" => phase = "idle"
  /\ shell \in {"ready", "top", "in", "exec"} => enable
  /\ in_buf \in [Cells -> Char \cup {NewLine, "nul", "junk"}]

\* The line to execute, cell by cell.
Ready ==
  shell = "exec" =>
    /\ seen \in Text /\ seen # <<>>
    /\ \A i \in 1..Len(seen) : in_buf[i] = seen[i]
    /\ \A i \in 1..Len(seen) : seen[i] # "nul"
    /\ in_buf[Len(seen) + 1] = "nul"
    /\ text[Before(current)] = seen

CInv == EInv /\ InStep /\ Ready

\* The first NUL of the buffer ends the C string.
LEMMA StringEnds ==
  ASSUME NEW s \in Text,
         \A i \in 1..Len(s) : in_buf[i] = s[i],
         \A i \in 1..Len(s) : s[i] # "nul",
         in_buf[Len(s) + 1] = "nul"
  PROVE  Line = s
<1> DEFINE S == {i \in Cells : in_buf[i] = "nul"}
<1>0. s \in Seq(Char \cup {NewLine}) /\ Len(s) <= MaxInput /\ MaxInput \in Nat
  BY TextIsSeq, EditorAssumption
<1>1. Len(s) + 1 \in S
  BY <1>0 DEF Cells
<1>2. \A i \in S : Len(s) + 1 <= i
  BY <1>0 DEF Cells
<1>3. Min(S) = Len(s) + 1
  <2>1. \A i \in S : (\A j \in S : i <= j) => i = Len(s) + 1
    BY <1>0, <1>1, <1>2 DEF Cells
  <2>. HIDE DEF S
  <2>2. Min(S) \in S /\ \A j \in S : Min(S) <= j
    BY <1>1, <1>2 DEF Min
  <2>. QED
    BY <2>1, <2>2
<1>4. Line = [i \in 1..(Len(s) + 1) - 1 |-> in_buf[i]]
  BY <1>3 DEF Line
<1>5. Line = [i \in 1..Len(s) |-> s[i]]
  BY <1>0, <1>4
<1>. QED
  BY <1>0, <1>5

LEMMA ConsoleInitInv == ConsoleInit => CInv
<1> SUFFICES ASSUME ConsoleInit PROVE CInv
  OBVIOUS
<1>1. EInv
  BY EditorInitInv DEF ConsoleInit
<1>. QED
  BY <1>1 DEF CInv, ConsoleInit, EditorInit, InStep, Ready

\* Every step of the console is a step of the editor or leaves it alone.
LEMMA ConsoleStepUsesEditor ==
  ASSUME CInv, [ConsoleNext]_consoleVars
  PROVE  [EditorNext]_vars
<1>1. ASSUME Opened, shell = "off" PROVE EditorNext
  BY <1>1 DEF Opened, CInv, InStep, EditorNext, Switch
<1>2. CASE SetUpConsole \/ SetUpXtty
  BY <1>1, <1>2 DEF SetUpConsole, SetUpXtty
<1>3. CASE Top \/ Start \/ Exec \/ UNCHANGED consoleVars
  BY <1>3 DEF Top, Start, Exec, EditorNext, consoleVars
<1>4. CASE Edit \/ GotLine
  BY <1>4 DEF Edit, GotLine, EditorNext
<1>. QED
  BY <1>2, <1>3, <1>4 DEF ConsoleNext

LEMMA ConsoleStepInv ==
  ASSUME CInv, [ConsoleNext]_consoleVars
  PROVE  CInv'
<1>1. EInv /\ EInv'
  BY ConsoleStepUsesEditor, EditorStepInv DEF CInv
<1>2. CASE SetUpConsole \/ SetUpXtty
  BY <1>1, <1>2
  DEF SetUpConsole, SetUpXtty, Opened, SetEnable, vars, editVars, ringVars, CInv, InStep, Ready
<1>3. CASE Start
  BY <1>1, <1>3 DEF Start, vars, editVars, ringVars, CInv, InStep, Ready
<1>4. CASE Top
  BY <1>1, <1>4 DEF Top, Call, vars, editVars, ringVars, CInv, InStep, Ready
<1>5. CASE Edit
  <2>1. enable' = enable
    BY <1>5 DEF Edit, ReadKey, ReadEnd, ReadError, Handle, Enter, Erase, Escape, Insert,
                Swallow, RecallUp, RecallDown, Prev, NoPrev, NextLine, NoNext, ringVars
  <2>. QED
    BY <1>1, <1>5, <2>1 DEF Edit, shellVars, CInv, InStep, Ready
<1>6. CASE Exec
  BY <1>1, <1>6 DEF Exec, vars, editVars, ringVars, CInv, InStep, Ready
<1>7. CASE UNCHANGED consoleVars
  BY <1>1, <1>7 DEF consoleVars, shellVars, vars, editVars, ringVars, CInv, InStep, Ready
<1>8. CASE GotLine
  <2>0. /\ MaxInput \in Nat \ {0} /\ input \in Seq(Char \cup {NewLine})
        /\ Len(input) <= MaxInput /\ input \in Text /\ phase = "leave" /\ enable
        /\ in_buf \in [Cells -> Char \cup {NewLine, "nul", "junk"}]
    BY <1>8, EditorAssumption, TextIsSeq
    DEF GotLine, Return, CInv, EInv, EditorTypeOK, InStep
  <2>1. Copied \in [Cells -> Char \cup {NewLine, "nul", "junk"}]
    BY <2>0 DEF Copied, Cells
  <2>2. /\ shell' \in {"top", "exec"} /\ phase' = "idle" /\ enable' = enable
        /\ in_buf' \in [Cells -> Char \cup {NewLine, "nul", "junk"}]
    BY <1>8, <2>0, <2>1 DEF GotLine, Return, Terminated, Add, ringVars
  <2>3. InStep'
    BY <2>0, <2>2 DEF InStep
  <2>4. Ready'
    <3> SUFFICES ASSUME shell' = "exec" PROVE Ready'
      BY DEF Ready
    <3>1. input # <<>> /\ Copied[1] # NewLine /\ in_buf' = Terminated(Len(input))
      BY <1>8 DEF GotLine
    <3>2. Len(input) >= 1 /\ input[1] # NewLine
      BY <2>0, <3>1 DEF Copied, Cells
    <3>3. seen' = input /\ Worth(input)
      BY <1>8, <2>0, <3>2 DEF GotLine, Worth, CInv, EInv, Echoed
    <3>4. /\ text' = [text EXCEPT ![current] = input] /\ current' = After(current)
          /\ text \in [Slot -> Text] /\ current \in Slot
      BY <1>8, <2>0, <3>3 DEF GotLine, Return, Add, CInv, EInv, IInv, EditorTypeOK, TypeOK
    <3>5. Before(current') = current
      <4>1. /\ After(current) = IF current = N - 1 THEN 0 ELSE current + 1
            /\ After(current) \in Slot
        BY <3>4, AroundTheRing
      <4>2. Before(After(current)) = IF After(current) = 0 THEN N - 1 ELSE After(current) - 1
        BY <4>1, AroundTheRing
      <4>. QED
        BY <3>4, <4>1, <4>2, HistoryAssumption DEF Slot
    <3>6. \A i \in 1..Len(input) : in_buf'[i] = input[i]
      BY <2>0, <2>1, <3>1 DEF Terminated, Copied, Cells
    <3>7. in_buf'[Len(input) + 1] = "nul"
      BY <2>0, <2>1, <3>1 DEF Terminated, Cells
    <3>8. \A i \in 1..Len(input) : input[i] # "nul"
      BY <2>0, ConsoleAssumption DEF Char, NewLine
    <3>. QED
      BY <2>0, <3>2, <3>3, <3>4, <3>5, <3>6, <3>7, <3>8 DEF Ready
  <2>. QED
    BY <1>1, <2>3, <2>4 DEF CInv
<1>. QED
  BY <1>2, <1>3, <1>4, <1>5, <1>6, <1>7, <1>8 DEF ConsoleNext

LEMMA ConsoleInductive == ConsoleSpec => []CInv
BY ConsoleInitInv, ConsoleStepInv, PTL DEF ConsoleSpec

\* What the shell executes is what the user saw, and what the next arrow key up
\* brings back.
THEOREM ConsoleCorrect == ConsoleSpec => []RunsWhatIsSeen
<1>1. CInv => RunsWhatIsSeen
  BY StringEnds DEF CInv, Ready, RunsWhatIsSeen
<1>. QED
  BY <1>1, ConsoleInductive, PTL

\* The shell uses the line editor the way its specification asks, so that every
\* theorem about the editor holds at the console.
THEOREM ConsoleUsesEditor == ConsoleSpec => EditorSpec
<1>1. ConsoleInit => EditorInit
  BY DEF ConsoleInit
<1>2. CInv /\ [ConsoleNext]_consoleVars => [EditorNext]_vars
  BY ConsoleStepUsesEditor
<1>. QED
  BY <1>1, <1>2, ConsoleInductive, PTL DEF ConsoleSpec, EditorSpec
=============================================================================
