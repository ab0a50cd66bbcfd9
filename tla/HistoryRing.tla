----------------------------- MODULE HistoryRing -----------------------------
(***************************************************************************)
(* The command history of ihome/input_helper.c: struct history, a ring of  *)
(* MAX_HISTORY_NUM slots.  A slot holds the number of a line (lines are    *)
(* numbered as they are recorded), 0 for a NULL pointer.                   *)
(***************************************************************************)
EXTENDS Integers

CONSTANTS
  N,        \* MAX_HISTORY_NUM
  MaxLines  \* bound: lines recorded

ASSUME HistoryAssumption == N \in Nat \ {0} /\ MaxLines \in Nat

VARIABLES
  enable,
  current,  \* slot of the next line
  index,    \* slot of the line last recalled
  list,
  recorded, \* ghost: lines recorded so far
  base,     \* ghost: lines recorded before the history was last cleared
  shown     \* what the last recall returned, 0 for NULL

ringVars == <<enable, current, index, list, recorded, base, shown>>

Slot == 0..(N - 1)

TypeOK ==
  /\ enable \in BOOLEAN
  /\ current \in Slot
  /\ index \in Slot
  /\ list \in [Slot -> Nat]
  /\ recorded \in Nat
  /\ base \in 0..recorded
  /\ shown \in Nat

Init ==
  /\ enable = FALSE
  /\ current = 0 /\ index = 0
  /\ list = [i \in Slot |-> 0]
  /\ recorded = 0 /\ base = 0 /\ shown = 0

\* __history_clear
Clear ==
  /\ list' = [i \in Slot |-> 0]
  /\ current' = 0 /\ index' = 0

\* __history(ih, 1) and __history(ih, 0), when they change the setting
SetEnable(e) ==
  /\ enable # e
  /\ Clear
  /\ enable' = e
  /\ base' = recorded
  /\ shown' = 0
  /\ UNCHANGED recorded

\* the slot before and after one
Before_Unwrapped(i) == IF i = 0 THEN 0 ELSE i - 1
Before(i) == (i + N - 1) % N
After_Short(i) == IF i + 1 >= N - 1 THEN 0 ELSE i + 1
After(i) == (i + 1) % N

\* __history_add, for a line __record_history does not reject
Add ==
  /\ enable
  /\ recorded < MaxLines
  /\ list' = [list EXCEPT ![current] = recorded + 1]
  /\ current' = After(current)
  /\ index' = After(current)
  /\ recorded' = recorded + 1
  /\ shown' = 0
  /\ UNCHANGED <<enable, base>>

\* __history_prev
Prev ==
  LET t == Before(index) IN
  /\ enable
  /\ list[t] # 0
  /\ index' = t
  /\ shown' = list[t]
  /\ UNCHANGED <<enable, current, list, recorded, base>>

NoPrev == enable /\ list[Before(index)] = 0 /\ UNCHANGED ringVars

\* __history_next
NextLine ==
  /\ enable
  /\ index # current
  /\ index' = After(index)
  /\ shown' = list[After(index)]
  /\ UNCHANGED <<enable, current, list, recorded, base>>

NoNext ==
  /\ enable
  /\ index = current
  /\ shown' = 0
  /\ UNCHANGED <<enable, current, index, list, recorded, base>>

RingNext ==
  \/ Add \/ Prev \/ NoPrev \/ NextLine \/ NoNext
  \/ \E e \in BOOLEAN : SetEnable(e)

RingSpec == Init /\ [][RingNext]_ringVars

-----------------------------------------------------------------------------
(* Properties. *)

\* lines the ring can hold now
Held == recorded - base

\* __history_add overwrites exactly the oldest line: the slots hold the last N
\* lines recorded since the history was cleared, in order from current on.
RingHoldsLatest ==
  \A i \in Slot :
    list[i] = IF i < current THEN recorded - current + i + 1
              ELSE IF Held >= N THEN recorded - current - N + i + 1
              ELSE 0

\* A recall returns one of the last N lines recorded since the history was
\* cleared, and index still points at it.
RecallIsRecent ==
  shown # 0 =>
    /\ shown > base /\ shown <= recorded /\ shown > recorded - N
    /\ list[index] = shown

\* How far index is from current, against the direction of recording.
Back == IF index <= current THEN current - index ELSE current - index + N

Promise == INSTANCE HistoryList WITH
  on <- enable,
  lines <- Held,
  back <- Back,
  age <- IF shown = 0 THEN 0 ELSE recorded - shown + 1

\* The ring does what HistoryList promises: the k-th key up shows the k-th newest
\* line, whatever has been overwritten, and a cleared history shows nothing.
KeepsPromise == Promise!Spec
=============================================================================
