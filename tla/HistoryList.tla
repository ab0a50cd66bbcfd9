----------------------------- MODULE HistoryList -----------------------------
(***************************************************************************)
(* What the command history of the line editor promises, without the ring: *)
(* the lines entered since the history was switched on, of which the last  *)
(* N can be recalled.  A line is named by its age: 1 is the newest.        *)
(* With fewer than N lines recall stops at the oldest; with N of them the  *)
(* oldest is followed by the newest, and coming down from the newest shows *)
(* the oldest again.                                                       *)
(***************************************************************************)
EXTENDS Naturals

CONSTANT N  \* lines kept

VARIABLES
  on,       \* the history is switched on
  lines,    \* how many lines were entered since then
  back,     \* steps back from the line being edited
  age       \* age of the line last recalled, 0 for none

vars == <<on, lines, back, age>>

Full == lines >= N

Init == on = FALSE /\ lines = 0 /\ back = 0 /\ age = 0

Switch ==
  /\ on' = ~on
  /\ lines' = 0 /\ back' = 0 /\ age' = 0

Enter ==
  /\ on
  /\ lines' = lines + 1
  /\ back' = 0 /\ age' = 0
  /\ UNCHANGED on

Older ==
  /\ on
  /\ back < lines
  /\ age' = back + 1
  /\ back' = IF Full /\ back + 1 = N THEN 0 ELSE back + 1
  /\ UNCHANGED <<on, lines>>

Newer ==
  /\ on
  /\ \/ /\ back = 0
        /\ age' = 0
        /\ UNCHANGED back
     \/ /\ back > 0
        /\ back' = back - 1
        /\ age' = IF back = 1 /\ Full THEN N ELSE back - 1
  /\ UNCHANGED <<on, lines>>

Next == Switch \/ Enter \/ Older \/ Newer

Spec == Init /\ [][Next]_vars
=============================================================================
