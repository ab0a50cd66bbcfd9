------------------------------ MODULE LineEditor ------------------------------
(***************************************************************************)
(* ih_read_line of ihome/input_helper.c: reading a line key by key from a  *)
(* terminal in raw mode, echoing it, and recalling lines of the history.   *)
(***************************************************************************)
EXTENDS HistoryRing, SequencesExt

CONSTANTS
  MaxInput,  \* MAX_INPUT_BUFF_SIZE
  Plain      \* printable characters with no other meaning

ASSUME EditorAssumption ==
  /\ MaxInput \in Nat \ {0}
  /\ Plain \cap {"[", "A", "B", "enter", "delete", "esc", "ctrl", "any", "newline"} = {}

Char    == Plain \cup {"[", "A", "B"}
Key     == Char \cup {"enter", "delete", "esc", "ctrl"}
NewLine == "newline"

VARIABLES
  phase,     \* "idle", "reading", or "leave" once the loop is over
  input,     \* the first r_len characters of ih->input
  esc,       \* esc_pressed
  c,         \* the last byte read, "any" while uninitialised
  screen,    \* what the terminal shows of the line
  text       \* the string each slot of the history points at

editVars == <<phase, input, esc, c, screen, text>>
vars     == <<ringVars, editVars>>

Text == UNION {[1..n -> Char \cup {NewLine}] : n \in 0..MaxInput}

EditorTypeOK ==
  /\ TypeOK
  /\ phase \in {"idle", "reading", "leave"}
  /\ input \in Text
  /\ esc \in BOOLEAN
  /\ c \in Key \cup {"any"}
  /\ screen \in Text
  /\ text \in [Slot -> Text]

EditorInit ==
  /\ Init
  /\ phase = "idle"
  /\ input = <<>> /\ screen = <<>>
  /\ esc = FALSE
  /\ c = "any"
  /\ text = [i \in Slot |-> <<>>]

-----------------------------------------------------------------------------
(* One turn of the loop of __read_line, for key k. *)

\* the loop's condition, once the line is s
Loop_TooLate(s) == IF Len(s) <= MaxInput THEN "reading" ELSE "leave"
Loop(s) == IF Len(s) < MaxInput THEN "reading" ELSE "leave"

Enter(k) ==
  /\ k = "enter"
  /\ esc' = FALSE
  /\ input' = IF input = <<>> THEN <<NewLine>> ELSE input
  /\ phase' = "leave"
  /\ UNCHANGED <<screen, ringVars>>

Erase_AlwaysEcho(k) ==
  /\ k = "delete"
  /\ esc' = FALSE
  /\ input' = IF input = <<>> THEN <<>> ELSE Front(input)
  /\ UNCHANGED <<phase, screen, ringVars>>
Erase(k) ==
  /\ k = "delete"
  /\ esc' = FALSE
  /\ input' = IF input = <<>> THEN <<>> ELSE Front(input)
  /\ screen' = IF input = <<>> THEN screen ELSE Front(screen)
  /\ UNCHANGED <<phase, ringVars>>

Escape(k) ==
  /\ k = "esc"
  /\ esc' = TRUE
  /\ UNCHANGED <<phase, input, screen, ringVars>>

Insert(k) ==
  /\ k \in Char /\ ~esc
  /\ input' = Append(input, k)
  /\ screen' = Append(screen, k)
  /\ phase' = Loop(input')
  /\ UNCHANGED <<esc, ringVars>>

\* '[' leaves esc_pressed set; any other key but 'A' and 'B' clears it
Swallow(k) ==
  /\ \/ k = "[" /\ esc /\ UNCHANGED esc
     \/ k \in Plain /\ esc /\ esc' = FALSE
     \/ k = "ctrl" /\ esc' = FALSE
  /\ UNCHANGED <<phase, input, screen, ringVars>>

\* replace the edited line by s: __remove_char(r_len), then write
Show_OverOld(s) ==
  /\ input' = s
  /\ screen' = s \o SubSeq(screen, Len(s) + 1, Len(screen))
  /\ phase' = Loop(s)
Show(s) ==
  /\ input' = s
  /\ screen' = SubSeq(screen, 1, Len(screen) - Len(input)) \o s
  /\ phase' = Loop(s)

RecallUp(k) ==
  /\ k = "A" /\ esc
  /\ \/ Prev /\ Show(text[index'])
     \/ (NoPrev \/ ~enable) /\ UNCHANGED <<phase, input, screen, ringVars>>
  /\ UNCHANGED esc

RecallDown(k) ==
  /\ k = "B" /\ esc
  /\ \/ (NextLine \/ NoNext) /\ Show(IF shown' = 0 THEN <<>> ELSE text[index'])
     \/ ~enable /\ UNCHANGED <<phase, input, screen, ringVars>>
  /\ UNCHANGED esc

Handle(k) ==
  \/ Enter(k) \/ Erase(k) \/ Escape(k) \/ Insert(k) \/ Swallow(k)
  \/ RecallUp(k) \/ RecallDown(k)

\* the user pressed k
ReadKey(k) ==
  /\ phase = "reading"
  /\ c' = k
  /\ Handle(k)
  /\ UNCHANGED text

\* End of input: read() returns 0 and leaves c as it was, which the loop takes
\* for a key again; c is not initialised before the first key.
ReadEnd ==
  /\ phase = "reading"
  /\ \E k \in Key :
       /\ c \in {k, "any"}
       /\ c' = k
       /\ Handle(k)
  /\ UNCHANGED text

ReadError ==
  /\ phase = "reading"
  /\ phase' = "leave"
  /\ UNCHANGED <<ringVars, input, esc, c, screen, text>>

-----------------------------------------------------------------------------
(* The call and its return. *)

Call ==
  /\ phase = "idle"
  /\ phase' = "reading"
  /\ UNCHANGED <<ringVars, input, esc, c, screen, text>>

\* __record_history: neither an empty line nor one without text
Worth(s) == s # <<>> /\ s # <<NewLine>>

\* The line is copied to the caller's buffer (the callers' buffers are twice
\* MAX_INPUT_BUFF_SIZE) and recorded; the next call starts afresh.
Return ==
  /\ phase = "leave"
  /\ phase' = "idle"
  /\ IF enable /\ Worth(input)
     THEN Add /\ text' = [text EXCEPT ![current] = input]
     ELSE UNCHANGED <<ringVars, text>>
  /\ input' = <<>> /\ screen' = <<>>
  /\ esc' = FALSE /\ c' = "any"

\* ih_enable_history_input and ih_disable_history_input, between two lines
Switch ==
  /\ phase = "idle"
  /\ \E e \in BOOLEAN : SetEnable(e)
  /\ UNCHANGED editVars

EditorNext == Call \/ ReadEnd \/ ReadError \/ Return \/ Switch \/ \E k \in Key : ReadKey(k)

EditorSpec == EditorInit /\ [][EditorNext]_vars

-----------------------------------------------------------------------------
(* Properties. *)

\* The echo never drifts from the buffer, whatever mix of typing, erasing and
\* recalling led here: the user sees the line that will be executed.
ScreenIsInput ==
  phase # "idle" => screen = input \/ (screen = <<>> /\ input = <<NewLine>>)

\* A line enters the history as it was on the screen, in the slot of the oldest
\* line; one that is recalled and edited leaves the recalled one alone, and blank
\* lines are not kept.
HistoryIsSeen ==
  [][text' # text =>
       /\ enable /\ screen # <<>>
       /\ text' = [text EXCEPT ![current] = screen]
       /\ list'[current] = recorded']_vars
=============================================================================
