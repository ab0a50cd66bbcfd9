-------------------------------- MODULE Console --------------------------------
(***************************************************************************)
(* The shell of ihome at a terminal: shell_run's loop of shell.c, which    *)
(* reads its lines through the line editor into one buffer that it never   *)
(* clears, set up by console_io.c or xtty_io.c.  What a line does is the   *)
(* business of module Shell; here it may or may not call shell_stop.       *)
(***************************************************************************)
EXTENDS LineEditor

\* neither the terminator nor what malloc leaves in a cell can be typed
ASSUME ConsoleAssumption == Plain \cap {"nul", "junk"} = {}

VARIABLES
  shell,   \* "off", "ready", "top" of the loop, "in", "exec", "done" or "no shell"
  stop,
  in_buf,  \* its cells; a NULL is "nul", what malloc left there "junk"
  seen     \* ghost: what the screen showed when the last line was left

shellVars   == <<shell, stop, in_buf, seen>>
consoleVars == <<vars, shellVars>>

\* alloced, which is larger than MAX_INPUT_BUFF_SIZE
Cells == 1..MaxInput + 2

ConsoleInit ==
  /\ EditorInit
  /\ shell = "off" /\ stop = TRUE
  /\ in_buf = [i \in Cells |-> "junk"]
  /\ seen = <<>>

\* the buffers and the history of a terminal, which shell_set_io accepts
Opened ==
  /\ SetEnable(TRUE)
  /\ shell' = "ready"
  /\ UNCHANGED <<editVars, stop, in_buf, seen>>

SetUpConsole == shell = "off" /\ Opened

\* without a pseudo terminal or the link to it get_xtty_io returns NULL, which
\* shell_set_io rejects
SetUpXtty ==
  /\ shell = "off"
  /\ \/ Opened
     \/ shell' = "no shell" /\ UNCHANGED <<vars, stop, in_buf, seen>>

Start ==
  /\ shell = "ready"
  /\ shell' = "top" /\ stop' = FALSE
  /\ UNCHANGED <<vars, in_buf, seen>>

\* the loop's test, the prompt and the call of ih_read_line
Top ==
  /\ shell = "top"
  /\ IF stop THEN shell' = "done" /\ UNCHANGED vars
             ELSE shell' = "in" /\ Call
  /\ UNCHANGED <<stop, in_buf, seen>>

Edit ==
  /\ shell = "in"
  /\ (\E k \in Key : ReadKey(k)) \/ ReadEnd \/ ReadError
  /\ UNCHANGED shellVars

-----------------------------------------------------------------------------

\* strncpy copies the line without a terminator
Copied == [i \in Cells |-> IF i <= Len(input) THEN input[i]
                           ELSE IF i = MaxInput + 2 THEN "nul" ELSE in_buf[i]]

Terminated_Not(len) == Copied
Terminated(len) == [Copied EXCEPT ![len + 1] = "nul"]

\* shell_read_line: an empty line, and one that is a newline, are not executed; a
\* line is, also when it was full or an error left it unfinished
GotLine ==
  /\ shell = "in"
  /\ Return
  /\ seen' = screen
  /\ IF input = <<>> \/ Copied[1] = NewLine
     THEN in_buf' = Copied /\ shell' = "top"
     ELSE in_buf' = Terminated(Len(input)) /\ shell' = "exec"
  /\ UNCHANGED stop

\* shell_exec; a command may call shell_stop
Exec ==
  /\ shell = "exec"
  /\ shell' = "top"
  /\ stop' \in {stop, TRUE}
  /\ UNCHANGED <<vars, in_buf, seen>>

ConsoleNext == SetUpConsole \/ SetUpXtty \/ Start \/ Top \/ Edit \/ GotLine \/ Exec

ConsoleSpec == ConsoleInit /\ [][ConsoleNext]_consoleVars

-----------------------------------------------------------------------------
(* Properties. *)

\* the C string in in_buf
Line ==
  LET end == Min({i \in Cells : in_buf[i] = "nul"}) IN [i \in 1..end - 1 |-> in_buf[i]]

\* A line that is executed is, character for character, what the user saw when it
\* was left, nothing of a longer line before it; and it is the line that the next
\* arrow key up will bring back.
RunsWhatIsSeen ==
  shell = "exec" => Line = seen /\ seen # <<>> /\ text[Before(current)] = Line
=============================================================================
