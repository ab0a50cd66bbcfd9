--------------------------------- MODULE Shell ---------------------------------
(***************************************************************************)
(* The ihome command line interface: shell.c's loop, which reads lines and *)
(* has command.c split and execute them, with the commands that            *)
(* ihome_command.c installs.  Characters are their codes.                  *)
(***************************************************************************)
EXTENDS CommandList, Ascending

CONSTANTS
  Lines,     \* the lines that may be typed
  MaxRan,    \* bound: lines executed
  MaxArgc    \* max_argc

command_ok_char(c) == c \in 33..126
Question == <<63>>                    \* "?"

ASSUME ShellAssumption ==
  /\ Lines \subseteq Seq(Nat) \ {<<>>} /\ MaxRan \in Nat
  /\ MaxArgc \in Nat \ {0}
  /\ Name \subseteq Seq({c \in Int : command_ok_char(c)}) \ {<<>>}
  /\ Exec = {"show", "quit"}

VARIABLES
  phase,   \* "init", "top" of the loop, "read", "exec", or out of it: "done", "no shell"
  stop,
  in_buf,  \* the line read last
  ran      \* the lines executed and what came of them

shellVars == <<phase, stop, in_buf, ran>>
vars      == <<listVars, shellVars>>

TypeOK ==
  /\ ListTypeOK
  /\ phase \in {"init", "top", "read", "exec", "done", "no shell"}
  /\ stop \in BOOLEAN
  /\ in_buf \in Lines \cup {<<>>}
  /\ ran \in Seq([line : Lines, argv : Seq(Seq(Nat)), what : {"invalid", "help", "run", "unknown"},
                  id : 0..MaxInstalled])

Init ==
  /\ ListInit
  /\ phase = "init" /\ stop = TRUE
  /\ in_buf = <<>> /\ ran = <<>>

-----------------------------------------------------------------------------
(* ihome_shell_init. *)

Install ==
  /\ phase = "init"
  /\ \E cmd \in Command : command_install(cmd)
  /\ UNCHANGED shellVars

\* no terminal, or a command without a function
InitFails ==
  /\ phase = "init"
  /\ phase' = "no shell"
  /\ UNCHANGED <<listVars, stop, in_buf, ran>>

-----------------------------------------------------------------------------
(* shell_run. *)

Start ==
  /\ phase = "init"
  /\ phase' = "top" /\ stop' = FALSE
  /\ UNCHANGED <<listVars, in_buf, ran>>

\* `for (stop = 0; !stop;)' with its first part done by every turn
Top_Restarts ==
  /\ phase = "top"
  /\ phase' = "read" /\ stop' = FALSE
  /\ UNCHANGED <<listVars, in_buf, ran>>
Top ==
  /\ phase = "top"
  /\ phase' = IF stop THEN "done" ELSE "read"
  /\ UNCHANGED <<listVars, stop, in_buf, ran>>

ReadLine ==
  /\ phase = "read" /\ Len(ran) < MaxRan
  /\ in_buf' \in Lines
  /\ phase' = "exec"
  /\ UNCHANGED <<listVars, stop, ran>>

\* an error, nothing, or only a newline
ReadNothing ==
  /\ phase = "read"
  /\ phase' = "top"
  /\ UNCHANGED <<listVars, stop, in_buf, ran>>

-----------------------------------------------------------------------------
(* command_exec. *)

Full_Never(argc) == FALSE
Full(argc) == argc >= MaxArgc

\* a turn of command_prepare_argv's loop at position e with argc words found; from is
\* what its later turns find
Turn(line, e, argc, from) ==
  LET s    == SelectInSubSeq(line, e, Len(line), command_ok_char)
      gap  == SelectInSubSeq(line, s, Len(line), LAMBDA c : ~command_ok_char(c))
      end  == IF gap = 0 THEN Len(line) ELSE gap - 1
      next == IF gap = 0 THEN Len(line) + 1 ELSE gap + 1
  IN IF s = 0 THEN <<>>
     ELSE <<SubSeq(line, s, end)>> \o IF Full(argc + 1) THEN <<>> ELSE from[<<next, argc + 1>>]

Words(line) ==
  LET from[p \in (1..Len(line) + 1) \X Nat] == Turn(line, p[1], p[2], from)
  IN from

command_prepare_argv(line) == Words(line)[<<1, 0>>]

Outcome(argv, id) ==
  IF argv = <<>> THEN "invalid"
  ELSE IF Head(argv) = Question THEN "help"
  ELSE IF id # 0 THEN "run" ELSE "unknown"

ExecLine ==
  LET argv == command_prepare_argv(in_buf)
      id   == IF argv = <<>> THEN 0 ELSE command_find(Head(argv))
      what == Outcome(argv, id)
  IN /\ phase = "exec"
     /\ ran' = Append(ran, [line |-> in_buf, argv |-> argv, what |-> what,
                            id |-> IF what = "run" THEN id ELSE 0])
     /\ stop' = (stop \/ (what = "run" /\ installed[id].exec = "quit"))
     /\ phase' = "top"
     /\ UNCHANGED <<listVars, in_buf>>

Next ==
  \/ Install \/ InitFails \/ Start
  \/ Top \/ ReadLine \/ ReadNothing \/ ExecLine

Spec == Init /\ [][Next]_vars

\* the loop is not suspended; a line may never come
FairSpec == Spec /\ WF_vars(Top)

-----------------------------------------------------------------------------
(* Properties. *)

InWord(line, i) == i \in 1..Len(line) /\ command_ok_char(line[i])
WordEnd(line, i) ==
  CHOOSE j \in i..Len(line) : ~InWord(line, j + 1) /\ \A k \in i..j : InWord(line, k)

\* the words of a line: its longest pieces without a blank or control character
WordsOf(line) ==
  LET begin == Ascending({i \in 1..Len(line) : InWord(line, i) /\ ~InWord(line, i - 1)})
  IN [n \in 1..Len(begin) |-> SubSeq(line, begin[n], WordEnd(line, begin[n]))]

\* command_prepare_argv finds the words of the line, the first MaxArgc of them if
\* there are more: none is cut, joined to the next or missed.
ArgvIsWords ==
  \A i \in 1..Len(ran) :
    ran[i].argv = SubSeq(WordsOf(ran[i].line), 1, Min({Len(WordsOf(ran[i].line)), MaxArgc}))

\* What runs is the command installed first under the name typed, whatever else was
\* installed around it; and if there is one it runs, unless the name is "?".
FirstInstalledRuns ==
  \A i \in 1..Len(ran) :
    LET name == WordsOf(ran[i].line)[1]
        Ids == {k \in 1..Len(installed) : installed[k].name = name}
    IN IF WordsOf(ran[i].line) = <<>> \/ name = Question \/ Ids = {}
       THEN ran[i].id = 0
       ELSE ran[i].id = Min(Ids)

Quits(i) == ran[i].what = "run" /\ installed[ran[i].id].exec = "quit"

\* Nothing is executed after quit, and without it the loop does not end.
QuitIsLast ==
  /\ \A i \in 1..Len(ran) : Quits(i) => i = Len(ran)
  /\ phase = "done" => ran # <<>> /\ Quits(Len(ran))

\* quit ends the shell without another line being typed.
QuitEndsShell == (\E i \in 1..Len(ran) : Quits(i)) ~> phase = "done"
=============================================================================
