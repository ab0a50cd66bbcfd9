-------------------------------- MODULE IniFile --------------------------------
(***************************************************************************)
(* forward-tty/ini_file.c: read_conf_value, which looks a key up in a file *)
(* of lines KEY=VALUE, one action per turn of its loop.  The file is a     *)
(* sequence of tokens: blanks, "#", "=" and words.                         *)
(***************************************************************************)
EXTENDS Integers, Sequences, FiniteSetsExt

CONSTANTS
  Word,        \* keys and values
  LineMax,     \* tokens that one fgets returns at most (1022 characters)
  MaxComment,  \* MAX_ITEM_COMMENT_NUM
  Room,        \* tokens that fit into the caller's buffer of each key
  Garbage      \* what a buffer on the caller's stack may hold

Blank == {" ", "\r", "\n"}
Token == Word \cup Blank \cup {"#", "="}

ASSUME IniAssumption ==
  /\ Word \cap (Blank \cup {"#", "="}) = {}
  /\ LineMax \in Nat \ {0}
  /\ MaxComment \in Nat
  /\ Garbage \in SUBSET Seq(Token) /\ Garbage # {}

VARIABLES
  file,    \* the text
  at,      \* tokens of it that have been read
  num,     \* item.num, the comments kept
  beyond,  \* whether a comment was kept behind the end of item.comment
  conf,    \* the caller's buffer of each key
  smashed  \* whether a value ran over the end of its buffer

iniVars == <<file, at, num, beyond, conf, smashed>>

IniInit(text, keys) ==
  /\ file = text
  /\ at = 0 /\ num = 0 /\ beyond = FALSE
  /\ conf = [k \in keys |-> <<>>] /\ smashed = FALSE

-----------------------------------------------------------------------------

\* fgets stops behind a newline, or when line is full
LineEnd(pos) ==
  Min({pos + LineMax, Len(file)} \cup {i \in pos+1..Len(file) : file[i] = "\n"})
fgets == SubSeq(file, at + 1, LineEnd(at))

strtrim(s) ==
  LET solid == {i \in DOMAIN s : s[i] \notin Blank} IN
  IF solid = {} THEN <<>> ELSE SubSeq(s, Min(solid), Max(solid))

\* where get_item_from_line cuts key from value: the first "=", else the first
\* space, else nowhere
Cut_SpaceFirst(s) ==
  LET Places(c) == {i \in DOMAIN s : s[i] = c} IN
  IF Places(" ") # {} THEN Min(Places(" "))
  ELSE IF Places("=") # {} THEN Min(Places("="))
  ELSE 0
Cut(s) ==
  LET Places(c) == {i \in DOMAIN s : s[i] = c} IN
  IF Places("=") # {} THEN Min(Places("="))
  ELSE IF Places(" ") # {} THEN Min(Places(" "))
  ELSE 0

IsComment(s) == s # <<>> /\ s[1] = "#"
IsItem(s)    == s # <<>> /\ s[1] # "#" /\ Cut(s) > 0
KeyOf(s)     == SubSeq(s, 1, Cut(s) - 1)
ValueOf(s)   == SubSeq(s, Cut(s) + 1, Len(s))

-----------------------------------------------------------------------------

ReadNext ==
  /\ at < Len(file)
  /\ at' = LineEnd(at)
  /\ UNCHANGED file

\* nothing on the line but blanks or a single word
SkipLine ==
  /\ ReadNext
  /\ LET s == strtrim(fgets) IN ~IsComment(s) /\ ~IsItem(s)
  /\ UNCHANGED <<num, beyond, conf, smashed>>

\* The test against MAX_ITEM_COMMENT_NUM lets one comment through too many.
\* malloc rounds the block up and the element behind its end is its own, so the
\* loop goes on.
KeepComment ==
  /\ ReadNext
  /\ IsComment(strtrim(fgets))
  /\ num' = IF num > MaxComment THEN num ELSE num + 1
  /\ beyond' = (beyond \/ num = MaxComment)
  /\ UNCHANGED <<conf, smashed>>

\* free_item_space
Freed_Kept == num
Freed == 0

OtherItem(key) ==
  /\ ReadNext
  /\ LET s == strtrim(fgets) IN IsItem(s) /\ KeyOf(s) # <<key>>
  /\ num' = Freed
  /\ UNCHANGED <<beyond, conf, smashed>>

\* strcpy does not know the size of the caller's arrays.  Once a value has run over
\* the end of its own, what each of them holds is up to how they lie on the stack.
strcpy(key, value) ==
  /\ smashed' = (smashed \/ Len(value) > Room[key])
  /\ \/ ~smashed' /\ conf' = [conf EXCEPT ![key] = value]
     \/ smashed' /\ conf' \in [DOMAIN conf -> Garbage]

\* the loop is left and the call returns; the next one opens the file again
Return ==
  /\ at' = 0 /\ num' = 0
  /\ UNCHANGED <<file, beyond>>

KeyFound(key) ==
  /\ at < Len(file)
  /\ LET s == strtrim(fgets) IN
       IsItem(s) /\ KeyOf(s) = <<key>> /\ strcpy(key, ValueOf(s))
  /\ Return

\* at the end of the file the call returns 0 as well and the caller's buffer,
\* never initialised, stays what it is
KeyMissing(key) ==
  /\ at = Len(file)
  /\ \E value \in Garbage : conf' = [conf EXCEPT ![key] = value]
  /\ UNCHANGED smashed
  /\ Return

ReadLine(key) == SkipLine \/ KeepComment \/ OtherItem(key)
Returns(key)  == KeyFound(key) \/ KeyMissing(key)
=============================================================================
