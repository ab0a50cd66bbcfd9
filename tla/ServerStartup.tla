----------------------------- MODULE ServerStartup -----------------------------
(***************************************************************************)
(* main of forward-tty/forward_server.c up to the accept loop: opening the *)
(* tty, reading its configuration file with ini_file.c, setting the line,  *)
(* listening.  Of a termios, raw stands for the flags that raw mode clears, *)
(* inpck for INPCK and ISTRIP, and left for all the flags that are neither *)
(* set nor cleared; what is set to the same for every file is left out.    *)
(***************************************************************************)
EXTENDS IniFile

CONSTANTS
  Texts,   \* the configuration files that may be found
  Flags,   \* CRTSCTS, CMSPAR, IXOFF, IXANY, IGNPAR, ...
  Number   \* what strtol makes of a word

Keys == <<"MODE", "BAUDRATE", "DATA_BITS", "PARITY", "STOP_BITS">>
Key  == {Keys[i] : i \in DOMAIN Keys}

ASSUME StartupAssumption ==
  /\ Texts \subseteq Seq(Token)
  /\ Number \in [Word -> Nat]
  /\ Room \in [Key -> Nat]
  /\ {"MODE", "BAUDRATE", "DATA_BITS", "PARITY", "STOP_BITS",
      "RAW", "115200", "8", "'N'", "1"} \subseteq Word

VARIABLES
  phase,
  fd,      \* the device ttyfd stands for
  exists,  \* whether there is a configuration file
  asked,   \* keys read_config_file has got
  ctrl,    \* ttyctl
  tio      \* the termios of that device, once it is set

vars == <<iniVars, phase, fd, exists, asked, ctrl, tio>>

Device  == {"tty", "stdout"}
Termios == [raw : BOOLEAN, csize : {5, 7, 8}, parenb : BOOLEAN, parodd : BOOLEAN,
            inpck : BOOLEAN, cstopb : BOOLEAN, speed : {2400, 4800, 9600, 115200},
            left : SUBSET Flags]
Control == [raw : BOOLEAN, speed : Nat, bits : Nat, parity : Nat, stop : Nat]

TypeOK ==
  /\ phase \in {"open", "config", "read", "setup", "listen", "serving", "failed"}
  /\ fd \in Device /\ exists \in BOOLEAN
  /\ asked \in 0..Len(Keys)
  /\ ctrl \in Control
  /\ tio \in Termios
  /\ file \in Seq(Token) /\ conf \in [Key -> Seq(Token)]
  /\ at \in 0..Len(file) /\ num \in 0..MaxComment + 1 /\ beyond \in BOOLEAN
  /\ smashed \in BOOLEAN

\* what serial_setup may find: a line in any state
Sane == [raw |-> FALSE, csize |-> 8, parenb |-> FALSE, parodd |-> FALSE, inpck |-> FALSE,
         cstopb |-> FALSE, speed |-> 9600, left |-> {}]
Found == Termios

Init ==
  /\ phase = "open"
  /\ fd = "tty"
  /\ exists \in BOOLEAN
  /\ \E text \in IF exists THEN Texts ELSE {<<>>} : IniInit(text, Key)
  /\ asked = 0
  /\ ctrl = [raw |-> TRUE, speed |-> 0, bits |-> 0, parity |-> 0, stop |-> 0]  \* memset
  /\ tio = Sane

-----------------------------------------------------------------------------

\* serial_open returns EXIT_FAILURE, 1, when it fails: the descriptor of standard
\* output, which main takes for the tty
Open ==
  /\ phase = "open"
  /\ fd' \in Device
  /\ phase' = "config"
  /\ UNCHANGED <<iniVars, exists, asked, ctrl, tio>>

DefaultFile ==
  <<"MODE", "=", "RAW", "\r", "\n", "BAUDRATE", "=", "115200", "\r", "\n",
    "DATA_BITS", "=", "8", "\r", "\n", "PARITY", "=", "'N'", "\r", "\n",
    "STOP_BITS", "=", "1", "\r", "\n">>

\* create_config_file may fail to open the file
CreateConfig ==
  /\ phase = "config"
  /\ \/ UNCHANGED <<exists, file>>
     \/ ~exists /\ exists' = TRUE /\ file' = DefaultFile
  /\ phase' = "read"
  /\ UNCHANGED <<at, num, beyond, conf, smashed, fd, asked, ctrl, tio>>

\* read_config_file asks for one key after the other
ReadKey ==
  /\ phase = "read" /\ exists
  /\ asked < Len(Keys)
  /\ LET key == Keys[asked + 1] IN
       \/ ReadLine(key) /\ UNCHANGED asked
       \/ Returns(key) /\ asked' = asked + 1
  /\ UNCHANGED <<phase, fd, exists, ctrl, tio>>

\* STRTOL: blanks are skipped, and what is not a number is 0
strtol(value) ==
  LET solid == {i \in DOMAIN value : value[i] \notin Blank} IN
  IF solid # {} /\ value[Min(solid)] \in Word THEN Number[value[Min(solid)]] ELSE 0

ReadConfig ==
  /\ phase = "read" /\ asked = Len(Keys)
  /\ ctrl' = [raw |-> conf["MODE"] \in {<<"RAW">>, <<"raw">>}, speed |-> strtol(conf["BAUDRATE"]),
              bits |-> strtol(conf["DATA_BITS"]), parity |-> strtol(conf["PARITY"]),
              stop |-> strtol(conf["STOP_BITS"])]
  /\ phase' = "setup"
  /\ UNCHANGED <<iniVars, fd, exists, asked, tio>>

\* the way back from overrun arrays may be overrun itself
ReadConfigCrashes ==
  /\ phase = "read" /\ asked = Len(Keys)
  /\ smashed
  /\ phase' = "failed"
  /\ UNCHANGED <<iniVars, fd, exists, asked, ctrl, tio>>

\* main ignores that there is no file
ReadConfigFails ==
  /\ phase = "read" /\ ~exists
  /\ phase' = "setup"
  /\ UNCHANGED <<iniVars, fd, exists, asked, ctrl, tio>>

-----------------------------------------------------------------------------
(* serial_setup, step by step. *)

\* it clears ISTRIP and leaves INPCK, and either makes inpck true
cfmakeraw(t) == [t EXCEPT !.raw = TRUE, !.csize = 8, !.parenb = FALSE]

Raw_ModeOnly(t) == IF ctrl.raw THEN [t EXCEPT !.raw = TRUE] ELSE t
Raw(t) == IF ctrl.raw THEN cfmakeraw(t) ELSE t

\* CS8 has the bits of CS7
DataBits(t) == IF ctrl.bits = 8 \/ (ctrl.bits = 7 /\ t.csize = 5) THEN [t EXCEPT !.csize = ctrl.bits] ELSE t

ParityBits(t) ==
  CASE ctrl.parity = 79 -> [t EXCEPT !.parenb = TRUE, !.parodd = TRUE, !.inpck = TRUE]   \* 'O'
    [] ctrl.parity = 69 -> [t EXCEPT !.parenb = TRUE, !.parodd = FALSE, !.inpck = TRUE]  \* 'E'
    [] ctrl.parity = 78 -> [t EXCEPT !.parenb = FALSE]                                   \* 'N'
    [] OTHER            -> t

Supported == {2400, 4800, 9600, 115200}
LineSpeed_Any(t) == [t EXCEPT !.speed = ctrl.speed]
LineSpeed(t) == [t EXCEPT !.speed = IF ctrl.speed \in Supported THEN ctrl.speed ELSE 9600]

StopBits(t) ==
  CASE ctrl.stop = 1 -> [t EXCEPT !.cstopb = FALSE]
    [] ctrl.stop = 2 -> [t EXCEPT !.cstopb = TRUE]
    [] OTHER         -> t

\* "important": CLOCAL, CREAD, and CSIZE cleared, which leaves CS5
Important(t) == [t EXCEPT !.csize = 5, !.raw = @ \/ ctrl.raw, !.inpck = @ /\ ~ctrl.raw]

Configured(t) == Important(StopBits(LineSpeed(ParityBits(DataBits(Raw(t))))))

SerialSetup ==
  /\ phase = "setup"
  /\ \E found \in Found : tio' = Configured(found)
  /\ phase' = "listen"
  /\ UNCHANGED <<iniVars, fd, exists, asked, ctrl>>

\* tcgetattr (not a terminal) or tcsetattr failed
SerialSetupFails ==
  /\ phase = "setup"
  /\ phase' = "failed"
  /\ UNCHANGED <<iniVars, fd, exists, asked, ctrl, tio>>

\* forward_create_server: socket, bind or listen may fail
CreateServer ==
  /\ phase = "listen"
  /\ phase' \in {"serving", "failed"}
  /\ UNCHANGED <<iniVars, fd, exists, asked, ctrl, tio>>

Next ==
  \/ Open \/ CreateConfig \/ ReadKey \/ ReadConfig \/ ReadConfigCrashes \/ ReadConfigFails
  \/ SerialSetup \/ SerialSetupFails \/ CreateServer

Spec == Init /\ [][Next]_vars

-----------------------------------------------------------------------------
(* Properties. *)

\* What a file says, without the loop that reads it.  A line starts behind a newline,
\* and what is left of one that is longer than the buffer counts as a line again.
Starts ==
  {a \in DOMAIN file :
     \E b \in 1..a :
       /\ b = 1 \/ file[b - 1] = "\n"
       /\ \A l \in b..a-1 : file[l] # "\n"
       /\ \E n \in 0..a : a = b + n * LineMax}

\* the places of the line that starts at a
LineAt(a) == {l \in DOMAIN file : a <= l /\ l < a + LineMax /\ \A m \in a..l-1 : file[m] # "\n"}

Space(i, j) == \A l \in i..j : file[l] \in Blank

\* A line is about the key it starts with, up to blanks, if "=" follows at once, or a
\* space and no "=": in "BAUDRATE = 9600" the key ends in a space and is another.
About(a, key, k) ==
  /\ file[k] = key /\ k \in LineAt(a) /\ k + 1 \in LineAt(a)
  /\ Space(a, k - 1)
  /\ \/ file[k + 1] = "="
     \/ /\ file[k + 1] = " "
        /\ \A l \in LineAt(a) : file[l] # "="
        /\ \E l \in LineAt(a) : k < l /\ file[l] \notin Blank

\* the first line about key gives it v, the word that comes next
Gives(key, v) ==
  \E a \in Starts : \E k, i \in LineAt(a) :
    /\ About(a, key, k)
    /\ k + 1 < i /\ Space(k + 2, i - 1) /\ file[i] = v
    /\ \A b \in Starts, l \in DOMAIN file : b < a => ~About(b, key, l)

CommentLine(a) == \E i \in LineAt(a) : Space(a, i - 1) /\ file[i] = "#"
ItemLine(a) ==
  \E i \in LineAt(a) :
    /\ Space(a, i - 1) /\ file[i] \notin Blank \cup {"#"}
    /\ \/ \E j \in LineAt(a) : file[j] = "="
       \/ \E j, l \in LineAt(a) : i < j /\ j < l /\ file[j] = " " /\ file[l] \notin Blank

\* what the line does: PARODD means nothing without PARENB
Effect(t) == [t EXCEPT !.parodd = t.parenb /\ t.parodd]

\* A server that was told to use raw mode and one or two stop bits gives the line the
\* same mode, parity, stop bits and speed whatever an earlier program left there: a
\* line with other ones but the same flags that the code never touches would have
\* become the same.  Those flags do survive: hardware flow control (CRTSCTS), mark
\* and space parity (CMSPAR), IXOFF, IXANY, IGNPAR and their like.
OnlyFlagsLeft ==
  phase = "serving" /\ ctrl.raw /\ ctrl.stop \in {1, 2} =>
    \A found \in Found : found.left = tio.left => Effect(Configured(found)) = Effect(tio)

\* If no value ran over its buffer, the speed of the line is what the first line about
\* BAUDRATE gives if that is a supported one, and 9600 otherwise, whatever comments,
\* other lines and lines longer than the reader's buffer the file has.  Of a file that
\* gives no speed nothing is said: the buffer is then read without having been set.
SpeedAsConfigured ==
  phase = "serving" /\ exists /\ ~smashed =>
    \A v \in Word : Gives("BAUDRATE", v) =>
      tio.speed = IF Number[v] \in Supported THEN Number[v] ELSE 9600

\* A comment is kept behind the array's end only if more than MAX_ITEM_COMMENT_NUM
\* comments follow each other with no item between them.
CommentsFit ==
  beyond =>
    LET lines == Starts IN
    \E a, b \in lines :
      LET between == {c \in lines : a <= c /\ c <= b} IN
      /\ \A c \in between : ~ItemLine(c)
      /\ Cardinality({c \in between : CommentLine(c)}) > MaxComment

\* "data bits": a line in raw mode has the data bits that the file gives.
LineAsConfigured ==
  phase = "serving" /\ ctrl.raw /\ ~smashed =>
    \A v \in Word : Gives("DATA_BITS", v) => tio.csize = Number[v]
=============================================================================
