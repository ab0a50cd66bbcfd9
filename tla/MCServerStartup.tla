---------------------------- MODULE MCServerStartup ----------------------------
(* Values for checking ServerStartup with TLC. *)
EXTENDS ServerStartup

MCWord == Key \cup {"RAW", "raw", "115200", "19200", "9600", "8", "1", "2", "'N'", "69"}
MCNumber ==
  [w \in MCWord |->
    CASE w = "115200" -> 115200 [] w = "19200" -> 19200 [] w = "9600" -> 9600
      [] w = "8" -> 8 [] w = "1" -> 1 [] w = "2" -> 2 [] w = "69" -> 69
      [] OTHER -> 0]
MCRoom == [k \in Key |-> 3]
MCFlags == {"CRTSCTS"}
MCGarbage == {<<>>, <<"raw">>, <<"2">>}

Line(key, value) == <<key, "=", value, "\r", "\n">>

\* a comment as long as the buffer, one whose end is read as a line about the speed, a
\* second line, a blank one
Comments == {<<"#", " ", "BAUDRATE", "=", "19200", " ", " ", " ", "\n">>,
             <<"#", " ", " ", " ", " ", " ", " ", " ", "BAUDRATE", "=", "19200", "\n">>}
Extra == Comments \cup {<<"BAUDRATE", "=", " ", "9600", "\n">>, <<" ", "\n">>}
Before == {<<>>} \cup Extra \cup {c \o e : c \in Comments, e \in Extra}
ModeLine  == {<<>>, Line("MODE", "RAW"), <<"MODE", " ", "=", "RAW", "\n">>}
SpeedLine == {Line("BAUDRATE", "115200"), <<"#", "\n", " ", "BAUDRATE", " ", " ", "19200", "\n">>, <<"BAUDRATE", "\n">>}
Rest == {Line("PARITY", "'N'") \o Line("STOP_BITS", "1"), Line("PARITY", "'N'") \o Line("STOP_BITS", "2"),
         Line("PARITY", "69") \o <<"STOP_BITS", "=", "1">>}
\* "DATA_BITS=8  #", a value with its comment
Overrun == {<<"DATA_BITS", "=", "8", " ", " ", "#", "\n">>, <<"BAUDRATE", "=", "9600", " ", " ", "#", "\n">>}
MCTexts == {b \o m \o s \o Line("DATA_BITS", "8") \o r :
              b \in Before, m \in ModeLine, s \in SpeedLine, r \in Rest}
           \cup {Line("MODE", "RAW") \o o \o Line("BAUDRATE", "115200") \o r : o \in Overrun, r \in Rest}
=============================================================================
