---------------------------- MODULE ForwardClient ----------------------------
(***************************************************************************)
(* forward-tty/forward_client.c: one thread asks for the server's address, *)
(* connects, and selects on the socket and on the console.  Reports of the *)
(* devices come in through parse_pkt; a line typed at the console switches *)
(* the LED of the device whose address came last.                          *)
(*                                                                         *)
(* A report is SOI, a kind (cmd1 and cmd2), an address (the two bytes of   *)
(* the payload the client keeps) and EOI.                                  *)
(***************************************************************************)
EXTENDS ParsePkt

CONSTANTS
  Kind,      \* the kinds of report
  Addr,      \* device addresses
  NoAddr,    \* device_addr before any report, {0, 0}
  MaxTyped   \* bound: lines typed

Addressing == {"load_status", "sensor_reg"}

ASSUME ClientAssumption ==
  /\ Payload = Kind \cup Addr /\ Kind \cap Addr = {}
  /\ NoAddr \notin Addr /\ "quit" \notin Addr \cup {NoAddr}
  /\ MaxFrame >= 4 /\ MaxTyped \in Nat

VARIABLES
  phase,        \* "address" before it is connected, "select", "socket" or "console" when
                \* it is at that branch of a turn, "exited", "undefined" after a read of
                \* memory it does not own
  reported,     \* FD_ISSET(0, &read_set)
  device_addr,
  sock,         \* the connection: "none", "up", "closed" by the server, "broken" by a RST
                \* that answered a write after that, "reset" by the server
  stdin,        \* "open" or "eof"
  typed,        \* lines typed
  read,         \* how many of them the client has read
  quitting,     \* whether the last line typed is "quit" or "exit"
  wrote         \* messages to the server: "quit", or the address of a LED command and
                \* (ghost) how much of the stream had been parsed

consoleVars == <<stdin, typed, quitting>>
clientVars  == <<phase, reported, device_addr, read, wrote>>
vars        == <<parseVars, sock, consoleVars, clientVars>>

MaxWrites == MaxTyped  \* bound: at the end of file there is always something to read

Quit == [addr |-> "quit", at |-> 0]

TypeOK ==
  /\ ParseTypeOK
  /\ phase \in {"address", "select", "socket", "console", "exited", "undefined"}
  /\ reported \in BOOLEAN
  /\ device_addr \in Addr \cup {NoAddr}
  /\ sock \in {"none", "up", "closed", "broken", "reset"}
  /\ stdin \in {"open", "eof"}
  /\ typed \in 0..MaxTyped /\ read \in 0..typed
  /\ quitting \in BOOLEAN
  /\ \A i \in 1..Len(wrote) :
       wrote[i] = Quit \/ (wrote[i].addr \in Addr \cup {NoAddr} /\ wrote[i].at \in 0..Len(stream))

Init ==
  /\ ParseInit
  /\ phase = "address" /\ reported = FALSE /\ device_addr = NoAddr
  /\ sock = "none"
  /\ stdin = "open" /\ typed = 0 /\ read = 0 /\ quitting = FALSE
  /\ wrote = <<>>

-----------------------------------------------------------------------------
(* The server, the user and the terminal. *)

ServerLeaves ==
  /\ sock = "up"
  /\ sock' \in {"closed", "reset"}
  /\ UNCHANGED <<parseVars, consoleVars, clientVars>>

Type ==
  /\ stdin = "open" /\ typed < MaxTyped /\ ~quitting
  /\ typed' = typed + 1
  /\ quitting' \in BOOLEAN
  /\ UNCHANGED <<parseVars, sock, stdin, clientVars>>

TypeEof ==
  /\ stdin = "open"
  /\ stdin' = "eof"
  /\ UNCHANGED <<parseVars, sock, typed, quitting, clientVars>>

-----------------------------------------------------------------------------
(* The client. *)

ConsoleReady == read < typed \/ stdin = "eof"

\* a read of the console takes some of the lines there are; at its end none
Lines_Unread == {read}
Lines == IF read < typed THEN read + 1..typed ELSE {read}

\* create_forward_client: the line with the address, and lines after it that are
\* there already; connect may fail
Connect ==
  /\ phase = "address" /\ ConsoleReady
  /\ read' \in Lines
  /\ \/ read < typed /\ sock' = "up" /\ phase' = "select"
     \/ phase' = "exited" /\ UNCHANGED sock
  /\ UNCHANGED <<parseVars, consoleVars, reported, device_addr, wrote>>

\* what one read returns of the reports, at most two
Reports == {<<SOI, k, a, EOI>> : k \in Kind, a \in Addr}
ReportChunks ==
  LET done == Len(stream) % 4
      two  == {r1 \o r2 : r1, r2 \in Reports}
  IN { s \in { SubSeq(q, done + 1, done + n) : q \in two, n \in 1..(8 - done) } :
         Len(s) <= MaxChunk /\ Len(stream) + Len(s) <= MaxStream }

\* select, in process_conn_client: the socket may have bytes, and keeps being
\* reported once the server has left; the console is reported when it has a line
SelectReturns ==
  /\ phase = "select"
  /\ \/ phase' = "socket" /\ (sock # "up" \/ ReportChunks # {})
     \/ phase' = "console" /\ sock = "up" /\ ConsoleReady
  /\ reported' = ConsoleReady
  /\ UNCHANGED <<parseVars, sock, consoleVars, device_addr, read, wrote>>

\* the console's branch comes after the socket's
AfterSocket_Else == "select"
AfterSocket == IF reported THEN "console" ELSE "select"

\* on_received_pkt
Keeps_Kind(a, p) == IF p[2] \in Addressing THEN p[2] ELSE a
Keeps_Any(a, p) == p[3]
Keeps(a, p) == IF p[2] \in Addressing THEN p[3] ELSE a

\* device_addr after the callbacks for the packets of q
Kept(a, q) ==
  LET after[i \in 0..Len(q)] == IF i = 0 THEN a ELSE Keeps(after[i - 1], q[i])
  IN after[Len(q)]

\* receive_message: a chunk of the stream, also one that was under way when the
\* server left
Receive ==
  /\ phase = "socket"
  /\ \E buff \in ReportChunks : parse_pkt(buff)
  /\ device_addr' = Kept(device_addr, SubSeq(got', Len(got) + 1, Len(got')))
  /\ phase' = AfterSocket
  /\ UNCHANGED <<sock, consoleVars, reported, read, wrote>>

\* a byte beyond the chunk was taken for a marker: not followed further
ReceiveStray ==
  /\ phase = "socket"
  /\ \E buff \in ReportChunks : ParseStray(buff)
  /\ phase' = "undefined"
  /\ UNCHANGED <<reported, device_addr, sock, consoleVars, read, wrote>>

\* end of file: nothing happens, again and again
ReceiveEnd ==
  /\ phase = "socket" /\ sock \in {"closed", "broken"}
  /\ phase' = AfterSocket
  /\ UNCHANGED <<parseVars, reported, device_addr, sock, consoleVars, read, wrote>>

\* read returned -1: as an unsigned size it is greater than 0
ReceiveFails ==
  /\ phase = "socket" /\ sock = "reset"
  /\ phase' = "undefined"
  /\ UNCHANGED <<parseVars, reported, device_addr, sock, consoleVars, read, wrote>>

\* A write to the server, whose result is ignored.  On a reset connection it fails
\* once and then raises SIGPIPE, which ends the client; so does a write on one
\* that was broken.
Send(m, next) ==
  \/ /\ sock \in {"up", "closed"}
     /\ wrote' = Append(wrote, m)
     /\ sock' \in IF sock = "closed" THEN {"closed", "broken"} ELSE {sock}
     /\ phase' = next
  \/ /\ sock = "reset"
     /\ sock' = "broken" /\ phase' = next
     /\ UNCHANGED wrote
  \/ /\ sock = "broken"
     /\ phase' = "exited"
     /\ UNCHANGED <<sock, wrote>>

Led == [addr |-> device_addr, at |-> Len(stream)]

\* handle_message
Console ==
  /\ phase = "console"
  /\ read' \in Lines
  \* strncmp sees only the first line of those read
  /\ IF quitting /\ read' = typed /\ read' = read + 1
     THEN Send(Quit, "exited")
     ELSE Len(wrote) < MaxWrites /\ Send(Led, "select")
  /\ UNCHANGED <<parseVars, reported, device_addr, consoleVars>>

\* sig_pipe, the handler of SIGTSTP
SigTstp ==
  /\ phase \in {"address", "select", "socket", "console"}
  /\ phase' = "exited"
  /\ UNCHANGED <<parseVars, reported, device_addr, sock, consoleVars, read, wrote>>

Next ==
  \/ ServerLeaves \/ Type \/ TypeEof
  \/ Connect \/ SelectReturns
  \/ Receive \/ ReceiveStray \/ ReceiveEnd \/ ReceiveFails \/ Console \/ SigTstp

Spec == Init /\ [][Next]_vars

\* the process runs when it is not waiting
Loop == SelectReturns \/ Receive \/ ReceiveEnd \/ ReceiveFails \/ Console
FairSpec == Spec /\ WF_vars(Loop)

-----------------------------------------------------------------------------
(* Properties. *)

\* the address in the last complete addressing report of s
LastAddr(s) ==
  LET k == SelectLastInSeq(Frames(s), LAMBDA p : p[2] \in Addressing)
  IN IF k = 0 THEN NoAddr ELSE Frames(s)[k][3]

\* A LED command carries the address of the last device that reported one in what
\* the client had read, however the reports were cut up, also when the report and
\* the keystroke arrive together.
LedAddressesLatest ==
  strayed = "no" =>
    \A i \in 1..Len(wrote) :
      wrote[i] # Quit => wrote[i].addr = LastAddr(SubSeq(stream, 1, wrote[i].at))

\* As long as the console is open, a line typed after the address switches the LED
\* at most once, and the server is told to quit only by the last message.
OneCommandPerLine ==
  /\ stdin = "open" => Len(wrote) <= IF read = 0 THEN 0 ELSE read - 1
  /\ \A i \in 1..Len(wrote) : wrote[i] = Quit => i = Len(wrote) /\ phase = "exited"

\* A client that is connected ends when it is told to quit by a line of its own,
\* whatever the server has sent or done to the connection in the meantime.
QuitEndsClient ==
  phase \in {"select", "socket", "console"} /\ quitting /\ read = typed - 1
    ~> phase \in {"exited", "undefined"}
=============================================================================
