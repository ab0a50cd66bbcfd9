# Formal models of morrowind

The repository holds four small systems: a TCP server that shares a serial line
(`forward-tty`), its client, a command line shell for a home gateway (`ihome`),
and a script that shares one telnet session (`share-telnet`). None of them is
long, but all of them move bytes between processes, threads or event loops that
may stop at any point. This directory models that movement in TLA+, checks it
with TLC and proves the central facts with TLAPS.

Run everything from this directory:

    tlc -workers 2 -config ForwardServer_shared.cfg MCForwardServer.tla
    tlapm ForwardServer_proofs.tla

`PROJECT.json` lists the runs, the mutants that show each property can fail, the
source lines every definition stands for, the hazards and the theorems.

## 1. Inventory

| component | code | state | operations | what is hard |
|---|---|---|---|---|
| forwarding server | `forward-tty/forward_server.c` | listening socket, one tty, a child process per client with two threads | accept, fork, select, read, write, join, exit | children race for one tty; threads close each other's descriptors; SIGPIPE; short reads and writes; failing fork and pthread_create |
| server start-up | `forward_server.c`, `ini_file.c` | `ttyctl`, the termios of the line, `/tmp/tty.config` | open, create and read the file, set the line up, listen | missing files and keys, values too long for their buffers, errors that are not looked at, the order in which flags are set, flags that are never set |
| packet parser | `forward-tty/parse_pkt.c` | `pkt`, the piece of a packet carried over | `parse_pkt` per chunk | packets cut anywhere; a carried piece that is never cleared; a read behind the chunk |
| configuration file reader | `forward-tty/ini_file.c` | the open file, `item` with its array of comments, the caller's buffer | one turn per line: comment, item, neither, end of file | lines longer than the buffer, comments beyond the array, keys that are not there |
| forwarding client | `forward-tty/forward_client.c` | `device_addr`, the connection, the console | address prompt, connect, receive, console line, SIGTSTP | reports and keystrokes in one turn; a socket that is always readable; end of either input |
| history | `ihome/input_helper.c` | ring of lines, `current`, `index`, `enable` | add, previous, next, switch on and off | wrapping in both directions, clearing |
| line editor | `ihome/input_helper.c` | the line, `r_len`, `esc_pressed` | one per kind of key | screen and buffer must not drift apart; end of input |
| command list and shell | `ihome/command.c`, `shell.c`, `ihome_command.c` | sorted list, `stop`, the line and its words | install, read, split, dispatch, quit | equal names, limits of argv, the stop flag |
| shared telnet | `share-telnet/nttelnet.py` | `inputs`, `clients`, `nt_tn`, `nt_sock`, the round's readable sockets | one branch per kind of socket, reconnect | a round's list that is stale after an exception; broadcasts that raise half way |
| console and xtty i/o | `ihome/console_io.c`, `xtty_io.c`, the loop of `shell.c` | the line buffer `in_buf`, the terminal | set up, read a line, run it | one buffer for lines of all lengths, never cleared; lines an error cut off |
| others | `utility.c`, `parse_reg.py`, option parsing, test modes, the test programs | none, or set once | | not modelled, see section 7 |

How they interact: the client and the server share one TCP connection; the server
writes to and reads from the tty, where devices answer with packets that the
client's parser cuts out again. The server reads its configuration file key by
key through the reader before it sets the line up. The shell reads its lines
through the line editor, which records them in the history, into one buffer of the
console, and hands them to the command list. The telnet script stands alone.

What makes each correct is stated by the properties of section 4; what could go
wrong, line by line, is the list of hazards in `PROJECT.json`.

## 2. Modules

    Relay                                   (what the server promises)
    ForwardServer   <- MCForwardServer, ForwardServer_proofs  (implements Relay)
    IniFile
      ServerStartup <- MCServerStartup, ServerStartup_proofs  (EXTENDS IniFile)
    ParsePkt        <- MCParsePkt, ParsePkt_proofs
      ForwardClient <- MCForwardClient, ForwardClient_proofs  (EXTENDS ParsePkt)
    HistoryList                             (what a history promises)
    HistoryRing                             (implements HistoryList)
      LineEditor                            (EXTENDS HistoryRing)
        Console     <- Console_proofs       (EXTENDS LineEditor)
    CommandList
      Shell         <- MCShell, Shell_proofs  (EXTENDS CommandList)
    ShareTelnet     <- ShareTelnet_proofs
    Ascending       <- Ascending_proofs     (a set of numbers as a sequence)

**ForwardServer.** One action per system call of the code, because anything may
happen between two calls. `Accept`, `Fork`, `ForkFails` and `ParentClose` are the
parent's loop; `Spawn`, `SpawnFails`, `ExitFailure`, `Join` and `Exit` the main thread
of a child (between `SpawnFails`, which closes the tty, and `ExitFailure` the child is
"failing", and its first thread may find the descriptor gone); `SelectReturns`, `SelectBadFd`, `Read`, `ReadQuit`, `ReadFails`,
`WriteTakes`, `WriteLost`, `WriteFails` and `Sigpipe` the two forwarding threads.
Data is a sequence of two-byte cells: two of them spell "quit" (or "exit"), so a
buffer can match, not match, or be too short to tell, in which case both
outcomes are taken (the buffer in the code is not initialised). A stream is a
log; what a thread has in its buffer (`hand`) and has written (`out`) are
positions in that log, which makes loss, repetition and order visible. A hung-up
client is `closed` (end of file), `broken` (closed, and a RST came back for what
was sent after that) or `reset`. `Prints` is the texts the tty may print. A read of zero bytes is not an error in the
code, and is not in the model: the thread goes back to select.

**Relay.** What the clients of one tty are promised, with no process, thread, buffer
or descriptor in it: a session opens once and ends for good, the tty gets what the
client sent from the start and in order, and a printed cell goes to one client at
most, later ones after earlier ones. `ForwardServer!KeepsPromise` maps a connection's
process to its session (`SessionOf`), the positions written to the tty to the cells
they stand for (`Arrived`) and those written to the client to themselves (`Got`). A
step of a thread is a step of Relay only if it is a write that takes something;
nearly all others are stutters.

**IniFile, ServerStartup.** IniFile is `read_conf_value`, one action per turn of its
loop, on a text made of tokens: blanks, "#", "=" and words. `fgets` returns at most
`LineMax` of them and the rest of a longer line comes as a line of its own.
`SkipLine`, `KeepComment`, `OtherItem`, `KeyFound` and `KeyMissing` are the ways a turn
may go. A key that is missing yields anything from `Garbage`, since the function returns
0 and leaves the caller's buffer as it was. `strcpy` copies a value into one of the five
arrays of `read_config_file`, of `Room` tokens each; a value that is longer sets
`smashed`, and from then on every one of the arrays may hold anything. A comment one too many is stored behind
the array; the allocator rounds up, so the loop goes on, and `beyond` records it.
ServerStartup is `main` up to the accept loop, with the reader asked for the five keys
one after the other; `serial_setup` is the composition of one operator per paragraph
of the function. A termios keeps the fields the file is about, `raw` for the flags that
raw mode clears, `inpck` for INPCK and ISTRIP, and `left` for the set of `Flags` that the
code neither sets nor clears (CRTSCTS, CMSPAR, IXOFF, IXANY, IGNPAR and others), which
line 178 copies from the port as it was found (`Found`). `fd` is the device that
the descriptor stands for: a failed open yields 1, standard output. After an overrun the
return from `read_config_file` may fail: `ReadConfigCrashes`.

**ParsePkt.** `process_on_buf_empty` is the recursive function `Scan`,
`process_on_buf_have_data` is `HaveData`. The ghost `stream` is all bytes parsed
so far. `ParseStray` is the case in which the byte behind a chunk without a marker
happens to be one; after an EOI there the code searches memory with a huge size,
and the model stops. Payload bytes are never SOI or EOI: the protocol has no
escape and the devices' packets are assumed not to contain them.

**ForwardClient.** `Connect` is the address prompt, whose read takes all lines that
are there and uses the first. Then the loop of `process_conn_client`: `SelectReturns`
notes in `reported` whether the console was ready, the socket's branch comes first,
and the console's follows in the same turn if it was. Once the server has left, the
socket is reported in every turn (`ReceiveEnd`). A
report has four bytes: SOI, a kind (standing for cmd1 and cmd2), an address and
EOI. At the end of the console every turn sends another LED command, up to
`MaxWrites`. The read that returns -1 into an unsigned size leads to
`undefined`.

**HistoryList, HistoryRing, LineEditor.** The ring has `N` slots with the number
of the line each points at. `HistoryList` has no slots: it speaks of how many
lines there are and how many steps back the user is; `HistoryRing!KeepsPromise` is
the refinement. One peculiarity of the code is part of the promise: with a full
ring, recall goes round in circles. `LineEditor` adds the keys, the terminal's
line (`screen`) and the text of each slot; backspace moves the screen as the
three bytes written for it do. `Plain` are the printable characters, to which the
two letters that also end arrow keys are added.

**Console.** The loop of `shell.c` on top of the editor: lines of all lengths are copied
one after the other into one buffer, `in_buf`, that nothing clears, with strncpy, which
writes no terminator, and a terminator set afterwards, but not on the path of an empty
line. `ConsoleSpec` implements `EditorSpec`, so what holds of the editor holds here.
What a line does is left to Shell; here it may call `shell_stop` or not.

**CommandList, Shell.** A command is the number of its installation, so commands
of one name are told apart. `Rank` stands for strcmp. Lines are sequences of
character codes; `command_prepare_argv` is the code's scan, checked against
`WordsOf`, which defines words without scanning. `Install` may install any
commands in any order, not only the two of today's table.

**ShareTelnet.** One action per branch of the loop's body. `rd` is what is left
of a round. A socket read after it was closed, or a send to a connection that was
reset, raises; outside a try that ends the script (`pc = "dead"`). Messages are
numbered, and a read takes all there are. A client that has closed is `eof`; if
something is sent to it after that, or was under way, it is `late`, because the answer
will be a reset, and `broken` when that has arrived (`RstArrives`). A first send to a
closed client thus succeeds and a later one may raise.

**Ascending.** The numbers of a finite set in ascending order. ParsePkt reads the
packets of a stream off the places where they lie with it, and ShareTelnet the sockets
that select reports off the list it was given.

Every recursion is a recursive function over a domain of numbers, not a RECURSIVE
operator, since the provers have no rule for the latter. The cases of a CASE exclude
each other where one of the code's tests comes after another, because TLA+ leaves open
which of two true cases is taken while the code does not.

## 3. Constants, bounds and deadlock

| run | bounds | why they are enough |
|---|---|---|
| `ForwardServer_shared` | 2 clients, up to 3 printed cells of two texts, buffer of 2 cells | two children are needed for the race, two cells for order and for a short write between them, a third for a loss after an earlier read and for a buffer that cannot take all; a quit word at the start and across two reads |
| `ForwardServer_live` | 1 client, 3 sent cells, 1 printed, buffer of 2 | a "quit" in one read or cut in two, a full buffer with more behind it, the other thread idle, blocked or writing |
| `ForwardServer_accept` | 2 clients, 1 printed cell | sessions in every state, one of them with a cell in hand: booting, serving, writing, failed, killed |
| `ServerStartup` | some 350 texts of up to 55 tokens, `LineMax` 8, 1 comment kept, arrays of 3 tokens, CRTSCTS for the flags left alone | a line that just fills the buffer and one that is longer, whose end is an item, up to 2 extra lines in front (comments, a second line of a key, a blank one), a space instead of "=", a missing key, a value too long for its array, a last line without newline; the port in every state. The proofs cover every text and every size |
| `ServerStartup_line` | the file that the server creates itself | one file is enough to show it |
| `ParsePkt` | 9 bytes, noise among them, chunks up to 5, packets up to 4 | two whole packets, or three of two bytes, in every cut; repeated SOIs; a spoilt packet before a good one |
| `ForwardClient` | 2 reports, chunks up to 7 of 8 bytes, 3 lines (the address among them), 2 kinds, 2 addresses | an address is replaced while lines are typed; no chunk holds both reports whole, most cuts split one; one kind brings an address and one does not |
| `LineEditor` | lines of 2 characters, 1 plain character besides the arrows' letters, 2 slots, 4 lines | full lines, recalled full lines; the ring wraps twice. The proofs cover every size |
| `Console` | as LineEditor, 3 lines | a short line after a full one in the same buffer, a recalled one, a line cut off by an error. The proofs cover every size |
| `Shell` | 3 names, 3 commands, 2 lines, argv of 2 | equal names, a name that is a prefix, insertion at the head, in the middle and at the end; lines of one, two and three words, blanks at both ends |
| `ShareTelnet` | 2 clients, 2 commands each, 2 messages, 2 logins | one client stays while the other comes and goes; the NT is lost once and found again |

Every run says `CHECK_DEADLOCK FALSE`: the systems do come to an
end (every client has left, the shell has quit, the script is dead, the server has
failed to start), and the bounds above stop the others. Symmetry is used for
the clients of `ForwardServer_shared` and the payload bytes of `ParsePkt`; neither
run checks liveness.

## 4. What is checked

**One tty, many clients** (`ForwardServer_shared`). `KeepsPromise`: the server with all
its processes and threads implements `Relay`; in particular a printed cell reaches at
most one client, once and in order, and a session that has ended moves nothing more.
`LossIsOneRead`: a child that still serves a client that is there has lost nothing of what
it read, and one that has stopped, on a failed write, a SIGPIPE, a quit or a hang-up of the
tty, has lost at most its last read; the code does lose that one. `NoSpuriousEnd`: a
session ends only on a quit, a reset or a hang-up of the tty, or while its process is on the
way out because a thread could not be created, and SIGPIPE kills a child only if a RST has
come; in particular, the child that lost the race reads nothing and goes on.
`ReleasedWhenIdle`: connections are not leaked, also when fork or a thread's
creation fails. `UplinkInOrder` (`ForwardServer_live`): short writes lose nothing.

**It keeps going** (`ForwardServer_live`, `_accept`). `QuitEndsSession`: the main
thread joins the thread that reads the client, so a quit ends the process whatever
the other thread is blocked in. `EventuallyRelayed`: what a client sends arrives
unless its session stops forwarding. `EveryClientAccepted`.

**The line** (`ServerStartup`). `OnlyFlagsLeft`: in raw mode with one or two stop bits, the
mode, parity, stop bits and speed of the line do not depend on what was set before. The
flags in `left` do: a port that an earlier program left with hardware flow control, or with
mark and space parity, keeps it. `SpeedAsConfigured` compares the speed of the line with
what the text says, `Gives`, which defines lines, keys and values by their places in the
text and knows nothing of the loop that reads it; what is left of a line that is longer
than the reader's buffer counts as a line. It asks that no value ran over its array, and
speaks of lines that give a key a word: "BAUDRATE = 9600" does not, since the key that the
code finds there ends in a space, and such a line has no effect. A file without a speed
gives the line whatever was on the stack. `CommentsFit`: comments are stored
behind their array only if more than MAX_ITEM_COMMENT_NUM of them follow each other
with no item between.

**Packets** (`ParsePkt`, `ForwardClient`). `PacketsExact` compares
the packets delivered with those of the uncut stream, as long as no noise lies between packets. `PacketsNotLost` and
`PromptDelivery` say what is left of it with noise. `CarryFits`: the buffer
suffices. `LedAddressesLatest` relates each command to the last report that had been
read. `OneCommandPerLine`. `QuitEndsClient`: a "quit" that is read on its own ends the
client even if the socket is readable in every turn.

**The shell** (`LineEditor`, `Console`, `Shell`).
`RingHoldsLatest`, `KeepsPromise` for the ring; `ScreenIsInput`, `HistoryIsSeen` for the
editor; `RunsWhatIsSeen` for the console: the line that is executed is what the screen
showed and what the next arrow key up brings back, with nothing left of a longer line
before it; `ListComplete`, `ListOrdered`, `FirstInstalledRuns`, `ArgvIsWords`,
`QuitIsLast`, `QuitEndsShell` for dispatch.

**The shared session** (`ShareTelnet`). `WatchedExactly`
relates the list given to select to the clients and the NT. `SameFeed`: nobody misses
or repeats a message. `CommandsInOrder`. `CrashHasCause`: what ends the script is the
reset of a client it still serves, or the loss of the NT in a round with a client's event
pending. The reset need not be an abort: a client that closes in an orderly way, and is
sent two messages before its event is handled, ends the script at the second one
(`nttelnet.py:63`, and again at 72, outside the try). `EveryoneServed`.

Each module's type invariant is checked along with these. Each property has a
mutant in `PROJECT.json`: a plausible slip in the code under which it fails.

**Disagreements between the code and its own words**, each shown by a run that
expects a violation:

- `ForwardServer_hangup`: the branch commented "other end is not available
  anymore" (`forward_server.c:353`) is not taken when the other end closes, because
  read returns 0 then and the test is `< 0`. The session spins for ever.
- `ServerStartup_line`: `forward_server.h:51` has "data bits"; `CSIZE` is cleared after
  they were set (`forward_server.c:238`), which leaves five, also from the file with
  DATA_BITS=8 that the server has created itself.

## 5. Fairness

- ForwardServer: the kernel runs every runnable thread. Each child's main thread,
  each of its threads and the parent get weak fairness on their own. Writes to the
  tty complete, since `serial_setup` sets CLOCAL and clears IXON in raw mode, the
  mode of the default file. CRTSCTS is not among what it clears: on a port that was left
  with hardware flow control and whose device holds CTS down, writes block and
  `EventuallyRelayed` does not apply. Nothing is
  assumed of clients, who may never read, of what the tty prints, or of a select
  blocked on a descriptor that another thread closes under it.
- ForwardClient: the process runs whenever it is not waiting (`Loop`), and a write of a
  few bytes to the socket returns. Nothing is assumed of the server or the user, nor of
  `Connect`, which waits for a line.
- Shell: only the loop's own test (`Top`); a line may never be typed.
- ShareTelnet: the loop's steps that do not wait for others. `telnet_nego` and
  `telnet_nt` wait for others, so `EveryoneServed` is conditional on the loop coming
  back to select.

## 6. Proofs

All theorems hold for every value of the constants that satisfies the named
assumptions (`ServerAssumption`, `HistoryAssumption`, `EditorAssumption`,
`ConsoleAssumption`, `ListAssumption`, `ShellAssumption`, `ShareAssumption`,
`IniAssumption`, `StartupAssumption`, `ParseAssumption`, `ClientAssumption`), and every
leaf is checked. Every invariant that a passing run checks is stated by a theorem here,
and so are the refinements (`KeepsPromise`, twice) and the action property
`PromptDelivery`.

The provers have no induction over data. Where a recursive function is described for
every argument, the proof takes the least argument for which the description is false
(`LeastNat` of Ascending_proofs: every set of numbers has a least member) and shows that
the equation of the function makes it true there. `Ascending_proofs` also shows that the
ascending sequence of a finite set exists, is the only one, and can be put together from
those of a lower and a higher part (`AscendingIs`, `AscendingUnique`, `ListsConcat`,
`ListsShift`).

**ForwardServer_proofs.** For any number of clients, any buffer size and any length
of the streams: `TypeCorrect`, `Released`, `OnlyForAReason`, `UplinkCorrect`,
`DownlinkCorrect`, `LossBounded`. None of the invariants is inductive alone.

- `TypeOK` needs `Bounded`: no thread has read more than there is, without which
  the number of cells read might be negative.
- `ReleasedWhenIdle` needs `Descriptors`: the parent holds just the connection it
  has accepted and not yet closed, and a child that is not running holds none.
- `NoSpuriousEnd` needs `EndsForAReason`: the reason is there from the moment a
  descriptor is closed, before any thread has ended for it, unless the process
  `Collapses`, which is final; and `Signalled`, that a killed child met a RST.
- `LossIsOneRead` needs `Windowed`: what a child holds comes from one read, so what it
  drops when it stops lies within one buffer's length.
- The three about data rest on `Fresh` and `EmptyHanded`, which say that what has
  not started has moved nothing and only a writing thread holds cells, and on
  `Handover`, which says that a connection that the parent has not forked for yet has
  no child. `ThreadMoves`
  reduces the many actions to five kinds of effect on one thread, and each data
  invariant is then shown to survive those five.

The refinement is `ServerRelays`: `Spec => KeepsPromise`, for any number of clients and any
buffer size. Besides the invariants above three facts are needed:
`Stopped`, that the threads of a process that is over are off, or a write might come
after the end of a session; `Fits`, that a thread never holds more than a buffer; and
`Within`, that the tty got no more than was read. Then a write is shown to be `ToTty` or
`ToClient`, the end of a process `End`, and everything else a stutter.

**ParsePkt_proofs.** Everything the run checks, for every stream, every way of cutting it
and every length of a packet: `ParseTypeCorrect`, `PacketsAreExact`, `PacketsAreNotLost`,
`CarryAlwaysFits`, `DeliveryIsPrompt`. The reference, `Frames`, is about the places of a
whole stream where a packet begins and ends; the code sees a chunk at a time.

- `Join` bridges the two: the packets of `x \o y` are those of `x` followed by those of `y`,
  unless one begins in `x` and ends in `y`.
- One turn of `process_on_buf_empty` is described by `Frames` of the bytes it looks at, and
  the whole loop by the least-counterexample argument. `Fed` says the same of a call
  of `parse_pkt`, for each of the ways a chunk may begin (`FedSoi`, `FedEoi`, no marker).
- The invariant is `ParseInv`. `Carries` (if the stream ends in a packet that has begun, the
  packet buffer holds just that) is what makes a cut packet whole again. It cannot say
  that the buffer is empty otherwise, since the code never clears it; that is why noise
  may bring an old piece back, and why `PacketsExact` is for streams without noise. `Short`
  bounds what is carried by what the stream still may bring, which `CarryFits` needs.
  `Legal` says of the stream so far what the devices may send.
- `PromptDelivery` needs of the invariant only that the stream is one the devices may send:
  whatever is in the buffer, the packets of a chunk are the last ones handed over.

**ForwardClient_proofs.** For any kinds, addresses, number of lines and cutting of the
stream: `ClientTypeCorrect`, `LedCorrect`, `ConsoleCorrect`, from `ClientInv`.

- `StreamInv` holds the invariant of the parser, unchanged, and `Orderly`, that the stream is
  one report after the other (`OrderlyLegal`: hence legal, `OrderlyClean`: hence without
  noise). So the client has parsed exactly the reports, and `device_addr` is what the
  last one that has an address left (`LatestStep`, `LatestJoin`: the callback run packet by
  packet gives the same as looking for the last one in all of them).
- `LedInv` says of each command sent that its address is that of the stream as far as it
  had been read then. A longer stream does not change that, nor does the callback.
- `LoopInv` ties the number of messages to the lines read: `phase = "console"`, or the socket's
  branch with `reported` set, is reached only if the console was ready, so a turn does not
  count a line that is not there. Without it `OneCommandPerLine` is not inductive.

**Console_proofs.** From bottom to top. For the ring: `RingTypeCorrect`, `RingCorrect`,
`RecallCorrect` and `RingImplementsList`, for rings of any size. The strengthening is `NotWrapped`: until
the ring has been full, `current` counts the lines and `index` is not above it.
`AroundTheRing` turns the code's modulo arithmetic into steps. For the editor:
`EditorTypeCorrect`, `EchoCorrect` and
`HistoryCorrect`, for lines and rings of any size: `Fits` says that while a key is awaited
there is room for one more, `Echoed` what the screen shows in each phase, also on the
way out. Each step of the editor is a step of the ring or none (`EditorUsesRing`), so
the ring's invariant is inherited. `ConsoleCorrect` builds on both: `Ready` says of
the line to execute, cell by cell, that it is what was seen, free of NULs, terminated,
and stored in the slot before `current`. `ConsoleUsesEditor` is the refinement.

**Shell_proofs.** `NoCommandLost` and `ListSorted` (and `ListTypeCorrect`) of CommandList, for
any number of commands; the work is in how inserting shifts positions. Of Shell:
`ShellTypeCorrect`, `ShellKeepsList`, `ArgvCorrect`, `FirstRuns`, `QuitCorrect`, for any commands,
lines and size of argv. The invariant `ShellInv` adds to the list's
`RanOK`, that each line executed was given what `command_prepare_argv` makes of it and met
what `command_find` finds, and `FlagOK`, that the stop flag is set exactly by a quit, that
nothing is executed once it is, and nothing before the loop: the commands a line met are
those that are installed now. `WordsAre` compares the scan of `command_prepare_argv` with
`WordsOf`, from every place where a turn may begin (`Between`: not inside a word). That the
first command of a name is found rests on the list being complete and sorted, with equal
names in the order of installation.

**ShareTelnet_proofs.** Everything the run checks, for any number
of clients that come, leave and abort at any time: `ShareTypeCorrect`, `FeedCorrect`,
`CommandsCorrect`, `WatchCorrect`, `CrashCauseCorrect`. `Sending` says what a broadcast
does to the clients' ends, however far it comes. `Fresh` says that nobody who is still on the way to
the negotiation has been read from or sent to, hence that nobody joins twice; `Read`
that what the NT got was read before and after the negotiation; `Watching` that the list
given to select matches the live sockets at every step, not only when the loop is back
at select, and that no member of it was cut off. `Appended` and `Removed` say what
Python's `append` and `remove` do to a list without repetitions. `Round` is what
`CrashHasCause` needs: whoever still has an event to come in the round is a client, or was cut
off earlier in the same round when the NT was lost, so an event of a socket that is gone
always has that explanation; and the list of the round is not empty while the loop is at work
on one. `Bounded` keeps the counters in range.

**ServerStartup_proofs.** Everything the run checks, for every text, every size of the line
buffer and any garbage in an unset buffer: `StartupTypeCorrect`, `LineCorrect`,
`SpeedCorrect`, `CommentsCorrect`. The first half relates one turn of the reader to the text: `LineEndIs`,
`fgetsIs`, `strtrimIs` and `CutIs` describe the C functions, `AboutIsItem` and `ItemIsAbout`
show that the loop takes a line for one about a key exactly if the text says so, and
`ValueIs` that strtol finds the word given. The invariant `OnLine` says that the reader
stands at the start of a line, or of a piece of one that is longer than the buffer:
`FirstStart` and `NextOnLine` show that the places where fgets begins are those that
`Starts` defines (`Apart`, `OneStart`: no two of them have a place in common). `SpeedKnown` adds that no line passed
was about BAUDRATE while it is looked for, and carries the value on to the line;
`CommentsKnown` that the comments kept follow each other in the text. For the line,
`ConfiguredIs` lists what the paragraphs of `serial_setup` leave of each field, `left`
among them. `SpeedCorrect` is about files whose values fit (`~smashed`).

What stays with TLC:

- liveness, which needs ENABLED and is out of the prover's reach: `QuitEndsSession`,
  `EventuallyRelayed`, `EveryClientAccepted`, `QuitEndsClient`, `QuitEndsShell` and
  `EveryoneServed`;
- the runs that expect a violation, whose counterexamples say all there is.

What the assumptions on the constants ask for beyond their kinds: a packet has room for a
report (`MaxFrame >= 4`; the report is SOI, kind, address, EOI), an address is not the word
"quit" (a LED command and a quit are different messages), and the bounds of the models
are numbers.

## 7. What is not modelled

- The server's test modes (debug levels 2 and 3), option parsing and output of the
  server and the client: nothing there is shared or ordered.
- `xtty_create`: its steps (open a pseudo terminal, unlock it, link to it) are one that
  succeeds or fails, since nothing happens between them.
- `ini_file.c` below the level of tokens: a word is one token, and the memory of items
  shows only as the count of comments kept.
- Memory beyond the arrays of `read_config_file`: a value that runs over them changes the
  other ones in any way, or ends the process when the function returns; it does not change
  the variables of main.
- The parity from a quoted letter: strtol makes 0 of 'E' (`forward_server.c:144`), so the
  line gets no parity from such a file. The model does the same and no property is about it.
- Memory: `__history_add` leaks the line it overwrites (the test before its free is
  inverted), `__read_line` ends a full line one byte behind the buffer, and
  `command_prepare_argv` copies a line without comparing sizes. These show in the code
  and not in a state machine.
- The bracket of an arrow key: the header of the key codes says "ESC+[+A"
  (`input_helper.c:21`), while ESC and A alone recall a line, too. The model does
  what the code does and states no property about it.
- Time: the 20 second timeout of the NT's socket, on which a send to a stalled NT
  would raise, and `sleep(1)` before a child's exit, which is just a step.
- What the client does after a read of -1 bytes, and what a session does on a "quit" that
  was left over in a buffer, beyond letting it happen: no document says what is right.
- `utility.c`, `parse_reg.py`, the test programs.

## 8. Order of the work and what is left

Done, in this order: the forwarding server and its proofs; the history ring, its
abstraction and their proofs; the line editor; the shared telnet session; the parser
and the client on top of it; the command list with its proofs and the shell; start-up;
`Relay` and the proof that the server implements it; `IniFile` under the start-up;
`Console` on the editor; the proofs of the editor, the console, the shared feed and the
start-up; the scans as recursive functions, and with them the proofs of the parser, the
client and the shell, and what was left of the telnet session.

What would come next:

1. Lemmas with no run behind them that would be worth having: that the server's process
   table is bounded by its clients, and that `Relay` itself keeps what a reader takes it to
   promise (no cell twice, none to a session that is over), as theorems of the abstract
   specification.
2. `Gateway`: ForwardServer with ForwardClient at the other end of the connection, so
   that reports of the tty and LED commands meet; two clients then compete for reports.
   Its state space is the product of two that are large already; composing `Relay` instead
   of ForwardServer with the client is the way, now that the refinement is proved.
3. The client's promise to its user as an abstract specification of its own, with
   `ClientInv` as the start of a refinement proof.
