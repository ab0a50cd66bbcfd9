---------------------------- MODULE ForwardServer ----------------------------
(***************************************************************************)
(* forward-tty/forward_server.c once it listens: the parent's accept/fork  *)
(* loop and the child processes, each with the threads fwd_send            *)
(* (socket -> tty) and fwd_receive (tty -> socket) running forward_thread. *)
(*                                                                         *)
(* All children share one open tty, so a cell the tty prints is read by    *)
(* exactly one of them.  Data is abstracted to cells of two bytes: enough  *)
(* to tell a buffer that starts with the four bytes of "quit" or "exit"    *)
(* from one that does not, and from a read too short to decide.            *)
(* A stream is a log of cells; a thread holds positions in that log.       *)
(***************************************************************************)
EXTENDS Integers, Sequences

CONSTANTS
  Conns,       \* the connections clients may open
  Cell,        \* the two-byte values that are told apart
  QuitWord,    \* the pair of cells spelling "quit" (or "exit")
  Chunk,       \* sizeof(buffer) in cells (64 bytes in the code)
  MaxSent,     \* bound: cells a client sends
  Prints,      \* bound: the logs the tty may have printed
  NoConn       \* sc before the first accept

ASSUME ServerAssumption ==
  /\ QuitWord \in Cell \X Cell
  /\ Chunk \in Nat /\ Chunk >= 2
  /\ MaxSent \in Nat
  /\ NoConn \notin Conns

VARIABLES
  backlog,     \* connections the kernel completed, not yet accepted
  peer,        \* the client end of a connection
  sent,        \* log of the cells a client has sent
  ttyLog,      \* log of the cells the tty has printed
  reader,      \* ghost: which child read each printed cell; its length is the tty's read position
  ttyUp,       \* FALSE once the line is hung up
  parent,      \* parent process: where it is in its loop, and sc
  parentFds,   \* connections of which the parent has a descriptor
  child,       \* state of the main thread of a connection's child
  fds,         \* descriptors of {"sock", "tty"} a child has open
  thr,         \* where a child's thread is
  hand,        \* positions a thread has read and not yet written
  out,         \* positions a thread's writes have put at its destination
  taken,       \* how much of a client's log its child has read
  quit         \* ghost: threads that matched the quit word

envVars    == <<backlog, peer, sent, ttyLog, ttyUp>>
parentVars == <<parent, parentFds>>
childVars  == <<child, fds, thr, hand, out, taken, quit, reader>>
vars       == <<envVars, parentVars, childVars>>

Thread == {"fwd_send", "fwd_receive"}
Fd     == {"sock", "tty"}

\* thread_param_t of forward_process
From(t) == IF t = "fwd_send" THEN "sock" ELSE "tty"
To(t)   == IF t = "fwd_send" THEN "tty" ELSE "sock"

Over == {"exited", "failed", "killed"}

TypeOK ==
  /\ backlog \subseteq Conns
  /\ peer \in [Conns -> {"away", "up", "closed", "broken", "reset"}]
  /\ sent \in [Conns -> Seq(Cell)]
  /\ ttyLog \in Seq(Cell)
  /\ reader \in Seq(Conns)
  /\ ttyUp \in BOOLEAN
  /\ parent \in [pc : {"accept", "fork", "close"}, sc : Conns \cup {NoConn}]
  /\ parentFds \subseteq Conns
  /\ child \in [Conns -> {"none", "boot", "boot2", "failing", "join", "sleep"} \cup Over]
  /\ fds \in [Conns -> SUBSET Fd]
  /\ thr \in [Conns -> [Thread -> {"off", "select", "read", "write", "ended"}]]
  /\ hand \in [Conns -> [Thread -> Seq(Nat \ {0})]]
  /\ out \in [Conns -> [Thread -> Seq(Nat \ {0})]]
  /\ taken \in [Conns -> Nat]
  /\ quit \in [Conns -> SUBSET Thread]

Init ==
  /\ backlog = {}
  /\ peer = [c \in Conns |-> "away"]
  /\ sent = [c \in Conns |-> <<>>]
  /\ ttyLog = <<>>
  /\ reader = <<>>
  /\ ttyUp = TRUE
  /\ parent = [pc |-> "accept", sc |-> NoConn]
  /\ parentFds = {}
  /\ child = [c \in Conns |-> "none"]
  /\ fds = [c \in Conns |-> {}]
  /\ thr = [c \in Conns |-> [t \in Thread |-> "off"]]
  /\ hand = [c \in Conns |-> [t \in Thread |-> <<>>]]
  /\ out = [c \in Conns |-> [t \in Thread |-> <<>>]]
  /\ taken = [c \in Conns |-> 0]
  /\ quit = [c \in Conns |-> {}]

-----------------------------------------------------------------------------
(* The environment: clients and the tty device. *)

Connect(c) ==
  /\ peer[c] = "away"
  /\ peer' = [peer EXCEPT ![c] = "up"]
  /\ backlog' = backlog \cup {c}
  /\ UNCHANGED <<sent, ttyLog, ttyUp, parentVars, childVars>>

Type(c) ==
  /\ peer[c] = "up" /\ Len(sent[c]) < MaxSent
  /\ \E v \in Cell : sent' = [sent EXCEPT ![c] = Append(@, v)]
  /\ UNCHANGED <<backlog, peer, ttyLog, ttyUp, parentVars, childVars>>

\* an orderly close (FIN) or an abort (RST)
Hangup(c) ==
  /\ peer[c] = "up"
  /\ \E s \in {"closed", "reset"} : peer' = [peer EXCEPT ![c] = s]
  /\ UNCHANGED <<backlog, sent, ttyLog, ttyUp, parentVars, childVars>>

Emit ==
  /\ ttyUp
  /\ \E v \in Cell :
       /\ Append(ttyLog, v) \in Prints
       /\ ttyLog' = Append(ttyLog, v)
  /\ UNCHANGED <<backlog, peer, sent, ttyUp, parentVars, childVars>>

TtyHangup ==
  /\ ttyUp
  /\ ttyUp' = FALSE
  /\ UNCHANGED <<backlog, peer, sent, ttyLog, parentVars, childVars>>

-----------------------------------------------------------------------------
(* forward_accept_client in the parent. *)

Accept ==
  /\ parent.pc = "accept"
  /\ \E c \in backlog :
       /\ backlog' = backlog \ {c}
       /\ parent' = [pc |-> "fork", sc |-> c]
       /\ parentFds' = parentFds \cup {c}
  /\ UNCHANGED <<peer, sent, ttyLog, ttyUp, childVars>>

\* fork duplicates the parent's descriptors into the child
Fork ==
  /\ parent.pc = "fork"
  /\ parent' = [parent EXCEPT !.pc = "close"]
  /\ child' = [child EXCEPT ![parent.sc] = "boot"]
  /\ fds' = [fds EXCEPT ![parent.sc] = Fd]
  /\ UNCHANGED <<envVars, parentFds, thr, hand, out, taken, quit, reader>>

\* fork returned -1: the code takes the parent's branch all the same
ForkFails ==
  /\ parent.pc = "fork"
  /\ parent' = [parent EXCEPT !.pc = "close"]
  /\ UNCHANGED <<envVars, parentFds, childVars>>

CloseSc_Kept(c) == parentFds
CloseSc(c) == parentFds \ {c}

\* waits for the session to end before it accepts the next client
ParentClose_Waits ==
  /\ parent.pc = "close" /\ child[parent.sc] \in Over
  /\ parentFds' = CloseSc(parent.sc)
  /\ parent' = [parent EXCEPT !.pc = "accept"]
  /\ UNCHANGED <<envVars, childVars>>

ParentClose ==
  /\ parent.pc = "close"
  /\ parentFds' = CloseSc(parent.sc)
  /\ parent' = [parent EXCEPT !.pc = "accept"]
  /\ UNCHANGED <<envVars, childVars>>

-----------------------------------------------------------------------------
(* forward_process: the main thread of a child. *)

\* the process is gone: no descriptor and no thread of it is left
Terminate(c, how) ==
  /\ child' = [child EXCEPT ![c] = how]
  /\ fds' = [fds EXCEPT ![c] = {}]
  /\ thr' = [thr EXCEPT ![c] = [t \in Thread |-> "off"]]
  /\ hand' = [hand EXCEPT ![c] = [t \in Thread |-> <<>>]]

\* forward_create_thread creates fwd_send, then fwd_receive
Spawn(c) ==
  /\ \/ /\ child[c] = "boot"
        /\ child' = [child EXCEPT ![c] = "boot2"]
        /\ thr' = [thr EXCEPT ![c]["fwd_send"] = "select"]
     \/ /\ child[c] = "boot2"
        /\ child' = [child EXCEPT ![c] = "join"]
        /\ thr' = [thr EXCEPT ![c]["fwd_receive"] = "select"]
  /\ UNCHANGED <<envVars, parentVars, fds, hand, out, taken, quit, reader>>

\* pthread_create failed (SCHED_RR needs a privilege): the main thread closes
\* the tty, which fwd_send may be using already
SpawnFails(c) ==
  /\ child[c] \in {"boot", "boot2"}
  /\ child' = [child EXCEPT ![c] = "failing"]
  /\ fds' = [fds EXCEPT ![c] = @ \ {"tty"}]
  /\ UNCHANGED <<envVars, parentVars, thr, hand, out, taken, quit, reader>>

\* exit(EXIT_FAILURE)
ExitFailure(c) ==
  /\ child[c] = "failing"
  /\ Terminate(c, "failed")
  /\ UNCHANGED <<envVars, parentVars, out, taken, quit, reader>>

\* forward_wait_thread returns after its first join, of tid[0]
Joined_Receive(c) == thr[c]["fwd_receive"] = "ended"
Joined(c) == thr[c]["fwd_send"] = "ended"

Join(c) ==
  /\ child[c] = "join" /\ Joined(c)
  /\ child' = [child EXCEPT ![c] = "sleep"]
  /\ UNCHANGED <<envVars, parentVars, fds, thr, hand, out, taken, quit, reader>>

\* sleep(1); exit(EXIT_SUCCESS)
Exit(c) ==
  /\ child[c] = "sleep"
  /\ Terminate(c, "exited")
  /\ UNCHANGED <<envVars, parentVars, out, taken, quit, reader>>

-----------------------------------------------------------------------------
(* forward_thread and forward_message. *)

Stream(c, t) == IF t = "fwd_send" THEN sent[c] ELSE ttyLog
Taken(c, t)  == IF t = "fwd_send" THEN taken[c] ELSE Len(reader)
Unread(c, t) ==
  IF t = "fwd_receive" /\ ~ttyUp THEN 0 ELSE Len(Stream(c, t)) - Taken(c, t)

\* end of file or error pending on the source
SourceDone(c, t) ==
  IF t = "fwd_send" THEN peer[c] \in {"closed", "broken", "reset"} ELSE ~ttyUp

SelectReturns(c, t) ==
  /\ thr[c][t] = "select"
  /\ From(t) \in fds[c]
  /\ Unread(c, t) > 0 \/ SourceDone(c, t)
  /\ thr' = [thr EXCEPT ![c][t] = "read"]
  /\ UNCHANGED <<envVars, parentVars, child, fds, hand, out, taken, quit, reader>>

\* select on a descriptor the other thread closed: -1, and read_set is still
\* as FD_SET left it.  A select that was already blocked may stay blocked.
SelectBadFd(c, t) ==
  /\ thr[c][t] = "select"
  /\ From(t) \notin fds[c]
  /\ thr' = [thr EXCEPT ![c][t] = "read"]
  /\ UNCHANGED <<envVars, parentVars, child, fds, hand, out, taken, quit, reader>>

\* after the loop: READ_FAILURE closes "from", WRITE_FAILURE closes "to"
EndThread(c, t, fd) ==
  /\ thr' = [thr EXCEPT ![c][t] = "ended"]
  /\ fds' = [fds EXCEPT ![c] = @ \ {fd}]
  /\ hand' = [hand EXCEPT ![c][t] = <<>>]

\* read() returns what is there, at most the buffer
ReadCount(c, t) == IF Unread(c, t) < Chunk THEN Unread(c, t) ELSE Chunk

\* A read of nothing is not a failure: both tests of num_read are "< 0".
ReadFailed_OnZero(c, t) ==
  \/ From(t) \notin fds[c]
  \/ Unread(c, t) = 0
ReadFailed(c, t) ==
  \/ From(t) \notin fds[c]
  \/ t = "fwd_send" /\ peer[c] = "reset" /\ Unread(c, t) = 0

ReadFails(c, t) ==
  /\ thr[c][t] = "read"
  /\ ReadFailed(c, t)
  /\ EndThread(c, t, From(t))
  /\ UNCHANGED <<envVars, parentVars, child, out, taken, quit, reader>>

\* Outcomes of the strncmp tests on the first four bytes of a buffer of which
\* read() has filled the first n cells; the buffer is not initialised, so the
\* rest of it is anything.
QuitOutcomes(c, t, n) ==
  { b = QuitWord : b \in { b \in Cell \X Cell :
      \A i \in 1..2 : i <= n => b[i] = Stream(c, t)[Taken(c, t) + i] } }

\* the positions a read of n cells returns
Positions_FromZero(c, t, n) == [i \in 1..n |-> Taken(c, t) + i - 1]
Positions(c, t, n) == [i \in 1..n |-> Taken(c, t) + i]

Consume(c, t, n) ==
  IF t = "fwd_send"
  THEN taken' = [taken EXCEPT ![c] = @ + n] /\ UNCHANGED reader
  ELSE reader' = reader \o [i \in 1..n |-> c] /\ UNCHANGED taken

ReadQuit(c, t) ==
  /\ thr[c][t] = "read" /\ ~ReadFailed(c, t)
  /\ TRUE \in QuitOutcomes(c, t, ReadCount(c, t))
  /\ Consume(c, t, ReadCount(c, t))
  /\ quit' = [quit EXCEPT ![c] = @ \cup {t}]
  /\ EndThread(c, t, To(t))
  /\ UNCHANGED <<envVars, parentVars, child, out>>

Read(c, t) ==
  LET n == ReadCount(c, t) IN
  /\ thr[c][t] = "read" /\ ~ReadFailed(c, t)
  /\ FALSE \in QuitOutcomes(c, t, n)
  /\ Consume(c, t, n)
  /\ hand' = [hand EXCEPT ![c][t] = Positions(c, t, n)]
  /\ thr' = [thr EXCEPT ![c][t] = IF n = 0 THEN "select" ELSE "write"]
  /\ UNCHANGED <<envVars, parentVars, child, fds, out, quit>>

\* what is left to write of p after write() accepted m cells of it
Rest_Dropped(p, m) == <<>>
Rest_Unmoved(p, m) == SubSeq(p, 1, Len(p) - m)
Rest(p, m) == SubSeq(p, m + 1, Len(p))

\* one turn of safety_write's loop, with m cells accepted
Written(c, t, m) ==
  /\ hand' = [hand EXCEPT ![c][t] = Rest(@, m)]
  /\ thr' = [thr EXCEPT ![c][t] = IF Rest(hand[c][t], m) = <<>> THEN "select" ELSE "write"]

WriteTakes(c, t) ==
  /\ thr[c][t] = "write" /\ To(t) \in fds[c]
  /\ IF t = "fwd_send" THEN ttyUp ELSE peer[c] = "up"
  /\ \E m \in 1..Len(hand[c][t]) :
       /\ out' = [out EXCEPT ![c][t] = @ \o SubSeq(hand[c][t], 1, m)]
       /\ Written(c, t, m)
  /\ UNCHANGED <<envVars, parentVars, child, fds, taken, quit, reader>>

\* the client has closed: the kernel takes the bytes, and a RST comes back
WriteLost(c) ==
  /\ thr[c]["fwd_receive"] = "write" /\ "sock" \in fds[c]
  /\ peer[c] = "closed"
  /\ \E s \in {"closed", "broken"} : peer' = [peer EXCEPT ![c] = s]
  /\ Written(c, "fwd_receive", Len(hand[c]["fwd_receive"]))
  /\ UNCHANGED <<backlog, sent, ttyLog, ttyUp, parentVars, child, fds, out, taken, quit, reader>>

WriteFails(c, t) ==
  /\ thr[c][t] = "write"
  /\ \/ To(t) \notin fds[c]
     \/ IF t = "fwd_send" THEN ~ttyUp ELSE peer[c] = "reset"
  /\ EndThread(c, t, To(t))
  /\ UNCHANGED <<envVars, parentVars, child, out, taken, quit, reader>>

\* SIGPIPE has its default disposition: it ends the whole child
Sigpipe(c) ==
  /\ thr[c]["fwd_receive"] = "write" /\ "sock" \in fds[c]
  /\ peer[c] \in {"broken", "reset"}
  /\ Terminate(c, "killed")
  /\ UNCHANGED <<envVars, parentVars, out, taken, quit, reader>>

-----------------------------------------------------------------------------
Parent == Accept \/ Fork \/ ForkFails \/ ParentClose

Main(c) == Spawn(c) \/ SpawnFails(c) \/ ExitFailure(c) \/ Join(c) \/ Exit(c)

ThreadStep(c, t) ==
  SelectReturns(c, t) \/ ReadFails(c, t) \/ ReadQuit(c, t) \/ Read(c, t) \/ WriteFails(c, t)

Environment ==
  \/ Emit \/ TtyHangup
  \/ \E c \in Conns : Connect(c) \/ Type(c) \/ Hangup(c)

Next ==
  \/ Environment
  \/ Parent
  \/ \E c \in Conns :
       \/ Main(c) \/ WriteLost(c) \/ Sigpipe(c)
       \/ \E t \in Thread : ThreadStep(c, t) \/ WriteTakes(c, t) \/ SelectBadFd(c, t)

Spec == Init /\ [][Next]_vars

(***************************************************************************)
(* The kernel runs every runnable thread: the forwarding threads are       *)
(* SCHED_RR at one priority, and real-time throttling leaves the parent    *)
(* and the children's main threads a share of the CPU.  The tty drains     *)
(* what is written to it: serial_setup sets CLOCAL and clears IXON; it     *)
(* leaves CRTSCTS as it was, so this also asks of the device that it does  *)
(* not hold CTS down for ever if an earlier program set that flag.         *)
(* Nothing is assumed of the clients, who may stop reading, of what the    *)
(* tty prints, nor of a select blocked on a descriptor closed under it.    *)
(***************************************************************************)
Fairness ==
  /\ WF_vars(Parent)
  /\ \A c \in Conns :
       /\ WF_vars(Main(c))
       /\ WF_vars(WriteLost(c) \/ Sigpipe(c))
       /\ WF_vars(WriteTakes(c, "fwd_send"))
       /\ \A t \in Thread : WF_vars(ThreadStep(c, t))

FairSpec == Spec /\ Fairness

-----------------------------------------------------------------------------
(* Properties. *)

Running == {"select", "read", "write"}

\* safety_write and forward_message: the tty gets what a client sent, in
\* order, without gaps or repeats, however the writes are split; while
\* fwd_send runs, all it has read is either written or in its buffer.
UplinkInOrder ==
  \A c \in Conns :
    LET done == out[c]["fwd_send"]
        held == hand[c]["fwd_send"]
    IN /\ \A i \in 1..Len(done) : done[i] = i
       /\ \A i \in 1..Len(held) : held[i] = Len(done) + i
       /\ thr[c]["fwd_send"] \in Running => taken[c] = Len(done) + Len(held)

\* The children share the tty: each cell it prints reaches only the client of
\* the child that read it, so at most one, once, and in the order printed.
DownlinkOnce ==
  \A c \in Conns :
    LET got == out[c]["fwd_receive"] IN
    /\ \A i, j \in 1..Len(got) : i < j => got[i] < got[j]
    /\ \A i \in 1..Len(got) : got[i] \in 1..Len(reader) /\ reader[got[i]] = c

\* what the child of c has read from the tty, and neither written nor in hand
LostOf(c) ==
  LET t == "fwd_receive" IN
  { k \in 1..Len(reader) :
      /\ reader[k] = c
      /\ \A i \in 1..Len(out[c][t]) : out[c][t][i] # k
      /\ \A i \in 1..Len(hand[c][t]) : hand[c][t][i] # k }

\* A child that still forwards to its client has lost nothing the tty printed.
\* When it stops, on a failed write, a SIGPIPE, a quit or a hang-up of the tty,
\* what is gone is at most one read of forward_message.  (Of a client that has
\* closed nothing is said: the kernel takes what is written to it.)
LossIsOneRead ==
  \A c \in Conns : peer[c] \notin {"closed", "broken"} =>
    /\ thr[c]["fwd_receive"] \in Running => LostOf(c) = {}
    /\ \A j, k \in LostOf(c) : k - j < Chunk

\* A session winds down only for a reason: a quit word, an aborted connection,
\* a hung-up tty, or, for the moment between the close of the tty and the exit,
\* a second thread that could not be created (forward_process).  In particular
\* not because another child won the race for the tty's input after both had
\* been told it was readable.  SIGPIPE ends a child only if a RST has come.
NoSpuriousEnd ==
  \A c \in Conns :
    /\ child[c] \in {"sleep", "exited"} \/ (\E t \in Thread : thr[c][t] = "ended")
         => \/ quit[c] # {} \/ peer[c] = "reset" \/ ~ttyUp
            \/ child[c] = "failing"
    /\ child[c] = "killed" => peer[c] \in {"broken", "reset"}

\* When the parent waits in accept it holds no connection, so a child that is
\* over held the last descriptor and its client has been told.
ReleasedWhenIdle ==
  parent.pc = "accept" =>
    /\ parentFds = {}
    /\ \A c \in Conns : child[c] \in Over \cup {"none"} => fds[c] = {}

\* What a client sees of its session, of what arrived, and of what it got.
SessionOf(state) ==
  CASE state = "none" -> "none" [] state \in Over -> "over" [] OTHER -> "open"
Sessions == [c \in Conns |-> SessionOf(child[c])]
Arrived ==
  [c \in Conns |-> [i \in DOMAIN out[c]["fwd_send"] |-> sent[c][out[c]["fwd_send"][i]]]]
Got == [c \in Conns |-> out[c]["fwd_receive"]]

Promise == INSTANCE Relay WITH
  Batch <- Chunk, printed <- Len(ttyLog), session <- Sessions, up <- Arrived, down <- Got

\* Whatever its processes, threads and descriptors do, the server relays as Relay
\* promises: nothing moves before a session opens or after it has ended, the tty
\* gets a prefix of what a client sent, and no two clients get the same cell.
KeepsPromise == Promise!Spec

\* A client's quit ends its child, whatever fwd_receive is blocked in.
QuitEndsSession ==
  \A c \in Conns :
    "fwd_send" \in quit[c] ~> child[c] \in Over /\ c \notin parentFds

\* No session keeps the parent from accepting the next client.
EveryClientAccepted == \A c \in Conns : c \in backlog ~> c \notin backlog

\* All a client sends reaches the tty, also what it sent before it hung up,
\* unless its session stops forwarding: fwd_send ends, or fwd_receive closes
\* the socket on a write failure or a quit.
EventuallyRelayed ==
  \A c \in Conns :
    <>[](\/ thr[c]["fwd_send"] \notin Running
         \/ "sock" \notin fds[c]
         \/ Len(out[c]["fwd_send"]) = Len(sent[c]))

\* "other end is not available anymore": while the tty is up, a session whose
\* client has hung up comes to an end, or at least stops serving it.
HangupEndsSession ==
  \A c \in Conns :
    child[c] = "join" /\ peer[c] = "closed" /\ ttyUp
      ~> child[c] \in Over \/ fds[c] # Fd \/ ~ttyUp
=============================================================================
