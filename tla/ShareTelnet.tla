----------------------------- MODULE ShareTelnet -----------------------------
(***************************************************************************)
(* share-telnet/nttelnet.py: one telnet session with the NT shared by all  *)
(* the clients that connect to the local port.  A single thread loops over *)
(* the sockets that one select found readable; it blocks in telnet_nego    *)
(* and telnet_nt, and an exception outside a try ends it.                  *)
(*                                                                         *)
(* Client commands and NT messages are numbered; recv takes all there is.  *)
(***************************************************************************)
EXTENDS Integers, SequencesExt, Ascending

CONSTANTS
  Client,     \* the connections clients may open
  S, Nt,      \* the listening socket and the NT's socket
  MaxSent,    \* bound: commands of a client
  MaxNt,      \* bound: messages of the NT
  MaxLinks    \* bound: logins that succeed

ASSUME ShareAssumption ==
  /\ S \notin Client /\ Nt \notin Client /\ S # Nt
  /\ MaxSent \in Nat /\ MaxNt \in Nat /\ MaxLinks \in Nat

VARIABLES
  pc,       \* "select", "round", "nego", "login", or "dead" after an exception
  inputs,
  rd,       \* what is left of the round's readable sockets
  clients,  \* keys of the dictionary clients
  new,      \* the client telnet_nego talks to
  ntTn,     \* nt_tn is not None
  ntSock,   \* nt_sock is not None
  backlog,  \* connections not yet accepted
  peer,     \* the client's end: "away", "up", "eof" (closed), "late" (closed, and what
            \* we sent it will come back as a reset), "broken" (it came back), "reset"
            \* (aborted), "cut" (we closed)
  sent,     \* commands a client has sent
  taken,    \* how many of them were read
  link,     \* the NT's end: "none", "up", "eof", "reset"
  links,    \* logins so far
  ntSent,   \* messages the NT has sent
  ntTaken,  \* how many of them were read
  got,      \* messages a client was sent
  fwd,      \* commands the NT was sent, as <<client, number>>
  joined    \* ghost: ntTaken when a client was added, and its first command not swallowed

server == <<pc, inputs, rd, clients, new, ntTn, ntSock>>
env    == <<backlog, peer, sent, link, links, ntSent>>
moved  == <<taken, ntTaken, got, fwd, joined>>
vars   == <<server, env, moved>>

TypeOK ==
  /\ pc \in {"select", "round", "nego", "login", "dead"}
  /\ inputs \in Seq(Client \cup {S, Nt})
  /\ rd \in Seq(Client \cup {S, Nt})
  /\ clients \subseteq Client
  /\ new \in Client \cup {S}
  /\ ntTn \in BOOLEAN /\ ntSock \in BOOLEAN
  /\ backlog \subseteq Client
  /\ peer \in [Client -> {"away", "up", "eof", "late", "broken", "reset", "cut"}]
  /\ sent \in [Client -> 0..MaxSent]
  /\ \A c \in Client : taken[c] \in 0..sent[c]
  /\ link \in {"none", "up", "eof", "reset"}
  /\ links \in 0..MaxLinks
  /\ ntSent \in 0..MaxNt
  /\ ntTaken \in 0..ntSent
  /\ got \in [Client -> Seq(1..MaxNt)]
  /\ fwd \in Seq(Client \X (1..MaxSent))
  /\ joined \in [Client -> [nt : 0..MaxNt, cmd : 0..MaxSent]]

Init ==
  /\ pc = "select"
  /\ inputs = <<S>> /\ rd = <<>> /\ clients = {} /\ new = S
  /\ ntTn = FALSE /\ ntSock = FALSE
  /\ backlog = {}
  /\ peer = [c \in Client |-> "away"]
  /\ sent = [c \in Client |-> 0] /\ taken = [c \in Client |-> 0]
  /\ link = "none" /\ links = 0 /\ ntSent = 0 /\ ntTaken = 0
  /\ got = [c \in Client |-> <<>>] /\ fwd = <<>>
  /\ joined = [c \in Client |-> [nt |-> 0, cmd |-> 0]]

-----------------------------------------------------------------------------
(* Clients and the NT. *)

Connect(c) ==
  /\ peer[c] = "away"
  /\ peer' = [peer EXCEPT ![c] = "up"]
  /\ backlog' = backlog \cup {c}
  /\ UNCHANGED <<server, sent, link, links, ntSent, moved>>

Command(c) ==
  /\ peer[c] = "up" /\ sent[c] < MaxSent
  /\ sent' = [sent EXCEPT ![c] = @ + 1]
  /\ UNCHANGED <<server, backlog, peer, link, links, ntSent, moved>>

\* close, with nothing or (once accepted) with something of ours on its way; or abort
Leave(c) ==
  /\ peer[c] \in {"up", "eof"}
  /\ \E how \in {"eof", "late", "reset"} :
       /\ how = "late" => peer[c] = "up" /\ c \notin backlog
       /\ peer' = [peer EXCEPT ![c] = how]
  /\ UNCHANGED <<server, backlog, sent, link, links, ntSent, moved>>

\* the reset with which a closed end answers what it is sent
RstArrives(c) ==
  /\ peer[c] = "late"
  /\ peer' = [peer EXCEPT ![c] = "broken"]
  /\ UNCHANGED <<server, backlog, sent, link, links, ntSent, moved>>

NtMessage ==
  /\ link = "up" /\ ntSent < MaxNt
  /\ ntSent' = ntSent + 1
  /\ UNCHANGED <<server, backlog, peer, sent, link, links, moved>>

NtLeaves ==
  /\ link \in {"up", "eof"}
  /\ link' \in {"eof", "reset"}
  /\ UNCHANGED <<server, backlog, peer, sent, links, ntSent, moved>>

-----------------------------------------------------------------------------
(* The event loop. *)

Readable(x) ==
  CASE x = S  -> backlog # {}
    [] x = Nt -> ntTaken < ntSent \/ link \in {"eof", "reset"}
    [] OTHER  -> taken[x] < sent[x] \/ peer[x] \in {"eof", "late", "broken", "reset"}

\* select's answer, in the order of the list it is given
ReadyOf(list) ==
  LET at == Ascending({i \in 1..Len(list) : Readable(list[i])})
  IN [k \in 1..Len(at) |-> list[at[k]]]

Select ==
  /\ pc = "select"
  /\ \E x \in Range(inputs) : Readable(x)
  /\ rd' = ReadyOf(inputs)
  /\ pc' = "round"
  /\ UNCHANGED <<inputs, clients, new, ntTn, ntSock, env, moved>>

\* on to the next socket of the round
Continue(rest) ==
  /\ rd' = rest
  /\ pc' = IF rest = <<>> THEN "select" ELSE "round"

Crash ==
  /\ pc' = "dead"
  /\ UNCHANGED <<inputs, rd, clients, new, ntTn, ntSock>>

\* sendall to a connection that was reset raises an exception; to one that the client
\* only closed it succeeds, once
Broken(c) == peer[c] \in {"broken", "reset"}
Raises(cs) == \E c \in cs : Broken(c)
SentTo(cs) == [c \in Client |-> IF c \in cs /\ peer[c] = "eof" THEN "late" ELSE peer[c]]

\* a broadcast that raises half way
SentToSome(cs) == \E done \in SUBSET {c \in cs : ~Broken(c)} : peer' = SentTo(done)

AtNt == pc = "round" /\ Head(rd) = Nt /\ ntSock

\* data from nt
Listeners_Ready == clients \cap Range(rd)
Listeners == clients

\* what recv returns: all that has arrived
News_LateByOne == [i \in 1..(ntSent - ntTaken) |-> ntTaken + i + 1]
News == [i \in 1..(ntSent - ntTaken) |-> ntTaken + i]

NtData ==
  /\ AtNt /\ ntTaken < ntSent
  /\ ~Raises(clients)
  /\ ntTaken' = ntSent
  /\ got' = [c \in Client |-> IF c \in Listeners THEN got[c] \o News ELSE got[c]]
  /\ peer' = SentTo(clients)
  /\ Continue(Tail(rd))
  /\ UNCHANGED <<inputs, clients, new, ntTn, ntSock>>
  /\ UNCHANGED <<backlog, sent, link, links, ntSent, taken, fwd, joined>>

\* The broadcast raises half way: it is taken for a loss of the NT, and the
\* broadcast in the handler raises again, outside a try.
NtDataRaises ==
  /\ AtNt /\ ntTaken < ntSent
  /\ Raises(clients)
  /\ ntTaken' = ntSent
  /\ \E done \in SUBSET {c \in clients : ~Broken(c)} :
       /\ got' = [c \in Client |-> IF c \in done THEN got[c] \o News ELSE got[c]]
       /\ peer' = SentTo(done)
  /\ Crash
  /\ UNCHANGED <<backlog, sent, link, links, ntSent, taken, fwd, joined>>

\* the NT closed or aborted: every client is told and closed
AfterLoss_Empty == <<>>
AfterLoss == <<S>>

NtLost ==
  /\ AtNt /\ ntTaken = ntSent
  /\ IF Raises(clients)
     THEN Crash /\ SentToSome(clients) /\ UNCHANGED link
     ELSE /\ ntTn' = FALSE
          /\ inputs' = AfterLoss
          /\ clients' = {}
          /\ peer' = [c \in Client |-> IF c \in clients THEN "cut" ELSE peer[c]]
          /\ link' = "none"
          /\ Continue(Tail(rd))
          /\ UNCHANGED <<new, ntSock>>
  /\ UNCHANGED <<backlog, sent, links, ntSent, moved>>

\* accept, and the first half of telnet_nego; its recv blocks
Accept ==
  /\ pc = "round" /\ Head(rd) = S
  /\ \E c \in backlog :
       /\ new' = c /\ backlog' = backlog \ {c}
       /\ pc' = IF Raises({c}) THEN "dead" ELSE "nego"
       /\ peer' = SentTo({c})
  /\ UNCHANGED <<inputs, rd, clients, ntTn, ntSock, sent, link, links, ntSent, moved>>

\* `if not nt_tn', reached after an event of s or of a client
Reconnect == IF ntTn THEN Continue(Tail(rd)) ELSE pc' = "login" /\ UNCHANGED rd

Added_OnceLoggedIn == IF ntTn THEN clients \cup {new} ELSE clients
Added == clients \cup {new}

\* The first thing a client sends, or its end, is swallowed.
Nego ==
  /\ pc = "nego"
  /\ taken[new] < sent[new] \/ peer[new] \in {"eof", "late", "broken"}
  /\ taken' = [taken EXCEPT ![new] = sent[new]]
  /\ joined' = [joined EXCEPT ![new] = [nt |-> ntTaken, cmd |-> sent[new]]]
  /\ inputs' = Append(inputs, new)
  /\ clients' = Added
  /\ Reconnect
  /\ UNCHANGED <<new, ntTn, ntSock, env, ntTaken, got, fwd>>

\* recv after a close and a reset: the end of file or an exception, as the system has it
NegoRaises ==
  /\ pc = "nego" /\ taken[new] = sent[new] /\ Broken(new)
  /\ Crash
  /\ UNCHANGED <<env, moved>>

AtClient == pc = "round" /\ Head(rd) \in Client

Chunk_WholeBuffer(c) == [i \in 1..sent[c] |-> <<c, i>>]
Chunk(c) == [i \in 1..(sent[c] - taken[c]) |-> <<c, taken[c] + i>>]

ClientData ==
  LET c == Head(rd) IN
     /\ AtClient /\ c \in clients /\ taken[c] < sent[c]
     /\ ~ntSock \/ link # "reset"
     /\ taken' = [taken EXCEPT ![c] = sent[c]]
     /\ fwd' = IF ntSock /\ link = "up" THEN fwd \o Chunk(c) ELSE fwd
     /\ Reconnect
     /\ UNCHANGED <<inputs, clients, new, ntTn, ntSock, env, ntTaken, got, joined>>

\* The client has left, or it sent a command the NT's socket would not take: the
\* same handler drops the client in both cases.
Gone(c) == taken[c] = sent[c]
Dropped_InputKept(c) == inputs
Dropped(c) == RemoveFirst(inputs, c)

ClientOffline ==
  LET c == Head(rd) IN
  /\ AtClient /\ c \in clients
  /\ Gone(c) \/ (ntSock /\ link = "reset")
  /\ taken' = [taken EXCEPT ![c] = sent[c]]
  /\ inputs' = Dropped(c)
  /\ clients' = clients \ {c}
  /\ peer' = [peer EXCEPT ![c] = "cut"]
  /\ Reconnect
  /\ UNCHANGED <<new, ntTn, ntSock, backlog, sent, link, links, ntSent, ntTaken, got, fwd, joined>>

\* The socket was closed earlier in this round: recv raises, and so does the
\* handler, whose clients[sock] is gone.
ClientStale ==
  /\ AtClient /\ Head(rd) \notin clients
  /\ Crash
  /\ UNCHANGED <<env, moved>>

\* telnet_nt: it waits for the prompts without a timeout
Login ==
  /\ pc = "login" /\ links < MaxLinks
  /\ link' = "up" /\ links' = links + 1
  /\ ntTn' = TRUE /\ ntSock' = TRUE
  /\ inputs' = Append(inputs, Nt)
  /\ Continue(Tail(rd))
  /\ UNCHANGED <<clients, new, backlog, peer, sent, ntSent, moved>>

\* the rest of the round is given up
LoginFails ==
  /\ pc = "login"
  /\ IF Raises(clients)
     THEN Crash /\ SentToSome(clients)
     ELSE /\ ntSock' = FALSE /\ peer' = SentTo(clients)
          /\ Continue(<<>>)
          /\ UNCHANGED <<inputs, clients, new, ntTn>>
  /\ UNCHANGED <<backlog, sent, link, links, ntSent, moved>>

Server ==
  \/ Select \/ NtData \/ NtDataRaises \/ NtLost \/ Accept \/ Nego \/ NegoRaises
  \/ ClientData \/ ClientOffline \/ ClientStale

Next ==
  \/ Server \/ Login \/ LoginFails
  \/ NtMessage \/ NtLeaves
  \/ \E c \in Client : Connect(c) \/ Command(c) \/ Leave(c) \/ RstArrives(c)

Spec == Init /\ [][Next]_vars

\* The loop runs when it can; clients and the NT owe nothing, so telnet_nego and
\* telnet_nt may block for ever.
FairSpec == Spec /\ WF_vars(Server)

-----------------------------------------------------------------------------
(* Properties. *)

\* Whenever the loop blocks in select it watches exactly the listening socket, its
\* clients and, if it has one, the NT: nobody is forgotten or watched once closed.
WatchedExactly ==
  pc = "select" =>
    /\ IsInjective(inputs)
    /\ Range(inputs) = {S} \cup clients \cup (IF ntTn THEN {Nt} ELSE {})
    /\ ntTn => ntSock
    /\ \A c \in clients : peer[c] # "cut"

\* The session is shared: every client gets every message of the NT from the
\* moment it joined, in order and once, and all present clients are level.
SameFeed ==
  \A c \in Client :
    /\ \A i \in 1..Len(got[c]) : got[c][i] = joined[c].nt + i
    /\ c \in clients /\ pc # "dead" => joined[c].nt + Len(got[c]) = ntTaken

\* The NT gets each client's commands in order and at most once, none of those
\* that answered the telnet negotiation.
CommandsInOrder ==
  \A i, j \in 1..Len(fwd) :
    /\ i < j /\ fwd[i][1] = fwd[j][1] => fwd[i][2] < fwd[j][2]
    /\ fwd[i][2] > joined[fwd[i][1]].cmd

\* What ends the server, and nothing else does: a client it still serves, or is
\* negotiating with, aborted, or closed and had something sent to it come back as a reset
\* before its end was read (an orderly close and two messages of the NT in a row are
\* enough); or a loss of the NT closed a client whose own event was still to come in the
\* round.
CrashHasCause ==
  pc = "dead" =>
    \/ \E c \in Client \cap (clients \cup {new}) : Broken(c)
    \/ \E c \in Client \cap Range(rd) : peer[c] = "cut"

\* As long as the loop keeps coming back to select, whoever waits is accepted and
\* whatever the NT says is passed on.
EveryoneServed ==
  []<>(pc = "select") =>
    /\ \A c \in Client : c \in backlog ~> c \notin backlog
    /\ ntTaken < ntSent ~> ntTaken = ntSent
=============================================================================
