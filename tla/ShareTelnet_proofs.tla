-------------------------- MODULE ShareTelnet_proofs --------------------------
(* Proofs about ShareTelnet, for any clients and any number of messages.     *)
EXTENDS ShareTelnet, Ascending_proofs, SequenceTheorems, TLAPS

Ends == {"away", "up", "eof", "late", "broken", "reset", "cut"}

\* The part of the types that the feeds and the commands depend on.
Typed ==
  /\ pc \in {"select", "round", "nego", "login", "dead"}
  /\ clients \subseteq Client /\ backlog \subseteq Client
  /\ new \in Client \cup {S}
  /\ peer \in [Client -> Ends]
  /\ sent \in [Client -> Nat] /\ taken \in [Client -> Nat]
  /\ \A c \in Client : taken[c] <= sent[c]
  /\ ntSent \in Nat /\ ntTaken \in Nat /\ ntTaken <= ntSent
  /\ got \in [Client -> Seq(Nat)]
  /\ fwd \in Seq(Client \X Nat)
  /\ joined \in [Client -> [nt : Nat, cmd : Nat]]

\* A client that has not joined: it is on its way to telnet_nego.
Outside(c) == peer[c] = "away" \/ c \in backlog \/ (pc = "nego" /\ new = c)

\* Nobody joins twice, and nothing was read from or sent to whoever has not joined.
Fresh ==
  /\ pc = "nego" => new \in Client /\ new \notin backlog /\ peer[new] # "away"
  /\ \A c \in backlog : peer[c] # "away"
  /\ \A c \in Client : Outside(c) => c \notin clients /\ got[c] = <<>> /\ taken[c] = 0

\* What the NT got was read, after the negotiation.
Read ==
  /\ \A c \in Client : joined[c].cmd <= taken[c]
  /\ \A i \in 1..Len(fwd) : fwd[i][2] > 0 /\ fwd[i][2] <= taken[fwd[i][1]]

SInv == Typed /\ Fresh /\ Read /\ SameFeed /\ CommandsInOrder

\* Sending changes nothing of the clients' ends but that a reset may come back.
PeersKept ==
  /\ peer' \in [Client -> Ends]
  /\ \A c \in Client : peer'[c] = peer[c] \/ (peer[c] = "eof" /\ peer'[c] = "late")

LEMMA Sending ==
  ASSUME Typed,
         NtData \/ NtDataRaises \/ Accept \/ LoginFails \/ (NtLost /\ Raises(clients))
  PROVE  PeersKept
<1>1. ASSUME NEW cs, peer' = SentTo(cs) PROVE PeersKept
  BY <1>1 DEF SentTo, PeersKept, Typed, Ends
<1>2. \E cs : peer' = SentTo(cs)
  BY DEF NtData, NtDataRaises, Accept, LoginFails, NtLost, SentToSome
<1>. QED
  BY <1>1, <1>2

LEMMA ShareInitInv == Init => SInv
BY ShareAssumption
DEF Init, SInv, Typed, Ends, Fresh, Outside, Read, SameFeed, CommandsInOrder

\* What recv returned continues what a client was sent before.
LEMMA FeedGoesOn ==
  ASSUME Typed, NEW g \in Seq(Nat), NEW n \in Nat,
         \A i \in 1..Len(g) : g[i] = n + i, n + Len(g) = ntTaken
  PROVE  /\ g \o News \in Seq(Nat)
         /\ Len(g \o News) = Len(g) + (ntSent - ntTaken)
         /\ \A i \in 1..Len(g \o News) : (g \o News)[i] = n + i
<1>1. /\ News \in Seq(Nat) /\ Len(News) = ntSent - ntTaken
      /\ \A i \in 1..(ntSent - ntTaken) : News[i] = ntTaken + i
  BY DEF News, Typed
<1>2. ntSent - ntTaken \in Nat /\ ntTaken \in Nat /\ Len(g) \in Nat
  BY DEF Typed
<1>3. /\ g \o News \in Seq(Nat) /\ Len(g \o News) = Len(g) + (ntSent - ntTaken)
      /\ \A i \in 1..Len(g) : (g \o News)[i] = g[i]
      /\ \A i \in 1..Len(g \o News) : i > Len(g) => (g \o News)[i] = News[i - Len(g)]
  <2>1. /\ g \o News \in Seq(Nat) /\ Len(g \o News) = Len(g) + Len(News)
        /\ \A i \in 1..Len(g) + Len(News) :
             (g \o News)[i] = IF i <= Len(g) THEN g[i] ELSE News[i - Len(g)]
    <3>1. g \in Seq(Nat) /\ News \in Seq(Nat)
      BY <1>1
    <3>. HIDE DEF News
    <3>. QED
      BY <3>1, ConcatProperties, Zenon
  <2>. QED
    BY <1>1, <1>2, <2>1
<1>4. ASSUME NEW i \in 1..Len(g \o News) PROVE (g \o News)[i] = n + i
  <2>1. CASE i <= Len(g)
    BY <1>2, <1>3, <2>1
  <2>2. CASE i > Len(g)
    <3>1. i - Len(g) \in 1..(ntSent - ntTaken)
      BY <1>2, <1>3, <2>2
    <3>. QED
      <4>1. (g \o News)[i] = News[i - Len(g)] /\ News[i - Len(g)] = ntTaken + (i - Len(g))
        BY <1>1, <1>3, <2>2, <3>1
      <4>2. n + Len(g) = ntTaken /\ i \in Int
        BY <1>3
      <4>3. ntTaken + (i - Len(g)) = n + i
        BY <1>2, <4>2
      <4>. QED
        BY <4>1, <4>3
  <2>. QED
    BY <1>2, <2>1, <2>2
<1>. QED
  BY <1>3, <1>4

\* The feed of a client that is connected.
LEMMA FeedOfClient ==
  ASSUME Typed, SameFeed, pc # "dead", NEW c \in clients
  PROVE  /\ got[c] \o News \in Seq(Nat)
         /\ Len(got[c] \o News) = Len(got[c]) + (ntSent - ntTaken)
         /\ \A i \in 1..Len(got[c] \o News) : (got[c] \o News)[i] = joined[c].nt + i
<1>1. /\ got[c] \in Seq(Nat) /\ joined[c].nt \in Nat
      /\ \A i \in 1..Len(got[c]) : got[c][i] = joined[c].nt + i
      /\ joined[c].nt + Len(got[c]) = ntTaken
  BY DEF Typed, SameFeed
<1>. QED
  BY <1>1, FeedGoesOn

LEMMA CommandOf ==
  ASSUME Typed, NEW i \in 1..Len(fwd)
  PROVE  fwd[i][1] \in Client /\ fwd[i][2] \in Nat
<1>1. fwd[i] \in Client \X Nat
  BY DEF Typed
<1>. QED
  BY <1>1

\* The steps that neither pass data on nor let anybody join.
LEMMA QuietStep ==
  ASSUME SInv, Typed',
         UNCHANGED <<ntTaken, got, fwd, joined>>,
         pc' \in {"nego", "dead"} \/ pc' = pc \/ pc # "nego",
         pc = "dead" => pc' = "dead",
         clients' \subseteq clients,
         \A c \in Client : taken[c] <= taken'[c],
         \A c \in Client : Outside(c)' => Outside(c) /\ taken'[c] = taken[c],
         \A c \in backlog' : peer'[c] # "away",
         pc' = "nego" => new' \in Client /\ new' \notin backlog' /\ peer'[new'] # "away"
  PROVE  SInv'
<1>1. Fresh'
  BY DEF SInv, Fresh
<1>2. Read'
  <2>1. \A c \in Client : joined'[c].cmd <= taken'[c]
    <3> SUFFICES ASSUME NEW c \in Client PROVE joined[c].cmd <= taken'[c]
      OBVIOUS
    <3>1. joined[c].cmd \in Nat /\ taken[c] \in Nat /\ taken'[c] \in Nat
      BY DEF SInv, Typed
    <3>2. joined[c].cmd <= taken[c] /\ taken[c] <= taken'[c]
      BY DEF SInv, Read
    <3>. QED
      BY <3>1, <3>2
  <2>2. \A i \in 1..Len(fwd) : fwd[i][2] > 0 /\ fwd[i][2] <= taken'[fwd[i][1]]
    <3> SUFFICES ASSUME NEW i \in 1..Len(fwd)
                 PROVE  fwd[i][2] > 0 /\ fwd[i][2] <= taken'[fwd[i][1]]
      OBVIOUS
    <3>1. fwd[i][1] \in Client /\ fwd[i][2] \in Nat
      BY CommandOf DEF SInv
    <3>2. taken[fwd[i][1]] \in Nat /\ taken'[fwd[i][1]] \in Nat
      BY <3>1 DEF SInv, Typed
    <3>3. fwd[i][2] > 0 /\ fwd[i][2] <= taken[fwd[i][1]] /\ taken[fwd[i][1]] <= taken'[fwd[i][1]]
      BY <3>1 DEF SInv, Read
    <3>. QED
      BY <3>1, <3>2, <3>3
  <2>. QED
    BY <2>1, <2>2 DEF Read
<1>3. SameFeed' /\ CommandsInOrder'
  BY DEF SInv, SameFeed, CommandsInOrder
<1>. QED
  BY <1>1, <1>2, <1>3 DEF SInv

LEMMA ShareStepInv ==
  ASSUME SInv, [Next]_vars
  PROVE  SInv'
<1>0. Typed /\ Fresh /\ Read /\ SameFeed /\ CommandsInOrder
  BY DEF SInv
<1>1. ASSUME NEW c \in Client, Connect(c) PROVE SInv'
  <2>1. Typed'
    BY <1>0, <1>1 DEF Connect, server, moved, Typed, Ends
  <2>2. /\ UNCHANGED <<pc, clients, new, taken, ntTaken, got, fwd, joined>>
        /\ peer[c] = "away" /\ peer'[c] # "away" /\ backlog' = backlog \cup {c}
        /\ \A d \in Client \ {c} : peer'[d] = peer[d]
    BY <1>0, <1>1 DEF Connect, server, moved, Typed
  <2>3. \A d \in Client : Outside(d)' => Outside(d)
    BY <2>2 DEF Outside
  <2>4. \A d \in backlog' : peer'[d] # "away"
    BY <1>0, <2>2 DEF Fresh, Typed
  <2>5. pc = "nego" => new \in Client /\ new \notin backlog' /\ peer'[new] # "away"
    BY <1>0, <2>2 DEF Fresh
  <2>6. \A d \in Client : taken[d] <= taken[d]
    BY <1>0 DEF Typed
  <2>. QED
    BY <1>0, <2>1, <2>2, <2>3, <2>4, <2>5, <2>6, QuietStep
<1>2. ASSUME NEW c \in Client, Command(c) PROVE SInv'
  <2>1. sent' \in [Client -> Nat] /\ \A d \in Client : sent[d] <= sent'[d]
    BY <1>0, <1>2 DEF Command, Typed
  <2>2. \A d \in Client : taken[d] <= sent'[d]
    BY <1>0, <2>1 DEF Typed
  <2>3. Typed'
    BY <1>0, <1>2, <2>1, <2>2 DEF Command, server, moved, Typed
  <2>. QED
    BY <1>0, <1>2, <2>3, QuietStep DEF Command, server, moved, Typed, Fresh, Outside
<1>3. ASSUME NEW c \in Client, Leave(c) \/ RstArrives(c) PROVE SInv'
  <2>1. Typed'
    BY <1>0, <1>3 DEF Leave, RstArrives, server, moved, Typed, Ends
  <2>2. /\ UNCHANGED <<pc, clients, new, backlog, taken, ntTaken, got, fwd, joined>>
        /\ \A d \in Client : peer'[d] = "away" <=> peer[d] = "away"
    BY <1>0, <1>3 DEF Leave, RstArrives, server, moved, Typed
  <2>3. \A d \in Client : Outside(d)' => Outside(d)
    BY <2>2 DEF Outside
  <2>4. \A d \in Client : taken[d] <= taken[d]
    BY <1>0 DEF Typed
  <2>. QED
    BY <1>0, <2>1, <2>2, <2>3, <2>4, QuietStep DEF Fresh, Typed
<1>4. CASE NtMessage \/ NtLeaves
  <2>1. Typed'
    BY <1>0, <1>4 DEF NtMessage, NtLeaves, server, moved, Typed
  <2>. QED
    BY <1>0, <1>4, <2>1, QuietStep DEF NtMessage, NtLeaves, server, moved, Typed, Fresh, Outside
<1>5. CASE Select \/ UNCHANGED vars
  <2>1. /\ UNCHANGED <<clients, new, env, moved>>
        /\ pc' = pc \/ (pc = "select" /\ pc' = "round")
    BY <1>5 DEF Select, vars, server
  <2>2. Typed'
    BY <1>0, <2>1 DEF env, moved, Typed
  <2>. QED
    BY <1>0, <2>1, <2>2, QuietStep DEF env, moved, Typed, Fresh, Outside
<1>6. CASE NtData
  <2>0. \A c \in clients :
          /\ got[c] \o News \in Seq(Nat)
          /\ Len(got[c] \o News) = Len(got[c]) + (ntSent - ntTaken)
          /\ \A i \in 1..Len(got[c] \o News) : (got[c] \o News)[i] = joined[c].nt + i
    BY <1>0, <1>6, FeedOfClient DEF NtData, AtNt
  <2>1. got' \in [Client -> Seq(Nat)]
    BY <1>0, <1>6, <2>0 DEF NtData, Listeners, Typed
  <2>2. Typed'
    <3>1. /\ pc' \in {"select", "round"} /\ ntTaken' = ntSent
          /\ UNCHANGED <<clients, backlog, new, sent, taken, ntSent, fwd, joined>>
      BY <1>6 DEF NtData, Continue
    <3>2. peer' \in [Client -> Ends]
      BY <1>0, <1>6, Sending DEF PeersKept
    <3>. QED
      BY <1>0, <2>1, <3>1, <3>2 DEF Typed
  <2>3. Fresh'
    <3>1. /\ pc = "round" /\ pc' \in {"select", "round"}
          /\ UNCHANGED <<clients, backlog, taken, new>>
          /\ \A c \in Client \ clients : got'[c] = got[c]
      BY <1>6 DEF NtData, AtNt, Continue, Listeners
    <3>2. \A c \in Client : peer'[c] = "away" <=> peer[c] = "away"
      BY <1>0, <1>6, Sending DEF PeersKept
    <3>. QED
      BY <1>0, <3>1, <3>2 DEF Fresh, Outside, Typed
  <2>4. Read' /\ CommandsInOrder'
    BY <1>0, <1>6 DEF NtData, Read, CommandsInOrder
  <2>5. SameFeed'
    <3> SUFFICES ASSUME NEW c \in Client
                 PROVE  /\ \A i \in 1..Len(got'[c]) : got'[c][i] = joined[c].nt + i
                        /\ c \in clients => joined[c].nt + Len(got'[c]) = ntSent
      BY <1>6 DEF NtData, SameFeed
    <3>1. got'[c] = IF c \in clients THEN got[c] \o News ELSE got[c]
      BY <1>6 DEF NtData, Listeners
    <3>2. CASE c \in clients
      <4>1. joined[c].nt + Len(got[c]) = ntTaken
        BY <1>0, <1>6, <3>2 DEF NtData, AtNt, SameFeed
      <4>2. joined[c].nt \in Nat /\ Len(got[c]) \in Nat /\ ntTaken \in Nat /\ ntSent \in Nat
        BY <1>0 DEF Typed
      <4>. QED
        <5>1. /\ got'[c] = got[c] \o News
              /\ Len(got'[c]) = Len(got[c]) + (ntSent - ntTaken)
          BY <2>0, <3>1, <3>2
        <5>2. \A i \in 1..Len(got[c] \o News) : (got[c] \o News)[i] = joined[c].nt + i
          BY <2>0, <3>2
        <5>4. joined[c].nt + (Len(got[c]) + (ntSent - ntTaken)) = ntSent
          BY <4>1, <4>2
        <5>3. joined[c].nt + Len(got'[c]) = ntSent
          BY <5>1, <5>4
        <5>. QED
          BY <5>1, <5>2, <5>3
    <3>3. CASE c \notin clients
      BY <1>0, <3>1, <3>3 DEF SameFeed
    <3>. QED
      BY <3>2, <3>3
  <2>. QED
    BY <2>2, <2>3, <2>4, <2>5 DEF SInv
<1>7. CASE NtDataRaises
  <2>0. \A c \in clients :
          /\ got[c] \o News \in Seq(Nat)
          /\ \A i \in 1..Len(got[c] \o News) : (got[c] \o News)[i] = joined[c].nt + i
    BY <1>0, <1>7, FeedOfClient DEF NtDataRaises, AtNt
  <2>1. PICK done \in SUBSET {c \in clients : ~Broken(c)} :
          got' = [c \in Client |-> IF c \in done THEN got[c] \o News ELSE got[c]]
    BY <1>7 DEF NtDataRaises
  <2>2. got' \in [Client -> Seq(Nat)]
    BY <1>0, <2>0, <2>1 DEF Typed
  <2>3. Typed'
    <3>1. /\ pc' = "dead" /\ ntTaken' = ntSent
          /\ UNCHANGED <<clients, backlog, new, sent, taken, ntSent, fwd, joined>>
      BY <1>7 DEF NtDataRaises, Crash
    <3>2. peer' \in [Client -> Ends]
      BY <1>0, <1>7, Sending DEF PeersKept
    <3>. QED
      BY <1>0, <2>2, <3>1, <3>2 DEF Typed
  <2>4. Fresh'
    <3>1. /\ pc = "round" /\ pc' = "dead"
          /\ UNCHANGED <<clients, backlog, taken, new>>
          /\ \A c \in Client \ clients : got'[c] = got[c]
      BY <1>7, <2>1 DEF NtDataRaises, AtNt, Crash
    <3>2. \A c \in Client : peer'[c] = "away" <=> peer[c] = "away"
      BY <1>0, <1>7, Sending DEF PeersKept
    <3>. QED
      BY <1>0, <3>1, <3>2 DEF Fresh, Outside, Typed
  <2>5. Read' /\ CommandsInOrder'
    BY <1>0, <1>7 DEF NtDataRaises, Read, CommandsInOrder
  <2>6. SameFeed'
    BY <1>0, <1>7, <2>0, <2>1 DEF NtDataRaises, Crash, SameFeed, Typed
  <2>. QED
    BY <2>3, <2>4, <2>5, <2>6 DEF SInv
<1>8. CASE NtLost
  <2>0. /\ peer' \in [Client -> Ends]
        /\ \A c \in Client : \/ peer'[c] = peer[c]
                             \/ peer[c] = "eof" /\ peer'[c] = "late"
                             \/ peer'[c] = "cut" /\ c \in clients
    <3>1. CASE Raises(clients)
      BY <1>0, <1>8, <3>1, Sending DEF PeersKept
    <3>2. CASE ~Raises(clients)
      BY <1>0, <1>8, <3>2 DEF NtLost, Typed, Ends
    <3>. QED
      BY <3>1, <3>2
  <2>1. Typed'
    BY <1>0, <1>8, <2>0 DEF NtLost, Crash, Continue, moved, Typed
  <2>2. /\ UNCHANGED <<backlog, taken, ntTaken, got, fwd, joined>>
        /\ clients' \subseteq clients /\ pc = "round" /\ pc' \in {"dead", "select", "round"}
    BY <1>8 DEF NtLost, AtNt, Crash, Continue, moved
  <2>4. \A c \in Client : Outside(c)' => Outside(c)
    BY <1>0, <2>0, <2>2 DEF Outside
  <2>5. \A c \in backlog' : peer'[c] # "away"
    BY <1>0, <2>0, <2>2 DEF Fresh, Typed
  <2>. QED
    BY <1>0, <2>1, <2>2, <2>4, <2>5, QuietStep DEF Typed
<1>9. CASE Accept
  <2>1. PICK c \in backlog :
          /\ new' = c /\ backlog' = backlog \ {c} /\ pc' \in {"dead", "nego"}
    BY <1>9 DEF Accept
  <2>2. Typed'
    BY <1>0, <1>9, <2>1, Sending DEF Accept, moved, PeersKept, Typed
  <2>3. \A d \in Client : peer'[d] = "away" <=> peer[d] = "away"
    BY <1>0, <1>9, Sending DEF PeersKept
  <2>4. pc = "round" /\ UNCHANGED <<clients, taken, ntTaken, got, fwd, joined>>
    BY <1>9 DEF Accept, moved
  <2>5. \A d \in Client : Outside(d)' => Outside(d) /\ taken'[d] = taken[d]
    BY <1>0, <2>1, <2>3, <2>4 DEF Outside, Typed
  <2>6. \A d \in backlog' : peer'[d] # "away"
    BY <1>0, <2>1, <2>3 DEF Fresh, Typed
  <2>7. new' \in Client /\ new' \notin backlog' /\ peer'[new'] # "away"
    BY <1>0, <2>1, <2>3 DEF Fresh, Typed
  <2>8. \A d \in Client : taken[d] <= taken'[d]
    BY <1>0, <2>4 DEF Typed
  <2>. QED
    BY <1>0, <2>1, <2>2, <2>4, <2>5, <2>6, <2>7, <2>8, QuietStep
<1>10. CASE Nego
  <2>1. /\ pc = "nego" /\ new \in Client /\ pc' \in {"select", "round", "login"}
        /\ clients' = clients \cup {new}
        /\ taken' = [taken EXCEPT ![new] = sent[new]]
        /\ joined' = [joined EXCEPT ![new] = [nt |-> ntTaken, cmd |-> sent[new]]]
        /\ UNCHANGED <<new, backlog, peer, sent, ntSent, ntTaken, got, fwd>>
    BY <1>0, <1>10 DEF Nego, Added, Reconnect, Continue, env, Fresh
  <2>2. Typed'
    BY <1>0, <2>1 DEF Typed
  <2>3. /\ got[new] = <<>> /\ taken[new] = 0 /\ new \notin backlog /\ peer[new] # "away"
    BY <1>0, <2>1 DEF Fresh, Outside
  <2>4. Fresh'
    BY <1>0, <2>1, <2>3 DEF Fresh, Outside, Typed
  <2>5. \A i \in 1..Len(fwd) : fwd[i][1] # new /\ fwd[i][1] \in Client
    BY <1>0, <2>3, CommandOf DEF Read
  <2>6. Read'
    <3>1. \A c \in Client : joined'[c].cmd <= taken'[c]
      BY <1>0, <2>1 DEF Read, Typed
    <3>2. \A i \in 1..Len(fwd) : taken'[fwd[i][1]] = taken[fwd[i][1]]
      BY <1>0, <2>1, <2>5 DEF Typed
    <3>. QED
      BY <1>0, <2>1, <3>1, <3>2 DEF Read
  <2>7. SameFeed'
    <3>1. joined'[new].nt = ntTaken /\ \A c \in Client \ {new} : joined'[c] = joined[c]
      BY <1>0, <2>1 DEF Typed
    <3>2. ntTaken + Len(<<>>) = ntTaken
      BY <1>0 DEF Typed
    <3>. QED
      BY <1>0, <2>1, <2>3, <3>1, <3>2 DEF SameFeed
  <2>8. CommandsInOrder'
    <3>1. \A i \in 1..Len(fwd) : joined'[fwd[i][1]] = joined[fwd[i][1]]
      BY <1>0, <2>1, <2>5 DEF Typed
    <3>. QED
      BY <1>0, <2>1, <3>1 DEF CommandsInOrder
  <2>. QED
    BY <2>2, <2>4, <2>6, <2>7, <2>8 DEF SInv
<1>11. CASE ClientData
  <2> DEFINE c == Head(rd)
  <2>1. /\ pc = "round" /\ c \in clients /\ taken[c] < sent[c]
        /\ taken' = [taken EXCEPT ![c] = sent[c]]
        /\ fwd' \in {fwd, fwd \o Chunk(c)}
        /\ pc' \in {"select", "round", "login"}
        /\ UNCHANGED <<clients, new, backlog, peer, sent, ntSent, ntTaken, got, joined>>
    BY <1>11 DEF ClientData, AtClient, Reconnect, Continue, env
  <2>2. c \in Client /\ sent[c] \in Nat /\ taken[c] \in Nat
    BY <1>0, <2>1 DEF Typed
  <2>. HIDE DEF c
  <2>3. /\ Chunk(c) \in Seq(Client \X Nat) /\ Len(Chunk(c)) = sent[c] - taken[c]
        /\ \A i \in 1..(sent[c] - taken[c]) : Chunk(c)[i] = <<c, taken[c] + i>>
    <3>1. sent[c] - taken[c] \in Nat
      BY <2>1, <2>2
    <3>2. \A i \in 1..(sent[c] - taken[c]) : <<c, taken[c] + i>> \in Client \X Nat
      BY <2>2
    <3>. QED
      BY <3>1, <3>2 DEF Chunk
  <2>4. Typed'
    <3>1. fwd' \in Seq(Client \X Nat)
      <4>1. fwd \in Seq(Client \X Nat)
        BY <1>0 DEF Typed
      <4>2. fwd \o Chunk(c) \in Seq(Client \X Nat)
        BY <2>3, <4>1, ConcatProperties
      <4>. QED
        BY <2>1, <4>1, <4>2
    <3>2. taken' \in [Client -> Nat] /\ \A d \in Client : taken'[d] <= sent[d]
      BY <1>0, <2>1, <2>2 DEF Typed
    <3>3. /\ clients' = clients /\ backlog' = backlog /\ new' = new /\ peer' = peer
          /\ sent' = sent /\ ntSent' = ntSent /\ ntTaken' = ntTaken /\ got' = got
          /\ joined' = joined /\ pc' \in {"select", "round", "login"}
      BY <2>1
    <3>. QED
      BY <1>0, <3>1, <3>2, <3>3 DEF Typed
  <2>9. \A d \in Client : taken[d] <= taken'[d] /\ (d # c => taken'[d] = taken[d])
    BY <1>0, <2>1, <2>2 DEF Typed
  <2>10. \A d \in Client : joined[d].cmd <= taken'[d]
    <3> SUFFICES ASSUME NEW d \in Client PROVE joined[d].cmd <= taken'[d]
      OBVIOUS
    <3>1. joined[d].cmd \in Nat /\ taken[d] \in Nat /\ taken'[d] \in Nat
      BY <1>0, <2>4 DEF Typed
    <3>. QED
      BY <1>0, <2>9, <3>1 DEF Read
  <2>11. \A i \in 1..Len(fwd) : fwd[i][2] > 0 /\ fwd[i][2] <= taken'[fwd[i][1]]
    <3> SUFFICES ASSUME NEW i \in 1..Len(fwd)
                 PROVE  fwd[i][2] > 0 /\ fwd[i][2] <= taken'[fwd[i][1]]
      OBVIOUS
    <3>1. fwd[i][1] \in Client /\ fwd[i][2] \in Nat
      BY <1>0, CommandOf
    <3>2. taken[fwd[i][1]] \in Nat /\ taken'[fwd[i][1]] \in Nat
      BY <1>0, <2>4, <3>1 DEF Typed
    <3>. QED
      BY <1>0, <2>9, <3>1, <3>2 DEF Read
  <2>5. Fresh'
    BY <1>0, <2>1, <2>2 DEF Fresh, Outside, Typed
  <2>6. SameFeed'
    BY <1>0, <2>1 DEF SameFeed
  <2>7. CASE fwd' = fwd
    <3>1. Read' /\ CommandsInOrder'
      BY <1>0, <2>1, <2>7, <2>10, <2>11 DEF Read, CommandsInOrder
    <3>. QED
      BY <2>4, <2>5, <2>6, <3>1 DEF SInv
  <2>8. CASE fwd' = fwd \o Chunk(c)
    <3>1. /\ Len(fwd') = Len(fwd) + (sent[c] - taken[c])
          /\ \A i \in 1..Len(fwd) : fwd'[i] = fwd[i]
          /\ \A i \in 1..Len(fwd') : i > Len(fwd) => fwd'[i] = <<c, taken[c] + i - Len(fwd)>>
      <4>1. fwd \in Seq(Client \X Nat) /\ Len(fwd) \in Nat /\ sent[c] - taken[c] \in Nat
        BY <1>0, <2>1, <2>2 DEF Typed
      <4>2. /\ Len(fwd') = Len(fwd) + (sent[c] - taken[c])
            /\ \A i \in 1..Len(fwd) : fwd'[i] = fwd[i]
            /\ \A i \in 1..Len(fwd') : i > Len(fwd) => fwd'[i] = Chunk(c)[i - Len(fwd)]
        <5>1. /\ Len(fwd \o Chunk(c)) = Len(fwd) + Len(Chunk(c))
              /\ \A i \in 1..Len(fwd) + Len(Chunk(c)) : (fwd \o Chunk(c))[i] =
                   IF i <= Len(fwd) THEN fwd[i] ELSE Chunk(c)[i - Len(fwd)]
          BY <2>3, <4>1, ConcatProperties
        <5>. QED
          BY <2>3, <2>8, <4>1, <5>1
      <4>3. \A i \in 1..Len(fwd') : i > Len(fwd) => i - Len(fwd) \in 1..(sent[c] - taken[c])
        BY <4>1, <4>2
      <4>4. \A i \in 1..Len(fwd') :
              i > Len(fwd) => taken[c] + (i - Len(fwd)) = taken[c] + i - Len(fwd)
        BY <2>2, <4>1, <4>2
      <4>. QED
        BY <2>3, <4>2, <4>3, <4>4
    <3>2. \A i \in 1..Len(fwd) : fwd[i][1] \in Client /\ fwd[i][2] \in Nat
      BY <1>0, CommandOf
    <3>5. /\ Len(fwd) \in Nat /\ taken'[c] = sent[c]
          /\ \A i \in 1..Len(fwd') : i > Len(fwd) =>
               /\ fwd'[i][1] = c /\ fwd'[i][2] = taken[c] + i - Len(fwd)
               /\ fwd'[i][2] > taken[c] /\ fwd'[i][2] <= sent[c]
      <4>1. Len(fwd) \in Nat /\ taken'[c] = sent[c]
        BY <1>0, <2>1, <2>2 DEF Typed
      <4>2. ASSUME NEW i \in 1..Len(fwd'), i > Len(fwd)
            PROVE  /\ fwd'[i][1] = c /\ fwd'[i][2] = taken[c] + i - Len(fwd)
                   /\ fwd'[i][2] > taken[c] /\ fwd'[i][2] <= sent[c]
        <5>1. fwd'[i] = <<c, taken[c] + i - Len(fwd)>>
          BY <3>1, <4>2
        <5>2. fwd'[i][1] = c /\ fwd'[i][2] = taken[c] + i - Len(fwd)
          BY <5>1
        <5>3. i \in Nat /\ i <= Len(fwd) + (sent[c] - taken[c])
          BY <2>2, <3>1, <4>1
        <5>4. taken[c] + i - Len(fwd) > taken[c] /\ taken[c] + i - Len(fwd) <= sent[c]
          BY <2>2, <4>1, <4>2, <5>3
        <5>. QED
          BY <5>2, <5>4
      <4>. QED
        BY <4>1, <4>2
    <3>3. Read'
      <4> SUFFICES ASSUME NEW i \in 1..Len(fwd')
                   PROVE  fwd'[i][2] > 0 /\ fwd'[i][2] <= taken'[fwd'[i][1]]
        BY <2>1, <2>10 DEF Read
      <4>1. CASE i <= Len(fwd)
        BY <2>11, <3>1, <3>5, <4>1
      <4>2. CASE i > Len(fwd)
        BY <2>2, <3>5, <4>2
      <4>. QED
        BY <3>1, <3>5, <4>1, <4>2
    <3>4. CommandsInOrder'
      <4> SUFFICES ASSUME NEW i \in 1..Len(fwd'), NEW j \in 1..Len(fwd')
                   PROVE  /\ i < j /\ fwd'[i][1] = fwd'[j][1] => fwd'[i][2] < fwd'[j][2]
                          /\ fwd'[i][2] > joined[fwd'[i][1]].cmd
        BY <2>1 DEF CommandsInOrder
      <4>1. i \in Nat /\ j \in Nat /\ Len(fwd) \in Nat
        BY <1>0, <3>1 DEF Typed
      <4>2. joined[c].cmd <= taken[c] /\ joined[c].cmd \in Nat
        BY <1>0, <2>2 DEF Read, Typed
      <4>3. fwd'[i][2] > joined[fwd'[i][1]].cmd
        <5>1. CASE i <= Len(fwd)
          BY <1>0, <3>1, <4>1, <5>1 DEF CommandsInOrder
        <5>2. CASE i > Len(fwd)
          BY <2>2, <3>5, <4>1, <4>2, <5>2
        <5>. QED
          BY <4>1, <5>1, <5>2
      <4>4. ASSUME i < j, fwd'[i][1] = fwd'[j][1] PROVE fwd'[i][2] < fwd'[j][2]
        <5>1. CASE j <= Len(fwd)
          BY <1>0, <3>1, <4>1, <4>4, <5>1 DEF CommandsInOrder
        <5>2. CASE i <= Len(fwd) /\ j > Len(fwd)
          <6>1. fwd[i][2] <= taken[fwd[i][1]] /\ fwd'[i] = fwd[i]
            BY <1>0, <3>1, <4>1, <5>2 DEF Read
          <6>2. fwd'[j] = <<c, taken[c] + j - Len(fwd)>>
            BY <3>1, <5>2
          <6>. QED
            BY <2>2, <3>2, <4>1, <4>4, <5>2, <6>1, <6>2
        <5>3. CASE i > Len(fwd)
          BY <2>2, <3>5, <4>1, <4>4, <5>3
        <5>. QED
          BY <4>1, <5>1, <5>2, <5>3
      <4>. QED
        BY <4>3, <4>4
    <3>. QED
      BY <2>4, <2>5, <2>6, <3>3, <3>4 DEF SInv
  <2>. QED
    BY <2>1, <2>7, <2>8
<1>12. CASE ClientOffline
  <2> DEFINE c == Head(rd)
  <2>1. /\ pc = "round" /\ c \in clients
        /\ taken' = [taken EXCEPT ![c] = sent[c]]
        /\ clients' = clients \ {c}
        /\ peer' = [peer EXCEPT ![c] = "cut"]
        /\ pc' \in {"select", "round", "login"}
        /\ UNCHANGED <<new, backlog, sent, ntSent, ntTaken, got, fwd, joined>>
    BY <1>12 DEF ClientOffline, AtClient, Reconnect, Continue
  <2>. HIDE DEF c
  <2>3. c \in Client /\ ~Outside(c)
    BY <1>0, <2>1 DEF Fresh, Typed
  <2>2. Typed'
    <3>1. taken' \in [Client -> Nat] /\ \A d \in Client : taken'[d] <= sent[d]
      BY <1>0, <2>1, <2>3 DEF Typed
    <3>2. peer' \in [Client -> Ends] /\ clients' \subseteq Client
      BY <1>0, <2>1 DEF Typed, Ends
    <3>. QED
      BY <1>0, <2>1, <3>1, <3>2 DEF Typed
  <2>6. \A d \in Client \ {c} : peer'[d] = peer[d] /\ taken'[d] = taken[d]
    BY <1>0, <2>1 DEF Typed
  <2>7. peer[c] # "away" /\ c \notin backlog
    BY <2>1, <2>3 DEF Outside
  <2>8. peer'[c] = "cut"
    BY <1>0, <2>1, <2>3 DEF Typed
  <2>4. \A d \in Client : Outside(d)' => Outside(d) /\ taken'[d] = taken[d]
    BY <2>1, <2>6, <2>7, <2>8 DEF Outside
  <2>5. \A d \in Client : taken[d] <= taken'[d]
    BY <1>0, <2>1, <2>3 DEF Typed
  <2>. QED
    BY <1>0, <2>1, <2>2, <2>4, <2>5, QuietStep DEF Fresh, Typed
<1>13. CASE NegoRaises \/ ClientStale
  <2>1. Typed'
    BY <1>0, <1>13 DEF NegoRaises, ClientStale, Crash, env, moved, Typed
  <2>. QED
    BY <1>0, <1>13, <2>1, QuietStep
    DEF NegoRaises, ClientStale, Crash, env, moved, Typed, Fresh, Outside
<1>14. CASE Login \/ LoginFails
  <2>1. /\ pc = "login" /\ pc' \in {"select", "round", "dead"}
        /\ UNCHANGED <<clients, new, backlog, sent, ntSent, moved>>
    BY <1>14 DEF Login, LoginFails, Crash, Continue, moved
  <2>6. PeersKept
    BY <1>0, <1>14, Sending DEF Login, PeersKept, Typed
  <2>2. Typed'
    BY <1>0, <2>1, <2>6 DEF moved, PeersKept, Typed
  <2>3. \A c \in Client : Outside(c)' => Outside(c)
    BY <2>1, <2>6 DEF Outside, PeersKept
  <2>4. \A c \in Client : taken'[c] = taken[c] /\ taken[c] <= taken'[c]
    BY <1>0, <2>1 DEF moved, Typed
  <2>5. \A c \in backlog' : peer'[c] # "away"
    BY <1>0, <2>1, <2>6 DEF Fresh, PeersKept, Typed
  <2>. QED
    BY <1>0, <2>1, <2>2, <2>3, <2>4, <2>5, QuietStep DEF moved
<1>. QED
  BY <1>1, <1>2, <1>3, <1>4, <1>5, <1>6, <1>7, <1>8, <1>9, <1>10, <1>11, <1>12, <1>13, <1>14
  DEF Next, Server

LEMMA ShareInductive == Spec => []SInv
BY ShareInitInv, ShareStepInv, PTL DEF Spec

\* Every client gets every message of the NT from the moment it joined, in order
\* and once, for any number of clients that come, leave and abort at any time.
THEOREM FeedCorrect == Spec => []SameFeed
<1>1. SInv => SameFeed
  BY DEF SInv
<1>. QED
  BY <1>1, ShareInductive, PTL

\* No command of a client reaches the NT twice or out of order.
THEOREM CommandsCorrect == Spec => []CommandsInOrder
<1>1. SInv => CommandsInOrder
  BY DEF SInv
<1>. QED
  BY <1>1, ShareInductive, PTL

-----------------------------------------------------------------------------
(* The list given to select. *)

LEMMA Appended ==
  ASSUME NEW T, NEW s \in Seq(T), NEW x \in T, IsInjective(s), x \notin Range(s)
  PROVE  /\ Append(s, x) \in Seq(T) /\ IsInjective(Append(s, x))
         /\ Range(Append(s, x)) = Range(s) \cup {x}
<1> DEFINE r == Append(s, x)
<1>1. /\ r \in Seq(T) /\ Len(r) = Len(s) + 1 /\ Len(s) \in Nat
      /\ DOMAIN s = 1..Len(s) /\ DOMAIN r = 1..Len(s) + 1
      /\ r[Len(s) + 1] = x /\ \A i \in 1..Len(s) : r[i] = s[i]
  OBVIOUS
<1>. HIDE DEF r
<1>2. \A i \in 1..Len(s) + 1 : i \in 1..Len(s) \/ i = Len(s) + 1
  BY <1>1
<1>3. \A i \in 1..Len(s) : i \in 1..Len(s) + 1
  BY <1>1
<1>4. Len(s) + 1 \in 1..Len(s) + 1
  BY <1>1
<1>5. IsInjective(r)
  BY <1>1, <1>2 DEF IsInjective, Range
<1>6. Range(r) = Range(s) \cup {x}
  BY <1>1, <1>2, <1>3, <1>4 DEF Range
<1>. QED
  BY <1>1, <1>5, <1>6 DEF r

\* list.remove, when nothing is in the list twice.
LEMMA Removed ==
  ASSUME NEW T, NEW s \in Seq(T), NEW x \in Range(s), IsInjective(s)
  PROVE  /\ RemoveFirst(s, x) \in Seq(T) /\ IsInjective(RemoveFirst(s, x))
         /\ Range(RemoveFirst(s, x)) = Range(s) \ {x}
<1>0. Len(s) \in Nat /\ DOMAIN s = 1..Len(s)
  OBVIOUS
<1>1. PICK p \in 1..Len(s) : s[p] = x
  BY <1>0 DEF Range
<1>2. \A i \in 1..Len(s) : s[i] = x => i = p
  BY <1>0, <1>1 DEF IsInjective
<1>3. SelectInSeq(s, LAMBDA v : v = x) = p
  <2> DEFINE I == {i \in 1..Len(s) : s[i] = x}
  <2>1. I = {p}
    BY <1>1, <1>2
  <2>2. Min({p}) = p
    <3>1. p <= p
      BY <1>0, <1>1
    <3>. QED
      BY <3>1 DEF Min
  <2>3. SelectInSeq(s, LAMBDA v : v = x) = IF I # {} THEN Min(I) ELSE 0
    BY DEF SelectInSeq
  <2>. QED
    BY <2>1, <2>2, <2>3
<1> DEFINE a == SubSeq(s, 1, p - 1)
           b == SubSeq(s, p + 1, Len(s))
           r == a \o b
<1>4. RemoveFirst(s, x) = r
  BY <1>1, <1>3 DEF RemoveFirst, RemoveAt
<1>5. /\ a \in Seq(T) /\ Len(a) = p - 1 /\ \A i \in 1..p - 1 : a[i] = s[i]
  BY <1>0, <1>1
<1>6. /\ b \in Seq(T) /\ Len(b) = Len(s) - p /\ \A i \in 1..Len(s) - p : b[i] = s[p + i]
  <2>1. p \in Nat /\ p >= 1 /\ p <= Len(s)
    BY <1>0, <1>1
  <2>2. \A i \in p + 1..Len(s) : s[i] \in T
    BY <1>0, <2>1
  <2>. HIDE DEF r, a
  <2>3. /\ b \in Seq(T)
        /\ Len(b) = IF p + 1 <= Len(s) THEN Len(s) - (p + 1) + 1 ELSE 0
        /\ \A i \in 1..Len(s) - (p + 1) + 1 : b[i] = s[p + 1 + i - 1]
    <3>1. p + 1 \in Int /\ Len(s) \in Int
      BY <1>0, <2>1
    <3>. QED
      BY <2>2, <3>1, SubSeqProperties
  <2>. HIDE DEF b
  <2>4. Len(b) = Len(s) - p
    <3>1. CASE p + 1 <= Len(s)
      <4>1. Len(b) = Len(s) - (p + 1) + 1
        BY <2>3, <3>1, Zenon
      <4>. QED
        BY <1>0, <2>1, <4>1
    <3>2. CASE ~(p + 1 <= Len(s))
      <4>1. Len(b) = 0
        BY <2>3, <3>2, Zenon
      <4>2. Len(s) - p = 0
        <5>1. \A m \in Nat, n \in Nat : m <= n /\ ~(m + 1 <= n) => n - m = 0
          OBVIOUS
        <5>. QED
          BY <1>0, <2>1, <3>2, <5>1
      <4>. QED
        BY <4>1, <4>2
    <3>. QED
      BY <3>1, <3>2
  <2>5. ASSUME NEW i \in 1..Len(s) - p PROVE b[i] = s[p + i]
    <3>1. i \in 1..Len(s) - (p + 1) + 1 /\ p + 1 + i - 1 = p + i
      BY <1>0, <2>1
    <3>. QED
      BY <2>3, <3>1
  <2>. QED
    BY <2>3, <2>4, <2>5
<1>. HIDE DEF a, b
<1>7. /\ r \in Seq(T) /\ Len(r) = Len(s) - 1
      /\ \A i \in 1..Len(s) - 1 : r[i] = IF i <= p - 1 THEN a[i] ELSE b[i - (p - 1)]
  <2>1. /\ r \in Seq(T) /\ Len(r) = Len(a) + Len(b)
        /\ \A i \in 1..Len(a) + Len(b) : r[i] = IF i <= Len(a) THEN a[i] ELSE b[i - Len(a)]
    BY <1>5, <1>6, ConcatProperties
  <2>2. Len(a) + Len(b) = Len(s) - 1
    BY <1>0, <1>1, <1>5, <1>6
  <2>. QED
    BY <1>5, <2>1, <2>2
<1>. HIDE DEF r
<1>8. \A i \in 1..Len(s) - 1 : r[i] = IF i < p THEN s[i] ELSE s[i + 1]
  <2> SUFFICES ASSUME NEW i \in 1..Len(s) - 1
               PROVE  r[i] = IF i < p THEN s[i] ELSE s[i + 1]
    OBVIOUS
  <2>1. CASE i < p
    <3>1. i <= p - 1 /\ i \in 1..p - 1
      BY <1>0, <1>1, <2>1
    <3>. QED
      BY <1>5, <1>7, <2>1, <3>1
  <2>2. CASE ~(i < p)
    <3>1. ~(i <= p - 1) /\ i - (p - 1) \in 1..Len(s) - p /\ p + (i - (p - 1)) = i + 1
      BY <1>0, <1>1, <2>2
    <3>. QED
      BY <1>6, <1>7, <2>2, <3>1
  <2>. QED
    BY <2>1, <2>2
<1>9. DOMAIN r = 1..Len(s) - 1
  BY <1>7
<1>10. IsInjective(r)
  <2> SUFFICES ASSUME NEW i \in 1..Len(s) - 1, NEW j \in 1..Len(s) - 1, r[i] = r[j]
               PROVE  i = j
    BY <1>9 DEF IsInjective
  <2> DEFINE f(n) == IF n < p THEN n ELSE n + 1
  <2>1. f(i) \in 1..Len(s) /\ f(j) \in 1..Len(s)
    BY <1>0, <1>1
  <2>2. s[f(i)] = s[f(j)]
    BY <1>8
  <2>3. f(i) = f(j)
    BY <1>0, <2>1, <2>2 DEF IsInjective
  <2>. QED
    BY <1>0, <1>1, <2>3
<1>11. ASSUME NEW y \in Range(r) PROVE y \in Range(s) \ {x}
  <2>1. PICK i \in 1..Len(s) - 1 : r[i] = y
    BY <1>9 DEF Range
  <2>2. CASE i < p
    <3>1. i \in 1..Len(s) /\ i # p /\ s[i] = y
      BY <1>0, <1>1, <1>8, <2>1, <2>2
    <3>. QED
      BY <1>0, <1>2, <3>1 DEF Range
  <2>3. CASE ~(i < p)
    <3>1. i + 1 \in 1..Len(s) /\ i + 1 # p /\ s[i + 1] = y
      BY <1>0, <1>1, <1>8, <2>1, <2>3
    <3>. QED
      BY <1>0, <1>2, <3>1 DEF Range
  <2>. QED
    BY <2>2, <2>3
<1>12. ASSUME NEW y \in Range(s) \ {x} PROVE y \in Range(r)
  <2>1. PICK i \in 1..Len(s) : s[i] = y
    BY <1>0 DEF Range
  <2>2. i # p
    BY <1>1, <2>1
  <2>3. CASE i < p
    <3>1. i \in 1..Len(s) - 1 /\ r[i] = y
      BY <1>0, <1>1, <1>8, <2>1, <2>3
    <3>. QED
      BY <1>9, <3>1 DEF Range
  <2>4. CASE ~(i < p)
    <3>1. i - 1 \in 1..Len(s) - 1 /\ ~(i - 1 < p) /\ (i - 1) + 1 = i
      BY <1>0, <1>1, <2>1, <2>2, <2>4
    <3>2. r[i - 1] = y
      BY <1>8, <2>1, <3>1
    <3>. QED
      BY <1>9, <3>1, <3>2 DEF Range
  <2>. QED
    BY <2>3, <2>4
<1>. QED
  BY <1>4, <1>7, <1>10, <1>11, <1>12

\* Select watches the right sockets not only when the loop is back at it, but all
\* the time; nobody is negotiated with who was cut off, and only a server without
\* the NT logs in.
Watching ==
  /\ inputs \in Seq(Client \cup {S, Nt}) /\ IsInjective(inputs)
  /\ Range(inputs) = {S} \cup clients \cup (IF ntTn THEN {Nt} ELSE {})
  /\ ntTn \in BOOLEAN /\ (ntTn => ntSock)
  /\ pc = "login" => ~ntTn
  /\ \A c \in clients \cup backlog : peer[c] # "cut"
  /\ pc = "nego" => peer[new] # "cut"

LEMMA OnlyListening ==
  <<S>> \in Seq(Client \cup {S, Nt}) /\ IsInjective(<<S>>) /\ Range(<<S>>) = {S}
<1>1. <<S>> \in Seq(Client \cup {S, Nt}) /\ DOMAIN <<S>> = {1} /\ <<S>>[1] = S
  OBVIOUS
<1>. QED
  BY <1>1 DEF IsInjective, Range

LEMMA WatchInit == Init => Watching
BY OnlyListening DEF Init, Watching

LEMMA WatchStep ==
  ASSUME SInv, Watching, [Next]_vars
  PROVE  Watching'
<1>0. Typed /\ Fresh
  BY DEF SInv
<1>1. ASSUME UNCHANGED <<inputs, clients, ntTn>>, ntTn => ntSock',
             pc' = "login" => ~ntTn,
             \A c \in clients \cup backlog' : peer'[c] # "cut",
             pc' = "nego" => peer'[new'] # "cut"
      PROVE  Watching'
  BY <1>1 DEF Watching
<1>2. ASSUME NEW c \in Client, Connect(c) \/ Command(c) \/ Leave(c) \/ RstArrives(c) PROVE Watching'
  <2>1. /\ UNCHANGED <<inputs, clients, ntTn, ntSock, pc, new>>
        /\ backlog' = backlog \/ backlog' = backlog \cup {c}
        /\ peer' = peer \/ \E how \in Ends \ {"cut"} : peer' = [peer EXCEPT ![c] = how]
        /\ peer'[c] # "cut" \/ (peer' = peer /\ backlog' = backlog)
    BY <1>0, <1>2 DEF Connect, Command, Leave, RstArrives, server, Typed, Ends
  <2>2. \A d \in Client : peer[d] # "cut" => peer'[d] # "cut"
    BY <1>0, <2>1 DEF Typed
  <2>3. pc = "nego" => new \in Client
    BY <1>0 DEF Fresh
  <2>. QED
    BY <1>0, <1>1, <2>1, <2>2, <2>3 DEF Watching, Typed
<1>12. ASSUME PeersKept PROVE \A c \in clients \cup backlog : peer'[c] # "cut"
  BY <1>0, <1>12 DEF Watching, PeersKept, Typed
<1>3. CASE NtMessage \/ NtLeaves \/ NegoRaises \/ ClientStale \/ UNCHANGED vars
  <2>1. /\ UNCHANGED <<inputs, clients, ntTn, ntSock, new, backlog, peer>>
        /\ pc' = pc \/ pc' = "dead"
    BY <1>3
    DEF NtMessage, NtLeaves, NegoRaises, ClientStale, Crash, env, server, vars
  <2>. QED
    BY <1>1, <2>1 DEF Watching
<1>4. CASE Select \/ ClientData
  <2>1. /\ UNCHANGED <<inputs, clients, ntTn, ntSock, new, backlog, peer>>
        /\ pc' \in {"select", "round", "login"} /\ (pc' = "login" => ~ntTn)
    BY <1>4 DEF Select, ClientData, Reconnect, Continue, env
  <2>. QED
    BY <1>1, <2>1 DEF Watching
<1>11. CASE NtData \/ NtDataRaises
  <2>1. /\ UNCHANGED <<inputs, clients, ntTn, ntSock, backlog>>
        /\ pc' \in {"select", "round", "dead"}
    BY <1>11 DEF NtData, NtDataRaises, Crash, Continue
  <2>2. PeersKept
    BY <1>0, <1>11, Sending
  <2>. QED
    BY <1>1, <1>12, <2>1, <2>2 DEF Watching
<1>5. CASE Accept
  <2>1. /\ UNCHANGED <<inputs, clients, ntTn, ntSock>>
        /\ new' \in backlog /\ backlog' \subseteq backlog /\ pc' \in {"nego", "dead"}
    BY <1>5 DEF Accept
  <2>2. PeersKept
    BY <1>0, <1>5, Sending
  <2>. QED
    BY <1>1, <1>12, <2>1, <2>2 DEF Watching
<1>6. CASE NtLost
  <2>1. CASE Raises(clients)
    <3>1. UNCHANGED <<inputs, clients, ntTn, ntSock, new, backlog>> /\ pc' = "dead"
      BY <1>6, <2>1 DEF NtLost, Crash
    <3>2. PeersKept
      BY <1>0, <1>6, <2>1, Sending
    <3>. QED
      BY <1>1, <1>12, <3>1, <3>2 DEF Watching
  <2>2. CASE ~Raises(clients)
    <3>1. /\ inputs' = <<S>> /\ clients' = {} /\ ntTn' = FALSE /\ backlog' = backlog
          /\ pc' \in {"select", "round"}
          /\ peer' = [c \in Client |-> IF c \in clients THEN "cut" ELSE peer[c]]
      BY <1>6, <2>2 DEF NtLost, AfterLoss, Continue
    <3>2. \A c \in backlog : c \in Client /\ c \notin clients
      BY <1>0 DEF Fresh, Outside, Typed
    <3>3. \A c \in backlog : peer'[c] # "cut"
      BY <3>1, <3>2 DEF Watching
    <3>. QED
      BY <3>1, <3>3, OnlyListening DEF Watching
  <2>. QED
    BY <2>1, <2>2
<1>7. CASE Nego
  <2>1. /\ pc = "nego" /\ inputs' = Append(inputs, new) /\ clients' = clients \cup {new}
        /\ UNCHANGED <<ntTn, ntSock, new, backlog, peer>>
        /\ pc' \in {"select", "round", "login"} /\ (pc' = "login" => ~ntTn)
    BY <1>7 DEF Nego, Added, Reconnect, Continue, env
  <2>2. new \in Client /\ new \notin clients
    BY <1>0, <2>1 DEF Fresh, Outside
  <2>3. new \notin Range(inputs)
    BY <2>2, ShareAssumption DEF Watching
  <2>4. /\ inputs' \in Seq(Client \cup {S, Nt}) /\ IsInjective(inputs')
        /\ Range(inputs') = Range(inputs) \cup {new}
    BY <2>1, <2>2, <2>3, Appended DEF Watching
  <2>. QED
    BY <2>1, <2>4 DEF Watching
<1>8. CASE ClientOffline
  <2> DEFINE c == Head(rd)
  <2>1. /\ c \in clients /\ inputs' = RemoveFirst(inputs, c) /\ clients' = clients \ {c}
        /\ peer' = [peer EXCEPT ![c] = "cut"]
        /\ UNCHANGED <<ntTn, ntSock, backlog>>
        /\ pc' \in {"select", "round", "login"} /\ (pc' = "login" => ~ntTn)
    BY <1>8 DEF ClientOffline, Dropped, Reconnect, Continue
  <2>. HIDE DEF c
  <2>2. c \in Client /\ c \in Range(inputs) /\ c # S /\ c # Nt /\ c \notin backlog
    BY <1>0, <2>1, ShareAssumption DEF Watching, Typed, Fresh, Outside
  <2>3. /\ inputs' \in Seq(Client \cup {S, Nt}) /\ IsInjective(inputs')
        /\ Range(inputs') = Range(inputs) \ {c}
    BY <2>1, <2>2, Removed DEF Watching
  <2>4. Range(inputs') = {S} \cup clients' \cup (IF ntTn THEN {Nt} ELSE {})
    BY <2>1, <2>2, <2>3 DEF Watching
  <2>5. \A d \in clients' \cup backlog' : peer'[d] # "cut"
    BY <1>0, <2>1, <2>2 DEF Watching, Typed
  <2>. QED
    BY <2>1, <2>3, <2>4, <2>5 DEF Watching
<1>9. CASE Login
  <2>1. /\ pc = "login" /\ inputs' = Append(inputs, Nt) /\ ntTn' = TRUE /\ ntSock' = TRUE
        /\ UNCHANGED <<clients, backlog, peer>> /\ pc' \in {"select", "round"}
    BY <1>9 DEF Login, Continue
  <2>2. ~ntTn /\ Nt \notin Range(inputs)
    BY <1>0, <2>1, ShareAssumption DEF Watching, Typed
  <2>3. /\ inputs' \in Seq(Client \cup {S, Nt}) /\ IsInjective(inputs')
        /\ Range(inputs') = Range(inputs) \cup {Nt}
    BY <2>1, <2>2, Appended DEF Watching
  <2>. QED
    BY <2>1, <2>2, <2>3 DEF Watching
<1>10. CASE LoginFails
  <2>1. /\ pc = "login" /\ UNCHANGED <<inputs, clients, ntTn, backlog>>
        /\ pc' \in {"select", "dead"}
    BY <1>10 DEF LoginFails, Crash, Continue
  <2>2. ~ntTn
    BY <2>1 DEF Watching
  <2>3. PeersKept
    BY <1>0, <1>10, Sending
  <2>. QED
    BY <1>1, <1>12, <2>1, <2>2, <2>3 DEF Watching
<1>. QED
  BY <1>2, <1>3, <1>4, <1>5, <1>6, <1>7, <1>8, <1>9, <1>10, <1>11 DEF Next, Server

\* Whoever comes, leaves or aborts, and however often the NT is lost and found: the
\* loop blocks with exactly the live sockets in its list.
THEOREM WatchCorrect == Spec => []WatchedExactly
<1>1. Watching => WatchedExactly
  BY DEF Watching, WatchedExactly
<1>2. SInv /\ Watching /\ [Next]_vars => Watching'
  BY WatchStep
<1>3. Init => Watching
  BY WatchInit
<1>. QED
  BY <1>1, <1>2, <1>3, ShareInductive, PTL DEF Spec

-----------------------------------------------------------------------------
(* The rest of the round. *)

\* Whoever has an event to come in the round is still a client, or was cut off in
\* the round; while the loop works on an event, it is at the head of the list.
Round ==
  /\ rd \in Seq(Client \cup {S, Nt})
  /\ pc \in {"round", "nego", "login"} => rd # <<>>
  /\ \A c \in Client \cap Range(rd) : c \in clients \/ peer[c] = "cut"

\* select's answer is taken from its list, and not empty if there is one.
LEMMA ReadyIs ==
  ASSUME NEW T, NEW list \in Seq(T), \E x \in Range(list) : Readable(x)
  PROVE  /\ ReadyOf(list) \in Seq(T) /\ ReadyOf(list) # <<>>
         /\ Range(ReadyOf(list)) \subseteq Range(list)
<1> DEFINE I == {i \in 1..Len(list) : Readable(list[i])}
           at == Ascending(I)
<1>1. Len(list) \in Nat /\ DOMAIN list = 1..Len(list) /\ I \in SUBSET (1..Len(list))
  OBVIOUS
<1>2. ReadyOf(list) = [k \in 1..Len(at) |-> list[at[k]]]
  BY DEF ReadyOf
<1>3. Lists(at, I)
  BY <1>1, AscendingIs
<1>4. I # {}
  <2>1. PICK x \in Range(list) : Readable(x)
    OBVIOUS
  <2>2. PICK i \in 1..Len(list) : list[i] = x
    BY <1>1 DEF Range
  <2>3. i \in I
    BY <2>1, <2>2
  <2>. QED
    BY <2>3
<1>. HIDE DEF at, I
<1>5. at \in Seq(I) /\ Len(at) \in Nat /\ \A k \in 1..Len(at) : at[k] \in 1..Len(list)
  <2>1. at \in Seq(I)
    BY <1>3 DEF Lists
  <2>2. Len(at) \in Nat /\ \A k \in 1..Len(at) : at[k] \in I
    BY <2>1
  <2>. QED
    BY <1>1, <2>1, <2>2
<1>6. Len(at) # 0
  <2>1. PICK i \in I : TRUE
    BY <1>4
  <2>2. PICK k \in 1..Len(at) : at[k] = i
    BY <1>3 DEF Lists
  <2>. QED
    BY <1>5, <2>2
<1> DEFINE r == [k \in 1..Len(at) |-> list[at[k]]]
<1>7. \A k \in 1..Len(at) : list[at[k]] \in T /\ list[at[k]] \in Range(list)
  BY <1>1, <1>5 DEF Range
<1>8. r \in Seq(T) /\ Len(r) = Len(at)
  BY <1>5, <1>7
<1>9. Range(r) \subseteq Range(list)
  BY <1>7 DEF Range
<1>10. r # <<>>
  BY <1>6, <1>8
<1>. QED
  BY <1>2, <1>8, <1>9, <1>10

LEMMA RestOf ==
  ASSUME NEW T, NEW s \in Seq(T), s # <<>>
  PROVE  /\ Tail(s) \in Seq(T) /\ Range(Tail(s)) \subseteq Range(s) /\ Head(s) \in Range(s)
         /\ Range(<<>>) = {}
<1>1. /\ Tail(s) \in Seq(T) /\ Len(s) \in Nat /\ Len(s) > 0 /\ Len(Tail(s)) = Len(s) - 1
      /\ Head(s) = s[1] /\ \A i \in 1..Len(s) - 1 : Tail(s)[i] = s[i + 1]
  OBVIOUS
<1>2. DOMAIN s = 1..Len(s) /\ DOMAIN Tail(s) = 1..Len(s) - 1
  BY <1>1
<1>3. \A i \in 1..Len(s) - 1 : i + 1 \in 1..Len(s)
  BY <1>1
<1>4. 1 \in 1..Len(s)
  BY <1>1
<1>. QED
  BY <1>1, <1>2, <1>3, <1>4 DEF Range

LEMMA RoundStep ==
  ASSUME SInv, Watching, Round, [Next]_vars
  PROVE  Round'
<1> DEFINE Left(c) == c \in clients \/ peer[c] = "cut"
<1>0. Typed /\ Fresh
  BY DEF SInv
\* how a step may change the list, and what becomes of those on it
<1>1. ASSUME \/ UNCHANGED rd /\ (rd # <<>> \/ pc' = "dead" \/ (pc = "select" /\ pc' = pc) \/ pc' = pc)
             \/ rd # <<>> /\ rd' = Tail(rd) /\ pc' = (IF rd' = <<>> THEN "select" ELSE "round")
             \/ rd' = <<>> /\ pc' = "select",
             \A c \in Client : Left(c) => Left(c)'
      PROVE  Round'
  <2>1. CASE UNCHANGED rd /\ (rd # <<>> \/ pc' = "dead" \/ pc' = pc)
    BY <1>1, <2>1 DEF Round
  <2>2. CASE rd # <<>> /\ rd' = Tail(rd) /\ pc' = (IF rd' = <<>> THEN "select" ELSE "round")
    <3>1. rd' \in Seq(Client \cup {S, Nt}) /\ Range(rd') \subseteq Range(rd)
      BY <2>2, RestOf DEF Round
    <3>. QED
      BY <1>1, <2>2, <3>1 DEF Round
  <2>3. CASE rd' = <<>> /\ pc' = "select"
    BY <2>3 DEF Round, Range
  <2>. QED
    BY <1>1, <2>1, <2>2, <2>3
<1>2. ASSUME NEW c \in Client, Connect(c) \/ Command(c) \/ Leave(c) \/ RstArrives(c) PROVE Round'
  <2>1. /\ UNCHANGED <<rd, pc, clients>>
        /\ peer' = peer \/ (peer[c] # "cut" /\ \E how \in Ends \ {"cut"} : peer' = [peer EXCEPT ![c] = how])
    BY <1>2 DEF Connect, Command, Leave, RstArrives, server, Ends
  <2>2. \A d \in Client : Left(d) => Left(d)'
    BY <1>0, <2>1 DEF Typed
  <2>. QED
    BY <1>1, <2>1, <2>2
<1>11. ASSUME PeersKept, UNCHANGED clients PROVE \A d \in Client : Left(d) => Left(d)'
  BY <1>11 DEF PeersKept
<1>3. CASE NtMessage \/ NtLeaves \/ NegoRaises \/ ClientStale \/ UNCHANGED vars
  <2>1. UNCHANGED <<rd, clients, peer>> /\ (pc' = pc \/ pc' = "dead")
    BY <1>3
    DEF NtMessage, NtLeaves, NegoRaises, ClientStale, Crash, env, server, vars
  <2>. QED
    BY <1>1, <2>1
<1>4. CASE Select
  <2>1. /\ rd' = ReadyOf(inputs) /\ pc' = "round" /\ UNCHANGED <<clients, peer>>
        /\ \E x \in Range(inputs) : Readable(x)
    BY <1>4 DEF Select, env
  <2>2. /\ inputs \in Seq(Client \cup {S, Nt})
        /\ \A c \in Client \cap Range(inputs) : c \in clients
    BY ShareAssumption DEF Watching
  <2>3. /\ rd' \in Seq(Client \cup {S, Nt}) /\ rd' # <<>> /\ Range(rd') \subseteq Range(inputs)
    BY <2>1, <2>2, ReadyIs
  <2>. QED
    BY <2>1, <2>2, <2>3 DEF Round
<1>5. CASE ClientData
  <2>1. /\ pc = "round" /\ UNCHANGED <<clients, peer>>
        /\ \/ UNCHANGED rd
           \/ rd' = Tail(rd) /\ pc' = (IF rd' = <<>> THEN "select" ELSE "round")
    BY <1>5 DEF ClientData, AtClient, Reconnect, Continue, env
  <2>. QED
    BY <1>1, <2>1 DEF Round
<1>12. CASE NtData \/ NtDataRaises
  <2>1. /\ pc = "round" /\ UNCHANGED clients
        /\ \/ UNCHANGED rd /\ pc' = "dead"
           \/ rd' = Tail(rd) /\ pc' = (IF rd' = <<>> THEN "select" ELSE "round")
    BY <1>12 DEF NtData, NtDataRaises, AtNt, Crash, Continue
  <2>2. PeersKept
    BY <1>0, <1>12, Sending
  <2>. QED
    BY <1>1, <1>11, <2>1, <2>2 DEF Round
<1>6. CASE NtLost
  <2>1. /\ pc = "round"
        /\ \/ UNCHANGED <<rd, clients>> /\ pc' = "dead" /\ Raises(clients)
           \/ /\ rd' = Tail(rd) /\ pc' = (IF rd' = <<>> THEN "select" ELSE "round")
              /\ peer' = [c \in Client |-> IF c \in clients THEN "cut" ELSE peer[c]]
    BY <1>6 DEF NtLost, AtNt, Crash, Continue
  <2>2. \A c \in Client : Left(c) => Left(c)'
    BY <1>0, <1>6, <1>11, <2>1, Sending
  <2>. QED
    BY <1>1, <2>1, <2>2 DEF Round
<1>7. CASE Accept
  <2>1. pc = "round" /\ UNCHANGED <<rd, clients>>
    BY <1>7 DEF Accept
  <2>2. PeersKept
    BY <1>0, <1>7, Sending
  <2>. QED
    BY <1>1, <1>11, <2>1, <2>2 DEF Round
<1>8. CASE Nego
  <2>1. /\ pc = "nego" /\ clients' = clients \cup {new} /\ UNCHANGED peer
        /\ \/ UNCHANGED rd
           \/ rd' = Tail(rd) /\ pc' = (IF rd' = <<>> THEN "select" ELSE "round")
    BY <1>8 DEF Nego, Added, Reconnect, Continue, env
  <2>. QED
    BY <1>1, <2>1 DEF Round
<1>9. CASE ClientOffline
  <2> DEFINE c == Head(rd)
  <2>1. /\ pc = "round" /\ c \in Client /\ clients' = clients \ {c}
        /\ peer' = [peer EXCEPT ![c] = "cut"]
        /\ \/ UNCHANGED rd
           \/ rd' = Tail(rd) /\ pc' = (IF rd' = <<>> THEN "select" ELSE "round")
    BY <1>9 DEF ClientOffline, AtClient, Reconnect, Continue
  <2>2. \A d \in Client : Left(d) => Left(d)'
    BY <1>0, <2>1 DEF Typed
  <2>. QED
    BY <1>1, <2>1, <2>2 DEF Round
<1>10. CASE Login \/ LoginFails
  <2>1. /\ pc = "login" /\ UNCHANGED clients
        /\ \/ UNCHANGED rd /\ pc' = "dead"
           \/ rd' = Tail(rd) /\ pc' = (IF rd' = <<>> THEN "select" ELSE "round")
           \/ rd' = <<>> /\ pc' = "select"
    BY <1>10 DEF Login, LoginFails, Crash, Continue
  <2>2. PeersKept
    BY <1>0, <1>10, Sending DEF Login, PeersKept, Typed
  <2>. QED
    BY <1>1, <1>11, <2>1, <2>2 DEF Round
<1>. QED
  BY <1>2, <1>3, <1>4, <1>5, <1>6, <1>7, <1>8, <1>9, <1>10, <1>12 DEF Next, Server

LEMMA RoundInit == Init => Round
BY DEF Init, Round, Range

\* The part of the types that nothing above depends on, with the bounds.
Bounded ==
  /\ ntSock \in BOOLEAN
  /\ sent \in [Client -> 0..MaxSent]
  /\ link \in {"none", "up", "eof", "reset"}
  /\ links \in 0..MaxLinks
  /\ ntSent \in 0..MaxNt
  /\ got \in [Client -> Seq(1..MaxNt)]
  /\ fwd \in Seq(Client \X (1..MaxSent))
  /\ joined \in [Client -> [nt : 0..MaxNt, cmd : 0..MaxSent]]

LEMMA BoundedInit == Init => Bounded
<1>1. 0 \in 0..MaxSent /\ 0 \in 0..MaxNt /\ 0 \in 0..MaxLinks
  BY ShareAssumption
<1>2. <<>> \in Seq(1..MaxNt) /\ <<>> \in Seq(Client \X (1..MaxSent))
  OBVIOUS
<1>3. SUFFICES ASSUME Init PROVE Bounded
  OBVIOUS
<1>4. sent \in [Client -> 0..MaxSent] /\ got \in [Client -> Seq(1..MaxNt)]
  BY <1>1, <1>2, <1>3 DEF Init
<1>5. joined \in [Client -> [nt : 0..MaxNt, cmd : 0..MaxSent]]
  BY <1>1, <1>3 DEF Init
<1>6. links \in 0..MaxLinks /\ ntSent \in 0..MaxNt
  BY <1>1, <1>3 DEF Init
<1>7. ntSock \in BOOLEAN /\ link = "none" /\ fwd \in Seq(Client \X (1..MaxSent))
  BY <1>2, <1>3 DEF Init
<1>. QED
  BY <1>4, <1>5, <1>6, <1>7 DEF Bounded

\* What recv returned was sent.
LEMMA NewsInBounds ==
  ASSUME Typed, Bounded, NEW g \in Seq(1..MaxNt)
  PROVE  g \o News \in Seq(1..MaxNt)
<1>1. /\ ntSent \in Nat /\ ntTaken \in Nat /\ ntTaken <= ntSent /\ ntSent <= MaxNt
      /\ MaxNt \in Nat /\ ntSent - ntTaken \in Nat
  BY ShareAssumption DEF Typed, Bounded
<1>2. \A i \in 1..(ntSent - ntTaken) : ntTaken + i \in 1..MaxNt
  BY <1>1
<1>3. News \in Seq(1..MaxNt)
  BY <1>1, <1>2 DEF News
<1>. HIDE DEF News
<1>. QED
  BY <1>3, ConcatProperties

LEMMA ChunkInBounds ==
  ASSUME Typed, Bounded, NEW c \in Client, taken[c] < sent[c]
  PROVE  fwd \o Chunk(c) \in Seq(Client \X (1..MaxSent))
<1>1. /\ sent[c] \in Nat /\ taken[c] \in Nat /\ taken[c] < sent[c] /\ sent[c] <= MaxSent
      /\ MaxSent \in Nat /\ sent[c] - taken[c] \in Nat
  BY ShareAssumption DEF Typed, Bounded
<1>2. \A i \in 1..(sent[c] - taken[c]) : taken[c] + i \in 1..MaxSent
  BY <1>1
<1>3. \A i \in 1..(sent[c] - taken[c]) : <<c, taken[c] + i>> \in Client \X (1..MaxSent)
  BY <1>2
<1>4. Chunk(c) \in Seq(Client \X (1..MaxSent))
  BY <1>1, <1>3 DEF Chunk
<1>5. fwd \in Seq(Client \X (1..MaxSent))
  BY DEF Bounded
<1>. HIDE DEF Chunk
<1>. QED
  BY <1>4, <1>5, ConcatProperties

LEMMA BoundedStep ==
  ASSUME SInv, Bounded, [Next]_vars
  PROVE  Bounded'
<1>0. Typed /\ Fresh
  BY DEF SInv
<1>1. ASSUME NEW c \in Client, Connect(c) \/ Command(c) \/ Leave(c) \/ RstArrives(c) PROVE Bounded'
  <2>1. UNCHANGED <<ntSock, link, links, ntSent, got, fwd, joined>>
    BY <1>1 DEF Connect, Command, Leave, RstArrives, server, moved
  <2>2. sent' = sent \/ (sent[c] < MaxSent /\ sent' = [sent EXCEPT ![c] = @ + 1])
    BY <1>1 DEF Connect, Command, Leave, RstArrives
  <2>3. sent' \in [Client -> 0..MaxSent]
    <3>1. sent \in [Client -> 0..MaxSent] /\ sent[c] \in 0..MaxSent /\ MaxSent \in Nat
      BY ShareAssumption DEF Bounded
    <3>2. sent[c] < MaxSent => sent[c] + 1 \in 0..MaxSent
      BY <3>1
    <3>. QED
      BY <2>2, <3>1, <3>2
  <2>. QED
    BY <2>1, <2>3 DEF Bounded
<1>2. CASE NtMessage \/ NtLeaves
  <2>1. /\ UNCHANGED <<ntSock, sent, links, got, fwd, joined>>
        /\ ntSent' = ntSent \/ (ntSent < MaxNt /\ ntSent' = ntSent + 1)
        /\ link' = link \/ link' \in {"eof", "reset"}
    BY <1>2 DEF NtMessage, NtLeaves, server, moved
  <2>. QED
    BY <2>1, ShareAssumption DEF Bounded
<1>3. CASE \/ Select \/ Accept \/ NegoRaises \/ ClientStale \/ ClientOffline \/ LoginFails
           \/ NtLost \/ UNCHANGED vars
  <2>1. UNCHANGED <<sent, links, ntSent, got, fwd, joined>>
    BY <1>3
    DEF Select, Accept, NegoRaises, ClientStale, ClientOffline, LoginFails, NtLost, env, moved, vars
  <2>2. ntSock' = ntSock \/ ntSock' = FALSE
    BY <1>3
    DEF Select, Accept, NegoRaises, ClientStale, ClientOffline, LoginFails, NtLost, Crash, vars, server
  <2>3. link' = link \/ link' = "none"
    BY <1>3
    DEF Select, Accept, NegoRaises, ClientStale, ClientOffline, LoginFails, NtLost, env, vars
  <2>. QED
    BY <2>1, <2>2, <2>3 DEF Bounded
<1>4. CASE NtData \/ NtDataRaises
  <2>1. /\ UNCHANGED <<ntSock, sent, link, links, ntSent, fwd, joined>>
        /\ \E done \in SUBSET Client :
             got' = [c \in Client |-> IF c \in done THEN got[c] \o News ELSE got[c]]
    BY <1>0, <1>4 DEF NtData, NtDataRaises, Listeners, Crash, Typed
  <2>2. \A c \in Client : got[c] \o News \in Seq(1..MaxNt) /\ got[c] \in Seq(1..MaxNt)
    <3>1. \A c \in Client : got[c] \in Seq(1..MaxNt)
      BY DEF Bounded
    <3>. QED
      BY <1>0, <3>1, NewsInBounds
  <2>3. got' \in [Client -> Seq(1..MaxNt)]
    BY <2>1, <2>2
  <2>. QED
    BY <2>1, <2>3 DEF Bounded
<1>5. CASE Nego
  <2>1. /\ UNCHANGED <<ntSock, sent, link, links, ntSent, got, fwd>>
        /\ joined' = [joined EXCEPT ![new] = [nt |-> ntTaken, cmd |-> sent[new]]]
        /\ new \in Client
    BY <1>0, <1>5 DEF Nego, env, Fresh
  <2>2. ntTaken \in 0..MaxNt /\ sent[new] \in 0..MaxSent
    BY <1>0, <2>1, ShareAssumption DEF Bounded, Typed
  <2>3. joined' \in [Client -> [nt : 0..MaxNt, cmd : 0..MaxSent]]
    BY <2>1, <2>2 DEF Bounded
  <2>. QED
    BY <2>1, <2>3 DEF Bounded
<1>6. CASE ClientData
  <2> DEFINE c == Head(rd)
  <2>1. /\ UNCHANGED <<ntSock, sent, link, links, ntSent, got, joined>>
        /\ c \in Client /\ taken[c] < sent[c] /\ fwd' \in {fwd, fwd \o Chunk(c)}
    BY <1>6 DEF ClientData, AtClient, env
  <2>. HIDE DEF c
  <2>2. fwd' \in Seq(Client \X (1..MaxSent))
    BY <1>0, <2>1, ChunkInBounds DEF Bounded
  <2>. QED
    BY <2>1, <2>2 DEF Bounded
<1>7. CASE Login
  <2>1. /\ UNCHANGED <<sent, ntSent, got, fwd, joined>>
        /\ ntSock' = TRUE /\ link' = "up" /\ links < MaxLinks /\ links' = links + 1
    BY <1>7 DEF Login, moved
  <2>. QED
    BY <2>1, ShareAssumption DEF Bounded
<1>. QED
  BY <1>1, <1>2, <1>3, <1>4, <1>5, <1>6, <1>7 DEF Next, Server

\* Every variable keeps its type and its bound.
THEOREM ShareTypeCorrect == Spec => []TypeOK
<1>1. Init => Watching /\ Round /\ Bounded
  BY WatchInit, RoundInit, BoundedInit
<1>2. SInv /\ Watching /\ Round /\ Bounded /\ [Next]_vars => (Watching /\ Round /\ Bounded)'
  BY WatchStep, RoundStep, BoundedStep
<1>3. SInv /\ Watching /\ Round /\ Bounded => TypeOK
  <2> SUFFICES ASSUME SInv, Watching, Round, Bounded PROVE TypeOK
    OBVIOUS
  <2>1. \A c \in Client : taken[c] \in 0..sent[c]
    BY DEF SInv, Typed
  <2>2. ntTaken \in 0..ntSent
    BY DEF SInv, Typed
  <2>. QED
    BY <2>1, <2>2 DEF SInv, Typed, Ends, Watching, Round, Bounded, TypeOK
<1>. QED
  BY <1>1, <1>2, <1>3, ShareInductive, PTL DEF Spec

\* The exception that ends the server came from the connection of a client it serves or
\* negotiates with, or from the event of one that was cut off earlier in the round.
LEMMA CauseStep ==
  ASSUME SInv, Round, CrashHasCause, [Next]_vars
  PROVE  CrashHasCause'
<1>0. Typed /\ Fresh
  BY DEF SInv
<1>1. CASE pc = "dead"
  <2>1. /\ UNCHANGED <<rd, clients, new>>
        /\ \A c \in Client : peer[c] \in {"broken", "reset", "cut"} => peer'[c] = peer[c]
    <3>1. ASSUME NEW c \in Client, Connect(c) \/ Command(c) \/ Leave(c) \/ RstArrives(c)
          PROVE  /\ UNCHANGED <<rd, clients, new>>
                 /\ \A d \in Client :
                      peer[d] \in {"broken", "reset", "cut"} => peer'[d] = peer[d]
      BY <1>0, <3>1 DEF Connect, Command, Leave, RstArrives, server, Typed
    <3>2. CASE NtMessage \/ NtLeaves \/ UNCHANGED vars
      BY <3>2 DEF NtMessage, NtLeaves, server, env, vars
    <3>. QED
      BY <1>1, <3>1, <3>2
      DEF Next, Server, Select, NtData, NtDataRaises, NtLost, AtNt, Accept, Nego, NegoRaises,
          ClientData, ClientOffline, ClientStale, AtClient, Login, LoginFails
  <2>. QED
    BY <1>1, <2>1 DEF CrashHasCause, Broken
<1>2. CASE pc # "dead" /\ pc' = "dead"
  <2>1. ASSUME NEW c \in Client, Connect(c) \/ Command(c) \/ Leave(c) \/ RstArrives(c)
        PROVE  FALSE
    BY <1>2, <2>1 DEF Connect, Command, Leave, RstArrives, server
  <2>2. CASE NtDataRaises \/ LoginFails \/ NtLost
    <3>1. UNCHANGED <<clients, new>> /\ Raises(clients)
      BY <1>2, <2>2 DEF NtDataRaises, LoginFails, NtLost, Crash, Continue
    <3>2. PeersKept
      BY <1>0, <2>2, <3>1, Sending
    <3>. QED
      BY <1>0, <3>1, <3>2 DEF Raises, Broken, PeersKept, CrashHasCause, Typed
  <2>3. CASE Accept
    <3>1. new' \in Client /\ Broken(new')
      BY <1>0, <1>2, <2>3 DEF Accept, Raises, Typed
    <3>2. PeersKept
      BY <1>0, <2>3, Sending
    <3>. QED
      BY <3>1, <3>2 DEF Broken, PeersKept, CrashHasCause
  <2>4. CASE NegoRaises
    BY <1>0, <2>4 DEF NegoRaises, Crash, env, Fresh, Broken, CrashHasCause
  <2>5. CASE ClientStale
    <3>1. pc = "round" /\ Head(rd) \in Client /\ Head(rd) \notin clients
      BY <2>5 DEF ClientStale, AtClient
    <3>2. Head(rd) \in Range(rd)
      BY <3>1, RestOf DEF Round
    <3>. QED
      BY <2>5, <3>1, <3>2 DEF Round, ClientStale, Crash, env, CrashHasCause
  <2>6. CASE \/ NtMessage \/ NtLeaves \/ Select \/ NtData \/ Nego \/ ClientData \/ ClientOffline
             \/ Login \/ UNCHANGED vars
    BY <1>2, <2>6
    DEF NtMessage, NtLeaves, Select, NtData, Nego, ClientData, ClientOffline, Login,
        Reconnect, Continue, server, vars
  <2>. QED
    BY <2>1, <2>2, <2>3, <2>4, <2>5, <2>6 DEF Next, Server
<1>3. CASE pc' # "dead"
  BY <1>3 DEF CrashHasCause
<1>. QED
  BY <1>1, <1>2, <1>3

\* For any number of clients: only the reset of a client that the server still serves, or
\* an event that a loss of the NT made stale, ends the server.
THEOREM CrashCauseCorrect == Spec => []CrashHasCause
<1>1. Init => Watching /\ Round /\ CrashHasCause
  BY WatchInit, RoundInit DEF Init, CrashHasCause
<1>2. SInv /\ Watching /\ Round /\ CrashHasCause /\ [Next]_vars
      => (Watching /\ Round /\ CrashHasCause)'
  BY WatchStep, RoundStep, CauseStep
<1>. QED
  BY <1>1, <1>2, ShareInductive, PTL DEF Spec
=============================================================================
