--------------------------------- MODULE Relay ---------------------------------
(***************************************************************************)
(* What the forwarding server promises to clients that share one tty,      *)
(* without processes, threads, buffers and descriptors.  Each connection   *)
(* gets one session, which opens once and ends for good.  While it is      *)
(* open, cells move in batches no longer than a buffer: the tty gets what  *)
(* the client sent, in order and from the start, and the client gets       *)
(* printed cells, later ones after earlier ones and none that another      *)
(* client has got.  What a session loses, and when it ends, is left open.  *)
(***************************************************************************)
EXTENDS Naturals, Sequences

CONSTANTS
  Conns,  \* the connections
  Cell,   \* what is sent and printed
  Batch   \* cells moved at a time

VARIABLES
  sent,     \* the cells each client has sent
  printed,  \* how many cells the tty has printed
  session,  \* "none", "open" or "over"
  up,       \* the cells of each client that the tty has got
  down      \* the positions of the printed cells each client has got

vars == <<sent, printed, session, up, down>>

Init ==
  /\ sent = [c \in Conns |-> <<>>]
  /\ printed = 0
  /\ session = [c \in Conns |-> "none"]
  /\ up = [c \in Conns |-> <<>>]
  /\ down = [c \in Conns |-> <<>>]

Send(c) ==
  /\ \E v \in Cell : sent' = [sent EXCEPT ![c] = Append(@, v)]
  /\ UNCHANGED <<printed, session, up, down>>

Show ==
  /\ printed' = printed + 1
  /\ UNCHANGED <<sent, session, up, down>>

Open(c) ==
  /\ session[c] = "none"
  /\ session' = [session EXCEPT ![c] = "open"]
  /\ UNCHANGED <<sent, printed, up, down>>

End(c) ==
  /\ session[c] = "open"
  /\ session' = [session EXCEPT ![c] = "over"]
  /\ UNCHANGED <<sent, printed, up, down>>

ToTty(c) ==
  /\ session[c] = "open"
  /\ \E m \in 1..Batch :
       /\ Len(up[c]) + m <= Len(sent[c])
       /\ up' = [up EXCEPT ![c] = SubSeq(sent[c], 1, Len(up[c]) + m)]
  /\ UNCHANGED <<sent, printed, session, down>>

\* the cells at positions s may go to c
Free(c, s) ==
  /\ \A i, j \in DOMAIN s : i < j => s[i] < s[j]
  /\ \A i \in DOMAIN s, j \in DOMAIN down[c] : down[c][j] < s[i]
  /\ \A i \in DOMAIN s, d \in Conns \ {c} : \A j \in DOMAIN down[d] : down[d][j] # s[i]

ToClient(c) ==
  /\ session[c] = "open"
  /\ \E m \in 1..Batch : \E s \in [1..m -> 1..printed] :
       /\ Free(c, s)
       /\ down' = [down EXCEPT ![c] = @ \o s]
  /\ UNCHANGED <<sent, printed, session, up>>

Next ==
  \/ Show
  \/ \E c \in Conns : Send(c) \/ Open(c) \/ End(c) \/ ToTty(c) \/ ToClient(c)

Spec == Init /\ [][Next]_vars
=============================================================================
