------------------------- MODULE ForwardServer_proofs -------------------------
(***************************************************************************)
(* Proofs about ForwardServer, for any set of connections, any cells, any  *)
(* buffer size and any traffic; the last part shows that it implements     *)
(* Relay.                                                                  *)
(***************************************************************************)
EXTENDS ForwardServer, SequenceTheorems, TLAPS

USE DEF Thread, Fd

-----------------------------------------------------------------------------
(* What the helpers of forward_message return. *)

Pos == Nat \ {0}

\* A thread has taken at most what there is of its stream.
Bounded ==
  /\ \A c \in Conns : taken[c] <= Len(sent[c])
  /\ Len(reader) <= Len(ttyLog)

\* What a read can return is between nothing and what is left of the stream.
LEMMA UnreadBound ==
  ASSUME TypeOK, Bounded, NEW c \in Conns, NEW t \in Thread
  PROVE  /\ Taken(c, t) \in Nat
         /\ Unread(c, t) \in Nat
         /\ ReadCount(c, t) \in Nat
         /\ ReadCount(c, t) <= Unread(c, t)
         /\ Taken(c, t) + ReadCount(c, t) <= Len(Stream(c, t))
<1>1. /\ taken[c] \in Nat /\ Len(sent[c]) \in Nat /\ taken[c] <= Len(sent[c])
      /\ Len(reader) \in Nat /\ Len(ttyLog) \in Nat /\ Len(reader) <= Len(ttyLog)
  BY LenProperties DEF TypeOK, Bounded
<1>2. Chunk \in Nat
  BY ServerAssumption
<1>. QED
  BY <1>1, <1>2 DEF Taken, Unread, ReadCount, Stream

\* A read of n cells returns the n positions that follow those taken.
LEMMA PositionsRange ==
  ASSUME NEW c, NEW t, NEW n \in Nat, Taken(c, t) \in Nat
  PROVE  /\ Positions(c, t, n) \in Seq(Pos)
         /\ Len(Positions(c, t, n)) = n
         /\ \A i \in 1..n : Positions(c, t, n)[i] = Taken(c, t) + i
BY DEF Positions, Pos

\* A write of m cells of p leaves the others, in order.
LEMMA WriteSplits ==
  ASSUME NEW S, NEW p \in Seq(S), NEW m \in 0..Len(p)
  PROVE  /\ SubSeq(p, 1, m) \in Seq(S)
         /\ Len(SubSeq(p, 1, m)) = m
         /\ \A i \in 1..m : SubSeq(p, 1, m)[i] = p[i]
         /\ Rest(p, m) \in Seq(S)
         /\ Len(Rest(p, m)) = Len(p) - m
         /\ \A i \in 1..(Len(p) - m) : Rest(p, m)[i] = p[m + i]
<1>1. Len(p) \in Nat /\ \A i \in 1..Len(p) : p[i] \in S
  BY LenProperties, ElementOfSeq
<1>2. /\ SubSeq(p, 1, m) \in Seq(S)
      /\ Len(SubSeq(p, 1, m)) = m
      /\ \A i \in 1..m : SubSeq(p, 1, m)[i] = p[i]
  BY <1>1, SubSeqProperties
<1>3. /\ Rest(p, m) \in Seq(S)
      /\ Len(Rest(p, m)) = Len(p) - m
      /\ \A i \in 1..(Len(p) - m) : Rest(p, m)[i] = p[m + i]
  BY <1>1, SubSeqProperties DEF Rest
<1>. QED
  BY <1>2, <1>3

\* Consuming n unread cells moves the read position by n, within the stream.
LEMMA ConsumeType ==
  ASSUME TypeOK, Bounded, NEW c \in Conns, NEW t \in Thread,
         Consume(c, t, ReadCount(c, t))
  PROVE  /\ taken' \in [Conns -> Nat]
         /\ \A d \in Conns : taken'[d] <= Len(sent[d])
         /\ reader' \in Seq(Conns)
         /\ Len(reader') <= Len(ttyLog)
<1> DEFINE n == ReadCount(c, t)
<1>1. n \in Nat /\ Taken(c, t) + n <= Len(Stream(c, t))
  BY UnreadBound
<1>2. CASE t = "fwd_send"
  <2>1. taken' = [taken EXCEPT ![c] = @ + n] /\ reader' = reader
    BY <1>2 DEF Consume
  <2>2. taken[c] \in Nat /\ taken[c] + n \in Nat /\ taken[c] + n <= Len(sent[c])
    BY <1>1, <1>2 DEF Taken, Stream, TypeOK
  <2>. QED
    BY <2>1, <2>2 DEF TypeOK, Bounded
<1>3. CASE t = "fwd_receive"
  <2>1. taken' = taken /\ reader' = reader \o [i \in 1..n |-> c]
    BY <1>3 DEF Consume
  <2>2. [i \in 1..n |-> c] \in Seq(Conns) /\ Len([i \in 1..n |-> c]) = n
    BY <1>1
  <2>3. reader' \in Seq(Conns) /\ Len(reader') = Len(reader) + n
    <3>1. reader \in Seq(Conns)
      BY DEF TypeOK
    <3>. QED
      BY <2>1, <2>2, <3>1, ConcatProperties
  <2>. QED
    BY <1>1, <1>3, <2>1, <2>3 DEF Taken, Stream, TypeOK, Bounded
<1>. QED
  BY <1>2, <1>3

LEMMA EndThreadType ==
  ASSUME TypeOK, NEW c \in Conns, NEW t \in Thread, NEW fd, EndThread(c, t, fd)
  PROVE  /\ thr' \in [Conns -> [Thread -> {"off", "select", "read", "write", "ended"}]]
         /\ fds' \in [Conns -> SUBSET Fd]
         /\ hand' \in [Conns -> [Thread -> Seq(Pos)]]
<1>1. hand' \in [Conns -> [Thread -> Seq(Pos)]]
  <2>1. <<>> \in Seq(Pos) /\ hand \in [Conns -> [Thread -> Seq(Pos)]]
    BY EmptySeq DEF TypeOK, Pos
  <2>2. hand' = [hand EXCEPT ![c][t] = <<>>]
    BY DEF EndThread
  <2>. QED
    BY <2>1, <2>2
<1>2. thr' \in [Conns -> [Thread -> {"off", "select", "read", "write", "ended"}]]
  BY DEF EndThread, TypeOK
<1>3. fds' \in [Conns -> SUBSET Fd]
  BY DEF EndThread, TypeOK
<1>. QED
  BY <1>1, <1>2, <1>3

LEMMA TerminateType ==
  ASSUME TypeOK, NEW c \in Conns, NEW how \in Over, Terminate(c, how)
  PROVE  /\ child' \in [Conns -> {"none", "boot", "boot2", "failing", "join", "sleep"} \cup Over]
         /\ thr' \in [Conns -> [Thread -> {"off", "select", "read", "write", "ended"}]]
         /\ fds' \in [Conns -> SUBSET Fd]
         /\ hand' \in [Conns -> [Thread -> Seq(Pos)]]
<1>1. child' \in [Conns -> {"none", "boot", "boot2", "failing", "join", "sleep"} \cup Over]
  BY DEF Terminate, TypeOK
<1>2. thr' \in [Conns -> [Thread -> {"off", "select", "read", "write", "ended"}]]
  BY DEF Terminate, TypeOK
<1>3. fds' \in [Conns -> SUBSET Fd]
  BY DEF Terminate, TypeOK
<1>4. hand' \in [Conns -> [Thread -> Seq(Pos)]]
  <2>1. [t \in Thread |-> <<>>] \in [Thread -> Seq(Pos)]
    BY EmptySeq
  <2>2. hand \in [Conns -> [Thread -> Seq(Pos)]]
    BY DEF TypeOK, Pos
  <2>3. hand' = [hand EXCEPT ![c] = [t \in Thread |-> <<>>]]
    BY DEF Terminate
  <2>. QED
    BY <2>1, <2>2, <2>3
<1>. QED
  BY <1>1, <1>2, <1>3, <1>4

\* A step of a child that reads and writes nothing.
LEMMA ChildType ==
  ASSUME TypeOK, Bounded,
         child' \in [Conns -> {"none", "boot", "boot2", "failing", "join", "sleep"} \cup Over],
         thr' \in [Conns -> [Thread -> {"off", "select", "read", "write", "ended"}]],
         fds' \in [Conns -> SUBSET Fd],
         hand' \in [Conns -> [Thread -> Seq(Pos)]],
         UNCHANGED <<envVars, parentVars, out, taken, quit, reader>>
  PROVE  TypeOK' /\ Bounded'
<1>1. TypeOK'
  BY DEF TypeOK, envVars, parentVars, Pos
<1>2. Bounded'
  BY DEF Bounded, envVars
<1>. QED
  BY <1>1, <1>2

LEMMA TypeInit == Init => TypeOK /\ Bounded
BY ServerAssumption DEF Init, TypeOK, Bounded, Over

LEMMA TypeStep ==
  ASSUME TypeOK, Bounded, [Next]_vars
  PROVE  TypeOK' /\ Bounded'
<1> USE DEF Over, Pos
<1>1. ASSUME Environment PROVE TypeOK' /\ Bounded'
  <2>1. ASSUME Emit \/ TtyHangup PROVE TypeOK' /\ Bounded'
    <3>1. CASE Emit
      <4>1. PICK v \in Cell : ttyLog' = Append(ttyLog, v)
        BY <3>1 DEF Emit
      <4>2. ttyLog' \in Seq(Cell) /\ Len(ttyLog') = Len(ttyLog) + 1 /\ Len(ttyLog) \in Nat
        BY <4>1, AppendProperties, LenProperties DEF TypeOK
      <4>3. Len(reader) \in Nat
        BY LenProperties DEF TypeOK
      <4>. QED
        BY <3>1, <4>2, <4>3 DEF Emit, TypeOK, Bounded, parentVars, childVars
    <3>2. CASE TtyHangup
      BY <3>2 DEF TtyHangup, TypeOK, Bounded, parentVars, childVars
    <3>. QED
      BY <2>1, <3>1, <3>2
  <2>2. ASSUME NEW c \in Conns, Connect(c) \/ Type(c) \/ Hangup(c)
        PROVE  TypeOK' /\ Bounded'
    <3>1. CASE Connect(c)
      BY <3>1 DEF Connect, TypeOK, Bounded, parentVars, childVars
    <3>2. CASE Type(c)
      <4>1. PICK v \in Cell : sent' = [sent EXCEPT ![c] = Append(@, v)]
        BY <3>2 DEF Type
      <4>2. sent[c] \in Seq(Cell) /\ taken[c] \in Nat /\ taken[c] <= Len(sent[c])
        BY DEF TypeOK, Bounded
      <4>3. /\ Append(sent[c], v) \in Seq(Cell)
            /\ taken[c] <= Len(Append(sent[c], v))
        BY <4>2, AppendProperties, LenProperties
      <4>. QED
        BY <3>2, <4>1, <4>3 DEF Type, TypeOK, Bounded, parentVars, childVars
    <3>3. CASE Hangup(c)
      BY <3>3 DEF Hangup, TypeOK, Bounded, parentVars, childVars
    <3>. QED
      BY <2>2, <3>1, <3>2, <3>3
  <2>. QED
    BY <1>1, <2>1, <2>2 DEF Environment
<1>2. ASSUME Parent PROVE TypeOK' /\ Bounded'
  <2>1. CASE Accept
    <3>1. PICK c \in backlog :
            /\ backlog' = backlog \ {c}
            /\ parent' = [pc |-> "fork", sc |-> c]
            /\ parentFds' = parentFds \cup {c}
      BY <2>1 DEF Accept
    <3>2. c \in Conns
      BY DEF TypeOK
    <3>. QED
      BY <2>1, <3>1, <3>2 DEF Accept, TypeOK, Bounded, childVars
  <2>2. CASE Fork
    BY <2>2 DEF Fork, TypeOK, Bounded, envVars
  <2>3. CASE ForkFails
    BY <2>3 DEF ForkFails, TypeOK, Bounded, envVars, childVars
  <2>4. CASE ParentClose
    BY <2>4 DEF ParentClose, CloseSc, TypeOK, Bounded, envVars, childVars
  <2>. QED
    BY <1>2, <2>1, <2>2, <2>3, <2>4 DEF Parent
<1>3. ASSUME NEW c \in Conns, Main(c) PROVE TypeOK' /\ Bounded'
  <2>1. CASE Spawn(c)
    <3>1. PICK t \in Thread, s \in {"boot2", "join"} :
            /\ child' = [child EXCEPT ![c] = s]
            /\ thr' = [thr EXCEPT ![c][t] = "select"]
      BY <2>1 DEF Spawn
    <3>2. child' \in [Conns -> {"none", "boot", "boot2", "failing", "join", "sleep"} \cup Over]
      BY <3>1 DEF TypeOK
    <3>3. thr' \in [Conns -> [Thread -> {"off", "select", "read", "write", "ended"}]]
      BY <3>1 DEF TypeOK
    <3>4. fds' \in [Conns -> SUBSET Fd] /\ hand' \in [Conns -> [Thread -> Seq(Pos)]]
      BY <2>1 DEF Spawn, TypeOK
    <3>. QED
      BY <2>1, <3>2, <3>3, <3>4, ChildType DEF Spawn
  <2>2. CASE SpawnFails(c)
    <3>1. child' \in [Conns -> {"none", "boot", "boot2", "failing", "join", "sleep"} \cup Over]
      BY <2>2 DEF SpawnFails, TypeOK
    <3>2. /\ thr' \in [Conns -> [Thread -> {"off", "select", "read", "write", "ended"}]]
          /\ fds' \in [Conns -> SUBSET Fd]
          /\ hand' \in [Conns -> [Thread -> Seq(Pos)]]
      BY <2>2 DEF SpawnFails, TypeOK
    <3>. QED
      BY <2>2, <3>1, <3>2, ChildType DEF SpawnFails
  <2>3. CASE Join(c)
    <3>1. child' \in [Conns -> {"none", "boot", "boot2", "failing", "join", "sleep"} \cup Over]
      BY <2>3 DEF Join, TypeOK
    <3>2. /\ thr' \in [Conns -> [Thread -> {"off", "select", "read", "write", "ended"}]]
          /\ fds' \in [Conns -> SUBSET Fd]
          /\ hand' \in [Conns -> [Thread -> Seq(Pos)]]
      BY <2>3 DEF Join, TypeOK
    <3>. QED
      BY <2>3, <3>1, <3>2, ChildType DEF Join
  <2>4. CASE ExitFailure(c) \/ Exit(c)
    BY <2>4, TerminateType, ChildType DEF ExitFailure, Exit
  <2>. QED
    BY <1>3, <2>1, <2>2, <2>3, <2>4 DEF Main
<1>4. ASSUME NEW c \in Conns, WriteLost(c) PROVE TypeOK' /\ Bounded'
  <2>1. hand[c]["fwd_receive"] \in Seq(Pos)
    BY DEF TypeOK
  <2>2. Rest(hand[c]["fwd_receive"], Len(hand[c]["fwd_receive"])) \in Seq(Pos)
    BY <2>1, WriteSplits, LenProperties
  <2>3. hand' \in [Conns -> [Thread -> Seq(Pos)]]
    BY <1>4, <2>2 DEF WriteLost, Written, TypeOK
  <2>4. thr' \in [Conns -> [Thread -> {"off", "select", "read", "write", "ended"}]]
    BY <1>4 DEF WriteLost, Written, TypeOK
  <2>5. peer' \in [Conns -> {"away", "up", "closed", "broken", "reset"}]
    BY <1>4 DEF WriteLost, TypeOK
  <2>6. TypeOK'
    BY <1>4, <2>3, <2>4, <2>5 DEF WriteLost, TypeOK, parentVars
  <2>7. Bounded'
    BY <1>4 DEF WriteLost, Bounded
  <2>. QED
    BY <2>6, <2>7
<1>5. ASSUME NEW c \in Conns, Sigpipe(c) PROVE TypeOK' /\ Bounded'
  BY <1>5, TerminateType, ChildType DEF Sigpipe
<1>6. ASSUME NEW c \in Conns, NEW t \in Thread, ThreadStep(c, t)
      PROVE  TypeOK' /\ Bounded'
  <2>1. CASE SelectReturns(c, t)
    BY <2>1 DEF SelectReturns, TypeOK, Bounded, envVars, parentVars
  <2>2. CASE ReadFails(c, t)
    <3>1. EndThread(c, t, From(t))
      BY <2>2 DEF ReadFails
    <3>2. /\ thr' \in [Conns -> [Thread -> {"off", "select", "read", "write", "ended"}]]
          /\ fds' \in [Conns -> SUBSET Fd]
          /\ hand' \in [Conns -> [Thread -> Seq(Pos)]]
      BY <3>1, EndThreadType
    <3>3. child' \in [Conns -> {"none", "boot", "boot2", "failing", "join", "sleep"} \cup Over]
      BY <2>2 DEF ReadFails, TypeOK
    <3>. QED
      BY <2>2, <3>2, <3>3, ChildType DEF ReadFails
  <2>3. CASE ReadQuit(c, t)
    <3>1. Consume(c, t, ReadCount(c, t))
      BY <2>3 DEF ReadQuit
    <3>2. /\ taken' \in [Conns -> Nat]
          /\ \A d \in Conns : taken'[d] <= Len(sent[d])
          /\ reader' \in Seq(Conns)
          /\ Len(reader') <= Len(ttyLog)
      BY <3>1, ConsumeType
    <3>3. EndThread(c, t, To(t))
      BY <2>3 DEF ReadQuit
    <3>4. /\ thr' \in [Conns -> [Thread -> {"off", "select", "read", "write", "ended"}]]
          /\ fds' \in [Conns -> SUBSET Fd]
          /\ hand' \in [Conns -> [Thread -> Seq(Pos)]]
      BY <3>3, EndThreadType
    <3>5. quit' \in [Conns -> SUBSET Thread]
      BY <2>3 DEF ReadQuit, TypeOK
    <3>. QED
      BY <2>3, <3>2, <3>4, <3>5 DEF ReadQuit, TypeOK, Bounded, envVars, parentVars
  <2>4. CASE Read(c, t)
    <3>1. Consume(c, t, ReadCount(c, t))
      BY <2>4 DEF Read
    <3>2. /\ taken' \in [Conns -> Nat]
          /\ \A d \in Conns : taken'[d] <= Len(sent[d])
          /\ reader' \in Seq(Conns)
          /\ Len(reader') <= Len(ttyLog)
      BY <3>1, ConsumeType
    <3>3. Positions(c, t, ReadCount(c, t)) \in Seq(Pos)
      BY UnreadBound, PositionsRange
    <3>. QED
      BY <2>4, <3>2, <3>3 DEF Read, TypeOK, Bounded, envVars, parentVars
  <2>5. CASE WriteFails(c, t)
    <3>1. EndThread(c, t, To(t))
      BY <2>5 DEF WriteFails
    <3>2. /\ thr' \in [Conns -> [Thread -> {"off", "select", "read", "write", "ended"}]]
          /\ fds' \in [Conns -> SUBSET Fd]
          /\ hand' \in [Conns -> [Thread -> Seq(Pos)]]
      BY <3>1, EndThreadType
    <3>3. child' \in [Conns -> {"none", "boot", "boot2", "failing", "join", "sleep"} \cup Over]
      BY <2>5 DEF WriteFails, TypeOK
    <3>. QED
      BY <2>5, <3>2, <3>3, ChildType DEF WriteFails
  <2>. QED
    BY <1>6, <2>1, <2>2, <2>3, <2>4, <2>5 DEF ThreadStep
<1>7. ASSUME NEW c \in Conns, NEW t \in Thread, WriteTakes(c, t)
      PROVE  TypeOK' /\ Bounded'
  <2>1. hand[c][t] \in Seq(Pos) /\ out[c][t] \in Seq(Pos)
    BY DEF TypeOK
  <2>2. PICK m \in 1..Len(hand[c][t]) :
          /\ out' = [out EXCEPT ![c][t] = @ \o SubSeq(hand[c][t], 1, m)]
          /\ Written(c, t, m)
    BY <1>7 DEF WriteTakes
  <2>3. m \in 0..Len(hand[c][t])
    BY <2>1, LenProperties
  <2>4. SubSeq(hand[c][t], 1, m) \in Seq(Pos) /\ Rest(hand[c][t], m) \in Seq(Pos)
    BY <2>1, <2>3, WriteSplits
  <2>5. out[c][t] \o SubSeq(hand[c][t], 1, m) \in Seq(Pos)
    BY <2>1, <2>4, ConcatProperties
  <2>. QED
    BY <1>7, <2>2, <2>4, <2>5 DEF WriteTakes, Written, TypeOK, Bounded, envVars, parentVars
<1>8. ASSUME NEW c \in Conns, NEW t \in Thread, SelectBadFd(c, t)
      PROVE  TypeOK' /\ Bounded'
  BY <1>8 DEF SelectBadFd, TypeOK, Bounded, envVars, parentVars
<1>9. ASSUME UNCHANGED vars PROVE TypeOK' /\ Bounded'
  BY <1>9 DEF TypeOK, Bounded, vars, envVars, parentVars, childVars
<1>. QED
  BY <1>1, <1>2, <1>3, <1>4, <1>5, <1>6, <1>7, <1>8, <1>9 DEF Next

\* Every reachable state is a state the C program's variables can be in, and
\* no thread has read past what was sent or printed.
THEOREM TypeCorrect == Spec => []TypeOK
<1>1. Init => TypeOK /\ Bounded
  BY TypeInit
<1>2. TypeOK /\ Bounded /\ [Next]_vars => (TypeOK /\ Bounded)'
  BY TypeStep
<1>. QED
  BY <1>1, <1>2, PTL DEF Spec

-----------------------------------------------------------------------------
(* Descriptors and the life of a session. *)

Descriptors ==
  /\ parent.pc = "accept" => parentFds = {}
  /\ parentFds \subseteq {parent.sc}
  /\ \A c \in Conns : child[c] \in Over \cup {"none"} => fds[c] = {}

Inv1 == TypeOK /\ Bounded /\ Descriptors

LEMMA DescriptorsStep ==
  ASSUME TypeOK, Descriptors, [Next]_vars
  PROVE  Descriptors'
<1> USE DEF Over, Descriptors
<1>1. CASE Environment
  BY <1>1 DEF Environment, Emit, TtyHangup, Connect, Type, Hangup, parentVars, childVars
<1>2. CASE Parent
  <2>1. CASE Accept
    BY <2>1 DEF Accept, childVars, TypeOK
  <2>2. CASE Fork
    BY <2>2 DEF Fork, envVars, TypeOK
  <2>3. CASE ForkFails
    BY <2>3 DEF ForkFails, envVars, childVars, TypeOK
  <2>4. CASE ParentClose
    BY <2>4 DEF ParentClose, CloseSc, envVars, childVars, TypeOK
  <2>. QED
    BY <1>2, <2>1, <2>2, <2>3, <2>4 DEF Parent
<1>3. ASSUME NEW c \in Conns, NEW how \in Over, Terminate(c, how), UNCHANGED parentVars
      PROVE  Descriptors'
  <2>1. fds'[c] = {} /\ \A d \in Conns \ {c} : child'[d] = child[d] /\ fds'[d] = fds[d]
    BY <1>3 DEF Terminate, TypeOK
  <2>. QED
    BY <1>3, <2>1 DEF parentVars
<1>4. ASSUME NEW c \in Conns, Main(c) \/ WriteLost(c) \/ Sigpipe(c) PROVE Descriptors'
  <2>1. CASE Spawn(c)
    <3>1. child'[c] \in {"boot2", "join"} /\ \A d \in Conns \ {c} : child'[d] = child[d]
      BY <2>1 DEF Spawn, TypeOK
    <3>. QED
      BY <2>1, <3>1 DEF Spawn, parentVars
  <2>2. CASE SpawnFails(c)
    <3>1. /\ child'[c] = "failing"
          /\ \A d \in Conns \ {c} : child'[d] = child[d] /\ fds'[d] = fds[d]
      BY <2>2 DEF SpawnFails, TypeOK
    <3>. QED
      BY <2>2, <3>1 DEF SpawnFails, parentVars
  <2>3. CASE Join(c)
    BY <2>3 DEF Join, parentVars, TypeOK
  <2>4. CASE ExitFailure(c) \/ Exit(c)
    BY <1>3, <2>4 DEF ExitFailure, Exit
  <2>5. CASE WriteLost(c)
    BY <2>5 DEF WriteLost, parentVars
  <2>6. CASE Sigpipe(c)
    BY <1>3, <2>6 DEF Sigpipe
  <2>. QED
    BY <1>4, <2>1, <2>2, <2>3, <2>4, <2>5, <2>6 DEF Main
<1>5. ASSUME NEW c \in Conns, NEW t \in Thread, ThreadStep(c, t) PROVE Descriptors'
  <2>1. CASE SelectReturns(c, t)
    BY <2>1 DEF SelectReturns, envVars, parentVars
  <2>2. ASSUME NEW fd, EndThread(c, t, fd), child' = child, UNCHANGED parentVars
        PROVE  Descriptors'
    BY <2>2 DEF EndThread, parentVars, TypeOK
  <2>3. CASE ReadFails(c, t)
    BY <2>2, <2>3 DEF ReadFails
  <2>4. CASE ReadQuit(c, t)
    BY <2>2, <2>4 DEF ReadQuit
  <2>5. CASE Read(c, t)
    BY <2>5 DEF Read, parentVars
  <2>6. CASE WriteFails(c, t)
    BY <2>2, <2>6 DEF WriteFails
  <2>. QED
    BY <1>5, <2>1, <2>3, <2>4, <2>5, <2>6 DEF ThreadStep
<1>6. ASSUME NEW c \in Conns, NEW t \in Thread, WriteTakes(c, t) \/ SelectBadFd(c, t)
      PROVE  Descriptors'
  BY <1>6 DEF WriteTakes, SelectBadFd, envVars, parentVars
<1>7. CASE UNCHANGED vars
  BY <1>7 DEF vars, envVars, parentVars, childVars
<1>. QED
  BY <1>1, <1>2, <1>4, <1>5, <1>6, <1>7 DEF Next

\* Whenever the parent waits in accept it holds no connection, and neither does
\* a child that is over: its client has been told that the session is closed.
THEOREM Released == Spec => []ReleasedWhenIdle
<1>1. Init => Inv1
  BY TypeInit DEF Init, Inv1, Descriptors, Over
<1>2. Inv1 /\ [Next]_vars => Inv1'
  BY TypeStep, DescriptorsStep DEF Inv1
<1>3. Inv1 => ReleasedWhenIdle
  BY DEF Inv1, Descriptors, ReleasedWhenIdle
<1>. QED
  BY <1>1, <1>2, <1>3, PTL DEF Spec

-----------------------------------------------------------------------------
(* What a step of a thread leaves alone, and what other steps do. *)

ThreadActs(d, t) ==
  \/ ThreadStep(d, t) \/ WriteTakes(d, t) \/ SelectBadFd(d, t)
  \/ t = "fwd_receive" /\ WriteLost(d)

\* Reading extends reader with the reading child, and nothing else does.
LEMMA ConsumeFrame ==
  ASSUME TypeOK, Bounded, NEW d \in Conns, NEW t \in Thread,
         Consume(d, t, ReadCount(d, t))
  PROVE  /\ \A c \in Conns : c # d \/ t # "fwd_send" => taken'[c] = taken[c]
         /\ t = "fwd_send" => reader' = reader /\ taken'[d] = taken[d] + ReadCount(d, t)
         /\ Len(reader') = Len(reader) + (IF t = "fwd_send" THEN 0 ELSE ReadCount(d, t))
         /\ \A k \in 1..Len(reader) : reader'[k] = reader[k]
         /\ \A k \in 1..Len(reader') : k \notin 1..Len(reader) => reader'[k] = d
<1> DEFINE n == ReadCount(d, t)
<1>1. n \in Nat /\ reader \in Seq(Conns) /\ Len(reader) \in Nat
  BY UnreadBound, LenProperties DEF TypeOK
<1>2. CASE t = "fwd_send"
  BY <1>1, <1>2 DEF Consume, TypeOK
<1>3. CASE t = "fwd_receive"
  <2>1. taken' = taken /\ reader' = reader \o [i \in 1..n |-> d]
    BY <1>3 DEF Consume
  <2>2. /\ [i \in 1..n |-> d] \in Seq(Conns) /\ Len([i \in 1..n |-> d]) = n
        /\ \A i \in 1..n : [j \in 1..n |-> d][i] = d
    BY <1>1
  <2>3. /\ Len(reader') = Len(reader) + n
        /\ \A i \in 1..(Len(reader) + n) :
             reader'[i] = IF i <= Len(reader) THEN reader[i]
                          ELSE [j \in 1..n |-> d][i - Len(reader)]
    BY <1>1, <2>1, <2>2, ConcatProperties
  <2>4. \A k \in 1..Len(reader) : reader'[k] = reader[k]
    BY <1>1, <2>3
  <2>5. \A k \in 1..Len(reader') : k \notin 1..Len(reader) => reader'[k] = d
    <3>1. ASSUME NEW k \in 1..Len(reader'), k \notin 1..Len(reader) PROVE reader'[k] = d
      <4>1. k - Len(reader) \in 1..n /\ ~(k <= Len(reader)) /\ k \in 1..(Len(reader) + n)
        BY <1>1, <2>3, <3>1
      <4>. QED
        BY <2>2, <2>3, <4>1
    <3>. QED
      BY <3>1
  <2>. QED
    BY <1>3, <2>1, <2>3, <2>4, <2>5
<1>. QED
  BY <1>2, <1>3

\* An update at one thread is seen there and nowhere else.
LEMMA UpdateOne ==
  ASSUME NEW S, NEW f \in [Conns -> [Thread -> S]],
         NEW d \in Conns, NEW t \in Thread, NEW v
  PROVE  /\ [f EXCEPT ![d][t] = v][d][t] = v
         /\ \A c \in Conns, s \in Thread :
              c # d \/ s # t => [f EXCEPT ![d][t] = v][c][s] = f[c][s]
OBVIOUS

LEMMA ThreadFrame ==
  ASSUME TypeOK, Bounded, NEW d \in Conns, NEW t \in Thread, ThreadActs(d, t)
  PROVE  /\ child' = child /\ UNCHANGED parentVars
         /\ thr[d][t] \in Running
         /\ thr'[d][t] # "off"
         /\ \/ thr'[d][t] = "write" \/ hand'[d][t] = <<>>
            \/ thr[d][t] # "write" /\ hand'[d][t] = hand[d][t]
         /\ \A c \in Conns, s \in Thread : c # d \/ s # t =>
              thr'[c][s] = thr[c][s] /\ hand'[c][s] = hand[c][s] /\ out'[c][s] = out[c][s]
         /\ \A c \in Conns : c # d \/ t # "fwd_send" => taken'[c] = taken[c]
         /\ t = "fwd_send" => reader' = reader
         /\ Len(reader') >= Len(reader)
         /\ \A k \in 1..Len(reader) : reader'[k] = reader[k]
         /\ \A k \in 1..Len(reader') : k \notin 1..Len(reader) => reader'[k] = d
<1> USE DEF Running
<1>0. Len(reader) \in Nat /\ ReadCount(d, t) \in Nat
  BY UnreadBound, LenProperties DEF TypeOK
<1>1. /\ thr \in [Conns -> [Thread -> {"off", "select", "read", "write", "ended"}]]
      /\ hand \in [Conns -> [Thread -> Seq(Pos)]]
      /\ out \in [Conns -> [Thread -> Seq(Pos)]]
  BY DEF TypeOK, Pos
<1>2. CASE SelectReturns(d, t) \/ SelectBadFd(d, t)
  <2>1. /\ thr' = [thr EXCEPT ![d][t] = "read"] /\ thr[d][t] = "select"
        /\ UNCHANGED <<child, parentVars, hand, out, taken, reader>>
    BY <1>2 DEF SelectReturns, SelectBadFd
  <2>. QED
    BY <1>0, <1>1, <2>1, UpdateOne
<1>3. ASSUME NEW fd, EndThread(d, t, fd)
      PROVE  /\ thr'[d][t] = "ended" /\ hand'[d][t] = <<>>
             /\ \A c \in Conns, s \in Thread : c # d \/ s # t =>
                  thr'[c][s] = thr[c][s] /\ hand'[c][s] = hand[c][s]
  <2>1. /\ thr' = [thr EXCEPT ![d][t] = "ended"]
        /\ hand' = [hand EXCEPT ![d][t] = <<>>]
    BY <1>3 DEF EndThread
  <2>. QED
    BY <1>1, <2>1, UpdateOne
<1>4. CASE ReadFails(d, t) \/ WriteFails(d, t)
  <2>1. /\ thr[d][t] \in {"read", "write"}
        /\ \E fd : EndThread(d, t, fd)
        /\ UNCHANGED <<child, parentVars, out, taken, reader>>
    BY <1>4 DEF ReadFails, WriteFails
  <2>. QED
    BY <1>0, <1>3, <2>1
<1>5. CASE ReadQuit(d, t)
  <2>1. /\ thr[d][t] = "read"
        /\ EndThread(d, t, To(t))
        /\ Consume(d, t, ReadCount(d, t))
        /\ UNCHANGED <<child, parentVars, out>>
    BY <1>5 DEF ReadQuit
  <2>. QED
    BY <1>0, <1>3, <2>1, ConsumeFrame
<1>6. CASE Read(d, t)
  <2> DEFINE n == ReadCount(d, t)
             s == IF n = 0 THEN "select" ELSE "write"
  <2>1. /\ thr[d][t] = "read"
        /\ Consume(d, t, n)
        /\ thr' = [thr EXCEPT ![d][t] = s]
        /\ hand' = [hand EXCEPT ![d][t] = Positions(d, t, n)]
        /\ UNCHANGED <<child, parentVars, out>>
    BY <1>6 DEF Read
  <2>2. n = 0 => Positions(d, t, n) = <<>>
    BY DEF Positions
  <2> HIDE DEF n, s
  <2>3. /\ thr'[d][t] = s /\ hand'[d][t] = Positions(d, t, n)
        /\ \A c \in Conns, r \in Thread : c # d \/ r # t =>
              thr'[c][r] = thr[c][r] /\ hand'[c][r] = hand[c][r]
    BY <1>1, <2>1, UpdateOne
  <2>. QED
    BY <1>0, <2>1, <2>2, <2>3, ConsumeFrame DEF n, s
<1>7. CASE WriteTakes(d, t)
  <2>1. PICK m \in 1..Len(hand[d][t]) :
          /\ out' = [out EXCEPT ![d][t] = @ \o SubSeq(hand[d][t], 1, m)]
          /\ Written(d, t, m)
    BY <1>7 DEF WriteTakes
  <2> DEFINE o == out[d][t] \o SubSeq(hand[d][t], 1, m)
             h == Rest(hand[d][t], m)
             s == IF h = <<>> THEN "select" ELSE "write"
  <2>2. /\ out' = [out EXCEPT ![d][t] = o]
        /\ hand' = [hand EXCEPT ![d][t] = h]
        /\ thr' = [thr EXCEPT ![d][t] = s]
        /\ thr[d][t] = "write"
        /\ UNCHANGED <<child, parentVars, taken, reader>>
    BY <1>7, <2>1 DEF WriteTakes, Written
  <2>3. (s = "select" \/ s = "write") /\ (s # "write" => h = <<>>)
    OBVIOUS
  <2> HIDE DEF o, h, s
  <2>. QED
    BY <1>0, <1>1, <2>2, <2>3, UpdateOne
<1>8. CASE t = "fwd_receive" /\ WriteLost(d)
  <2> DEFINE h == Rest(hand[d][t], Len(hand[d][t]))
             s == IF h = <<>> THEN "select" ELSE "write"
  <2>1. /\ hand' = [hand EXCEPT ![d][t] = h]
        /\ thr' = [thr EXCEPT ![d][t] = s]
        /\ thr[d][t] = "write"
        /\ UNCHANGED <<child, parentVars, out, taken, reader>>
    BY <1>8 DEF WriteLost, Written
  <2>2. (s = "select" \/ s = "write") /\ (s # "write" => h = <<>>)
    OBVIOUS
  <2> HIDE DEF h, s
  <2>. QED
    BY <1>0, <1>1, <2>1, <2>2, UpdateOne
<1>. QED
  BY <1>2, <1>4, <1>5, <1>6, <1>7, <1>8 DEF ThreadActs, ThreadStep

\* A step is a thread's, or it leaves what was read and written alone and only
\* starts a thread, or clears a process that is over.
LEMMA StepKinds ==
  ASSUME TypeOK, [Next]_vars
  PROVE  \/ \E d \in Conns, t \in Thread : ThreadActs(d, t)
         \/ /\ UNCHANGED <<out, taken, reader>>
            /\ \/ UNCHANGED <<thr, hand>>
               \/ \E d \in Conns : Spawn(d)
               \/ \E d \in Conns, how \in Over : Terminate(d, how)
<1>1. CASE Environment
  BY <1>1 DEF Environment, Emit, TtyHangup, Connect, Type, Hangup, childVars
<1>2. CASE Parent
  BY <1>2 DEF Parent, Accept, Fork, ForkFails, ParentClose, childVars
<1>3. ASSUME NEW d \in Conns, Main(d) \/ Sigpipe(d)
      PROVE  /\ UNCHANGED <<out, taken, reader>>
             /\ UNCHANGED <<thr, hand>> \/ Spawn(d) \/ \E how \in Over : Terminate(d, how)
  BY <1>3 DEF Main, Spawn, SpawnFails, ExitFailure, Join, Exit, Sigpipe, Over
<1>4. CASE UNCHANGED vars
  BY <1>4 DEF vars, childVars
<1>. QED
  BY <1>1, <1>2, <1>3, <1>4 DEF Next, ThreadActs

LEMMA TerminateEffect ==
  ASSUME TypeOK, NEW d \in Conns, NEW how \in Over, Terminate(d, how)
  PROVE  /\ \A t \in Thread : thr'[d][t] = "off" /\ hand'[d][t] = <<>>
         /\ \A c \in Conns, t \in Thread : c # d =>
              thr'[c][t] = thr[c][t] /\ hand'[c][t] = hand[c][t]
         /\ \A c \in Conns : c # d => child'[c] = child[c]
         /\ child'[d] = how
BY DEF Terminate, TypeOK

LEMMA SpawnEffect ==
  ASSUME TypeOK, NEW d \in Conns, Spawn(d)
  PROVE  /\ hand' = hand
         /\ \A c \in Conns : c # d => child'[c] = child[c] /\ thr'[c] = thr[c]
         /\ \/ /\ child[d] = "boot" /\ child'[d] = "boot2"
               /\ thr'[d]["fwd_send"] = "select"
               /\ thr'[d]["fwd_receive"] = thr[d]["fwd_receive"]
            \/ /\ child[d] = "boot2" /\ child'[d] = "join"
               /\ thr'[d]["fwd_receive"] = "select"
               /\ thr'[d]["fwd_send"] = thr[d]["fwd_send"]
<1>1. child[d] \in {"boot", "boot2"} /\ hand' = hand
  BY DEF Spawn
<1>2. DOMAIN child = Conns /\ DOMAIN thr = Conns /\ DOMAIN thr[d] = Thread
  BY DEF TypeOK
<1>3. CASE child[d] = "boot"
  <2>1. /\ child' = [child EXCEPT ![d] = "boot2"]
        /\ thr' = [thr EXCEPT ![d]["fwd_send"] = "select"]
    BY <1>3 DEF Spawn
  <2>. QED
    BY <1>1, <1>2, <1>3, <2>1
<1>4. CASE child[d] = "boot2"
  <2>1. /\ child' = [child EXCEPT ![d] = "join"]
        /\ thr' = [thr EXCEPT ![d]["fwd_receive"] = "select"]
    BY <1>4 DEF Spawn
  <2>. QED
    BY <1>1, <1>2, <1>4, <2>1
<1>. QED
  BY <1>1, <1>3, <1>4

-----------------------------------------------------------------------------
(* The life of a connection. *)

\* A connection goes from its client to the backlog, to the parent, to one child.
HandoverOf(c) ==
  /\ peer[c] = "away" => c \notin backlog
  /\ peer[c] = "away" \/ c \in backlog =>
       child[c] = "none" /\ ~(parent.pc = "fork" /\ parent.sc = c)
  /\ parent.pc = "fork" /\ parent.sc = c => child[c] = "none"

Handover == \A c \in Conns : HandoverOf(c)

\* A child has read and written nothing before its threads are created.
FreshOf(c) ==
  /\ child[c] \in {"none", "boot"} =>
       thr[c]["fwd_send"] = "off" /\ taken[c] = 0 /\ out[c]["fwd_send"] = <<>>
  /\ child[c] \in {"none", "boot", "boot2"} =>
       thr[c]["fwd_receive"] = "off" /\ \A k \in 1..Len(reader) : reader[k] # c

Fresh == \A c \in Conns : FreshOf(c)

\* Only a thread that writes holds cells.
EmptyHanded == \A c \in Conns, t \in Thread : thr[c][t] # "write" => hand[c][t] = <<>>

LEMMA HandoverStep ==
  ASSUME TypeOK, Bounded, Handover, Fresh, [Next]_vars
  PROVE  Handover'
<1> SUFFICES ASSUME NEW c \in Conns PROVE HandoverOf(c)'
  BY DEF Handover
<1>0. HandoverOf(c)
  BY DEF Handover
<1> USE DEF HandoverOf
<1>1. CASE Environment
  <2>1. CASE Emit \/ TtyHangup
    BY <1>0, <2>1 DEF Emit, TtyHangup, childVars, parentVars
  <2>2. ASSUME NEW d \in Conns, Connect(d) PROVE HandoverOf(c)'
    BY <1>0, <2>2 DEF Connect, childVars, parentVars, TypeOK
  <2>3. ASSUME NEW d \in Conns, Type(d) PROVE HandoverOf(c)'
    BY <1>0, <2>3 DEF Type, childVars, parentVars
  <2>4. ASSUME NEW d \in Conns, Hangup(d) PROVE HandoverOf(c)'
    BY <1>0, <2>4 DEF Hangup, childVars, parentVars, TypeOK
  <2>. QED
    BY <1>1, <2>1, <2>2, <2>3, <2>4 DEF Environment
<1>2. CASE Parent
  <2>1. CASE Accept
    <3>1. PICK d \in backlog : /\ backlog' = backlog \ {d}
                             /\ parent' = [pc |-> "fork", sc |-> d]
      BY <2>1 DEF Accept
    <3>2. HandoverOf(d) /\ UNCHANGED <<peer, child>>
      BY <2>1 DEF Accept, childVars, TypeOK, Handover
    <3>. QED
      BY <1>0, <2>1, <3>1, <3>2 DEF Accept
  <2>2. CASE Fork
    BY <1>0, <2>2 DEF Fork, envVars, TypeOK
  <2>3. CASE ForkFails \/ ParentClose
    <3>1. /\ parent'.pc \in {"accept", "close"}
          /\ UNCHANGED <<peer, backlog, child>>
      BY <2>3 DEF ForkFails, ParentClose, envVars, childVars, TypeOK
    <3>. QED
      BY <1>0, <3>1
  <2>. QED
    BY <1>2, <2>1, <2>2, <2>3 DEF Parent
<1>3. ASSUME NEW d \in Conns, Main(d) \/ Sigpipe(d) PROVE HandoverOf(c)'
  <2>1. UNCHANGED <<peer, backlog, parent>>
    BY <1>3 DEF Main, Spawn, SpawnFails, ExitFailure, Join, Exit, Sigpipe, envVars, parentVars
  <2>2. child[d] # "none"
    BY <1>3 DEF Main, Spawn, SpawnFails, ExitFailure, Join, Exit, Sigpipe, Fresh, FreshOf
  <2>3. c # d => child'[c] = child[c]
    BY <1>3 DEF Main, Spawn, SpawnFails, ExitFailure, Join, Exit, Sigpipe, Terminate, TypeOK
  <2>. QED
    BY <1>0, <2>1, <2>2, <2>3
<1>4. ASSUME NEW d \in Conns, NEW t \in Thread, ThreadActs(d, t) PROVE HandoverOf(c)'
  <2>1. UNCHANGED <<child, parent>>
    BY <1>4, ThreadFrame DEF parentVars
  <2>2. backlog' = backlog /\ (peer'[c] = "away" => peer[c] = "away")
    BY <1>4 DEF ThreadActs, ThreadStep, SelectReturns, ReadFails, ReadQuit, Read, WriteFails,
      WriteTakes, SelectBadFd, WriteLost, envVars, TypeOK
  <2>. QED
    BY <1>0, <2>1, <2>2
<1>5. CASE UNCHANGED vars
  BY <1>0, <1>5 DEF vars, envVars, parentVars, childVars
<1>. QED
  BY <1>1, <1>2, <1>3, <1>4, <1>5 DEF Next, ThreadActs

LEMMA FreshStep ==
  ASSUME TypeOK, Bounded, Handover, Fresh, [Next]_vars
  PROVE  Fresh'
<1> SUFFICES ASSUME NEW c \in Conns PROVE FreshOf(c)'
  BY DEF Fresh
<1>0. FreshOf(c) /\ Len(reader) \in Nat
  BY LenProperties DEF Fresh, TypeOK
<1> USE DEF FreshOf
<1>1. CASE Environment
  BY <1>0, <1>1 DEF Environment, Emit, TtyHangup, Connect, Type, Hangup, childVars
<1>2. CASE Parent
  <2>1. UNCHANGED <<thr, taken, out, reader>>
    BY <1>2 DEF Parent, Accept, Fork, ForkFails, ParentClose, childVars
  <2>2. (child'[c] \in {"none", "boot"} /\ child[c] = "none") \/ child'[c] = child[c]
    BY <1>2 DEF Parent, Accept, Fork, ForkFails, ParentClose, childVars, TypeOK, Handover, HandoverOf
  <2>. QED
    BY <1>0, <2>1, <2>2
<1>3. ASSUME NEW d \in Conns, Spawn(d) PROVE FreshOf(c)'
  <2>1. UNCHANGED <<taken, out, reader>>
    BY <1>3 DEF Spawn
  <2>. QED
    BY <1>0, <1>3, <2>1, SpawnEffect
<1>4. ASSUME NEW d \in Conns, NEW how \in Over, Terminate(d, how),
             UNCHANGED <<out, taken, reader>>
      PROVE  FreshOf(c)'
  BY <1>0, <1>4, TerminateEffect DEF Over
<1>5. ASSUME NEW d \in Conns, SpawnFails(d) \/ Join(d) PROVE FreshOf(c)'
  <2>1. UNCHANGED <<thr, taken, out, reader>>
    BY <1>5 DEF SpawnFails, Join
  <2>2. child'[c] \in {"failing", "sleep"} \/ child'[c] = child[c]
    BY <1>5 DEF SpawnFails, Join, TypeOK
  <2>. QED
    BY <1>0, <2>1, <2>2
<1>6. ASSUME NEW d \in Conns, NEW t \in Thread, ThreadActs(d, t) PROVE FreshOf(c)'
  <2>1. thr[d][t] # "off" /\ FreshOf(d)
    BY <1>6, ThreadFrame DEF Running, Fresh
  <2>2. /\ child' = child
        /\ c # d \/ t # "fwd_send" =>
             /\ thr'[c]["fwd_send"] = thr[c]["fwd_send"]
             /\ taken'[c] = taken[c] /\ out'[c]["fwd_send"] = out[c]["fwd_send"]
        /\ c # d \/ t # "fwd_receive" => thr'[c]["fwd_receive"] = thr[c]["fwd_receive"]
    BY <1>6, ThreadFrame
  <2>3. c # d \/ t # "fwd_receive" =>
          ((\A k \in 1..Len(reader) : reader[k] # c)
             => \A k \in 1..Len(reader') : reader'[k] # c)
    BY <1>6, ThreadFrame
  <2>. QED
    BY <1>0, <2>1, <2>2, <2>3
<1>7. CASE UNCHANGED vars
  BY <1>0, <1>7 DEF vars, childVars
<1>. QED
  BY <1>1, <1>2, <1>3, <1>4, <1>5, <1>6, <1>7
  DEF Next, ThreadActs, Main, ExitFailure, Exit, Sigpipe, Over

LEMMA EmptyHandedStep ==
  ASSUME TypeOK, Bounded, Fresh, EmptyHanded, [Next]_vars
  PROVE  EmptyHanded'
<1> USE DEF EmptyHanded
<1>1. ASSUME NEW d \in Conns, NEW t \in Thread, ThreadActs(d, t) PROVE EmptyHanded'
  <2>1. ASSUME NEW c \in Conns, NEW s \in Thread, thr'[c][s] # "write"
        PROVE  hand'[c][s] = <<>>
    BY <1>1, <2>1, ThreadFrame
  <2>. QED
    BY <2>1
<1>2. ASSUME NEW d \in Conns, Spawn(d) PROVE EmptyHanded'
  <2>1. /\ child[d] = "boot" => thr[d]["fwd_send"] = "off"
        /\ child[d] = "boot2" => thr[d]["fwd_receive"] = "off"
    BY DEF Fresh, FreshOf
  <2>2. ASSUME NEW c \in Conns, NEW s \in Thread, thr'[c][s] # "write"
        PROVE  thr[c][s] # "write"
    BY <1>2, <2>1, <2>2, SpawnEffect
  <2>. QED
    BY <1>2, <2>2, SpawnEffect
<1>3. ASSUME NEW d \in Conns, NEW how \in Over, Terminate(d, how) PROVE EmptyHanded'
  BY <1>3, TerminateEffect
<1>. QED
  BY <1>1, <1>2, <1>3, StepKinds

-----------------------------------------------------------------------------
(* Why a session winds down. *)

Reason(c) == quit[c] # {} \/ peer[c] = "reset" \/ ~ttyUp

\* Thread creation has failed, or a signal came: the process ends, and its threads
\* with it.
Collapses(c) ==
  \/ child[c] = "failing"
  \/ child[c] \in {"failed", "killed"} /\ \A t \in Thread : thr[c][t] = "off"

\* A thread ends, and a descriptor of a live child is closed, only for a reason.
\* The second part is what a thread relies on whose descriptor the other closed.
EndsForAReason ==
  \A c \in Conns :
    \/ Reason(c)
    \/ Collapses(c)
    \/ /\ \A t \in Thread : thr[c][t] # "ended"
       /\ child[c] \notin {"sleep", "exited"}
       /\ \A t \in Thread : thr[c][t] # "off" => fds[c] = Fd
       /\ child[c] \in {"boot", "boot2"} => fds[c] = Fd

\* quit words are never forgotten, a reset is final, the line stays hung up
LEMMA ReasonStays ==
  ASSUME TypeOK, [Next]_vars, NEW c \in Conns, Reason(c)
  PROVE  Reason(c)'
<1> USE DEF Reason
<1>1. CASE Environment
  BY <1>1 DEF Environment, Emit, TtyHangup, Connect, Type, Hangup, childVars, TypeOK
<1>2. CASE Parent
  BY <1>2 DEF Parent, Accept, Fork, ForkFails, ParentClose, envVars, childVars
<1>3. ASSUME NEW d \in Conns, Main(d) PROVE Reason(c)'
  BY <1>3 DEF Main, Spawn, SpawnFails, ExitFailure, Join, Exit, envVars
<1>4. ASSUME NEW d \in Conns, WriteLost(d) \/ Sigpipe(d) PROVE Reason(c)'
  BY <1>4 DEF WriteLost, Sigpipe, envVars, TypeOK
<1>5. ASSUME NEW d \in Conns, NEW t \in Thread, ThreadStep(d, t) PROVE Reason(c)'
  <2>1. CASE ReadQuit(d, t)
    BY <2>1 DEF ReadQuit, envVars, TypeOK
  <2>2. CASE SelectReturns(d, t) \/ ReadFails(d, t) \/ Read(d, t) \/ WriteFails(d, t)
    BY <2>2 DEF SelectReturns, ReadFails, Read, WriteFails, envVars
  <2>. QED
    BY <1>5, <2>1, <2>2 DEF ThreadStep
<1>6. ASSUME NEW d \in Conns, NEW t \in Thread, WriteTakes(d, t) \/ SelectBadFd(d, t)
      PROVE  Reason(c)'
  BY <1>6 DEF WriteTakes, SelectBadFd, envVars
<1>7. CASE UNCHANGED vars
  BY <1>7 DEF vars, envVars, childVars
<1>. QED
  BY <1>1, <1>2, <1>3, <1>4, <1>5, <1>6, <1>7 DEF Next

\* A process that is about to end does nothing else, and one that has does nothing.
LEMMA CollapseIsFinal ==
  ASSUME TypeOK, Bounded, Handover, Fresh, [Next]_vars, NEW c \in Conns, Collapses(c)
  PROVE  Collapses(c)'
<1> USE DEF Collapses
<1>1. CASE Environment \/ Accept \/ ForkFails \/ ParentClose \/ UNCHANGED vars
  BY <1>1 DEF Environment, Emit, TtyHangup, Connect, Type, Hangup, Accept, ForkFails, ParentClose,
    vars, childVars
<1>2. CASE Fork
  <2>1. parent.sc # c
    BY <1>2 DEF Fork, Handover, HandoverOf
  <2>. QED
    BY <1>2, <2>1 DEF Fork, TypeOK
<1>3. ASSUME NEW d \in Conns, Spawn(d) \/ SpawnFails(d) \/ Join(d) PROVE Collapses(c)'
  <2>1. c # d
    BY <1>3 DEF Spawn, SpawnFails, Join
  <2>2. child'[c] = child[c] /\ thr'[c] = thr[c]
    BY <1>3, <2>1 DEF Spawn, SpawnFails, Join, TypeOK
  <2>. QED
    BY <2>2
<1>4. ASSUME NEW d \in Conns, ExitFailure(d) \/ Exit(d) \/ Sigpipe(d) PROVE Collapses(c)'
  <2>1. PICK how \in Over : Terminate(d, how)
    BY <1>4 DEF ExitFailure, Exit, Sigpipe, Over
  <2>2. c = d => how \in {"failed", "killed"}
    <3>1. c = d => child[d] # "sleep"
      OBVIOUS
    <3>. QED
      BY <1>4, <2>1, <3>1, TerminateEffect DEF ExitFailure, Exit, Sigpipe, Terminate, TypeOK
  <2>. QED
    BY <2>1, <2>2, TerminateEffect
<1>5. ASSUME NEW d \in Conns, NEW t \in Thread, ThreadActs(d, t) PROVE Collapses(c)'
  <2>1. /\ child' = child /\ thr[d][t] \in Running
        /\ \A s \in Thread : c # d => thr'[c][s] = thr[c][s]
    BY <1>5, ThreadFrame
  <2>2. thr[d][t] # "off"
    BY <2>1 DEF Running
  <2>. QED
    BY <2>1, <2>2
<1>6. CASE Next
  BY <1>1, <1>2, <1>3, <1>4, <1>5, <1>6 DEF Next, Parent, Main, ThreadActs
<1>. QED
  BY <1>1, <1>6

LEMMA EndsForAReasonStep ==
  ASSUME TypeOK, Bounded, Handover, Fresh, EndsForAReason, [Next]_vars
  PROVE  EndsForAReason'
<1> SUFFICES ASSUME NEW c \in Conns, ~Reason(c)', ~Reason(c), ~Collapses(c)',
                    \A t \in Thread : thr[c][t] # "ended",
                    child[c] \notin {"sleep", "exited"},
                    \A t \in Thread : thr[c][t] # "off" => fds[c] = Fd,
                    child[c] \in {"boot", "boot2"} => fds[c] = Fd
             PROVE  /\ \A t \in Thread : thr'[c][t] # "ended"
                    /\ child'[c] \notin {"sleep", "exited"}
                    /\ \A t \in Thread : thr'[c][t] # "off" => fds'[c] = Fd
                    /\ child'[c] \in {"boot", "boot2"} => fds'[c] = Fd
  BY ReasonStays, CollapseIsFinal DEF EndsForAReason
<1> DEFINE Goal == /\ \A t \in Thread : thr'[c][t] # "ended"
                   /\ child'[c] \notin {"sleep", "exited"}
                   /\ \A t \in Thread : thr'[c][t] # "off" => fds'[c] = Fd
                   /\ child'[c] \in {"boot", "boot2"} => fds'[c] = Fd
<1>1. CASE Environment
  BY <1>1 DEF Environment, Emit, TtyHangup, Connect, Type, Hangup, childVars
<1>2. CASE Parent
  BY <1>2 DEF Parent, Accept, Fork, ForkFails, ParentClose, childVars, TypeOK
<1>3. ASSUME NEW d \in Conns, Main(d) PROVE Goal
  <2>1. CASE Spawn(d)
    <3>1. PICK t \in Thread, s \in {"boot2", "join"} :
            /\ child[d] \in {"boot", "boot2"}
            /\ child' = [child EXCEPT ![d] = s]
            /\ thr' = [thr EXCEPT ![d][t] = "select"]
      BY <2>1 DEF Spawn
    <3>2. CASE d = c
      <4>1. fds'[c] = Fd
        BY <2>1, <3>1, <3>2 DEF Spawn
      <4>. QED
        BY <3>1, <3>2, <4>1 DEF TypeOK
    <3>3. CASE d # c
      BY <2>1, <3>1, <3>3 DEF Spawn, TypeOK
    <3>. QED
      BY <3>2, <3>3
  <2>2. CASE SpawnFails(d)
    <3>1. d # c
      BY <2>2 DEF SpawnFails, Collapses, TypeOK
    <3>. QED
      BY <2>2, <3>1 DEF SpawnFails, TypeOK
  <2>3. CASE Join(d)
    BY <2>3 DEF Join, Joined, TypeOK
  <2>4. CASE ExitFailure(d) \/ Exit(d)
    <3>1. PICK how \in Over : Terminate(d, how)
      BY <2>4 DEF ExitFailure, Exit, Over
    <3>2. CASE d # c
      <4>1. fds'[c] = fds[c]
        BY <3>1, <3>2 DEF Terminate, TypeOK
      <4>. QED
        BY <3>1, <3>2, <4>1, TerminateEffect
    <3>3. CASE d = c
      <4>1. child[c] = "failing"
        BY <2>4, <3>3 DEF ExitFailure, Exit
      <4>2. how = "failed"
        BY <2>4, <3>1, <3>3, <4>1, TerminateEffect DEF ExitFailure, Exit, Terminate, TypeOK
      <4>. QED
        BY <3>1, <3>3, <4>2, TerminateEffect DEF Collapses
    <3>. QED
      BY <3>2, <3>3
  <2>. QED
    BY <1>3, <2>1, <2>2, <2>3, <2>4 DEF Main
<1>4. ASSUME NEW d \in Conns, WriteLost(d) PROVE Goal
  <2>1. /\ thr[d]["fwd_receive"] # "off"
        /\ fds' = fds /\ child' = child
        /\ \E s \in {"select", "write"} : thr' = [thr EXCEPT ![d]["fwd_receive"] = s]
    BY <1>4 DEF WriteLost, Written
  <2>2. \A t \in Thread : thr'[c][t] # "off" => thr[c][t] # "off"
    BY <2>1 DEF TypeOK
  <2>. QED
    BY <2>1, <2>2
<1>5. ASSUME NEW d \in Conns, Sigpipe(d) PROVE Goal
  BY <1>5 DEF Sigpipe, Terminate, TypeOK
<1>6. ASSUME NEW d \in Conns, NEW t \in Thread, ThreadStep(d, t) PROVE Goal
  <2>1. CASE SelectReturns(d, t)
    BY <2>1 DEF SelectReturns, TypeOK
  <2>2. ASSUME NEW fd, EndThread(d, t, fd), child' = child, d # c PROVE Goal
    BY <2>2 DEF EndThread, TypeOK
  <2>3. CASE ReadFails(d, t)
    <3>1. d # c
      BY <2>3 DEF ReadFails, ReadFailed, Reason, From
    <3>. QED
      BY <2>2, <2>3, <3>1 DEF ReadFails
  <2>4. CASE ReadQuit(d, t)
    <3>1. d # c
      BY <2>4 DEF ReadQuit, Reason, TypeOK
    <3>. QED
      BY <2>2, <2>4, <3>1 DEF ReadQuit
  <2>5. CASE Read(d, t)
    BY <2>5 DEF Read, TypeOK
  <2>6. CASE WriteFails(d, t)
    <3>1. d # c
      BY <2>6 DEF WriteFails, Reason, To
    <3>. QED
      BY <2>2, <2>6, <3>1 DEF WriteFails
  <2>. QED
    BY <1>6, <2>1, <2>3, <2>4, <2>5, <2>6 DEF ThreadStep
<1>7. ASSUME NEW d \in Conns, NEW t \in Thread, WriteTakes(d, t) PROVE Goal
  <2>1. PICK s \in {"select", "write"} : thr' = [thr EXCEPT ![d][t] = s]
    BY <1>7 DEF WriteTakes, Written
  <2>2. thr[d][t] = "write" /\ child' = child /\ fds' = fds
    BY <1>7 DEF WriteTakes
  <2>3. \A u \in Thread : thr'[c][u] # "ended" /\ (thr'[c][u] # "off" => thr[c][u] # "off")
    BY <2>1, <2>2 DEF TypeOK
  <2>. QED
    BY <2>2, <2>3
<1>8. ASSUME NEW d \in Conns, NEW t \in Thread, SelectBadFd(d, t) PROVE Goal
  BY <1>8 DEF SelectBadFd, TypeOK
<1>9. CASE UNCHANGED vars
  BY <1>9 DEF vars, childVars
<1>. QED
  BY <1>1, <1>2, <1>3, <1>4, <1>5, <1>6, <1>7, <1>8, <1>9 DEF Next

\* SIGPIPE comes only if a RST has.
Signalled == \A c \in Conns : child[c] = "killed" => peer[c] \in {"broken", "reset"}

LEMMA SignalledStep ==
  ASSUME TypeOK, Bounded, Signalled, [Next]_vars
  PROVE  Signalled'
<1> SUFFICES ASSUME NEW c \in Conns, child'[c] = "killed"
             PROVE  peer'[c] \in {"broken", "reset"}
  BY DEF Signalled
<1>1. CASE Environment
  BY <1>1 DEF Environment, Emit, TtyHangup, Connect, Type, Hangup, childVars, TypeOK, Signalled
<1>2. CASE Parent
  BY <1>2 DEF Parent, Accept, Fork, ForkFails, ParentClose, envVars, childVars, TypeOK, Signalled
<1>3. ASSUME NEW d \in Conns, Main(d)
      PROVE  peer'[c] \in {"broken", "reset"}
  <2>1. child[c] = "killed" /\ peer' = peer
    BY <1>3 DEF Main, Spawn, SpawnFails, ExitFailure, Join, Exit, Terminate, TypeOK, envVars
  <2>. QED
    BY <2>1 DEF Signalled
<1>4. ASSUME NEW d \in Conns, Sigpipe(d)
      PROVE  peer'[c] \in {"broken", "reset"}
  BY <1>4 DEF Sigpipe, Terminate, TypeOK, envVars, Signalled
<1>5. ASSUME NEW d \in Conns, NEW t \in Thread, ThreadActs(d, t)
      PROVE  peer'[c] \in {"broken", "reset"}
  <2>1. child[c] = "killed"
    BY <1>5, ThreadFrame
  <2>2. peer' = peer \/ peer[c] = "closed" \/ peer'[c] = peer[c]
    BY <1>5 DEF ThreadActs, ThreadStep, SelectReturns, ReadFails, ReadQuit, Read, WriteFails,
      WriteTakes, SelectBadFd, WriteLost, envVars, TypeOK
  <2>. QED
    BY <2>1, <2>2 DEF Signalled
<1>6. CASE UNCHANGED vars
  BY <1>6 DEF vars, envVars, childVars, Signalled
<1>. QED
  BY <1>1, <1>2, <1>3, <1>4, <1>5, <1>6 DEF Next, ThreadActs

Inv2 == TypeOK /\ Bounded /\ Handover /\ Fresh /\ EndsForAReason /\ Signalled

\* No session winds down but for a quit word, an aborted connection, a hung-up
\* tty or a thread that could not be created, however many children race for the
\* tty's input, and none is killed unless a RST has come.
THEOREM OnlyForAReason == Spec => []NoSpuriousEnd
<1>1. Init => Inv2
  BY TypeInit DEF Init, Inv2, EndsForAReason, Handover, HandoverOf, Fresh, FreshOf, Signalled
<1>2. Inv2 /\ [Next]_vars => Inv2'
  BY TypeStep, HandoverStep, FreshStep, EndsForAReasonStep, SignalledStep DEF Inv2
<1>3. Inv2 => NoSpuriousEnd
  BY DEF Inv2, EndsForAReason, Reason, Collapses, Signalled, NoSpuriousEnd
<1>. QED
  BY <1>1, <1>2, <1>3, PTL DEF Spec

-----------------------------------------------------------------------------
(* What a thread's step does to its own positions. *)

\* The five things a step of thread t of connection d can do to its positions.
NothingMoves(d, t) ==
  /\ out'[d][t] = out[d][t] /\ hand'[d][t] = hand[d][t]
  /\ taken'[d] = taken[d] /\ Len(reader') = Len(reader)
  /\ thr[d][t] \in Running

ThreadEnds(d, t) ==
  out'[d][t] = out[d][t] /\ hand'[d][t] = <<>> /\ thr'[d][t] = "ended"

CellsRead(d, t, n) ==
  /\ out'[d][t] = out[d][t] /\ hand[d][t] = <<>> /\ thr[d][t] \in Running
  /\ Len(hand'[d][t]) = n /\ n <= Chunk
  /\ \A i \in 1..n : hand'[d][t][i] = Taken(d, t) + i
  /\ t = "fwd_send" => taken'[d] = taken[d] + n
  /\ t = "fwd_receive" => Len(reader') = Len(reader) + n

CellsWritten(d, t, m) ==
  /\ Len(out'[d][t]) = Len(out[d][t]) + m
  /\ \A i \in 1..Len(out[d][t]) : out'[d][t][i] = out[d][t][i]
  /\ \A i \in 1..m : out'[d][t][Len(out[d][t]) + i] = hand[d][t][i]
  /\ Len(hand'[d][t]) = Len(hand[d][t]) - m
  /\ \A i \in 1..(Len(hand[d][t]) - m) : hand'[d][t][i] = hand[d][t][m + i]
  /\ taken'[d] = taken[d] /\ Len(reader') = Len(reader) /\ thr[d][t] \in Running

CellsLost(d, t) ==
  /\ t = "fwd_receive" /\ out'[d][t] = out[d][t] /\ hand'[d][t] = <<>>
  /\ Len(reader') = Len(reader) /\ peer'[d] \in {"closed", "broken"}

LEMMA ThreadMoves ==
  ASSUME TypeOK, Bounded, EmptyHanded, NEW d \in Conns, NEW t \in Thread,
         ThreadActs(d, t)
  PROVE  \/ NothingMoves(d, t) \/ ThreadEnds(d, t) \/ CellsLost(d, t)
         \/ \E n \in Nat : CellsRead(d, t, n)
         \/ \E m \in 1..Len(hand[d][t]) : CellsWritten(d, t, m)
<1>1. /\ thr \in [Conns -> [Thread -> {"off", "select", "read", "write", "ended"}]]
      /\ hand \in [Conns -> [Thread -> Seq(Pos)]]
      /\ out \in [Conns -> [Thread -> Seq(Pos)]]
      /\ peer \in [Conns -> {"away", "up", "closed", "broken", "reset"}]
  BY DEF TypeOK, Pos
<1>2. CASE SelectReturns(d, t) \/ SelectBadFd(d, t)
  BY <1>2 DEF SelectReturns, SelectBadFd, NothingMoves, Running
<1>3. ASSUME NEW fd, EndThread(d, t, fd), out' = out PROVE ThreadEnds(d, t)
  BY <1>1, <1>3, UpdateOne DEF EndThread, ThreadEnds
<1>4. CASE ReadFails(d, t) \/ ReadQuit(d, t) \/ WriteFails(d, t)
  BY <1>3, <1>4 DEF ReadFails, ReadQuit, WriteFails
<1>5. CASE Read(d, t)
  <2> DEFINE n == ReadCount(d, t)
  <2>1. n \in Nat /\ n <= Chunk /\ Taken(d, t) \in Nat
    BY UnreadBound, ServerAssumption DEF ReadCount
  <2>2. /\ thr[d][t] = "read" /\ Consume(d, t, n) /\ out' = out
        /\ hand' = [hand EXCEPT ![d][t] = Positions(d, t, n)]
    BY <1>5 DEF Read
  <2>3. hand[d][t] = <<>>
    BY <2>2 DEF EmptyHanded
  <2>4. hand'[d][t] = Positions(d, t, n)
    BY <1>1, <2>2, UpdateOne
  <2>5. Len(hand'[d][t]) = n /\ \A i \in 1..n : hand'[d][t][i] = Taken(d, t) + i
    BY <2>1, <2>4, PositionsRange
  <2>6. /\ t = "fwd_send" => taken'[d] = taken[d] + n
        /\ t = "fwd_receive" => Len(reader') = Len(reader) + n
    BY <2>2, ConsumeFrame
  <2>. QED
    BY <2>1, <2>2, <2>3, <2>5, <2>6 DEF CellsRead, Running
<1>6. CASE WriteTakes(d, t)
  <2>1. PICK m \in 1..Len(hand[d][t]) :
          /\ out' = [out EXCEPT ![d][t] = @ \o SubSeq(hand[d][t], 1, m)]
          /\ Written(d, t, m)
    BY <1>6 DEF WriteTakes
  <2>2. hand[d][t] \in Seq(Pos) /\ out[d][t] \in Seq(Pos) /\ m \in 0..Len(hand[d][t])
    BY <1>1
  <2> DEFINE p == hand[d][t]
             o == out[d][t]
             w == SubSeq(p, 1, m)
             h == Rest(p, m)
  <2>3. /\ w \in Seq(Pos) /\ Len(w) = m /\ \A i \in 1..m : w[i] = p[i]
        /\ Len(h) = Len(p) - m
        /\ \A i \in 1..(Len(p) - m) : h[i] = p[m + i]
    <3>1. p \in Seq(Pos) /\ m \in 0..Len(p)
      BY <2>2
    <3> HIDE DEF p
    <3>. QED
      BY <3>1, WriteSplits
  <2>4. out' = [out EXCEPT ![d][t] = o \o w] /\ hand' = [hand EXCEPT ![d][t] = h]
    BY <2>1 DEF Written
  <2>5. out'[d][t] = o \o w /\ hand'[d][t] = h
    BY <1>1, <2>4, UpdateOne
  <2>6. taken' = taken /\ reader' = reader /\ thr[d][t] = "write"
    BY <1>6 DEF WriteTakes
  <2>7. /\ Len(o \o w) = Len(o) + m
        /\ \A i \in 1..(Len(o) + m) : (o \o w)[i] = IF i <= Len(o) THEN o[i] ELSE w[i - Len(o)]
    BY <2>2, <2>3, ConcatProperties
  <2>8. Len(o) \in Nat
    BY <2>2, LenProperties
  <2> HIDE DEF p, o, w, h
  <2>9. /\ \A i \in 1..Len(o) : (o \o w)[i] = o[i]
        /\ \A i \in 1..m : (o \o w)[Len(o) + i] = p[i]
    BY <2>3, <2>7, <2>8
  <2>10. CellsWritten(d, t, m)
    BY <2>3, <2>5, <2>6, <2>7, <2>9 DEF CellsWritten, Running, p, o
  <2>. QED
    BY <2>1, <2>10
<1>7. CASE t = "fwd_receive" /\ WriteLost(d)
  <2>1. /\ peer' = [peer EXCEPT ![d] = "closed"] \/ peer' = [peer EXCEPT ![d] = "broken"]
        /\ hand' = [hand EXCEPT ![d][t] = Rest(hand[d][t], Len(hand[d][t]))]
        /\ out' = out /\ reader' = reader
    BY <1>7 DEF WriteLost, Written
  <2>2. hand'[d][t] = Rest(hand[d][t], Len(hand[d][t]))
    BY <1>1, <2>1, UpdateOne
  <2>3. Rest(hand[d][t], Len(hand[d][t])) = <<>>
    BY <1>1, SubSeqEmpty, LenProperties DEF Rest
  <2>. QED
    BY <1>1, <1>7, <2>1, <2>2, <2>3 DEF CellsLost
<1>. QED
  BY <1>2, <1>4, <1>5, <1>6, <1>7 DEF ThreadActs, ThreadStep

-----------------------------------------------------------------------------
(* Socket to tty: in order, without gaps or repeats. *)

UplinkOf(c) ==
  LET done == out[c]["fwd_send"]
      held == hand[c]["fwd_send"]
  IN /\ \A i \in 1..Len(done) : done[i] = i
     /\ \A i \in 1..Len(held) : held[i] = Len(done) + i
     /\ thr[c]["fwd_send"] \in Running => taken[c] = Len(done) + Len(held)

LEMMA UplinkStep ==
  ASSUME TypeOK, Bounded, Fresh, EmptyHanded, UplinkInOrder, [Next]_vars
  PROVE  UplinkInOrder'
<1> SUFFICES ASSUME NEW c \in Conns PROVE UplinkOf(c)'
  BY DEF UplinkInOrder, UplinkOf
<1>0. /\ UplinkOf(c)
      /\ taken[c] \in Nat /\ Len(out[c]["fwd_send"]) \in Nat /\ Len(hand[c]["fwd_send"]) \in Nat
  <2>1. UplinkOf(c)
    BY DEF UplinkInOrder, UplinkOf
  <2>2. /\ out[c]["fwd_send"] \in Seq(Pos) /\ hand[c]["fwd_send"] \in Seq(Pos)
        /\ taken[c] \in Nat
    BY DEF TypeOK, Pos
  <2>. QED
    BY <2>1, <2>2, LenProperties
<1>1. ASSUME NEW d \in Conns, NEW t \in Thread, ThreadActs(d, t) PROVE UplinkOf(c)'
  <2>1. CASE c # d \/ t # "fwd_send"
    <3>1. /\ thr'[c]["fwd_send"] = thr[c]["fwd_send"] /\ taken'[c] = taken[c]
          /\ out'[c]["fwd_send"] = out[c]["fwd_send"] /\ hand'[c]["fwd_send"] = hand[c]["fwd_send"]
      BY <1>1, <2>1, ThreadFrame
    <3>. QED
      BY <1>0, <3>1 DEF UplinkOf
  <2>2. CASE c = d /\ t = "fwd_send"
    <3>1. CASE NothingMoves(d, t)
      BY <1>0, <2>2, <3>1 DEF NothingMoves, UplinkOf
    <3>2. CASE ThreadEnds(d, t)
      BY <1>0, <2>2, <3>2 DEF ThreadEnds, UplinkOf, Running
    <3>3. ASSUME NEW n \in Nat, CellsRead(d, t, n) PROVE UplinkOf(c)'
      <4> DEFINE o == out[c]["fwd_send"]
                 h2 == hand'[c]["fwd_send"]
      <4>1. /\ out'[c]["fwd_send"] = o /\ Len(h2) = n /\ taken'[c] = taken[c] + n
            /\ \A i \in 1..n : h2[i] = taken[c] + i
            /\ hand[c]["fwd_send"] = <<>> /\ thr[c]["fwd_send"] \in Running
        BY <2>2, <3>3 DEF CellsRead, Taken
      <4>2. taken[c] = Len(o) /\ \A i \in 1..Len(o) : o[i] = i
        BY <1>0, <4>1 DEF UplinkOf
      <4> HIDE DEF o, h2
      <4>3. (\A i \in 1..Len(h2) : h2[i] = Len(o) + i) /\ taken'[c] = Len(o) + Len(h2)
        BY <4>1, <4>2
      <4>. QED
        BY <4>1, <4>2, <4>3 DEF UplinkOf, o, h2
    <3>4. ASSUME NEW m \in 1..Len(hand[d][t]), CellsWritten(d, t, m) PROVE UplinkOf(c)'
      <4> DEFINE o == out[c]["fwd_send"]
                 h == hand[c]["fwd_send"]
                 o2 == out'[c]["fwd_send"]
                 h2 == hand'[c]["fwd_send"]
      <4>1. /\ Len(o2) = Len(o) + m /\ Len(h2) = Len(h) - m
            /\ \A i \in 1..Len(o) : o2[i] = o[i]
            /\ \A i \in 1..m : o2[Len(o) + i] = h[i]
            /\ \A i \in 1..(Len(h) - m) : h2[i] = h[m + i]
            /\ taken'[c] = taken[c] /\ m \in 1..Len(h) /\ thr[c]["fwd_send"] \in Running
        BY <2>2, <3>4 DEF CellsWritten
      <4>2. /\ Len(o) \in Nat /\ Len(h) \in Nat /\ taken[c] = Len(o) + Len(h)
            /\ \A i \in 1..Len(o) : o[i] = i
            /\ \A i \in 1..Len(h) : h[i] = Len(o) + i
        BY <1>0, <4>1 DEF UplinkOf
      <4> HIDE DEF o, h, o2, h2
      <4>3. \A i \in 1..Len(o2) : o2[i] = i
        <5>1. ASSUME NEW i \in 1..Len(o2), ~(i <= Len(o)) PROVE o2[i] = i
          <6>1. i - Len(o) \in 1..m /\ i - Len(o) \in 1..Len(h) /\ i = Len(o) + (i - Len(o))
            BY <4>1, <4>2, <5>1
          <6>. QED
            BY <4>1, <4>2, <6>1
        <5>. QED
          BY <4>1, <4>2, <5>1
      <4>4. \A i \in 1..Len(h2) : h2[i] = Len(o2) + i
        BY <4>1, <4>2
      <4>5. taken'[c] = Len(o2) + Len(h2)
        BY <4>1, <4>2
      <4>. QED
        BY <4>3, <4>4, <4>5 DEF UplinkOf, o2, h2
    <3>. QED
      BY <1>1, <2>2, <3>1, <3>2, <3>3, <3>4, ThreadMoves DEF CellsLost
  <2>. QED
    BY <2>1, <2>2
<1>2. ASSUME NEW d \in Conns, Spawn(d), UNCHANGED <<out, taken, reader>>
      PROVE  UplinkOf(c)'
  <2>1. hand' = hand
    BY <1>2, SpawnEffect
  <2>2. \/ thr'[c]["fwd_send"] = thr[c]["fwd_send"]
        \/ taken[c] = 0 /\ out[c]["fwd_send"] = <<>> /\ thr[c]["fwd_send"] = "off"
    BY <1>2, SpawnEffect DEF Fresh, FreshOf
  <2>3. thr[c]["fwd_send"] = "off" => hand[c]["fwd_send"] = <<>>
    BY DEF EmptyHanded
  <2>4. CASE thr'[c]["fwd_send"] = thr[c]["fwd_send"]
    BY <1>0, <1>2, <2>1, <2>4 DEF UplinkOf
  <2>5. CASE taken[c] = 0 /\ out[c]["fwd_send"] = <<>> /\ hand[c]["fwd_send"] = <<>>
    <3>1. /\ taken'[c] = 0 /\ Len(out'[c]["fwd_send"]) = 0 /\ Len(hand'[c]["fwd_send"]) = 0
      BY <1>2, <2>1, <2>5
    <3>. QED
      BY <3>1 DEF UplinkOf
  <2>. QED
    BY <2>2, <2>3, <2>4, <2>5
<1>3. ASSUME NEW d \in Conns, NEW how \in Over, Terminate(d, how),
             UNCHANGED <<out, taken, reader>>
      PROVE  UplinkOf(c)'
  <2>1. \/ thr'[c]["fwd_send"] = "off" /\ hand'[c]["fwd_send"] = <<>>
        \/ thr'[c]["fwd_send"] = thr[c]["fwd_send"] /\ hand'[c]["fwd_send"] = hand[c]["fwd_send"]
    BY <1>3, TerminateEffect
  <2>2. CASE thr'[c]["fwd_send"] = "off" /\ hand'[c]["fwd_send"] = <<>>
    <3>1. 1..Len(hand'[c]["fwd_send"]) = {} /\ "off" \notin Running
      BY <2>2 DEF Running
    <3>. QED
      BY <1>0, <1>3, <2>2, <3>1 DEF UplinkOf
  <2>3. CASE thr'[c]["fwd_send"] = thr[c]["fwd_send"] /\ hand'[c]["fwd_send"] = hand[c]["fwd_send"]
    BY <1>0, <1>3, <2>3 DEF UplinkOf
  <2>. QED
    BY <2>1, <2>2, <2>3
<1>4. ASSUME UNCHANGED <<out, taken, reader, thr, hand>> PROVE UplinkOf(c)'
  BY <1>0, <1>4 DEF UplinkOf
<1>. QED
  BY <1>1, <1>2, <1>3, <1>4, StepKinds

-----------------------------------------------------------------------------
(* Tty to sockets: every cell to one client, once, in order. *)

DownlinkOf(c) ==
  LET got  == out[c]["fwd_receive"]
      held == hand[c]["fwd_receive"]
  IN /\ \A i, j \in 1..Len(got) : i < j => got[i] < got[j]
     /\ \A i, j \in 1..Len(held) : i < j => held[i] < held[j]
     /\ \A i \in 1..Len(got), j \in 1..Len(held) : got[i] < held[j]
     /\ \A i \in 1..Len(got) : got[i] \in 1..Len(reader) /\ reader[got[i]] = c
     /\ \A i \in 1..Len(held) : held[i] \in 1..Len(reader) /\ reader[held[i]] = c

LEMMA DownlinkStep ==
  ASSUME TypeOK, Bounded, EmptyHanded, \A c \in Conns : DownlinkOf(c), [Next]_vars
  PROVE  \A c \in Conns : DownlinkOf(c)'
<1> SUFFICES ASSUME NEW c \in Conns PROVE DownlinkOf(c)'
  OBVIOUS
<1>0. /\ DownlinkOf(c) /\ Len(reader) \in Nat
      /\ out[c]["fwd_receive"] \in Seq(Pos) /\ hand[c]["fwd_receive"] \in Seq(Pos)
      /\ Len(out[c]["fwd_receive"]) \in Nat /\ Len(hand[c]["fwd_receive"]) \in Nat
  <2>1. out[c]["fwd_receive"] \in Seq(Pos) /\ hand[c]["fwd_receive"] \in Seq(Pos)
    BY DEF TypeOK, Pos
  <2>2. Len(reader) \in Nat
    BY LenProperties DEF TypeOK
  <2>. QED
    BY <2>1, <2>2, LenProperties
<1>1. ASSUME NEW d \in Conns, NEW t \in Thread, ThreadActs(d, t) PROVE DownlinkOf(c)'
  <2>0. Len(reader') >= Len(reader) /\ \A k \in 1..Len(reader) : reader'[k] = reader[k]
    BY <1>1, ThreadFrame
  <2>1. ASSUME out'[c]["fwd_receive"] = out[c]["fwd_receive"],
               \/ hand'[c]["fwd_receive"] = hand[c]["fwd_receive"]
               \/ hand'[c]["fwd_receive"] = <<>>,
               Len(reader') \in Nat
        PROVE  DownlinkOf(c)'
    <3> DEFINE o == out[c]["fwd_receive"]
               h == hand[c]["fwd_receive"]
               h2 == hand'[c]["fwd_receive"]
    <3>1. /\ \A i, j \in 1..Len(o) : i < j => o[i] < o[j]
          /\ \A i, j \in 1..Len(h) : i < j => h[i] < h[j]
          /\ \A i \in 1..Len(o), j \in 1..Len(h) : o[i] < h[j]
          /\ \A i \in 1..Len(o) : o[i] \in 1..Len(reader) /\ reader[o[i]] = c
          /\ \A i \in 1..Len(h) : h[i] \in 1..Len(reader) /\ reader[h[i]] = c
      BY <1>0 DEF DownlinkOf
    <3> HIDE DEF o, h, h2
    <3>2. \A k \in 1..Len(reader) : k \in 1..Len(reader') /\ reader'[k] = reader[k]
      BY <1>0, <2>0, <2>1
    <3>3. \A i \in 1..Len(o) : o[i] \in 1..Len(reader') /\ reader'[o[i]] = c
      BY <3>1, <3>2
    <3>4. CASE h2 = h
      <4>1. \A i \in 1..Len(h) : h[i] \in 1..Len(reader') /\ reader'[h[i]] = c
        BY <3>1, <3>2
      <4>. QED
        BY <2>1, <3>1, <3>3, <3>4, <4>1 DEF DownlinkOf, o, h, h2
    <3>5. CASE h2 = <<>>
      <4>1. 1..Len(h2) = {}
        BY <3>5
      <4>. QED
        BY <2>1, <3>1, <3>3, <4>1 DEF DownlinkOf, o, h2
    <3>. QED
      BY <2>1, <3>4, <3>5 DEF h, h2
  <2>2. Len(reader') \in Nat
    BY <1>1, TypeStep, LenProperties DEF TypeOK
  <2>3. CASE c # d \/ t # "fwd_receive"
    BY <1>1, <2>1, <2>2, <2>3, ThreadFrame
  <2>4. CASE c = d /\ t = "fwd_receive"
    <3> DEFINE o == out[c]["fwd_receive"]
               h == hand[c]["fwd_receive"]
               o2 == out'[c]["fwd_receive"]
               h2 == hand'[c]["fwd_receive"]
    <3>1. CASE NothingMoves(d, t) \/ ThreadEnds(d, t) \/ CellsLost(d, t)
      BY <2>1, <2>2, <2>4, <3>1 DEF NothingMoves, ThreadEnds, CellsLost
    <3>2. ASSUME NEW n \in Nat, CellsRead(d, t, n) PROVE DownlinkOf(c)'
      <4>1. /\ o2 = o /\ Len(h2) = n /\ Len(reader') = Len(reader) + n
            /\ \A i \in 1..n : h2[i] = Len(reader) + i
        BY <2>4, <3>2 DEF CellsRead, Taken
      <4>2. \A i \in 1..n : reader'[Len(reader) + i] = c
        <5>1. ASSUME NEW i \in 1..n PROVE reader'[Len(reader) + i] = c
          <6>1. Len(reader) + i \in 1..Len(reader') /\ Len(reader) + i \notin 1..Len(reader)
            BY <1>0, <4>1
          <6>. QED
            BY <1>1, <2>4, <6>1, ThreadFrame
        <5>. QED
          BY <5>1
      <4>3. /\ \A i, j \in 1..Len(o) : i < j => o[i] < o[j]
            /\ \A i \in 1..Len(o) : o[i] \in 1..Len(reader) /\ reader[o[i]] = c
            /\ Len(o) \in Nat
        BY <1>0 DEF DownlinkOf
      <4> HIDE DEF o, h, o2, h2
      <4>4. \A i \in 1..Len(o2), j \in 1..Len(h2) : o2[i] < h2[j]
        BY <1>0, <4>1, <4>3
      <4>5. \A i \in 1..Len(h2) : h2[i] \in 1..Len(reader') /\ reader'[h2[i]] = c
        <5>1. ASSUME NEW i \in 1..n PROVE h2[i] \in 1..Len(reader') /\ reader'[h2[i]] = c
          <6>1. h2[i] = Len(reader) + i /\ Len(reader) + i \in 1..Len(reader')
            BY <1>0, <4>1
          <6>. QED
            BY <4>2, <6>1
        <5>. QED
          BY <4>1, <5>1
      <4>6. \A i \in 1..Len(o2) : o2[i] \in 1..Len(reader') /\ reader'[o2[i]] = c
        BY <1>0, <2>0, <4>1, <4>3
      <4>7. /\ \A i, j \in 1..Len(o2) : i < j => o2[i] < o2[j]
            /\ \A i, j \in 1..Len(h2) : i < j => h2[i] < h2[j]
        BY <1>0, <4>1, <4>3
      <4>. QED
        BY <4>4, <4>5, <4>6, <4>7 DEF DownlinkOf, o2, h2
    <3>3. ASSUME NEW m \in 1..Len(hand[d][t]), CellsWritten(d, t, m) PROVE DownlinkOf(c)'
      <4>1. /\ Len(o2) = Len(o) + m /\ Len(h2) = Len(h) - m
            /\ \A i \in 1..Len(o) : o2[i] = o[i]
            /\ \A i \in 1..m : o2[Len(o) + i] = h[i]
            /\ \A i \in 1..(Len(h) - m) : h2[i] = h[m + i]
            /\ Len(reader') = Len(reader) /\ m \in 1..Len(h)
        BY <2>4, <3>3 DEF CellsWritten
      <4>2. /\ \A i, j \in 1..Len(o) : i < j => o[i] < o[j]
            /\ \A i, j \in 1..Len(h) : i < j => h[i] < h[j]
            /\ \A i \in 1..Len(o), j \in 1..Len(h) : o[i] < h[j]
            /\ \A i \in 1..Len(o) : o[i] \in 1..Len(reader) /\ reader[o[i]] = c
            /\ \A i \in 1..Len(h) : h[i] \in 1..Len(reader) /\ reader[h[i]] = c
            /\ Len(o) \in Nat /\ Len(h) \in Nat
        BY <1>0 DEF DownlinkOf
      <4> HIDE DEF o, h, o2, h2
      <4>3. \A i \in 1..Len(o2) :
              \/ i \in 1..Len(o) /\ o2[i] = o[i]
              \/ i - Len(o) \in 1..m /\ o2[i] = h[i - Len(o)]
        <5>1. ASSUME NEW i \in 1..Len(o2), ~(i <= Len(o))
              PROVE  i - Len(o) \in 1..m /\ o2[i] = h[i - Len(o)]
          <6>1. i - Len(o) \in 1..m /\ i = Len(o) + (i - Len(o))
            BY <4>1, <4>2, <5>1
          <6>. QED
            BY <4>1, <6>1
        <5>. QED
          BY <4>1, <4>2, <5>1
      <4>4. \A i \in 1..Len(h2) : m + i \in 1..Len(h) /\ h2[i] = h[m + i]
        BY <4>1, <4>2
      <4>5. ASSUME NEW i \in 1..Len(o2), NEW j \in 1..Len(o2), i < j PROVE o2[i] < o2[j]
        <5>1. CASE i \in 1..Len(o) /\ j \in 1..Len(o)
          BY <4>1, <4>2, <4>5, <5>1
        <5>2. CASE i \in 1..Len(o) /\ j - Len(o) \in 1..m /\ o2[j] = h[j - Len(o)]
          <6>1. j - Len(o) \in 1..Len(h)
            BY <4>1, <4>2, <5>2
          <6>. QED
            BY <4>1, <4>2, <5>2, <6>1
        <5>3. CASE /\ i - Len(o) \in 1..m /\ o2[i] = h[i - Len(o)]
                   /\ j - Len(o) \in 1..m /\ o2[j] = h[j - Len(o)]
          <6>1. i - Len(o) \in 1..Len(h) /\ j - Len(o) \in 1..Len(h) /\ i - Len(o) < j - Len(o)
            BY <4>1, <4>2, <4>5, <5>3
          <6>. QED
            BY <4>2, <5>3, <6>1
        <5>4. i - Len(o) \in 1..m => j \notin 1..Len(o)
          BY <4>2, <4>5
        <5>. QED
          BY <4>3, <5>1, <5>2, <5>3, <5>4
      <4>6. ASSUME NEW i \in 1..Len(h2), NEW j \in 1..Len(h2), i < j PROVE h2[i] < h2[j]
        <5>1. m + i \in 1..Len(h) /\ m + j \in 1..Len(h) /\ m + i < m + j
          BY <4>4, <4>6
        <5>. QED
          BY <4>2, <4>4, <5>1
      <4>7. ASSUME NEW i \in 1..Len(o2), NEW j \in 1..Len(h2) PROVE o2[i] < h2[j]
        <5>1. m + j \in 1..Len(h) /\ h2[j] = h[m + j]
          BY <4>4
        <5>2. CASE i \in 1..Len(o) /\ o2[i] = o[i]
          BY <4>2, <5>1, <5>2
        <5>3. CASE i - Len(o) \in 1..m /\ o2[i] = h[i - Len(o)]
          <6>1. i - Len(o) \in 1..Len(h) /\ i - Len(o) < m + j
            BY <4>1, <4>2, <5>3
          <6>. QED
            BY <4>2, <5>1, <5>3, <6>1
        <5>. QED
          BY <4>3, <5>2, <5>3
      <4>8. ASSUME NEW i \in 1..Len(o2)
            PROVE  o2[i] \in 1..Len(reader') /\ reader'[o2[i]] = c
        <5>1. i - Len(o) \in 1..m => i - Len(o) \in 1..Len(h)
          BY <4>1, <4>2
        <5>2. o2[i] \in 1..Len(reader) /\ reader[o2[i]] = c
          BY <4>2, <4>3, <5>1
        <5>. QED
          BY <1>0, <2>0, <4>1, <5>2
      <4>9. ASSUME NEW i \in 1..Len(h2)
            PROVE  h2[i] \in 1..Len(reader') /\ reader'[h2[i]] = c
        <5>1. m + i \in 1..Len(h) /\ h2[i] = h[m + i]
          BY <4>4
        <5>2. h2[i] \in 1..Len(reader) /\ reader[h2[i]] = c
          BY <4>2, <5>1
        <5>. QED
          BY <1>0, <2>0, <4>1, <5>2
      <4>. QED
        BY <4>5, <4>6, <4>7, <4>8, <4>9 DEF DownlinkOf, o2, h2
    <3>. QED
      BY <1>1, <2>4, <3>1, <3>2, <3>3, ThreadMoves
  <2>. QED
    BY <2>3, <2>4
<1>2. ASSUME UNCHANGED <<out, taken, reader>>,
             \/ hand'[c]["fwd_receive"] = hand[c]["fwd_receive"]
             \/ hand'[c]["fwd_receive"] = <<>>
      PROVE  DownlinkOf(c)'
  BY <1>0, <1>2 DEF DownlinkOf
<1>. QED
  BY <1>1, <1>2, StepKinds, SpawnEffect, TerminateEffect

-----------------------------------------------------------------------------
(* What a session loses of the tty's output is at most one read. *)

\* What is in hand comes from one read.
Windowed ==
  \A c \in Conns : \A i, j \in 1..Len(hand[c]["fwd_receive"]) :
    hand[c]["fwd_receive"][j] - hand[c]["fwd_receive"][i] < Chunk

KeptAt(c, k) ==
  \/ \E i \in 1..Len(out[c]["fwd_receive"]) : out[c]["fwd_receive"][i] = k
  \/ \E i \in 1..Len(hand[c]["fwd_receive"]) : hand[c]["fwd_receive"][i] = k

Complete(c) == \A k \in 1..Len(reader) : reader[k] = c => KeptAt(c, k)

OneRead(c) ==
  \A j, k \in 1..Len(reader) :
    reader[j] = c /\ ~KeptAt(c, j) /\ reader[k] = c /\ ~KeptAt(c, k) => k - j < Chunk

LossInv(c) ==
  peer[c] \notin {"closed", "broken"} =>
    /\ thr[c]["fwd_receive"] \in Running => Complete(c)
    /\ OneRead(c)

LEMMA LossIs == (\A c \in Conns : LossInv(c)) => LossIsOneRead
BY DEF LossInv, Complete, OneRead, KeptAt, LossIsOneRead, LostOf

\* A client that has closed stays closed.
LEMMA PeerGone ==
  ASSUME TypeOK, [Next]_vars, NEW c \in Conns, peer[c] \in {"closed", "broken"}
  PROVE  peer'[c] \in {"closed", "broken"}
<1>1. CASE Environment
  BY <1>1 DEF Environment, Emit, TtyHangup, Connect, Type, Hangup, TypeOK
<1>2. CASE Parent
  BY <1>2 DEF Parent, Accept, Fork, ForkFails, ParentClose, envVars
<1>3. ASSUME NEW d \in Conns, Main(d) \/ Sigpipe(d) PROVE peer' = peer
  BY <1>3 DEF Main, Spawn, SpawnFails, ExitFailure, Join, Exit, Sigpipe, envVars
<1>4. ASSUME NEW d \in Conns, NEW t \in Thread, ThreadStep(d, t) \/ WriteTakes(d, t) \/ SelectBadFd(d, t)
      PROVE  peer' = peer
  BY <1>4 DEF ThreadStep, SelectReturns, ReadFails, ReadQuit, Read, WriteFails, WriteTakes,
    SelectBadFd, envVars
<1>5. ASSUME NEW d \in Conns, WriteLost(d) PROVE peer'[c] \in {"closed", "broken"}
  BY <1>5 DEF WriteLost, TypeOK
<1>6. CASE UNCHANGED vars
  BY <1>6 DEF vars, envVars
<1>. QED
  BY <1>1, <1>2, <1>3, <1>4, <1>5, <1>6 DEF Next

\* A thread reads only when it holds nothing, and at most a buffer.
LEMMA ReadsWhenEmpty ==
  ASSUME TypeOK, Bounded, EmptyHanded, NEW d \in Conns, NEW t \in Thread, ThreadActs(d, t)
  PROVE  \/ Len(reader') = Len(reader)
         \/ hand[d][t] = <<>> /\ Len(reader') <= Len(reader) + Chunk
<1>1. CASE ReadQuit(d, t) \/ Read(d, t)
  <2>1. Consume(d, t, ReadCount(d, t)) /\ thr[d][t] = "read"
    BY <1>1 DEF ReadQuit, Read
  <2>2. /\ ReadCount(d, t) \in Nat /\ ReadCount(d, t) <= Chunk
        /\ Chunk \in Nat /\ Len(reader) \in Nat
    <3>1. Chunk \in Nat /\ Unread(d, t) \in Nat
      BY UnreadBound, ServerAssumption
    <3>2. ReadCount(d, t) \in Nat /\ ReadCount(d, t) <= Chunk
      BY <3>1 DEF ReadCount
    <3>. QED
      BY <3>1, <3>2, LenProperties DEF TypeOK
  <2>3. hand[d][t] = <<>>
    BY <2>1 DEF EmptyHanded
  <2>4. Len(reader') = Len(reader) + (IF t = "fwd_send" THEN 0 ELSE ReadCount(d, t))
    BY <2>1, ConsumeFrame
  <2>. QED
    BY <2>2, <2>3, <2>4
<1>2. CASE ~(ReadQuit(d, t) \/ Read(d, t))
  BY <1>2 DEF ThreadActs, ThreadStep, SelectReturns, ReadFails, WriteFails, WriteTakes,
    SelectBadFd, WriteLost
<1>. QED
  BY <1>1, <1>2

LEMMA WindowedStep ==
  ASSUME TypeOK, Bounded, EmptyHanded, Windowed, [Next]_vars
  PROVE  Windowed'
<1> SUFFICES ASSUME NEW c \in Conns
             PROVE  \A i, j \in 1..Len(hand'[c]["fwd_receive"]) :
                      hand'[c]["fwd_receive"][j] - hand'[c]["fwd_receive"][i] < Chunk
  BY DEF Windowed
<1> DEFINE h == hand[c]["fwd_receive"]
           h2 == hand'[c]["fwd_receive"]
<1>0. /\ \A i, j \in 1..Len(h) : h[j] - h[i] < Chunk
      /\ Chunk \in Nat /\ Chunk >= 2 /\ Len(h) \in Nat
      /\ Len(reader) \in Nat
  <2>1. h \in Seq(Pos)
    BY DEF TypeOK, Pos
  <2>2. \A i, j \in 1..Len(h) : h[j] - h[i] < Chunk
    BY DEF Windowed
  <2>. QED
    BY <2>1, <2>2, LenProperties, ServerAssumption DEF TypeOK
<1>1. ASSUME h2 = h \/ h2 = <<>>
      PROVE  \A i, j \in 1..Len(h2) : h2[j] - h2[i] < Chunk
  BY <1>0, <1>1
<1>2. ASSUME NEW d \in Conns, NEW t \in Thread, ThreadActs(d, t)
      PROVE  \A i, j \in 1..Len(h2) : h2[j] - h2[i] < Chunk
  <2>1. CASE c # d \/ t # "fwd_receive"
    BY <1>1, <1>2, <2>1, ThreadFrame
  <2>2. CASE c = d /\ t = "fwd_receive"
    <3>1. CASE NothingMoves(d, t) \/ ThreadEnds(d, t) \/ CellsLost(d, t)
      BY <1>1, <2>2, <3>1 DEF NothingMoves, ThreadEnds, CellsLost
    <3>2. ASSUME NEW n \in Nat, CellsRead(d, t, n), NEW i \in 1..Len(h2), NEW j \in 1..Len(h2)
          PROVE  h2[j] - h2[i] < Chunk
      <4>1. /\ Len(h2) = n /\ n <= Chunk
            /\ \A k \in 1..n : h2[k] = Len(reader) + k
        BY <2>2, <3>2 DEF CellsRead, Taken
      <4>2. h2[i] = Len(reader) + i /\ h2[j] = Len(reader) + j
        BY <3>2, <4>1
      <4>3. i \in Nat /\ j \in Nat /\ i >= 1 /\ j <= Chunk
        BY <1>0, <3>2, <4>1
      <4>. QED
        BY <1>0, <4>2, <4>3
    <3>3. ASSUME NEW m \in 1..Len(hand[d][t]), CellsWritten(d, t, m),
                 NEW i \in 1..Len(h2), NEW j \in 1..Len(h2)
          PROVE  h2[j] - h2[i] < Chunk
      <4>1. /\ m \in 1..Len(h) /\ Len(h2) = Len(h) - m
            /\ \A k \in 1..(Len(h) - m) : h2[k] = h[m + k]
        BY <2>2, <3>3 DEF CellsWritten
      <4>2. h2[i] = h[m + i] /\ h2[j] = h[m + j]
        BY <3>3, <4>1
      <4>3. m + i \in 1..Len(h) /\ m + j \in 1..Len(h)
        BY <1>0, <3>3, <4>1
      <4>. QED
        BY <1>0, <4>2, <4>3
    <3>. QED
      BY <1>2, <3>1, <3>2, <3>3, ThreadMoves
  <2>. QED
    BY <2>1, <2>2
<1>3. ASSUME NEW d \in Conns, NEW how \in Over, Terminate(d, how)
      PROVE  \A i, j \in 1..Len(h2) : h2[j] - h2[i] < Chunk
  BY <1>1, <1>3, TerminateEffect
<1>. QED
  BY <1>1, <1>2, <1>3, StepKinds, SpawnEffect

LEMMA LossStep ==
  ASSUME TypeOK, TypeOK', Bounded, Fresh, EmptyHanded, Windowed,
         \A c \in Conns : LossInv(c), [Next]_vars
  PROVE  \A c \in Conns : LossInv(c)'
<1> SUFFICES ASSUME NEW c \in Conns, peer'[c] \notin {"closed", "broken"}
             PROVE  (thr'[c]["fwd_receive"] \in Running => Complete(c)') /\ OneRead(c)'
  BY DEF LossInv
<1> DEFINE o == out[c]["fwd_receive"]
           h == hand[c]["fwd_receive"]
           o2 == out'[c]["fwd_receive"]
           h2 == hand'[c]["fwd_receive"]
           Goal == (thr'[c]["fwd_receive"] \in Running => Complete(c)') /\ OneRead(c)'
<1>0. /\ Len(reader) \in Nat /\ Len(reader') \in Nat /\ Chunk \in Nat /\ Chunk >= 2
      /\ Len(o) \in Nat /\ Len(h) \in Nat
  <2>1. /\ hand \in [Conns -> [Thread -> Seq(Pos)]] /\ out \in [Conns -> [Thread -> Seq(Pos)]]
        /\ reader \in Seq(Conns) /\ reader' \in Seq(Conns)
    BY DEF TypeOK, Pos
  <2>2. h \in Seq(Pos) /\ o \in Seq(Pos)
    BY <2>1
  <2>. QED
    BY <2>1, <2>2, LenProperties, ServerAssumption
<1>1. (thr[c]["fwd_receive"] \in Running => Complete(c)) /\ OneRead(c)
  BY PeerGone DEF LossInv
\* whatever had been read by c had been before, and nothing is let go of
<1>2. ASSUME \A k \in 1..Len(reader') : reader'[k] = c => k \in 1..Len(reader) /\ reader[k] = c,
             \A k \in Nat : KeptAt(c, k) => KeptAt(c, k)',
             thr'[c]["fwd_receive"] \in Running => thr[c]["fwd_receive"] \in Running
      PROVE  Goal
  <2>1. thr'[c]["fwd_receive"] \in Running => Complete(c)'
    BY <1>1, <1>2 DEF Complete
  <2>2. OneRead(c)'
    <3> SUFFICES ASSUME NEW j \in 1..Len(reader'), NEW k \in 1..Len(reader'),
                        reader'[j] = c, ~KeptAt(c, j)', reader'[k] = c, ~KeptAt(c, k)'
                 PROVE  k - j < Chunk
      BY DEF OneRead
    <3>1. j \in 1..Len(reader) /\ reader[j] = c /\ k \in 1..Len(reader) /\ reader[k] = c
      BY <1>2
    <3>2. ~KeptAt(c, j) /\ ~KeptAt(c, k)
      BY <1>0, <1>2, <3>1
    <3>. QED
      BY <1>1, <3>1, <3>2 DEF OneRead
  <2>. QED
    BY <2>1, <2>2
\* what it has in hand is let go of
<1>3. ASSUME thr[c]["fwd_receive"] \in Running, thr'[c]["fwd_receive"] \notin Running,
             Len(reader') = Len(reader), \A k \in 1..Len(reader) : reader'[k] = reader[k],
             o2 = o
      PROVE  Goal
  <2>1. ASSUME NEW j \in 1..Len(reader'), reader'[j] = c, ~KeptAt(c, j)'
        PROVE  \E i \in 1..Len(h) : h[i] = j
    <3>1. KeptAt(c, j)
      BY <1>1, <1>3, <2>1 DEF Complete
    <3>. QED
      BY <1>3, <2>1, <3>1 DEF KeptAt
  <2>2. OneRead(c)'
    <3> SUFFICES ASSUME NEW j \in 1..Len(reader'), NEW k \in 1..Len(reader'),
                        reader'[j] = c, ~KeptAt(c, j)', reader'[k] = c, ~KeptAt(c, k)'
                 PROVE  k - j < Chunk
      BY DEF OneRead
    <3>1. PICK i \in 1..Len(h) : h[i] = j
      BY <2>1
    <3>2. PICK l \in 1..Len(h) : h[l] = k
      BY <2>1
    <3>. QED
      BY <3>1, <3>2 DEF Windowed
  <2>. QED
    BY <1>3, <2>2
\* it keeps everything
<1>4. ASSUME Complete(c)' PROVE Goal
  BY <1>4 DEF Complete, OneRead
<1>5. ASSUME NEW d \in Conns, NEW t \in Thread, ThreadActs(d, t) PROVE Goal
  <2>0. /\ Len(reader') >= Len(reader)
        /\ \A k \in 1..Len(reader) : reader'[k] = reader[k]
        /\ \A k \in 1..Len(reader') : k \notin 1..Len(reader) => reader'[k] = d
    BY <1>5, ThreadFrame
  <2>1. CASE c # d \/ t # "fwd_receive"
    <3>1. /\ thr'[c]["fwd_receive"] = thr[c]["fwd_receive"] /\ o2 = o /\ h2 = h
          /\ c = d => reader' = reader
      BY <1>5, <2>1, ThreadFrame
    <3>2. \A k \in 1..Len(reader') : reader'[k] = c => k \in 1..Len(reader) /\ reader[k] = c
      BY <2>0, <3>1
    <3>3. \A k \in Nat : KeptAt(c, k) => KeptAt(c, k)'
      BY <3>1 DEF KeptAt
    <3>. QED
      BY <1>2, <3>1, <3>2, <3>3
  <2>2. CASE c = d /\ t = "fwd_receive"
    <3>0. thr[c]["fwd_receive"] \in Running
      BY <1>5, <2>2, ThreadFrame
    <3>1. CASE NothingMoves(d, t)
      <4>1. o2 = o /\ h2 = h /\ Len(reader') = Len(reader)
        BY <2>2, <3>1 DEF NothingMoves
      <4>2. \A k \in Nat : KeptAt(c, k) => KeptAt(c, k)'
        BY <4>1 DEF KeptAt
      <4>. QED
        BY <1>2, <2>0, <3>0, <4>1, <4>2
    <3>2. CASE ThreadEnds(d, t)
      <4>1. o2 = o /\ thr'[c]["fwd_receive"] \notin Running
        BY <2>2, <3>2 DEF ThreadEnds, Running
      <4>2. CASE Len(reader') = Len(reader)
        BY <1>3, <2>0, <3>0, <4>1, <4>2
      <4>3. CASE h = <<>> /\ Len(reader') <= Len(reader) + Chunk
        <5>1. ASSUME NEW j \in 1..Len(reader'), reader'[j] = c, ~KeptAt(c, j)'
              PROVE  j > Len(reader)
          <6>1. CASE j \in 1..Len(reader)
            <7>1. KeptAt(c, j)
              BY <1>1, <2>0, <3>0, <5>1, <6>1 DEF Complete
            <7>. QED
              BY <4>1, <4>3, <5>1, <7>1 DEF KeptAt
          <6>. QED
            BY <1>0, <5>1, <6>1
        <5>2. OneRead(c)'
          <6> SUFFICES ASSUME NEW j \in 1..Len(reader'), NEW k \in 1..Len(reader'),
                              reader'[j] = c, ~KeptAt(c, j)', reader'[k] = c, ~KeptAt(c, k)'
                       PROVE  k - j < Chunk
            BY DEF OneRead
          <6>1. j > Len(reader)
            BY <5>1
          <6>2. k <= Len(reader') /\ k \in Nat /\ j \in Nat
            BY <1>0
          <6>. QED
            BY <1>0, <4>3, <6>1, <6>2
        <5>. QED
          BY <4>1, <5>2
      <4>. QED
        BY <1>5, <2>2, <4>2, <4>3, ReadsWhenEmpty
    <3>3. CASE CellsLost(d, t)
      BY <2>2, <3>3 DEF CellsLost
    <3>4. ASSUME NEW n \in Nat, CellsRead(d, t, n) PROVE Goal
      <4>1. /\ Len(reader') = Len(reader) + n /\ Len(h2) = n
            /\ \A i \in 1..n : h2[i] = Len(reader) + i
            /\ h = <<>> /\ o2 = o
        BY <2>2, <3>4 DEF CellsRead, Taken
      <4>2. ASSUME NEW k \in 1..Len(reader'), reader'[k] = c PROVE KeptAt(c, k)'
        <5>1. CASE k \in 1..Len(reader)
          <6>1. KeptAt(c, k)
            BY <1>1, <2>0, <3>0, <4>2, <5>1 DEF Complete
          <6>. QED
            BY <4>1, <6>1 DEF KeptAt
        <5>2. CASE k \notin 1..Len(reader)
          <6>1. k - Len(reader) \in 1..n /\ Len(reader) + (k - Len(reader)) = k
            BY <1>0, <4>1, <5>2
          <6>2. k - Len(reader) \in 1..Len(h2) /\ h2[k - Len(reader)] = k
            BY <4>1, <6>1
          <6>. QED
            BY <6>2 DEF KeptAt
        <5>. QED
          BY <5>1, <5>2
      <4>. QED
        BY <1>4, <4>2 DEF Complete
    <3>5. ASSUME NEW m \in 1..Len(hand[d][t]), CellsWritten(d, t, m) PROVE Goal
      <4>1. /\ Len(o2) = Len(o) + m /\ Len(h2) = Len(h) - m
            /\ \A i \in 1..Len(o) : o2[i] = o[i]
            /\ \A i \in 1..m : o2[Len(o) + i] = h[i]
            /\ \A i \in 1..(Len(h) - m) : h2[i] = h[m + i]
            /\ m \in 1..Len(h) /\ Len(reader') = Len(reader)
        BY <2>2, <3>5 DEF CellsWritten
      <4>2. ASSUME NEW k \in Nat, KeptAt(c, k) PROVE KeptAt(c, k)'
        <5>0. (\E i \in 1..Len(o) : o[i] = k) \/ (\E i \in 1..Len(h) : h[i] = k)
          BY <4>2 DEF KeptAt
        <5> HIDE DEF o, h, o2, h2
        <5>1. ASSUME NEW i \in 1..Len(o), o[i] = k PROVE \E j \in 1..Len(o2) : o2[j] = k
          <6>1. i \in 1..Len(o2)
            BY <1>0, <4>1
          <6>. QED
            BY <4>1, <5>1, <6>1
        <5>2. ASSUME NEW i \in 1..Len(h), h[i] = k, i <= m PROVE \E j \in 1..Len(o2) : o2[j] = k
          <6>1. Len(o) + i \in 1..Len(o2) /\ i \in 1..m
            BY <1>0, <4>1, <5>2
          <6>. QED
            BY <4>1, <5>2, <6>1
        <5>3. ASSUME NEW i \in 1..Len(h), h[i] = k, ~(i <= m) PROVE \E j \in 1..Len(h2) : h2[j] = k
          <6>1. i - m \in 1..Len(h2) /\ i - m \in 1..(Len(h) - m) /\ m + (i - m) = i
            BY <1>0, <4>1, <5>3
          <6>. QED
            BY <4>1, <5>3, <6>1
        <5>4. (\E j \in 1..Len(o2) : o2[j] = k) \/ (\E j \in 1..Len(h2) : h2[j] = k)
          BY <5>0, <5>1, <5>2, <5>3
        <5>. QED
          BY <5>4 DEF KeptAt, o2, h2
      <4>. QED
        BY <1>2, <2>0, <3>0, <4>1, <4>2
    <3>. QED
      BY <1>5, <3>1, <3>2, <3>3, <3>4, <3>5, ThreadMoves
  <2>. QED
    BY <2>1, <2>2
<1>6. ASSUME reader' = reader, o2 = o, h2 = h \/ h = <<>>,
             thr'[c]["fwd_receive"] \in Running => thr[c]["fwd_receive"] \in Running
      PROVE  Goal
  <2>1. \A k \in Nat : KeptAt(c, k) => KeptAt(c, k)'
    BY <1>6 DEF KeptAt
  <2>. QED
    BY <1>2, <1>6, <2>1
<1>7. ASSUME NEW d \in Conns, Spawn(d), UNCHANGED <<out, taken, reader>> PROVE Goal
  <2>1. CASE c = d /\ child[d] = "boot2"
    <3>1. \A k \in 1..Len(reader') : reader'[k] # c
      BY <1>7, <2>1 DEF Fresh, FreshOf
    <3>. QED
      BY <1>4, <3>1 DEF Complete
  <2>2. CASE ~(c = d /\ child[d] = "boot2")
    <3>1. thr'[c]["fwd_receive"] = thr[c]["fwd_receive"] /\ hand' = hand
      BY <1>7, <2>2, SpawnEffect
    <3>. QED
      BY <1>6, <1>7, <3>1
  <2>. QED
    BY <2>1, <2>2
<1>8. ASSUME NEW d \in Conns, NEW how \in Over, Terminate(d, how),
             UNCHANGED <<out, taken, reader>>
      PROVE  Goal
  <2>1. CASE c # d
    <3>1. thr'[c]["fwd_receive"] = thr[c]["fwd_receive"] /\ h2 = h
      BY <1>8, <2>1, TerminateEffect
    <3>. QED
      BY <1>6, <1>8, <3>1
  <2>2. CASE c = d
    <3>1. thr'[c]["fwd_receive"] \notin Running
      BY <1>8, <2>2, TerminateEffect DEF Running
    <3>2. CASE thr[c]["fwd_receive"] \in Running
      BY <1>3, <1>8, <3>1, <3>2
    <3>3. CASE thr[c]["fwd_receive"] \notin Running
      <4>1. h = <<>>
        BY <3>3 DEF EmptyHanded, Running
      <4>. QED
        BY <1>6, <1>8, <3>1, <4>1
    <3>. QED
      BY <3>2, <3>3
  <2>. QED
    BY <2>1, <2>2
<1>9. ASSUME UNCHANGED <<out, taken, reader, thr, hand>> PROVE Goal
  BY <1>6, <1>9
<1>. QED
  BY <1>5, <1>7, <1>8, <1>9, StepKinds

-----------------------------------------------------------------------------
(* The invariant of the whole server, and what follows from it. *)

IInv ==
  /\ TypeOK /\ Bounded /\ Handover /\ Fresh /\ EmptyHanded
  /\ UplinkInOrder /\ (\A c \in Conns : DownlinkOf(c))
  /\ Windowed /\ \A c \in Conns : LossInv(c)

LEMMA InitIInv == Init => IInv
<1> SUFFICES ASSUME Init PROVE IInv
  OBVIOUS
<1>1. TypeOK /\ Bounded
  BY TypeInit
<1>2. Handover /\ Fresh /\ EmptyHanded
  BY DEF Init, Handover, HandoverOf, Fresh, FreshOf, EmptyHanded
<1>3. \A c \in Conns, t \in Thread :
        /\ Len(out[c][t]) = 0 /\ Len(hand[c][t]) = 0 /\ thr[c][t] \notin Running
        /\ 1..Len(out[c][t]) = {} /\ 1..Len(hand[c][t]) = {}
  BY DEF Init, Running
<1>4. UplinkInOrder
  BY <1>3 DEF UplinkInOrder
<1>5. \A c \in Conns : DownlinkOf(c)
  BY <1>3 DEF DownlinkOf
<1>6. Windowed /\ \A c \in Conns : LossInv(c)
  BY <1>3 DEF Init, Windowed, LossInv, Complete, OneRead
<1>. QED
  BY <1>1, <1>2, <1>4, <1>5, <1>6 DEF IInv

LEMMA StepIInv == IInv /\ [Next]_vars => IInv'
BY TypeStep, HandoverStep, FreshStep, EmptyHandedStep, UplinkStep, DownlinkStep, WindowedStep,
  LossStep
DEF IInv

LEMMA Inductive == Spec => []IInv
BY InitIInv, StepIInv, PTL DEF Spec

\* However the writes are split, the tty gets what a client sent in order,
\* without gaps or repeats, and a running fwd_send has dropped nothing.
THEOREM UplinkCorrect == Spec => []UplinkInOrder
<1>1. IInv => UplinkInOrder
  BY DEF IInv
<1>. QED
  BY <1>1, Inductive, PTL

\* However many children share the tty, a cell it prints reaches only the client
\* of the child that read it, once, and each client gets its cells in order.
THEOREM DownlinkCorrect == Spec => []DownlinkOnce
<1>1. IInv => DownlinkOnce
  BY DEF IInv, DownlinkOf, DownlinkOnce
<1>. QED
  BY <1>1, Inductive, PTL

\* A child that forwards has lost nothing of what it read from the tty, and one
\* that has stopped, for whatever reason, at most its last read, unless its client
\* has closed the connection.
THEOREM LossBounded == Spec => []LossIsOneRead
<1>1. IInv => LossIsOneRead
  BY LossIs DEF IInv
<1>. QED
  BY <1>1, Inductive, PTL
-----------------------------------------------------------------------------
(* Three more facts about sessions that the mapping rests on. *)

\* No thread outlives its process.
Stopped == \A c \in Conns : child[c] \in Over => \A t \in Thread : thr[c][t] = "off"

\* What a thread holds fits its buffer.
Fits == \A c \in Conns, t \in Thread : Len(hand[c][t]) <= Chunk

\* The tty got no more of a client's cells than were read.
Within == \A c \in Conns : Len(out[c]["fwd_send"]) <= taken[c]

RInv == IInv /\ Stopped /\ Fits /\ Within

LEMMA StoppedStep ==
  ASSUME TypeOK, Bounded, Stopped, [Next]_vars
  PROVE  Stopped'
<1> USE DEF Stopped
<1>1. CASE Environment \/ Accept \/ ForkFails \/ ParentClose \/ UNCHANGED vars
  BY <1>1 DEF Environment, Emit, TtyHangup, Connect, Type, Hangup, Accept, ForkFails, ParentClose,
    vars, childVars
<1>2. CASE Fork
  <2>1. thr' = thr /\ \A c \in Conns : child'[c] = child[c] \/ child'[c] = "boot"
    BY <1>2 DEF Fork, TypeOK
  <2>. QED
    BY <2>1 DEF Over
<1>3. ASSUME NEW d \in Conns, SpawnFails(d) \/ Join(d) PROVE Stopped'
  <2>1. thr' = thr /\ \A c \in Conns : child'[c] = child[c] \/ child'[c] \in {"failing", "sleep"}
    BY <1>3 DEF SpawnFails, Join, TypeOK
  <2>. QED
    BY <2>1 DEF Over
<1>4. ASSUME NEW d \in Conns, Spawn(d) PROVE Stopped'
  BY <1>4, SpawnEffect DEF Over
<1>5. ASSUME NEW d \in Conns, NEW how \in Over, Terminate(d, how) PROVE Stopped'
  BY <1>5, TerminateEffect
<1>6. ASSUME NEW d \in Conns, NEW t \in Thread, ThreadActs(d, t) PROVE Stopped'
  <2>1. /\ child' = child /\ thr[d][t] \in Running
        /\ \A c \in Conns, s \in Thread : c # d \/ s # t => thr'[c][s] = thr[c][s]
    BY <1>6, ThreadFrame
  <2>2. child[d] \notin Over
    BY <2>1 DEF Running
  <2>. QED
    BY <2>1, <2>2
<1>7. ASSUME NEW d \in Conns, Main(d) \/ Sigpipe(d) PROVE Stopped'
  BY <1>3, <1>4, <1>5, <1>7 DEF Main, ExitFailure, Exit, Sigpipe, Over
<1>8. CASE Parent
  BY <1>1, <1>2, <1>8 DEF Parent
<1>9. CASE Next
  <2>1. ASSUME NEW d \in Conns, Main(d) \/ WriteLost(d) \/ Sigpipe(d) PROVE Stopped'
    BY <1>6, <1>7, <2>1 DEF ThreadActs
  <2>2. ASSUME NEW d \in Conns, NEW t \in Thread,
               ThreadStep(d, t) \/ WriteTakes(d, t) \/ SelectBadFd(d, t)
        PROVE  Stopped'
    BY <1>6, <2>2 DEF ThreadActs
  <2>. QED
    BY <1>1, <1>8, <1>9, <2>1, <2>2 DEF Next
<1>. QED
  BY <1>1, <1>9

LEMMA FitsStep ==
  ASSUME TypeOK, Bounded, EmptyHanded, Fits, [Next]_vars
  PROVE  Fits'
<1> USE DEF Fits
<1>0. /\ Chunk \in Nat
      /\ \A c \in Conns, t \in Thread : Len(hand[c][t]) \in Nat
  BY ServerAssumption, LenProperties DEF TypeOK
<1>1. ASSUME NEW d \in Conns, NEW t \in Thread, ThreadActs(d, t) PROVE Fits'
  <2>1. Len(hand'[d][t]) <= Chunk
    <3>1. CASE NothingMoves(d, t) \/ ThreadEnds(d, t) \/ CellsLost(d, t)
      BY <1>0, <3>1 DEF NothingMoves, ThreadEnds, CellsLost
    <3>2. ASSUME NEW n \in Nat, CellsRead(d, t, n) PROVE Len(hand'[d][t]) <= Chunk
      BY <3>2 DEF CellsRead
    <3>3. ASSUME NEW m \in 1..Len(hand[d][t]), CellsWritten(d, t, m)
          PROVE  Len(hand'[d][t]) <= Chunk
      <4>1. Len(hand[d][t]) \in Nat /\ Len(hand[d][t]) <= Chunk
        BY <1>0
      <4>. QED
        BY <1>0, <3>3, <4>1 DEF CellsWritten
    <3>. QED
      BY <1>1, <3>1, <3>2, <3>3, ThreadMoves
  <2>2. \A c \in Conns, s \in Thread : c # d \/ s # t => hand'[c][s] = hand[c][s]
    BY <1>1, ThreadFrame
  <2>. QED
    BY <2>1, <2>2
<1>2. ASSUME NEW d \in Conns, NEW how \in Over, Terminate(d, how) PROVE Fits'
  BY <1>0, <1>2, TerminateEffect
<1>. QED
  BY <1>1, <1>2, StepKinds, SpawnEffect

\* Reading only moves a client's position on.
LEMMA TakenGrows ==
  ASSUME TypeOK, Bounded, NEW d \in Conns, NEW t \in Thread, ThreadActs(d, t)
  PROVE  taken'[d] >= taken[d]
<1>1. taken[d] \in Nat /\ ReadCount(d, t) \in Nat
  BY UnreadBound DEF TypeOK
<1>2. CASE ReadQuit(d, t) \/ Read(d, t)
  <2>1. Consume(d, t, ReadCount(d, t))
    BY <1>2 DEF ReadQuit, Read
  <2>. QED
    BY <1>1, <2>1, ConsumeFrame
<1>3. CASE ~(ReadQuit(d, t) \/ Read(d, t))
  <2>1. taken' = taken
    BY <1>3 DEF ThreadActs, ThreadStep, SelectReturns, ReadFails, WriteFails, WriteTakes,
      SelectBadFd, WriteLost
  <2>. QED
    BY <1>1, <2>1
<1>. QED
  BY <1>2, <1>3

LEMMA WithinStep ==
  ASSUME TypeOK, Bounded, EmptyHanded, UplinkInOrder, Within, [Next]_vars
  PROVE  Within'
<1> USE DEF Within
<1>1. ASSUME NEW d \in Conns, NEW t \in Thread, ThreadActs(d, t), NEW c \in Conns
      PROVE  Len(out'[c]["fwd_send"]) <= taken'[c]
  <2>0. /\ Len(out[c]["fwd_send"]) \in Nat /\ Len(hand[c]["fwd_send"]) \in Nat
        /\ taken[c] \in Nat /\ Len(out[c]["fwd_send"]) <= taken[c]
    BY LenProperties DEF TypeOK
  <2>1. CASE c # d \/ t # "fwd_send"
    <3>1. /\ c # d \/ t # "fwd_send" => taken'[c] = taken[c]
          /\ \A s \in Thread : c # d \/ s # t => out'[c][s] = out[c][s]
      BY <1>1, ThreadFrame
    <3>. QED
      BY <2>0, <2>1, <3>1
  <2>2. CASE c = d /\ t = "fwd_send"
    <3>1. taken'[d] >= taken[d] /\ taken'[d] \in Nat
      BY <1>1, TakenGrows, TypeStep DEF TypeOK
    <3>2. CASE out'[d][t] = out[d][t]
      BY <2>0, <2>2, <3>1, <3>2
    <3>3. ASSUME NEW m \in 1..Len(hand[d][t]), CellsWritten(d, t, m)
          PROVE  Len(out'[d][t]) <= taken'[d]
      <4>1. taken[d] = Len(out[d][t]) + Len(hand[d][t])
        BY <2>2, <3>3 DEF UplinkInOrder, CellsWritten
      <4>2. Len(out'[d][t]) = Len(out[d][t]) + m /\ taken'[d] = taken[d]
        BY <3>3 DEF CellsWritten
      <4>3. /\ Len(out[d][t]) \in Nat /\ Len(hand[d][t]) \in Nat
            /\ m \in Nat /\ m <= Len(hand[d][t])
        BY <2>0, <2>2, <3>3
      <4>. QED
        BY <4>1, <4>2, <4>3
    <3>. QED
      BY <1>1, <2>2, <3>2, <3>3, ThreadMoves DEF NothingMoves, ThreadEnds, CellsRead, CellsLost
  <2>. QED
    BY <2>1, <2>2
<1>2. CASE UNCHANGED <<out, taken>>
  BY <1>2
<1>. QED
  BY <1>1, <1>2, StepKinds

LEMMA RInductive == Spec => []RInv
<1>1. Init => RInv
  <2> SUFFICES ASSUME Init PROVE Stopped /\ Fits /\ Within /\ IInv
    BY DEF RInv
  <2>1. Chunk \in Nat
    BY ServerAssumption
  <2>2. IInv
    BY InitIInv
  <2>3. Stopped
    BY DEF Init, Stopped, Over
  <2>4. \A c \in Conns, t \in Thread : hand[c][t] = <<>> /\ out[c][t] = <<>> /\ taken[c] = 0
    BY DEF Init
  <2>5. \A c \in Conns, t \in Thread : Len(hand[c][t]) = 0 /\ Len(out[c][t]) = 0 /\ taken[c] = 0
    BY <2>4
  <2>. QED
    BY <2>1, <2>2, <2>3, <2>5 DEF Fits, Within
<1>2. RInv /\ [Next]_vars => RInv'
  BY StepIInv, StoppedStep, FitsStep, WithinStep DEF RInv, IInv
<1>. QED
  BY <1>1, <1>2, PTL DEF Spec

-----------------------------------------------------------------------------
(* The steps. *)

\* What has arrived is the beginning of what was sent.
LEMMA ArrivedIs ==
  ASSUME RInv, NEW c \in Conns
  PROVE  /\ Len(out[c]["fwd_send"]) \in Nat
         /\ Len(out[c]["fwd_send"]) <= Len(sent[c])
         /\ Arrived[c] = [i \in 1..Len(out[c]["fwd_send"]) |-> sent[c][i]]
         /\ Len(Arrived[c]) = Len(out[c]["fwd_send"])
<1>1. /\ out[c]["fwd_send"] \in Seq(Pos) /\ sent[c] \in Seq(Cell) /\ taken[c] \in Nat
      /\ taken[c] <= Len(sent[c]) /\ Len(out[c]["fwd_send"]) <= taken[c]
  BY DEF RInv, IInv, TypeOK, Bounded, Within, Pos
<1>0. \A i \in 1..Len(out[c]["fwd_send"]) : out[c]["fwd_send"][i] = i
  BY DEF RInv, IInv, UplinkInOrder
<1>2. /\ Len(out[c]["fwd_send"]) \in Nat /\ Len(sent[c]) \in Nat
      /\ DOMAIN out[c]["fwd_send"] = 1..Len(out[c]["fwd_send"])
  BY <1>1, LenProperties
<1>3. Arrived[c] = [i \in 1..Len(out[c]["fwd_send"]) |-> sent[c][i]]
  BY <1>0, <1>2 DEF Arrived
<1>4. Len(Arrived[c]) = Len(out[c]["fwd_send"])
  BY <1>2, <1>3
<1>. QED
  BY <1>1, <1>2, <1>3, <1>4

LEMMA ArrivedNext ==
  ASSUME RInv', NEW c \in Conns
  PROVE  Arrived'[c] = [i \in 1..Len(out'[c]["fwd_send"]) |-> sent'[c][i]]
<1>1. out'[c]["fwd_send"] \in Seq(Pos)
  BY DEF RInv, IInv, TypeOK, Pos
<1>2. DOMAIN out'[c]["fwd_send"] = 1..Len(out'[c]["fwd_send"])
  BY <1>1, LenProperties
<1>3. \A i \in 1..Len(out'[c]["fwd_send"]) : out'[c]["fwd_send"][i] = i
  BY DEF RInv, IInv, UplinkInOrder
<1>. QED
  BY <1>2, <1>3 DEF Arrived

\* A thread at work belongs to an open session.
LEMMA AtWork ==
  ASSUME RInv, NEW d \in Conns, NEW t \in Thread, thr[d][t] \in Running
  PROVE  Sessions[d] = "open" /\ child[d] # "none" /\ child[d] \notin Over
<1>1. child[d] \notin Over
  BY DEF RInv, Stopped, Running
<1>2. child[d] # "none"
  BY DEF RInv, IInv, Fresh, FreshOf, Running
<1>. QED
  BY <1>1, <1>2 DEF Sessions, SessionOf

\* Typing changes nothing that has arrived.
LEMMA TypeRelays ==
  ASSUME RInv, RInv', NEW d \in Conns, Type(d)
  PROVE  Promise!Send(d)
<1>1. PICK v \in Cell : sent' = [sent EXCEPT ![d] = Append(@, v)]
  BY DEF Type
<1>2. UNCHANGED <<ttyLog, child, out>>
  BY DEF Type, childVars
<1>3. sent \in [Conns -> Seq(Cell)]
  BY DEF RInv, IInv, TypeOK
<1>4. ASSUME NEW c \in Conns PROVE Arrived'[c] = Arrived[c]
  <2> DEFINE n == Len(out[c]["fwd_send"])
  <2>1. /\ n \in Nat /\ n <= Len(sent[c])
        /\ Arrived[c] = [i \in 1..n |-> sent[c][i]]
    BY ArrivedIs
  <2>2. Arrived'[c] = [i \in 1..n |-> sent'[c][i]]
    <3>1. \A i \in 1..n : out[c]["fwd_send"][i] = i
      BY DEF RInv, IInv, UplinkInOrder
    <3>2. DOMAIN out[c]["fwd_send"] = 1..n
      BY DEF RInv, IInv, TypeOK
    <3>. QED
      BY <1>2, <3>1, <3>2 DEF Arrived
  <2>3. ASSUME NEW i \in 1..n PROVE sent'[c][i] = sent[c][i]
    BY <1>1, <1>3, <2>1, AppendProperties
  <2> HIDE DEF n
  <2>. QED
    BY <2>1, <2>2, <2>3
<1>5. Arrived' = Arrived
  BY <1>4 DEF Arrived
<1>6. Sessions' = Sessions /\ Got' = Got
  BY <1>2 DEF Sessions, Got
<1>. QED
  BY <1>1, <1>2, <1>5, <1>6 DEF Promise!Send

\* A change of one child's state is a change of one session.
LEMMA SessionChanges ==
  ASSUME TypeOK, NEW d \in Conns, NEW s, child' = [child EXCEPT ![d] = s]
  PROVE  Sessions' = [Sessions EXCEPT ![d] = SessionOf(s)]
<1>1. \A c \in Conns : child'[c] = IF c = d THEN s ELSE child[c]
  BY DEF TypeOK
<1>2. ASSUME NEW c \in Conns
      PROVE  Sessions'[c] = [Sessions EXCEPT ![d] = SessionOf(s)][c]
  <2>1. Sessions'[c] = SessionOf(child'[c]) /\ Sessions[c] = SessionOf(child[c])
    BY DEF Sessions
  <2>2. [Sessions EXCEPT ![d] = SessionOf(s)][c] = IF c = d THEN SessionOf(s) ELSE Sessions[c]
    BY DEF Sessions
  <2>. QED
    BY <1>1, <2>1, <2>2
<1>. QED
  BY <1>2 DEF Sessions

\* What moves nothing and keeps the sessions is a stutter.
LEMMA Stutters ==
  ASSUME UNCHANGED <<sent, ttyLog, out>>, Sessions' = Sessions
  PROVE  UNCHANGED Promise!vars
BY DEF Promise!vars, Arrived, Got

\* A process that is over ends its session.
LEMMA TerminateRelays ==
  ASSUME RInv, NEW d \in Conns, NEW how \in Over, Terminate(d, how),
         child[d] # "none", child[d] \notin Over, UNCHANGED <<sent, ttyLog, out>>
  PROVE  Promise!End(d)
<1>1. child' = [child EXCEPT ![d] = how] /\ how # "none" /\ Sessions[d] = "open"
  BY DEF Terminate, Over, Sessions, SessionOf
<1>2. Sessions' = [Sessions EXCEPT ![d] = "over"]
  BY <1>1, SessionChanges DEF RInv, IInv, SessionOf
<1>. QED
  BY <1>1, <1>2 DEF Promise!End, Arrived, Got

\* A write to the tty puts the next cells of its client there.
LEMMA UplinkRelays ==
  ASSUME RInv, RInv', NEW d \in Conns, WriteTakes(d, "fwd_send")
  PROVE  Promise!ToTty(d)
<1> DEFINE o == out[d]["fwd_send"]
           h == hand[d]["fwd_send"]
<1>1. PICK m \in 1..Len(h) : out' = [out EXCEPT ![d]["fwd_send"] = @ \o SubSeq(h, 1, m)]
  BY DEF WriteTakes
<1>2. /\ thr[d]["fwd_send"] = "write"
      /\ UNCHANGED <<sent, ttyLog, child, taken>>
  BY DEF WriteTakes, envVars
<1>3. /\ out \in [Conns -> [Thread -> Seq(Pos)]] /\ h \in Seq(Pos) /\ o \in Seq(Pos)
      /\ sent[d] \in Seq(Cell) /\ taken[d] <= Len(sent[d]) /\ Len(h) <= Chunk
  BY DEF RInv, IInv, TypeOK, Bounded, Fits, Pos
<1>4. Len(o) \in Nat /\ Len(h) \in Nat /\ Chunk \in Nat /\ Len(sent[d]) \in Nat
  BY <1>3, LenProperties, ServerAssumption
<1>5. taken[d] = Len(o) + Len(h)
  BY <1>2 DEF RInv, IInv, UplinkInOrder, Running
<1>6. /\ out'[d]["fwd_send"] = o \o SubSeq(h, 1, m)
      /\ out'[d]["fwd_receive"] = out[d]["fwd_receive"]
      /\ \A c \in Conns : c # d => out'[c] = out[c]
  BY <1>1, <1>3
<1>7. Len(out'[d]["fwd_send"]) = Len(o) + m
  <2>1. m \in 0..Len(h)
    BY <1>4
  <2>2. SubSeq(h, 1, m) \in Seq(Pos) /\ Len(SubSeq(h, 1, m)) = m
    BY <1>3, <2>1, WriteSplits
  <2>. QED
    BY <1>3, <1>6, <2>2, ConcatProperties
<1>8. Arrived'[d] = SubSeq(sent[d], 1, Len(o) + m)
  <2>1. Arrived'[d] = [i \in 1..(Len(o) + m) |-> sent[d][i]]
    BY <1>2, <1>7, ArrivedNext
  <2>. QED
    BY <1>4, <2>1
<1>9. Arrived' = [Arrived EXCEPT ![d] = SubSeq(sent[d], 1, Len(Arrived[d]) + m)]
  <2>1. Len(Arrived[d]) = Len(o)
    BY ArrivedIs
  <2>2. ASSUME NEW c \in Conns, c # d PROVE Arrived'[c] = Arrived[c]
    BY <1>2, <1>6, <2>2 DEF Arrived
  <2>3. /\ Arrived' = [c \in Conns |-> Arrived'[c]] /\ Arrived = [c \in Conns |-> Arrived[c]]
    BY DEF Arrived
  <2> HIDE DEF o, h
  <2>. QED
    BY <1>8, <2>1, <2>2, <2>3
<1>10. m \in 1..Chunk /\ Len(Arrived[d]) + m <= Len(sent[d])
  <2>1. Len(Arrived[d]) = Len(o)
    BY ArrivedIs
  <2>2. taken[d] \in Nat /\ m \in 1..Len(h)
    BY <1>1 DEF RInv, IInv, TypeOK
  <2> HIDE DEF o, h
  <2>. QED
    BY <1>3, <1>4, <1>5, <2>1, <2>2
<1>11. Sessions' = Sessions /\ Got' = Got
  BY <1>2, <1>6 DEF Sessions, Got
<1>12. Sessions[d] = "open"
  BY <1>2, AtWork DEF Running
<1>. QED
  BY <1>2, <1>9, <1>10, <1>11, <1>12 DEF Promise!ToTty

\* A write to a client gives it cells that are later than those it has and that
\* nobody else got, for only the child that read a cell can write it.
LEMMA DownlinkRelays ==
  ASSUME RInv, NEW d \in Conns, WriteTakes(d, "fwd_receive")
  PROVE  Promise!ToClient(d)
<1> DEFINE o == out[d]["fwd_receive"]
           h == hand[d]["fwd_receive"]
<1>1. PICK m \in 1..Len(h) : out' = [out EXCEPT ![d]["fwd_receive"] = @ \o SubSeq(h, 1, m)]
  BY DEF WriteTakes
<1>2. /\ thr[d]["fwd_receive"] = "write"
      /\ UNCHANGED <<sent, ttyLog, child>>
  BY DEF WriteTakes, envVars
<1>3. /\ out \in [Conns -> [Thread -> Seq(Pos)]] /\ h \in Seq(Pos) /\ o \in Seq(Pos)
      /\ Len(h) <= Chunk /\ Len(reader) <= Len(ttyLog) /\ reader \in Seq(Conns)
      /\ ttyLog \in Seq(Cell)
  BY DEF RInv, IInv, TypeOK, Bounded, Fits, Pos
<1>4. Len(o) \in Nat /\ Len(h) \in Nat /\ Chunk \in Nat /\ Len(ttyLog) \in Nat /\ Len(reader) \in Nat
  BY <1>3, LenProperties, ServerAssumption
<1>5. /\ \A i, j \in 1..Len(h) : i < j => h[i] < h[j]
      /\ \A i \in 1..Len(o), j \in 1..Len(h) : o[i] < h[j]
      /\ \A i \in 1..Len(h) : h[i] \in 1..Len(reader) /\ reader[h[i]] = d
  BY DEF RInv, IInv, DownlinkOf
<1> DEFINE s == SubSeq(h, 1, m)
<1>6. /\ m \in 1..Chunk /\ Len(s) = m /\ s \in Seq(Pos)
      /\ \A i \in 1..m : s[i] = h[i] /\ i \in 1..Len(h)
  <2>1. m \in 0..Len(h) /\ m \in 1..Chunk
    BY <1>1, <1>3, <1>4
  <2>. QED
    BY <1>1, <1>3, <1>4, <2>1, WriteSplits
<1>7. s \in [1..m -> 1..Len(ttyLog)]
  <2>1. DOMAIN s = 1..m /\ s = [i \in 1..m |-> s[i]]
    BY <1>6
  <2>2. \A i \in 1..m : s[i] \in 1..Len(ttyLog)
    BY <1>3, <1>4, <1>5, <1>6
  <2> HIDE DEF s
  <2>. QED
    BY <2>1, <2>2
<1>8. Promise!Free(d, s)
  <2>1. DOMAIN s = 1..m /\ Got[d] = o /\ DOMAIN o = 1..Len(o)
    BY <1>3, <1>6, LenProperties DEF Got
  <2>2. \A i, j \in 1..m : i < j => s[i] < s[j]
    BY <1>5, <1>6
  <2>3. \A i \in 1..m, j \in 1..Len(o) : o[j] < s[i]
    BY <1>5, <1>6
  <2>4. ASSUME NEW i \in 1..m, NEW e \in Conns \ {d}, NEW j \in DOMAIN Got[e]
        PROVE  Got[e][j] # s[i]
    <3>1. Got[e] = out[e]["fwd_receive"] /\ j \in 1..Len(out[e]["fwd_receive"])
      BY <1>3, <2>4, LenProperties DEF Got
    <3>2. reader[Got[e][j]] = e
      BY <3>1 DEF RInv, IInv, DownlinkOf
    <3>3. reader[s[i]] = d
      BY <1>5, <1>6
    <3>. QED
      BY <3>2, <3>3
  <2> HIDE DEF o, h, s
  <2>. QED
    BY <2>1, <2>2, <2>3, <2>4 DEF Promise!Free
<1>9. Got' = [Got EXCEPT ![d] = @ \o s]
  BY <1>1, <1>3 DEF Got
<1>10. Sessions' = Sessions /\ Arrived' = Arrived
  <2>1. \A c \in Conns : out'[c]["fwd_send"] = out[c]["fwd_send"]
    BY <1>1, <1>3
  <2>. QED
    BY <1>2, <2>1 DEF Sessions, Arrived
<1>11. Sessions[d] = "open"
  BY <1>2, AtWork DEF Running
<1> HIDE DEF s
<1>. QED
  BY <1>2, <1>6, <1>7, <1>8, <1>9, <1>10, <1>11 DEF Promise!ToClient

LEMMA RelaysInit == Init => Promise!Init
<1> SUFFICES ASSUME Init PROVE Promise!Init
  OBVIOUS
<1>1. Len(ttyLog) = 0
  BY DEF Init
<1>2. Sessions = [c \in Conns |-> "none"]
  <2>1. SessionOf("none") = "none"
    BY DEF SessionOf, Over
  <2>. QED
    BY <2>1 DEF Init, Sessions
<1>3. Arrived = [c \in Conns |-> <<>>]
  <2>1. \A c \in Conns : out[c]["fwd_send"] = <<>>
    BY DEF Init
  <2>2. ASSUME NEW c \in Conns
        PROVE  [i \in DOMAIN out[c]["fwd_send"] |-> sent[c][out[c]["fwd_send"][i]]] = <<>>
    <3> DEFINE e == [i \in 1..0 |-> sent[c][out[c]["fwd_send"][i]]]
    <3>1. DOMAIN out[c]["fwd_send"] = 1..0
      BY <2>1
    <3>2. e \in Seq({}) /\ Len(e) = 0
      OBVIOUS
    <3>3. e = <<>>
      BY <3>2, EmptySeq
    <3>. QED
      BY <3>1, <3>3
  <2>. QED
    BY <2>2 DEF Arrived
<1>. QED
  BY <1>1, <1>2, <1>3 DEF Init, Promise!Init, Got

LEMMA RelaysStep ==
  ASSUME RInv, RInv', [Next]_vars
  PROVE  [Promise!Next]_(Promise!vars)
<1>0. TypeOK
  BY DEF RInv, IInv
<1>1. CASE Environment
  <2>1. CASE Emit
    <3>1. PICK v \in Cell : ttyLog' = Append(ttyLog, v)
      BY <2>1 DEF Emit
    <3>2. Len(ttyLog') = Len(ttyLog) + 1
      BY <1>0, <3>1 DEF TypeOK
    <3>. QED
      BY <2>1, <3>2 DEF Emit, childVars, Promise!Show, Promise!Next, Sessions, Arrived, Got
  <2>2. ASSUME NEW d \in Conns, Type(d) PROVE Promise!Next
    BY <2>2, TypeRelays DEF Promise!Next
  <2>3. ASSUME TtyHangup \/ \E d \in Conns : Connect(d) \/ Hangup(d) PROVE UNCHANGED Promise!vars
    <3>1. UNCHANGED <<sent, ttyLog, out, child>>
      BY <2>3 DEF TtyHangup, Connect, Hangup, childVars
    <3>. QED
      BY <3>1, Stutters DEF Sessions
  <2>. QED
    BY <1>1, <2>1, <2>2, <2>3 DEF Environment
<1>2. CASE Parent
  <2>1. UNCHANGED <<sent, ttyLog, out>>
    BY <1>2 DEF Parent, Accept, Fork, ForkFails, ParentClose, envVars, childVars
  <2>2. CASE Fork
    <3> DEFINE d == parent.sc
    <3>1. d \in Conns => child[d] = "none"
      BY <2>2 DEF RInv, IInv, Handover, HandoverOf, Fork
    <3>2. child' = [child EXCEPT ![d] = "boot"]
      BY <2>2 DEF Fork
    <3>3. d \notin Conns => child' = child
      BY <1>0, <3>2 DEF TypeOK
    <3> HIDE DEF d
    <3>4. CASE d \in Conns
      <4>1. Sessions' = [Sessions EXCEPT ![d] = "open"] /\ Sessions[d] = "none"
        <5>1. SessionOf("boot") = "open" /\ SessionOf("none") = "none"
          BY DEF SessionOf, Over
        <5>. QED
          BY <1>0, <3>1, <3>2, <3>4, <5>1, SessionChanges DEF Sessions
      <4>. QED
        BY <2>1, <3>4, <4>1 DEF Promise!Open, Promise!Next, Arrived, Got
    <3>. QED
      BY <2>1, <3>3, <3>4, Stutters DEF Sessions
  <2>3. CASE Accept \/ ForkFails \/ ParentClose
    <3>1. child' = child
      BY <2>3 DEF Accept, ForkFails, ParentClose, childVars
    <3>. QED
      BY <2>1, <3>1, Stutters DEF Sessions
  <2>. QED
    BY <1>2, <2>2, <2>3 DEF Parent
<1>3. ASSUME NEW d \in Conns, Main(d) \/ Sigpipe(d)
      PROVE  [Promise!Next]_(Promise!vars)
  <2>1. UNCHANGED <<sent, ttyLog, out>>
    BY <1>3 DEF Main, Spawn, SpawnFails, ExitFailure, Join, Exit, Sigpipe, envVars
  <2>2. CASE Spawn(d) \/ SpawnFails(d) \/ Join(d)
    <3>1. PICK s \in {"boot2", "failing", "join", "sleep"} : child' = [child EXCEPT ![d] = s]
      BY <2>2 DEF Spawn, SpawnFails, Join
    <3>2. Sessions' = [Sessions EXCEPT ![d] = "open"] /\ Sessions[d] = "open"
      BY <1>0, <2>2, <3>1, SessionChanges DEF SessionOf, Over, Sessions, Spawn, SpawnFails, Join
    <3>3. Sessions' = Sessions
      BY <3>2 DEF Sessions
    <3>. QED
      BY <2>1, <3>3, Stutters
  <2>3. CASE ExitFailure(d) \/ Exit(d)
    <3>1. child[d] # "none" /\ child[d] \notin Over /\ \E how \in Over : Terminate(d, how)
      BY <2>3 DEF ExitFailure, Exit, Over
    <3>. QED
      BY <2>1, <3>1, TerminateRelays DEF Promise!Next
  <2>4. CASE Sigpipe(d)
    <3>1. thr[d]["fwd_receive"] \in Running /\ \E how \in Over : Terminate(d, how)
      BY <2>4 DEF Sigpipe, Over, Running
    <3>2. child[d] # "none" /\ child[d] \notin Over
      BY <3>1, AtWork
    <3>. QED
      BY <2>1, <3>1, <3>2, TerminateRelays DEF Promise!Next
  <2>. QED
    BY <1>3, <2>2, <2>3, <2>4 DEF Main
<1>4. ASSUME NEW d \in Conns, NEW t \in Thread, ThreadActs(d, t)
      PROVE  [Promise!Next]_(Promise!vars)
  <2>1. CASE WriteTakes(d, t)
    BY <2>1, UplinkRelays, DownlinkRelays DEF Promise!Next
  <2>2. CASE ~WriteTakes(d, t)
    <3>1. UNCHANGED <<sent, ttyLog, out, child>>
      BY <1>4, <2>2 DEF ThreadActs, ThreadStep, SelectReturns, ReadFails, ReadQuit, Read,
        WriteFails, SelectBadFd, WriteLost, envVars
    <3>. QED
      BY <3>1, Stutters DEF Sessions
  <2>. QED
    BY <2>1, <2>2
<1>5. CASE UNCHANGED vars
  BY <1>5, Stutters DEF vars, envVars, childVars, Sessions
<1>6. CASE Next
  <2>1. ASSUME NEW d \in Conns, Main(d) \/ WriteLost(d) \/ Sigpipe(d)
        PROVE  [Promise!Next]_(Promise!vars)
    BY <1>3, <1>4, <2>1 DEF ThreadActs
  <2>2. ASSUME NEW d \in Conns, NEW t \in Thread,
               ThreadStep(d, t) \/ WriteTakes(d, t) \/ SelectBadFd(d, t)
        PROVE  [Promise!Next]_(Promise!vars)
    BY <1>4, <2>2 DEF ThreadActs
  <2>. QED
    BY <1>1, <1>2, <1>6, <2>1, <2>2 DEF Next
<1>. QED
  BY <1>5, <1>6

\* Whatever the processes, threads and descriptors of the server do, it does what
\* Relay promises: the tty gets what each client sent, in order and from the start,
\* no two clients get the same cell, and an ended session moves nothing.
THEOREM ServerRelays == Spec => KeepsPromise
BY RelaysInit, RelaysStep, RInductive, PTL DEF Spec, KeepsPromise, Promise!Spec
=============================================================================
