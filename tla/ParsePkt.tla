------------------------------- MODULE ParsePkt -------------------------------
(***************************************************************************)
(* forward-tty/parse_pkt.c: cutting the byte stream of a server, which     *)
(* read() returns in arbitrary chunks, into packets SOI ... EOI.           *)
(***************************************************************************)
EXTENDS Integers, SequencesExt, Ascending

CONSTANTS
  SOI, EOI,
  Payload,     \* the other bytes
  MaxStream,   \* bound: bytes sent
  MaxChunk,    \* bound: what one read() returns
  MaxFrame     \* the longest packet the devices send

Byte == {SOI, EOI} \cup Payload

ASSUME ParseAssumption ==
  /\ SOI # EOI /\ SOI \notin Payload /\ EOI \notin Payload
  /\ MaxStream \in Nat /\ MaxChunk \in Nat \ {0} /\ MaxFrame \in Nat \ {0, 1}

VARIABLES
  pkt,       \* pkt.data[0 .. pkt.length-1]
  got,       \* packets handed to recv_cb
  stream,    \* ghost: all bytes parsed so far
  strayed    \* ghost: "no", or whether a byte past a chunk's end was taken for a
             \* marker ("yes") and memory beyond the buffer searched ("wild")

parseVars == <<pkt, got, stream, strayed>>

ParseTypeOK ==
  /\ pkt \in Seq(Byte)
  /\ got \in Seq(Seq(Byte))
  /\ stream \in Seq(Byte) /\ Len(stream) <= MaxStream
  /\ strayed \in {"no", "yes", "wild"}

ParseInit == pkt = <<>> /\ got = <<>> /\ stream = <<>> /\ strayed = "no"

-----------------------------------------------------------------------------
(* What the devices send. *)

Marker(b) == b \in {SOI, EOI}

\* s ends inside a packet
Open(s) ==
  LET m == SelectLastInSeq(s, Marker) IN m # 0 /\ s[m] = SOI

\* how much of the packet s ends in has been sent, repeated SOIs not counted
OpenLen(s) == Len(s) - SelectLastInSeq(s, LAMBDA b : b = SOI) + 1

\* between two packets there may be noise
LegalNext(s, b) ==
  CASE b = SOI -> ~Open(s) \/ Last(s) = SOI
    [] b = EOI -> TRUE
    [] OTHER   -> Open(s) => OpenLen(s) < MaxFrame - 1

\* s without noise
Clean(s) == \A i \in 1..Len(s) : s[i] = SOI \/ Open(SubSeq(s, 1, i - 1))

Chunks ==
  LET room == IF MaxStream - Len(stream) < MaxChunk THEN MaxStream - Len(stream) ELSE MaxChunk
  IN { s \in UNION {[1..n -> Byte] : n \in 1..room} :
         \A i \in 1..Len(s) : LegalNext(stream \o SubSeq(s, 1, i - 1), s[i]) }

-----------------------------------------------------------------------------
(* The parser. *)

\* `while (i < size && ...) i++': the first index from i on with a byte of S
Find(buff, i, S) ==
  LET j == SelectInSubSeq(buff, i, Len(buff), LAMBDA b : b \in S)
  IN IF j = 0 THEN Len(buff) + 1 ELSE j

\* the last of the SOIs that start at i
Soi_First(buff, i) == i
Soi(buff, i) == Find(buff, i, Byte \ {SOI}) - 1

\* recv_cb, then the loop goes on
Found_Once(packet, rest) == [rest EXCEPT !.out = <<packet>>]
Found(packet, rest) == [rest EXCEPT !.out = <<packet>> \o @]

\* `while (1)' of process_on_buf_empty from index i on, with p in the packet buffer:
\* the packets it hands over and what it leaves in the buffer
Turn(buff, p, i, from) ==
  LET soi == Find(buff, i, {SOI})
      eoi == Find(buff, soi, {EOI})
  IN CASE soi > Len(buff) -> [out |-> <<>>, left |-> p]
       [] soi <= Len(buff) /\ eoi > Len(buff) ->
            [out |-> <<>>, left |-> SubSeq(buff, Soi(buff, soi), Len(buff))]
       [] OTHER           -> Found(SubSeq(buff, Soi(buff, soi), eoi), from[eoi])

Scan(buff, p) ==
  LET from[i \in 1..Len(buff) + 1] == Turn(buff, p, i, from)
  IN from

BufEmpty(buff, p) == Scan(buff, p)[1]

Extend_Replaces(b) == b
Extend(b) == pkt \o b

\* buff[i] after the first loop of process_on_buf_have_data; when the chunk has no
\* marker that is the byte after it, whatever the memory holds
FirstMarker(buff) == Find(buff, 1, {SOI, EOI})

HaveData(buff) ==
  LET i    == FirstMarker(buff)
      full == Extend(SubSeq(buff, 1, i))
  IN CASE i > Len(buff) -> [out |-> <<>>, left |-> Extend(buff)]
       [] i <= Len(buff) /\ buff[i] = SOI -> BufEmpty(SubSeq(buff, i, Len(buff)), pkt)
       [] i <= Len(buff) /\ buff[i] # SOI ->
            LET r == BufEmpty(SubSeq(buff, i + 1, Len(buff)), full)
            IN [r EXCEPT !.out = <<full>> \o @]

Deliver(buff, r) ==
  /\ pkt' = r.left
  /\ got' = got \o r.out
  /\ stream' = stream \o buff

parse_pkt(buff) ==
  /\ strayed # "wild"
  /\ IF pkt = <<>> THEN Deliver(buff, BufEmpty(buff, pkt)) ELSE Deliver(buff, HaveData(buff))
  /\ UNCHANGED strayed

\* The byte after the chunk is an SOI: the chunk is ignored.  It is an EOI: the
\* chunk is handed over with it, then SIZE_MAX bytes are searched.
ParseStray(buff) ==
  /\ strayed # "wild"
  /\ pkt # <<>> /\ FirstMarker(buff) > Len(buff)
  /\ \/ /\ Deliver(buff, [out |-> <<>>, left |-> pkt])
        /\ strayed' = "yes"
     \/ /\ Deliver(buff, [out |-> <<Extend(buff) \o <<EOI>>>>, left |-> Extend(buff) \o <<EOI>>])
        /\ strayed' = "wild"

ParseNext == \E buff \in Chunks : parse_pkt(buff) \/ ParseStray(buff)

ParseSpec == ParseInit /\ [][ParseNext]_parseVars

-----------------------------------------------------------------------------
(* Properties. *)

\* the packets of s, read in one piece: from the last SOI before an EOI, and only
\* the first EOI after an SOI
Before(s, e) == SelectLastInSubSeq(s, 1, e - 1, Marker)
Ends(s) == {e \in 1..Len(s) : s[e] = EOI /\ Before(s, e) # 0 /\ s[Before(s, e)] = SOI}
Frames(s) ==
  LET end == Ascending(Ends(s))
  IN [k \in 1..Len(end) |-> SubSeq(s, Before(s, end[k]), end[k])]

\* However the stream is cut into chunks, recv_cb gets exactly its packets, each
\* whole, once and in order, as long as there is no noise and no byte beyond a
\* chunk is taken for a marker.
PacketsExact == strayed = "no" /\ Clean(stream) => got = Frames(stream)

\* With line noise between packets recv_cb may get more than the packets, but all
\* of them and in order.
PacketsNotLost ==
  strayed = "no" =>
    \E f \in [1..Len(Frames(stream)) -> 1..Len(got)] :
      /\ \A i, j \in DOMAIN f : i < j => f[i] < f[j]
      /\ \A i \in DOMAIN f : got[f[i]] = Frames(stream)[i]

\* A packet that lies within a chunk is handed over by the call that gets the
\* chunk, even if a stray byte has spoilt what came before.
PromptDelivery ==
  [][LET new(s, t) == SubSeq(t, Len(s) + 1, Len(t))
     IN IsSuffix(Frames(new(stream, stream')), new(got, got'))]_parseVars

\* Without noise, what is carried from one chunk to the next never outgrows a
\* packet, so that PKT_BUF_SIZE bytes are enough for it.
CarryFits == strayed # "wild" /\ Clean(stream) => Len(pkt) <= MaxFrame
=============================================================================
