---------------------------- MODULE Data_proofs ----------------------------
(***************************************************************************)
(* Bulk transfer for any window, any number of slots, transfers of any     *)
(* length both ways and any number of losses, cancellations and restarts:  *)
(* what is handed over whole is whole and handed over once, and, as long   *)
(* as ids come round to streams that have ended, the protocol implements   *)
(* Transfer.                                                               *)
(***************************************************************************)
EXTENDS Data, SequenceTheorems, WellFoundedInduction, TLAPS

Ids == 1..(IDS - 1)

Offer == [op : {"OFFER"}, id : Ids, arg : Transfers]
Accepted == [op : {"ACCEPT"}, id : Ids, arg : {Window}]
Acks == [op : {"ACK"}, id : Ids, arg : 0..SEQ]
Ending == [op : {"DONE", "REJECT", "ABORT"}, id : Ids, arg : Result]
Chunks == [op : {"CHUNK"}, id : Ids, x : Transfers, seq : 0..SEQ]
Msg == Offer \cup Accepted \cup Acks \cup Ending \cup Chunks

\* x is still being offered, in the table of outbound streams o
Offering(o, x) ==
  \E i \in Slot : o[From[x]][i] # Free /\ o[From[x]][i].x = x
                  /\ o[From[x]][i].state = "OFFERING"

\* What an offer and a chunk on their way to d say of their transfer: it was
\* begun by the other end, under the id ids[x].  There are no offers of a
\* transfer that was handed over, and no chunks of one still being offered.
Valid(d, ids, bg, rc, o) ==
  {m \in Msg :
     /\ m.op = "OFFER" => /\ m.arg \in bg /\ d = Peer(From[m.arg])
                          /\ m.id = ids[m.arg] /\ rc[m.arg] = <<>>
     /\ m.op = "CHUNK" => /\ m.x \in bg /\ d = Peer(From[m.x])
                          /\ m.id = ids[m.x] /\ ~Offering(o, m.x)}

\* The chunks of a transfer come after all of its offers
Fifo(q) ==
  \A k, l \in 1..Len(q) :
    k < l /\ q[k].op = "CHUNK" /\ q[l].op = "OFFER" => q[l].arg # q[k].x

ChanOK(q, ids, bg, rc, o) ==
  /\ q \in [Ends -> Seq(Msg)]
  /\ \A d \in Ends : q[d] \in Seq(Valid(d, ids, bg, rc, o)) /\ Fifo(q[d])

\* An outbound stream of e's: of a transfer begun here and not reported on
OutStreamOK(s, e, ids, bg, rp, rc) ==
  /\ s \in Outbound /\ From[s.x] = e /\ s.x \in bg
  /\ s.id = ids[s.x] /\ rp[s.x] = "NONE"
  /\ s.state = "OFFERING" => rc[s.x] = <<>>

OutOK(o, ids, bg, rp, rc) ==
  /\ o \in [Ends -> [Slot -> Outbound \cup {Free}]]
  /\ \A e \in Ends, i \in Slot :
       o[e][i] # Free =>
         /\ OutStreamOK(o[e][i], e, ids, bg, rp, rc)
         /\ \A j \in Slot : o[e][j] # Free /\ o[e][j].x = o[e][i].x => j = i

\* An inbound stream of e's: of a transfer that has not been handed over
InStreamOK(s, e, ids, bg, rc) ==
  /\ s \in Inbound /\ s.next_seq < SEQ
  /\ s.x \in bg /\ e = Peer(From[s.x]) /\ s.id = ids[s.x] /\ rc[s.x] = <<>>

InOK(n, ids, bg, rc) ==
  /\ n \in [Ends -> [Slot -> Inbound \cup {Free}]]
  /\ \A e \in Ends, i \in Slot :
       n[e][i] # Free =>
         /\ InStreamOK(n[e][i], e, ids, bg, rc)
         /\ \A j \in Slot : n[e][j] # Free /\ n[e][j].id = n[e][i].id => j = i

HistoryOK(bg, rp, rc) ==
  /\ bg \subseteq Transfers
  /\ rp \in [Transfers -> Result \cup {"NONE", "CRASHED"}]
  /\ DOMAIN rc = Transfers
  /\ \A x \in Transfers : /\ rc[x] \in {<<>>, <<Content(x)>>}
                          /\ x \notin bg => rc[x] = <<>> /\ rp[x] = "NONE"

\* The inductive invariant, for the ids the transfers were begun under
Named(ids) ==
  /\ ids \in [Transfers -> Ids]
  /\ OutOK(out, ids, begun, reported, received)
  /\ InOK(in, ids, begun, received)
  /\ ChanOK(chan, ids, begun, received, out)

IInv ==
  /\ HistoryOK(begun, reported, received)
  /\ next_id \in [Ends -> Ids]
  /\ \E ids \in [Transfers -> Ids] : Named(ids)

-----------------------------------------------------------------------------
(* The operators of the model *)

\* Each end is the other's peer
LEMMA PeerFacts ==
  ASSUME NEW e \in Ends
  PROVE  Peer(e) \in Ends /\ Peer(e) # e /\ Peer(Peer(e)) = e
         /\ Ends = {e, Peer(e)}
  <1>1. PICK a \in Ends, b \in Ends : a # b /\ Ends = {a, b}
    BY DataAssumption
  <1>2. ASSUME NEW d \in Ends
        PROVE  Peer(d) \in Ends /\ Peer(d) # d
    <2>1. \E c \in Ends : c # d
      BY <1>1
    <2>2. QED
      BY <2>1 DEF Peer
  <1>3. QED
    BY <1>1, <1>2

\* A free slot is no stream
LEMMA FreeFacts ==
  /\ Free.state = "FREE"
  /\ Free \notin Outbound /\ Free \notin Inbound
  BY DEF Free, Outbound, Inbound

\* What is found among the slots is the first of them
LEMMA FirstSlot ==
  ASSUME NEW S \in SUBSET Slot, S # {}
  PROVE  (CHOOSE i \in S : \A j \in S : i <= j) \in S
  <1>1. S \subseteq Nat
    BY DataAssumption DEF Slot
  <1>2. PICK i \in S : \A j \in S : ~(<<j, i>> \in OpToRel(<, Nat))
    BY <1>1, WFMin, NatLessThanWellFounded, Zenon
  <1>3. \A j \in S : ~(j < i)
    BY <1>1, <1>2, Zenon DEF OpToRel
  <1>4. \A j \in S : i <= j
    BY <1>1, <1>3
  <1>5. QED
    BY <1>4, Zenon

\* Slot_alloc and slot_find
LEMMA SlotFacts ==
  ASSUME NEW t, NEW id
  PROVE  /\ SlotFree(t) # 0 => SlotFree(t) \in Slot /\ t[SlotFree(t)] = Free
         /\ SlotFind(t, id) # 0 => /\ SlotFind(t, id) \in Slot
                                   /\ t[SlotFind(t, id)] # Free
                                   /\ t[SlotFind(t, id)].id = id
         /\ SlotFind(t, id) = 0 => \A i \in Slot : t[i] # Free => t[i].id # id
  <1>1. SlotFree(t) # 0 => SlotFree(t) \in Slot /\ t[SlotFree(t)] = Free
    <2> DEFINE S == {i \in Slot : t[i] = Free}
    <2>1. CASE S = {}
      BY <2>1 DEF SlotFree
    <2>2. CASE S # {}
      <3>1. (CHOOSE i \in S : \A j \in S : i <= j) \in S
        BY <2>2, FirstSlot
      <3>2. SlotFree(t) = CHOOSE i \in S : \A j \in S : i <= j
        BY <2>2, Zenon DEF SlotFree
      <3>3. QED
        BY <3>1, <3>2
    <2>3. QED
      BY <2>1, <2>2
  <1>2. /\ SlotFind(t, id) # 0 => /\ SlotFind(t, id) \in Slot
                                  /\ t[SlotFind(t, id)] # Free
                                  /\ t[SlotFind(t, id)].id = id
        /\ SlotFind(t, id) = 0 => \A i \in Slot : t[i] # Free => t[i].id # id
    <2> DEFINE S == {i \in Slot : t[i] # Free /\ t[i].id = id}
    <2>1. CASE S = {}
      BY <2>1 DEF SlotFind
    <2>2. CASE S # {}
      <3>1. (CHOOSE i \in S : \A j \in S : i <= j) \in S
        BY <2>2, FirstSlot
      <3>2. SlotFind(t, id) = CHOOSE i \in S : \A j \in S : i <= j
        BY <2>2, Zenon DEF SlotFind
      <3>3. SlotFind(t, id) \in S
        BY <3>1, <3>2
      <3>4. SlotFind(t, id) # 0
        BY <3>3, DataAssumption DEF Slot
      <3>5. QED
        BY <3>3, <3>4
    <2>3. QED
      BY <2>1, <2>2
  <1>3. QED
    BY <1>1, <1>2

\* The count of chunks fits its 16 bits, because it is cut down to them
LEMMA ChunksForType ==
  ASSUME NEW x \in Transfers
  PROVE  ChunksFor(x) \in 0..(SEQ - 1)
  <1>1. Bytes[x] \in Nat \ {0} /\ ChunkBytes \in Nat \ {0} /\ SEQ \in Nat \ {0}
    BY DataAssumption
  <1>2. (Bytes[x] + ChunkBytes - 1) \div ChunkBytes \in Nat
    BY <1>1
  <1>3. QED
    BY <1>1, <1>2 DEF ChunksFor

\* There is at least one chunk to check
LEMMA ContentLen ==
  ASSUME NEW x \in Transfers
  PROVE  /\ Content(x) \in Seq(Transfers)
         /\ Len(Content(x)) \in Nat \ {0}
         /\ Content(x)[Len(Content(x))] = x
  <1> DEFINE n == (Bytes[x] + ChunkBytes - 1) \div ChunkBytes
  <1>1. Bytes[x] \in Nat \ {0} /\ ChunkBytes \in Nat \ {0}
    BY DataAssumption
  <1>2. n \in Nat /\ n >= 1
    BY <1>1
  <1>3. Content(x) = [i \in 1..n |-> x]
    BY DEF Content
  <1> HIDE DEF n
  <1>4. QED
    BY <1>2, <1>3

\* The next id is an id
LEMMA NextIdType ==
  ASSUME NEW id \in Ids
  PROVE  NextId(id) \in Ids
  BY DataAssumption DEF NextId, Ids

\* Frames by their opcode
LEMMA MsgKinds ==
  ASSUME NEW m \in Msg
  PROVE  /\ m.op \in {"OFFER", "ACCEPT", "ACK", "DONE", "REJECT", "ABORT", "CHUNK"}
         /\ m.id \in Ids
         /\ m.op = "OFFER" => m \in Offer
         /\ m.op = "ACK" => m \in Acks
         /\ m.op \in {"DONE", "REJECT", "ABORT"} => m \in Ending
         /\ m.op = "CHUNK" => m \in Chunks
  BY DEF Msg, Offer, Accepted, Acks, Ending, Chunks

\* the frames that say nothing about a transfer
LEMMA PlainMsg ==
  ASSUME NEW id \in Ids
  PROVE  /\ Op("ACCEPT", id, Window) \in Msg
         /\ \A n \in 0..SEQ : Op("ACK", id, n) \in Msg
         /\ \A r \in Result : /\ Op("DONE", id, r) \in Msg
                              /\ Op("REJECT", id, r) \in Msg
                              /\ Op("ABORT", id, r) \in Msg
         /\ \A x \in Transfers : Op("OFFER", id, x) \in Msg
  <1>1. Op("ACCEPT", id, Window) \in Accepted
    BY DEF Op, Accepted
  <1>2. \A n \in 0..SEQ : Op("ACK", id, n) \in Acks
    BY DEF Op, Acks
  <1>3. \A r \in Result : /\ Op("DONE", id, r) \in Ending
                          /\ Op("REJECT", id, r) \in Ending
                          /\ Op("ABORT", id, r) \in Ending
    BY DEF Op, Ending
  <1>4. \A x \in Transfers : Op("OFFER", id, x) \in Offer
    BY DEF Op, Offer
  <1>5. QED
    BY <1>1, <1>2, <1>3, <1>4 DEF Msg

\* Pump_sender: chunks of this stream, in the sender's numbers
LEMMA PumpOK ==
  ASSUME NEW s \in Outbound
  PROVE  LET p == Pump(s) IN
         /\ p.stream \in Outbound /\ p.stream.id = s.id /\ p.stream.x = s.x
         /\ p.stream.state # "OFFERING"
         /\ p.msgs \in Seq({m \in Chunks : m.id = s.id /\ m.x = s.x})
  <1> DEFINE end == ChunksFor(s.x)
             limit == IF WindowLimit(s) < end THEN WindowLimit(s) ELSE end
             to == IF limit > s.next_seq THEN limit ELSE s.next_seq
             n == to - s.next_seq
             C == {m \in Chunks : m.id = s.id /\ m.x = s.x}
             ms == [k \in 1..n |-> Chunk(s.id, s.x, s.next_seq + k - 1)]
             t == [s EXCEPT !.next_seq = to,
                            !.state = IF to >= end THEN "DRAINING" ELSE "SENDING"]
  <1>1. /\ s.x \in Transfers /\ s.next_seq \in 0..SEQ /\ s.acked \in 0..SEQ
        /\ s.id \in Ids
    BY DEF Outbound, Ids
  <1>2. end \in 0..(SEQ - 1) /\ Window \in Nat \ {0} /\ SEQ \in Nat \ {0}
    BY <1>1, ChunksForType, DataAssumption
  <1>3. WindowLimit(s) \in Nat
    BY <1>1, <1>2 DEF WindowLimit
  <1>4. to \in 0..SEQ /\ n \in Nat
    <2> HIDE DEF end
    <2>1. QED
      BY <1>1, <1>2, <1>3
  <1>5. Pump(s).stream = t /\ Pump(s).msgs = ms
    BY DEF Pump
  <1>6. /\ t \in Outbound /\ t.id = s.id /\ t.x = s.x /\ t.state # "OFFERING"
    <2> HIDE DEF to, end
    <2>1. QED
      BY <1>4 DEF Outbound
  <1>7. ms \in Seq(C)
    <2>1. ASSUME NEW k \in 1..n
          PROVE  Chunk(s.id, s.x, s.next_seq + k - 1) \in C
      <3>1. s.next_seq + k - 1 \in 0..SEQ
        <4> HIDE DEF to
        <4>1. QED
          BY <1>1, <1>2, <1>4
      <3>2. QED
        BY <1>1, <3>1 DEF Chunk, Chunks
    <2> HIDE DEF n, C
    <2>2. QED
      BY <1>4, <2>1
  <1>8. QED
    BY <1>5, <1>6, <1>7

\* Op_ack: the stream stays the same stream
LEMMA AckedOK ==
  ASSUME NEW s \in Outbound, NEW n \in 0..SEQ
  PROVE  LET t == Acked(s, n) IN
         t \in Outbound /\ t.id = s.id /\ t.x = s.x
  BY DEF Acked, Rewinds, Outbound, NoRewind

-----------------------------------------------------------------------------
(* Channels *)

\* What is valid stays valid when more is begun and less is being offered
LEMMA ValidGrows ==
  ASSUME NEW d, NEW ids, NEW bg, NEW rc, NEW o, NEW idt, NEW bh, NEW p,
         bg \subseteq bh, \A x \in bg : idt[x] = ids[x],
         \A x \in bg : Offering(p, x) => Offering(o, x)
  PROVE  Valid(d, ids, bg, rc, o) \subseteq Valid(d, idt, bh, rc, p)
  BY DEF Valid

\* so channels keep their order and sense
LEMMA ChanGrows ==
  ASSUME NEW q, NEW ids, NEW bg, NEW rc, NEW o, NEW idt, NEW bh, NEW p,
         bg \subseteq bh, \A x \in bg : idt[x] = ids[x],
         \A x \in bg : Offering(p, x) => Offering(o, x),
         ChanOK(q, ids, bg, rc, o)
  PROVE  ChanOK(q, idt, bh, rc, p)
  <1>1. ASSUME NEW d \in Ends
        PROVE  q[d] \in Seq(Valid(d, idt, bh, rc, p))
    <2>1. q[d] \in Seq(Valid(d, ids, bg, rc, o))
      BY DEF ChanOK
    <2>2. Valid(d, ids, bg, rc, o) \subseteq Valid(d, idt, bh, rc, p)
      BY ValidGrows
    <2>3. QED
      BY <2>1, <2>2, SeqMonotonic
  <1>2. QED
    BY <1>1 DEF ChanOK

\* The head of a channel, and what is behind it
LEMMA HeadOK ==
  ASSUME NEW q, NEW ids, NEW bg, NEW rc, NEW o, ChanOK(q, ids, bg, rc, o),
         NEW d \in Ends, q[d] # <<>>
  PROVE  /\ Head(q[d]) \in Valid(d, ids, bg, rc, o) /\ Head(q[d]) \in Msg
         /\ Tail(q[d]) \in Seq(Valid(d, ids, bg, rc, o)) /\ Fifo(Tail(q[d]))
         /\ Tail(q[d]) \in Seq(Msg)
         /\ Head(q[d]).op = "CHUNK" =>
              \A k \in 1..Len(Tail(q[d])) :
                Tail(q[d])[k].op = "OFFER" => Tail(q[d])[k].arg # Head(q[d]).x
  <1>1. q[d] \in Seq(Valid(d, ids, bg, rc, o)) /\ q[d] \in Seq(Msg) /\ Fifo(q[d])
    BY DEF ChanOK
  <1>2. /\ Head(q[d]) \in Valid(d, ids, bg, rc, o)
        /\ Tail(q[d]) \in Seq(Valid(d, ids, bg, rc, o))
        /\ Tail(q[d]) \in Seq(Msg) /\ Head(q[d]) \in Msg
        /\ Len(Tail(q[d])) = Len(q[d]) - 1
        /\ \A i \in 1..Len(Tail(q[d])) : Tail(q[d])[i] = q[d][i + 1]
    BY <1>1, HeadTailProperties
  <1>3. Len(q[d]) \in Nat \ {0} /\ Head(q[d]) = q[d][1]
    BY <1>1
  <1>4. Fifo(Tail(q[d]))
    <2>1. ASSUME NEW k \in 1..Len(Tail(q[d])), NEW l \in 1..Len(Tail(q[d])), k < l
          PROVE  /\ k + 1 \in 1..Len(q[d]) /\ l + 1 \in 1..Len(q[d]) /\ k + 1 < l + 1
                 /\ Tail(q[d])[k] = q[d][k + 1] /\ Tail(q[d])[l] = q[d][l + 1]
      BY <1>2, <1>3, <2>1
    <2>2. QED
      BY <1>1, <2>1 DEF Fifo
  <1>5. ASSUME NEW k \in 1..Len(Tail(q[d])), Head(q[d]).op = "CHUNK",
               Tail(q[d])[k].op = "OFFER"
        PROVE  Tail(q[d])[k].arg # Head(q[d]).x
    <2>1. /\ k + 1 \in 1..Len(q[d]) /\ 1 \in 1..Len(q[d]) /\ 1 < k + 1
          /\ Tail(q[d])[k] = q[d][k + 1]
      BY <1>2, <1>3
    <2>2. QED
      BY <1>1, <1>3, <1>5, <2>1 DEF Fifo
  <1>6. QED
    BY <1>2, <1>4, <1>5

\* frames appended that offer nothing, or nothing of which a chunk is queued
LEMMA FifoAppend ==
  ASSUME NEW q \in Seq(Msg), NEW ms \in Seq(Msg), Fifo(q), Fifo(ms),
         \A k \in 1..Len(q), l \in 1..Len(ms) :
           q[k].op = "CHUNK" /\ ms[l].op = "OFFER" => ms[l].arg # q[k].x
  PROVE  Fifo(q \o ms)
  <1>1. /\ Len(q \o ms) = Len(q) + Len(ms) /\ Len(q) \in Nat /\ Len(ms) \in Nat
        /\ \A i \in 1..(Len(q) + Len(ms)) :
             (q \o ms)[i] = IF i <= Len(q) THEN q[i] ELSE ms[i - Len(q)]
    BY ConcatProperties, LenProperties
  <1> SUFFICES ASSUME NEW k \in 1..Len(q \o ms), NEW l \in 1..Len(q \o ms), k < l,
                      (q \o ms)[k].op = "CHUNK", (q \o ms)[l].op = "OFFER"
               PROVE  (q \o ms)[l].arg # (q \o ms)[k].x
    BY DEF Fifo
  <1>2. CASE l <= Len(q)
    <2>1. /\ k \in 1..Len(q) /\ l \in 1..Len(q)
          /\ (q \o ms)[k] = q[k] /\ (q \o ms)[l] = q[l]
      BY <1>1, <1>2
    <2>2. QED
      BY <2>1 DEF Fifo
  <1>3. CASE k <= Len(q) /\ ~(l <= Len(q))
    <2>1. /\ k \in 1..Len(q) /\ l - Len(q) \in 1..Len(ms)
          /\ (q \o ms)[k] = q[k] /\ (q \o ms)[l] = ms[l - Len(q)]
      BY <1>1, <1>3
    <2>2. QED
      BY <2>1
  <1>4. CASE ~(k <= Len(q)) /\ ~(l <= Len(q))
    <2>1. /\ k - Len(q) \in 1..Len(ms) /\ l - Len(q) \in 1..Len(ms)
          /\ k - Len(q) < l - Len(q)
          /\ (q \o ms)[k] = ms[k - Len(q)] /\ (q \o ms)[l] = ms[l - Len(q)]
      BY <1>1, <1>4
    <2>2. QED
      BY <2>1 DEF Fifo
  <1>5. QED
    BY <1>1, <1>2, <1>3, <1>4

\* what an end may send that is no offer
Answer(d, ids, bg, rc, o) == {m \in Valid(d, ids, bg, rc, o) : m.op # "OFFER"}

\* Frames that are not about a transfer are answers
LEMMA PlainAnswer ==
  ASSUME NEW d, NEW ids, NEW bg, NEW rc, NEW o, NEW m \in Msg,
         m.op \notin {"OFFER", "CHUNK"}
  PROVE  m \in Answer(d, ids, bg, rc, o)
  BY DEF Answer, Valid

\* The chunks of a stream that has left the offering state are too
LEMMA ChunkAnswer ==
  ASSUME NEW d, NEW ids, NEW bg, NEW rc, NEW o, NEW id, NEW x,
         x \in bg, d = Peer(From[x]), id = ids[x], ~Offering(o, x)
  PROVE  {m \in Chunks : m.id = id /\ m.x = x} \subseteq Answer(d, ids, bg, rc, o)
  <1>1. ASSUME NEW m \in Chunks, m.id = id, m.x = x
        PROVE  m \in Msg /\ m.op = "CHUNK"
    BY DEF Msg, Chunks
  <1>2. QED
    BY <1>1 DEF Answer, Valid

\* One answer is a sequence of answers
LEMMA OneAnswer ==
  ASSUME NEW S, NEW m \in S
  PROVE  <<m>> \in Seq(S)
  OBVIOUS

\* Appended to a channel
LEMMA SayOK ==
  ASSUME NEW q, NEW ids, NEW bg, NEW rc, NEW o, ChanOK(q, ids, bg, rc, o),
         NEW d \in Ends, NEW ms \in Seq(Valid(d, ids, bg, rc, o)),
         Fifo(q[d] \o ms)
  PROVE  ChanOK([q EXCEPT ![d] = @ \o ms], ids, bg, rc, o)
  <1> DEFINE V == Valid(d, ids, bg, rc, o)
  <1>1. q \in [Ends -> Seq(Msg)] /\ q[d] \in Seq(V)
    BY DEF ChanOK
  <1>2. V \subseteq Msg
    BY DEF Valid
  <1> HIDE DEF V
  <1>3. q[d] \o ms \in Seq(V)
    BY <1>1, ConcatProperties DEF V
  <1>4. q[d] \o ms \in Seq(Msg)
    BY <1>2, <1>3, SeqMonotonic
  <1>5. QED
    BY <1>1, <1>3, <1>4 DEF ChanOK, V

\* Answers appended
LEMMA AnswerOK ==
  ASSUME NEW q, NEW ids, NEW bg, NEW rc, NEW o, ChanOK(q, ids, bg, rc, o),
         NEW d \in Ends, NEW ms \in Seq(Answer(d, ids, bg, rc, o))
  PROVE  ChanOK([q EXCEPT ![d] = @ \o ms], ids, bg, rc, o)
  <1>1. /\ Answer(d, ids, bg, rc, o) \subseteq Valid(d, ids, bg, rc, o)
        /\ Answer(d, ids, bg, rc, o) \subseteq Msg
    BY DEF Answer, Valid
  <1>2. ms \in Seq(Valid(d, ids, bg, rc, o)) /\ ms \in Seq(Msg)
    BY <1>1, SeqMonotonic
  <1>3. \A l \in 1..Len(ms) : ms[l] \in Answer(d, ids, bg, rc, o)
    BY ElementOfSeq
  <1>4. \A l \in 1..Len(ms) : ms[l].op # "OFFER"
    BY <1>3 DEF Answer
  <1>5. Fifo(ms)
    BY <1>4 DEF Fifo
  <1>6. Fifo(q[d] \o ms)
    BY <1>2, <1>4, <1>5, FifoAppend DEF ChanOK
  <1>7. QED
    BY <1>2, <1>6, SayOK

\* The head taken off a channel
LEMMA PopOK ==
  ASSUME NEW q, NEW ids, NEW bg, NEW rc, NEW o, ChanOK(q, ids, bg, rc, o),
         NEW d \in Ends, q[d] # <<>>
  PROVE  ChanOK([q EXCEPT ![d] = Tail(@)], ids, bg, rc, o)
  <1>1. q \in [Ends -> Seq(Msg)]
    BY DEF ChanOK
  <1>2. Tail(q[d]) \in Seq(Valid(d, ids, bg, rc, o)) /\ Fifo(Tail(q[d]))
        /\ Tail(q[d]) \in Seq(Msg)
    BY HeadOK
  <1>3. QED
    BY <1>1, <1>2 DEF ChanOK

\* A frame read and answered
LEMMA ReplyOK ==
  ASSUME NEW ids, NEW bg, NEW rc, NEW o, ChanOK(chan, ids, bg, rc, o),
         NEW e \in Ends, chan[e] # <<>>,
         NEW ms \in Seq(Answer(Peer(e), ids, bg, rc, o))
  PROVE  ChanOK(Reply(e, ms), ids, bg, rc, o)
  <1> DEFINE q == [chan EXCEPT ![e] = Tail(@)]
  <1>1. ChanOK(q, ids, bg, rc, o)
    BY PopOK
  <1>2. Peer(e) \in Ends /\ Peer(e) # e
    BY PeerFacts
  <1>3. Reply(e, ms) = [q EXCEPT ![Peer(e)] = @ \o ms]
    <2>1. chan \in [Ends -> Seq(Msg)]
      BY DEF ChanOK
    <2>2. q[Peer(e)] = chan[Peer(e)]
      BY <1>2, <2>1
    <2>3. QED
      BY <2>2 DEF Reply
  <1> HIDE DEF q
  <1>4. ChanOK([q EXCEPT ![Peer(e)] = @ \o ms], ids, bg, rc, o)
    BY <1>1, <1>2, AnswerOK
  <1>5. QED
    BY <1>3, <1>4

\* and read without an answer
LEMMA ReadOK ==
  ASSUME NEW ids, NEW bg, NEW rc, NEW o, ChanOK(chan, ids, bg, rc, o),
         NEW e \in Ends, chan[e] # <<>>
  PROVE  ChanOK(Reply(e, <<>>), ids, bg, rc, o)
  BY ReplyOK, EmptySeq

-----------------------------------------------------------------------------
(* Streams *)

\* An outbound stream that moves on
LEMMA ReplaceOut ==
  ASSUME NEW o, NEW ids, NEW bg, NEW rp, NEW rc, OutOK(o, ids, bg, rp, rc),
         NEW e \in Ends, NEW i \in Slot, o[e][i] # Free,
         NEW s \in Outbound, s.id = o[e][i].id, s.x = o[e][i].x,
         s.state = "OFFERING" => o[e][i].state = "OFFERING"
  PROVE  LET p == [o EXCEPT ![e][i] = s] IN
         /\ OutOK(p, ids, bg, rp, rc)
         /\ \A x \in Transfers : Offering(p, x) => Offering(o, x)
         /\ s.state # "OFFERING" => ~Offering(p, s.x)
  <1> DEFINE p == [o EXCEPT ![e][i] = s]
  <1>1. o \in [Ends -> [Slot -> Outbound \cup {Free}]]
    BY DEF OutOK
  <1>2. p \in [Ends -> [Slot -> Outbound \cup {Free}]] /\ p[e][i] = s
    BY <1>1
  <1>3. \A d \in Ends, j \in Slot : ~(d = e /\ j = i) => p[d][j] = o[d][j]
    BY <1>1
  <1>4. s # Free
    BY FreeFacts
  <1> HIDE DEF p
  <1>5. OutStreamOK(s, e, ids, bg, rp, rc)
    <2>1. OutStreamOK(o[e][i], e, ids, bg, rp, rc)
      BY DEF OutOK
    <2>2. QED
      BY <2>1 DEF OutStreamOK
  <1>6. ASSUME NEW d \in Ends, NEW j \in Slot, p[d][j] # Free
        PROVE  /\ OutStreamOK(p[d][j], d, ids, bg, rp, rc)
               /\ \A k \in Slot : p[d][k] # Free /\ p[d][k].x = p[d][j].x => k = j
               /\ o[d][j] # Free /\ o[d][j].x = p[d][j].x
               /\ p[d][j].state = "OFFERING" => o[d][j].state = "OFFERING"
    <2>1. \A k \in Slot : p[d][k] # Free => o[d][k] # Free /\ o[d][k].x = p[d][k].x
      BY <1>2, <1>3
    <2>2. \A k \in Slot : p[d][k] # Free /\ p[d][k].x = p[d][j].x => k = j
      BY <1>6, <2>1 DEF OutOK
    <2>3. OutStreamOK(p[d][j], d, ids, bg, rp, rc)
      BY <1>2, <1>3, <1>5, <1>6 DEF OutOK
    <2>4. QED
      BY <1>2, <1>3, <1>6, <2>1, <2>2, <2>3
  <1>7. OutOK(p, ids, bg, rp, rc)
    BY <1>2, <1>6 DEF OutOK
  <1>8. ASSUME NEW x \in Transfers, Offering(p, x)
        PROVE  Offering(o, x)
    <2>1. PICK j \in Slot : p[From[x]][j] # Free /\ p[From[x]][j].x = x
                            /\ p[From[x]][j].state = "OFFERING"
      BY <1>8 DEF Offering
    <2>2. From[x] \in Ends
      BY DataAssumption
    <2>3. QED
      BY <1>6, <2>1, <2>2 DEF Offering
  <1>9. ASSUME s.state # "OFFERING"
        PROVE  ~Offering(p, s.x)
    <2>1. From[s.x] = e
      BY <1>5 DEF OutStreamOK
    <2>2. QED
      BY <1>2, <1>4, <1>6, <1>9, <2>1 DEF Offering
  <1>10. QED
    BY <1>7, <1>8, <1>9 DEF p

\* Finish(), of an outbound stream
LEMMA FreeOut ==
  ASSUME NEW o, NEW ids, NEW bg, NEW rp, NEW rc, OutOK(o, ids, bg, rp, rc),
         NEW e \in Ends, NEW i \in Slot, o[e][i] # Free, NEW r,
         DOMAIN rp = Transfers
  PROVE  LET p == [o EXCEPT ![e][i] = Free] IN
         /\ OutOK(p, ids, bg, [rp EXCEPT ![o[e][i].x] = r], rc)
         /\ \A x \in Transfers : Offering(p, x) => Offering(o, x)
  <1> DEFINE p == [o EXCEPT ![e][i] = Free]
             rq == [rp EXCEPT ![o[e][i].x] = r]
  <1>1. o \in [Ends -> [Slot -> Outbound \cup {Free}]]
    BY DEF OutOK
  <1>2. p \in [Ends -> [Slot -> Outbound \cup {Free}]] /\ p[e][i] = Free
    BY <1>1
  <1>3. \A d \in Ends, j \in Slot : ~(d = e /\ j = i) => p[d][j] = o[d][j]
    BY <1>1
  <1> HIDE DEF p
  <1>4. ASSUME NEW d \in Ends, NEW j \in Slot, p[d][j] # Free
        PROVE  /\ p[d][j] = o[d][j]
               /\ OutStreamOK(p[d][j], d, ids, bg, rq, rc)
               /\ \A k \in Slot : p[d][k] # Free /\ p[d][k].x = p[d][j].x => k = j
    <2>1. p[d][j] = o[d][j] /\ ~(d = e /\ j = i)
      BY <1>2, <1>3, <1>4
    <2>2. /\ OutStreamOK(o[d][j], d, ids, bg, rp, rc)
          /\ OutStreamOK(o[e][i], e, ids, bg, rp, rc)
      BY <1>4, <2>1 DEF OutOK
    <2>3. o[d][j].x # o[e][i].x
      BY <1>4, <2>1, <2>2 DEF OutOK, OutStreamOK
    <2>4. rq[o[d][j].x] = rp[o[d][j].x]
      BY <2>2, <2>3 DEF OutStreamOK, Outbound
    <2>5. OutStreamOK(p[d][j], d, ids, bg, rq, rc)
      <3> HIDE DEF rq
      <3>1. QED
        BY <2>1, <2>2, <2>4 DEF OutStreamOK
    <2>6. \A k \in Slot : p[d][k] # Free => o[d][k] = p[d][k]
      BY <1>2, <1>3
    <2>7. \A k \in Slot : p[d][k] # Free /\ p[d][k].x = p[d][j].x => k = j
      BY <1>4, <2>1, <2>6 DEF OutOK
    <2>8. QED
      BY <2>1, <2>5, <2>7
  <1>5. OutOK(p, ids, bg, rq, rc)
    <2> HIDE DEF rq
    <2>1. QED
      BY <1>2, <1>4 DEF OutOK
  <1>6. ASSUME NEW x \in Transfers, Offering(p, x)
        PROVE  Offering(o, x)
    <2>1. From[x] \in Ends
      BY DataAssumption
    <2>2. QED
      BY <1>4, <1>6, <2>1 DEF Offering
  <1>7. QED
    BY <1>5, <1>6 DEF p

\* An inbound stream that moves on
LEMMA ReplaceIn ==
  ASSUME NEW n, NEW ids, NEW bg, NEW rc, InOK(n, ids, bg, rc),
         NEW e \in Ends, NEW i \in Slot, n[e][i] # Free,
         NEW s \in Inbound, s.id = n[e][i].id, s.x = n[e][i].x, s.next_seq < SEQ
  PROVE  InOK([n EXCEPT ![e][i] = s], ids, bg, rc)
  <1> DEFINE p == [n EXCEPT ![e][i] = s]
  <1>1. n \in [Ends -> [Slot -> Inbound \cup {Free}]]
    BY DEF InOK
  <1>2. p \in [Ends -> [Slot -> Inbound \cup {Free}]] /\ p[e][i] = s
    BY <1>1
  <1>3. \A d \in Ends, j \in Slot : ~(d = e /\ j = i) => p[d][j] = n[d][j]
    BY <1>1
  <1> HIDE DEF p
  <1>4. InStreamOK(s, e, ids, bg, rc)
    <2>1. InStreamOK(n[e][i], e, ids, bg, rc)
      BY DEF InOK
    <2>2. QED
      BY <2>1 DEF InStreamOK
  <1>5. \A d \in Ends, j \in Slot :
          p[d][j] # Free => n[d][j] # Free /\ n[d][j].id = p[d][j].id
    BY <1>2, <1>3
  <1>6. ASSUME NEW d \in Ends, NEW j \in Slot, p[d][j] # Free
        PROVE  /\ InStreamOK(p[d][j], d, ids, bg, rc)
               /\ \A k \in Slot : p[d][k] # Free /\ p[d][k].id = p[d][j].id => k = j
    <2>1. \A k \in Slot : p[d][k] # Free /\ p[d][k].id = p[d][j].id => k = j
      BY <1>5, <1>6 DEF InOK
    <2>2. InStreamOK(p[d][j], d, ids, bg, rc)
      BY <1>2, <1>3, <1>4, <1>6 DEF InOK
    <2>3. QED
      BY <2>1, <2>2
  <1>7. QED
    BY <1>2, <1>6 DEF InOK, p

\* an inbound stream for an offer whose id is not in the table
LEMMA AddIn ==
  ASSUME NEW n, NEW ids, NEW bg, NEW rc, InOK(n, ids, bg, rc),
         NEW e \in Ends, NEW i \in Slot, NEW s, InStreamOK(s, e, ids, bg, rc),
         \A j \in Slot : n[e][j] # Free => n[e][j].id # s.id
  PROVE  InOK([n EXCEPT ![e][i] = s], ids, bg, rc)
  <1> DEFINE p == [n EXCEPT ![e][i] = s]
  <1>1. n \in [Ends -> [Slot -> Inbound \cup {Free}]] /\ s \in Inbound
    BY DEF InOK, InStreamOK
  <1>2. p \in [Ends -> [Slot -> Inbound \cup {Free}]] /\ p[e][i] = s
    BY <1>1
  <1>3. \A d \in Ends, j \in Slot : ~(d = e /\ j = i) => p[d][j] = n[d][j]
    BY <1>1
  <1> HIDE DEF p
  <1>4. ASSUME NEW d \in Ends, NEW j \in Slot, p[d][j] # Free
        PROVE  /\ InStreamOK(p[d][j], d, ids, bg, rc)
               /\ \A k \in Slot : p[d][k] # Free /\ p[d][k].id = p[d][j].id => k = j
    <2>1. InStreamOK(p[d][j], d, ids, bg, rc)
      BY <1>2, <1>3, <1>4 DEF InOK
    <2>2. ASSUME NEW k \in Slot, p[d][k] # Free, p[d][k].id = p[d][j].id
          PROVE  k = j
      <3>1. CASE d = e /\ (j = i \/ k = i)
        BY <1>2, <1>3, <1>4, <2>2, <3>1
      <3>2. CASE ~(d = e /\ (j = i \/ k = i))
        <4>1. p[d][j] = n[d][j] /\ p[d][k] = n[d][k]
          BY <1>3, <3>2
        <4>2. QED
          BY <1>4, <2>2, <4>1 DEF InOK
      <3>3. QED
        BY <3>1, <3>2
    <2>3. QED
      BY <2>1, <2>2
  <1>5. QED
    BY <1>2, <1>4 DEF InOK, p

\* and one that is cleared
LEMMA FreeIn ==
  ASSUME NEW n, NEW ids, NEW bg, NEW rc, InOK(n, ids, bg, rc),
         NEW e \in Ends, NEW i \in Slot
  PROVE  InOK([n EXCEPT ![e][i] = Free], ids, bg, rc)
  <1> DEFINE p == [n EXCEPT ![e][i] = Free]
  <1>1. n \in [Ends -> [Slot -> Inbound \cup {Free}]]
    BY DEF InOK
  <1>2. p \in [Ends -> [Slot -> Inbound \cup {Free}]] /\ p[e][i] = Free
    BY <1>1
  <1>3. \A d \in Ends, j \in Slot : ~(d = e /\ j = i) => p[d][j] = n[d][j]
    BY <1>1
  <1> HIDE DEF p
  <1>4. \A d \in Ends, j \in Slot : p[d][j] # Free => p[d][j] = n[d][j]
    BY <1>2, <1>3
  <1>5. QED
    BY <1>2, <1>4 DEF InOK, p

-----------------------------------------------------------------------------
(* The actions *)

\* what each action starts from
Sound(ids) ==
  /\ HistoryOK(begun, reported, received)
  /\ next_id \in [Ends -> Ids]
  /\ Named(ids)

\* The invariant holds initially, and below is kept by each action
LEMMA InitOK == Init => IInv
  <1> SUFFICES ASSUME Init PROVE IInv
    OBVIOUS
  <1>1. 1 \in Ids
    BY DataAssumption DEF Ids
  <1>2. HistoryOK(begun, reported, received)
    BY DEF Init, HistoryOK
  <1>3. next_id \in [Ends -> Ids]
    BY <1>1 DEF Init
  <1> DEFINE ids == [x \in Transfers |-> 1]
  <1>4. ids \in [Transfers -> Ids]
    BY <1>1
  <1> HIDE DEF ids
  <1>5. OutOK(out, ids, begun, reported, received)
    BY DEF Init, OutOK
  <1>6. InOK(in, ids, begun, received)
    BY DEF Init, InOK
  <1>7. ChanOK(chan, ids, begun, received, out)
    BY EmptySeq DEF Init, ChanOK, Fifo
  <1>8. QED
    BY <1>2, <1>3, <1>4, <1>5, <1>6, <1>7 DEF IInv, Named

\* Dhp_data_send takes a slot for a transfer of which nobody has heard
LEMMA AddOut ==
  ASSUME NEW ids, Sound(ids), NEW e \in Ends, NEW x \in Transfers, Send(e, x),
         NEW idt, idt = [ids EXCEPT ![x] = next_id[e]]
  PROVE  /\ OutOK(out', idt, begun \cup {x}, reported, received)
         /\ \A y \in Transfers \ {x} : Offering(out', y) => Offering(out, y)
  <1> DEFINE i == SlotFree(out[e])
             s == [state |-> "OFFERING", id |-> next_id[e], x |-> x,
                   next_seq |-> 0, acked |-> 0, rewound_to |-> NoRewind,
                   retries |-> 0]
             bh == begun \cup {x}
  <1>0. /\ From[x] = e /\ x \notin begun /\ i \in Slot
        /\ out' = [out EXCEPT ![e][i] = s]
        /\ ids \in [Transfers -> Ids]
        /\ received[x] = <<>> /\ reported[x] = "NONE"
    BY SlotFacts DEF Send, Sound, Named, HistoryOK
  <1>1. /\ OutOK(out, ids, begun, reported, received)
        /\ out \in [Ends -> [Slot -> Outbound \cup {Free}]]
    BY DEF Sound, Named, OutOK
  <1>2. s \in Outbound /\ s.x = x /\ s.id \in Ids /\ s.id = next_id[e]
    BY DataAssumption DEF Outbound, Ids, Sound
  <1> HIDE DEF i, s
  <1>3. /\ out' \in [Ends -> [Slot -> Outbound \cup {Free}]] /\ out'[e][i] = s
        /\ \A d \in Ends, j \in Slot : ~(d = e /\ j = i) => out'[d][j] = out[d][j]
    BY <1>0, <1>1, <1>2
  <1>4. idt[s.x] = s.id /\ \A y \in Transfers : y # s.x => idt[y] = ids[y]
    BY <1>0, <1>2
  <1>5. OutStreamOK(s, e, idt, bh, reported, received)
    BY <1>0, <1>2, <1>4 DEF OutStreamOK
  <1>6. ASSUME NEW d \in Ends, NEW j \in Slot, ~(d = e /\ j = i), out'[d][j] # Free
        PROVE  /\ out'[d][j] = out[d][j] /\ out'[d][j].x # s.x /\ out'[d][j].x \in Transfers
               /\ OutStreamOK(out'[d][j], d, idt, bh, reported, received)
    <2>1. out'[d][j] = out[d][j] /\ OutStreamOK(out[d][j], d, ids, begun, reported, received)
      BY <1>1, <1>3, <1>6 DEF OutOK
    <2>2. out[d][j].x # s.x /\ out[d][j].x \in Transfers
      BY <1>0, <1>2, <2>1 DEF OutStreamOK, Outbound
    <2>3. QED
      BY <1>2, <1>4, <2>1, <2>2 DEF OutStreamOK
  <1>7. ASSUME NEW d \in Ends, NEW j \in Slot, out'[d][j] # Free
        PROVE  /\ OutStreamOK(out'[d][j], d, idt, bh, reported, received)
               /\ \A k \in Slot : out'[d][k] # Free /\ out'[d][k].x = out'[d][j].x => k = j
    <2>1. OutStreamOK(out'[d][j], d, idt, bh, reported, received)
      BY <1>3, <1>5, <1>6, <1>7
    <2>2. ASSUME NEW k \in Slot, out'[d][k] # Free, out'[d][k].x = out'[d][j].x
          PROVE  k = j
      <3>1. CASE d = e /\ (j = i \/ k = i)
        BY <1>2, <1>3, <1>6, <1>7, <2>2, <3>1
      <3>2. CASE ~(d = e /\ (j = i \/ k = i))
        <4>1. out'[d][j] = out[d][j] /\ out'[d][k] = out[d][k]
          BY <1>3, <3>2
        <4>2. QED
          BY <1>1, <1>7, <2>2, <4>1 DEF OutOK
      <3>3. QED
        BY <3>1, <3>2
    <2>3. QED
      BY <2>1, <2>2
  <1>8. OutOK(out', idt, bh, reported, received)
    <2> HIDE DEF bh
    <2>1. QED
      BY <1>3, <1>7 DEF OutOK
  <1>9. ASSUME NEW y \in Transfers \ {x}, Offering(out', y)
         PROVE  Offering(out, y)
    <2>1. PICK j \in Slot : out'[From[y]][j] # Free /\ out'[From[y]][j].x = y
                            /\ out'[From[y]][j].state = "OFFERING"
      BY <1>9 DEF Offering
    <2>2. From[y] \in Ends
      BY DataAssumption
    <2>3. ~(From[y] = e /\ j = i)
      BY <1>2, <1>3, <2>1
    <2>4. QED
      BY <1>3, <2>1, <2>2, <2>3 DEF Offering
  <1>10. QED
    BY <1>8, <1>9

\* Dhp_data_send
LEMMA SendOK ==
  ASSUME NEW ids, Sound(ids), NEW e \in Ends, NEW x \in Transfers, Send(e, x)
  PROVE  IInv'
  <1>0. PICK c : c = next_id[e]
    OBVIOUS
  <1> DEFINE i == SlotFree(out[e])
             s == [state |-> "OFFERING", id |-> next_id[e], x |-> x,
                   next_seq |-> 0, acked |-> 0, rewound_to |-> NoRewind,
                   retries |-> 0]
             m == Op("OFFER", next_id[e], x)
             idt == [ids EXCEPT ![x] = c]
             bh == begun \cup {x}
  <1>1. /\ From[x] = e /\ x \notin begun /\ i # 0
        /\ out' = [out EXCEPT ![e][i] = s]
        /\ next_id' = [next_id EXCEPT ![e] = NextId(@)]
        /\ chan' = Say(e, <<m>>)
        /\ begun' = bh
        /\ UNCHANGED <<in, reported, received, rewinds, faults>>
    BY DEF Send
  <1>2. i \in Slot
    BY <1>1, SlotFacts
  <1>3. next_id[e] \in Ids /\ next_id' \in [Ends -> Ids]
    BY <1>1, NextIdType DEF Sound
  <1>4. s \in Outbound /\ s.x = x /\ s.id = next_id[e]
    BY <1>3, DataAssumption DEF Outbound, Ids
  <1>5. ids \in [Transfers -> Ids] /\ idt \in [Transfers -> Ids]
        /\ idt[x] = next_id[e] /\ \A y \in begun : idt[y] = ids[y]
    BY <1>0, <1>1, <1>3 DEF Sound, Named
  <1>6. received[x] = <<>> /\ reported[x] = "NONE" /\ begun \subseteq Transfers
    BY <1>1 DEF Sound, HistoryOK
  <1> HIDE DEF i, s, m
  <1>7. /\ OutOK(out', idt, bh, reported, received)
        /\ \A y \in Transfers \ {x} : Offering(out', y) => Offering(out, y)
    <2>1. idt = [ids EXCEPT ![x] = next_id[e]]
      BY <1>0
    <2> HIDE DEF idt
    <2>2. QED
      BY <2>1, AddOut
  <1>8. InOK(in', idt, bh, received)
    <2>1. InOK(in, ids, begun, received)
      BY DEF Sound, Named
    <2>2. ASSUME NEW d \in Ends, NEW j \in Slot, in[d][j] # Free
          PROVE  InStreamOK(in[d][j], d, idt, bh, received)
      <3> HIDE DEF idt
      <3>1. QED
        BY <1>5, <2>1, <2>2 DEF InOK, InStreamOK
    <2> HIDE DEF idt, bh
    <2>3. QED
      BY <1>1, <2>1, <2>2 DEF InOK
  <1>9. ChanOK(chan', idt, bh, received, out')
    <2>1. ChanOK(chan, ids, begun, received, out)
      BY DEF Sound, Named
    <2>2. ChanOK(chan, idt, bh, received, out')
      <3>1. \A y \in begun : Offering(out', y) => Offering(out, y)
        BY <1>1, <1>6, <1>7
      <3>2. begun \subseteq bh
        OBVIOUS
      <3> HIDE DEF idt, bh
      <3>3. QED
        BY <1>5, <2>1, <3>1, <3>2, ChanGrows
    <2>3. Peer(e) \in Ends
      BY PeerFacts
    <2>4. m \in Valid(Peer(e), idt, bh, received, out')
      <3>1. m \in Msg /\ m.op = "OFFER" /\ m.arg = x /\ m.id = next_id[e]
        BY <1>3, PlainMsg DEF m, Op
      <3>2. QED
        BY <1>1, <1>5, <1>6, <3>1 DEF Valid
    <2>5. Fifo(chan[Peer(e)] \o <<m>>)
      <3>1. chan[Peer(e)] \in Seq(Msg) /\ Fifo(chan[Peer(e)])
            /\ chan[Peer(e)] \in Seq(Valid(Peer(e), ids, begun, received, out))
        BY <2>1, <2>3 DEF ChanOK
      <3>2. <<m>> \in Seq(Msg) /\ Len(<<m>>) = 1 /\ <<m>>[1] = m
        BY <2>4 DEF Valid
      <3>3. Fifo(<<m>>)
        BY <3>2 DEF Fifo
      <3>4. \A k \in 1..Len(chan[Peer(e)]) :
              chan[Peer(e)][k].op = "CHUNK" => chan[Peer(e)][k].x \in begun
        BY <3>1, ElementOfSeq DEF Valid
      <3>5. m.arg = x
        BY DEF m, Op
      <3>6. \A k \in 1..Len(chan[Peer(e)]), l \in 1..Len(<<m>>) :
              chan[Peer(e)][k].op = "CHUNK" /\ <<m>>[l].op = "OFFER" =>
                <<m>>[l].arg # chan[Peer(e)][k].x
        BY <1>1, <3>2, <3>4, <3>5
      <3>7. QED
        BY <3>1, <3>2, <3>3, <3>6, FifoAppend
    <2>6. <<m>> \in Seq(Valid(Peer(e), idt, bh, received, out'))
      BY <2>4, OneAnswer
    <2> HIDE DEF idt, bh
    <2>7. ChanOK([chan EXCEPT ![Peer(e)] = @ \o <<m>>], idt, bh, received, out')
      BY <2>2, <2>3, <2>5, <2>6, SayOK
    <2>8. QED
      BY <1>1, <2>7 DEF Say
  <1>10. HistoryOK(begun', reported', received')
    BY <1>1 DEF Sound, HistoryOK
  <1>11. Named(idt)'
    <2> HIDE DEF idt, bh
    <2>1. QED
      BY <1>1, <1>5, <1>7, <1>8, <1>9 DEF Named
  <1>12. QED
    BY <1>3, <1>5, <1>10, <1>11 DEF IInv

\* an answer sent by e while nothing else happens to the channels
LEMMA SayAnswer ==
  ASSUME NEW ids, NEW bg, NEW rc, NEW o, ChanOK(chan, ids, bg, rc, o),
         NEW e \in Ends, NEW m \in Msg, m.op \notin {"OFFER", "CHUNK"}
  PROVE  ChanOK(Say(e, <<m>>), ids, bg, rc, o)
  <1>1. Peer(e) \in Ends
    BY PeerFacts
  <1>2. <<m>> \in Seq(Answer(Peer(e), ids, bg, rc, o))
    BY PlainAnswer, OneAnswer
  <1>3. ChanOK([chan EXCEPT ![Peer(e)] = @ \o <<m>>], ids, bg, rc, o)
    BY <1>1, <1>2, AnswerOK
  <1>4. QED
    BY <1>3 DEF Say

\* a frame answered with one that is not about a transfer
LEMMA ReplyAnswer ==
  ASSUME NEW ids, NEW bg, NEW rc, NEW o, ChanOK(chan, ids, bg, rc, o),
         NEW e \in Ends, chan[e] # <<>>, NEW m \in Msg,
         m.op \notin {"OFFER", "CHUNK"}
  PROVE  ChanOK(Reply(e, <<m>>), ids, bg, rc, o)
  <1>1. <<m>> \in Seq(Answer(Peer(e), ids, bg, rc, o))
    BY PlainAnswer, OneAnswer
  <1>2. QED
    BY <1>1, ReplyOK

\* Dhp_data_accept
LEMMA AcceptOK ==
  ASSUME NEW ids, Sound(ids), NEW e \in Ends, NEW i \in Slot, Accept(e, i)
  PROVE  IInv'
  <1> DEFINE s == [in[e][i] EXCEPT !.state = "RECEIVING"]
             m == Op("ACCEPT", in[e][i].id, Window)
  <1>1. /\ in[e][i].state = "OFFERED" /\ in' = [in EXCEPT ![e][i] = s]
        /\ chan' = Say(e, <<m>>)
        /\ UNCHANGED <<out, next_id, history, faults>>
    BY DEF Accept
  <1>2. /\ InOK(in, ids, begun, received)
        /\ ChanOK(chan, ids, begun, received, out)
        /\ OutOK(out, ids, begun, reported, received)
    BY DEF Sound, Named
  <1>3. in[e][i] # Free
    BY <1>1, FreeFacts
  <1>4. in[e][i] \in Inbound /\ in[e][i].next_seq < SEQ
    BY <1>2, <1>3 DEF InOK, InStreamOK
  <1>5. /\ s \in Inbound /\ s.id = in[e][i].id /\ s.x = in[e][i].x
        /\ s.next_seq < SEQ
    BY <1>4 DEF Inbound
  <1>6. m \in Msg /\ m.op \notin {"OFFER", "CHUNK"}
    <2>1. in[e][i].id \in Ids
      BY <1>4 DEF Inbound, Ids
    <2>2. QED
      BY <2>1, PlainMsg DEF Op
  <1> HIDE DEF s, m
  <1>7. InOK([in EXCEPT ![e][i] = s], ids, begun, received)
    BY <1>2, <1>3, <1>5, ReplaceIn
  <1>8. ChanOK(Say(e, <<m>>), ids, begun, received, out)
    BY <1>2, <1>6, SayAnswer
  <1>9. Named(ids)'
    BY <1>1, <1>2, <1>7, <1>8 DEF Named, Sound, history
  <1>10. QED
    BY <1>1, <1>9 DEF IInv, Sound, Named, history

\* Dhp_data_reject
LEMMA RejectOK ==
  ASSUME NEW ids, Sound(ids), NEW e \in Ends, NEW i \in Slot, Reject(e, i)
  PROVE  IInv'
  <1> DEFINE m == Op("REJECT", in[e][i].id, "REFUSED")
  <1>1. /\ in[e][i].state = "OFFERED" /\ in' = [in EXCEPT ![e][i] = Free]
        /\ chan' = Say(e, <<m>>)
        /\ UNCHANGED <<out, next_id, history, faults>>
    BY DEF Reject
  <1>2. /\ InOK(in, ids, begun, received)
        /\ ChanOK(chan, ids, begun, received, out)
        /\ OutOK(out, ids, begun, reported, received)
    BY DEF Sound, Named
  <1>3. in[e][i] # Free
    BY <1>1, FreeFacts
  <1>4. m \in Msg /\ m.op \notin {"OFFER", "CHUNK"}
    <2>1. in[e][i].id \in Ids
      BY <1>2, <1>3 DEF InOK, InStreamOK, Inbound, Ids
    <2>2. QED
      BY <2>1, PlainMsg DEF Op, Result
  <1> HIDE DEF m
  <1>5. InOK([in EXCEPT ![e][i] = Free], ids, begun, received)
    BY <1>2, FreeIn
  <1>6. ChanOK(Say(e, <<m>>), ids, begun, received, out)
    BY <1>2, <1>4, SayAnswer
  <1>7. Named(ids)'
    BY <1>1, <1>2, <1>5, <1>6 DEF Named, Sound, history
  <1>8. QED
    BY <1>1, <1>7 DEF IInv, Sound, Named, history

\* a stream of e's that moves on: nothing in the channels minds
LEMMA OutMoves ==
  ASSUME NEW ids, Sound(ids), NEW e \in Ends, NEW i \in Slot, out[e][i] # Free,
         NEW s \in Outbound, s.id = out[e][i].id, s.x = out[e][i].x,
         s.state = "OFFERING" => out[e][i].state = "OFFERING",
         out' = [out EXCEPT ![e][i] = s]
  PROVE  /\ OutOK(out', ids, begun, reported, received)
         /\ ChanOK(chan, ids, begun, received, out')
         /\ s.state # "OFFERING" => ~Offering(out', s.x)
  <1>1. /\ OutOK(out, ids, begun, reported, received)
        /\ ChanOK(chan, ids, begun, received, out)
        /\ begun \subseteq Transfers
    BY DEF Sound, Named, HistoryOK
  <1>2. /\ OutOK(out', ids, begun, reported, received)
        /\ \A x \in Transfers : Offering(out', x) => Offering(out, x)
        /\ s.state # "OFFERING" => ~Offering(out', s.x)
    BY <1>1, ReplaceOut
  <1>3. ChanOK(chan, ids, begun, received, out')
    BY <1>1, <1>2, ChanGrows
  <1>4. QED
    BY <1>2, <1>3

\* one that ends, and is reported on
LEMMA OutEnds ==
  ASSUME NEW ids, Sound(ids), NEW e \in Ends, NEW i \in Slot, out[e][i] # Free,
         NEW r \in Result, FinishOut(e, i, r)
  PROVE  /\ OutOK(out', ids, begun, reported', received)
         /\ ChanOK(chan, ids, begun, received, out')
         /\ HistoryOK(begun, reported', received)
  <1>1. /\ OutOK(out, ids, begun, reported, received)
        /\ ChanOK(chan, ids, begun, received, out)
        /\ begun \subseteq Transfers /\ DOMAIN reported = Transfers
    BY DEF Sound, Named, HistoryOK
  <1>2. /\ out' = [out EXCEPT ![e][i] = Free]
        /\ reported' = [reported EXCEPT ![out[e][i].x] = r]
    BY DEF FinishOut
  <1>3. /\ OutOK(out', ids, begun, reported', received)
        /\ \A x \in Transfers : Offering(out', x) => Offering(out, x)
    BY <1>1, <1>2, FreeOut
  <1>4. ChanOK(chan, ids, begun, received, out')
    BY <1>1, <1>3, ChanGrows
  <1>5. out[e][i].x \in begun
    BY <1>1 DEF OutOK, OutStreamOK
  <1>6. HistoryOK(begun, reported', received)
    BY <1>2, <1>5 DEF Sound, HistoryOK
  <1>7. QED
    BY <1>3, <1>4, <1>6

\* one that pumps chunks: they are answers to the other end
LEMMA OutPumps ==
  ASSUME NEW ids, Sound(ids), NEW e \in Ends, NEW i \in Slot, out[e][i] # Free,
         NEW s \in Outbound, s.id = out[e][i].id, s.x = out[e][i].x,
         out' = [out EXCEPT ![e][i] = Pump(s).stream]
  PROVE  /\ OutOK(out', ids, begun, reported, received)
         /\ ChanOK(chan, ids, begun, received, out')
         /\ Pump(s).msgs \in Seq(Answer(Peer(e), ids, begun, received, out'))
  <1> DEFINE t == Pump(s).stream
             C == {m \in Chunks : m.id = s.id /\ m.x = s.x}
  <1>1. /\ t \in Outbound /\ t.id = s.id /\ t.x = s.x /\ t.state # "OFFERING"
        /\ Pump(s).msgs \in Seq(C)
    BY PumpOK
  <1> HIDE DEF t
  <1>2. /\ OutOK(out', ids, begun, reported, received)
        /\ ChanOK(chan, ids, begun, received, out')
        /\ ~Offering(out', s.x)
    BY <1>1, OutMoves DEF t
  <1>3. s.x \in begun /\ From[s.x] = e /\ s.id = ids[s.x]
    BY DEF Sound, Named, OutOK, OutStreamOK
  <1>4. C \subseteq Answer(Peer(e), ids, begun, received, out')
    BY <1>2, <1>3, ChunkAnswer, ZenonT(30)
  <1> HIDE DEF C
  <1>5. Pump(s).msgs \in Seq(Answer(Peer(e), ids, begun, received, out'))
    BY <1>1, <1>4, SeqMonotonic
  <1>6. QED
    BY <1>2, <1>5

\* what is left to say when the other tables have not changed
LEMMA Conclude ==
  ASSUME NEW ids, Sound(ids), begun' = begun, next_id' = next_id,
         HistoryOK(begun, reported', received'),
         OutOK(out', ids, begun, reported', received'),
         InOK(in', ids, begun, received'),
         ChanOK(chan', ids, begun, received', out')
  PROVE  IInv'
  <1>1. ids \in [Transfers -> Ids] /\ next_id \in [Ends -> Ids]
    BY DEF Sound, Named
  <1>2. Named(ids)'
    BY <1>1 DEF Named
  <1>3. QED
    BY <1>1, <1>2 DEF IInv

\* The id of an open stream, and a frame that names it
LEMMA StreamAbort ==
  ASSUME NEW ids, Sound(ids), NEW e \in Ends, NEW i \in Slot, NEW r \in Result
  PROVE  /\ out[e][i] # Free =>
              /\ Op("ABORT", out[e][i].id, r) \in Msg
              /\ Op("ABORT", out[e][i].id, r).op \notin {"OFFER", "CHUNK"}
         /\ in[e][i] # Free =>
              /\ Op("ABORT", in[e][i].id, r) \in Msg
              /\ Op("ABORT", in[e][i].id, r).op \notin {"OFFER", "CHUNK"}
              /\ Op("DONE", in[e][i].id, r) \in Msg
              /\ Op("DONE", in[e][i].id, r).op \notin {"OFFER", "CHUNK"}
  <1>1. out[e][i] # Free => out[e][i].id \in Ids
    BY DEF Sound, Named, OutOK, OutStreamOK, Outbound, Ids
  <1>2. in[e][i] # Free => in[e][i].id \in Ids
    BY DEF Sound, Named, InOK, InStreamOK, Inbound, Ids
  <1>3. QED
    BY <1>1, <1>2, PlainMsg DEF Op

\* Dhp_data_cancel
LEMMA CancelOK ==
  ASSUME NEW ids, Sound(ids), NEW e \in Ends, NEW i \in Slot, Cancel(e, i)
  PROVE  IInv'
  <1>1. UNCHANGED <<next_id, begun, received, rewinds>> /\ "CANCELLED" \in Result
    BY DEF Cancel, Result
  <1>2. CASE /\ out[e][i] # Free
             /\ chan' = Say(e, <<Op("ABORT", out[e][i].id, "CANCELLED")>>)
             /\ FinishOut(e, i, "CANCELLED")
             /\ UNCHANGED in
    <2>1. /\ OutOK(out', ids, begun, reported', received)
          /\ ChanOK(chan, ids, begun, received, out')
          /\ HistoryOK(begun, reported', received)
      BY <1>1, <1>2, OutEnds
    <2>2. ChanOK(chan', ids, begun, received, out')
      BY <1>1, <1>2, <2>1, StreamAbort, SayAnswer
    <2>3. QED
      BY <1>1, <1>2, <2>1, <2>2, Conclude DEF Sound, Named
  <1>3. CASE /\ in[e][i] # Free
             /\ chan' = Say(e, <<Op("ABORT", in[e][i].id, "CANCELLED")>>)
             /\ in' = [in EXCEPT ![e][i] = Free]
             /\ UNCHANGED <<out, reported>>
    <2>1. InOK(in', ids, begun, received)
      BY <1>3, FreeIn DEF Sound, Named
    <2>2. ChanOK(chan', ids, begun, received, out)
      BY <1>1, <1>3, StreamAbort, SayAnswer DEF Sound, Named
    <2>3. QED
      BY <1>1, <1>3, <2>1, <2>2, Conclude DEF Sound, Named
  <1>4. QED
    BY <1>2, <1>3 DEF Cancel

\* Dhp_data_tick, when the budget is spent
LEMMA GiveUpOK ==
  ASSUME NEW ids, Sound(ids), NEW e \in Ends, NEW i \in Slot, GiveUp(e, i)
  PROVE  IInv'
  <1>1. /\ out[e][i] # Free /\ FinishOut(e, i, "TIMEOUT") /\ "TIMEOUT" \in Result
        /\ chan' = Say(e, <<Op("ABORT", out[e][i].id, "TIMEOUT")>>)
        /\ UNCHANGED <<in, next_id, begun, received, rewinds, faults>>
    BY DEF GiveUp, Result
  <1>2. /\ OutOK(out', ids, begun, reported', received)
        /\ ChanOK(chan, ids, begun, received, out')
        /\ HistoryOK(begun, reported', received)
    BY <1>1, OutEnds
  <1>3. ChanOK(chan', ids, begun, received, out')
    BY <1>1, <1>2, StreamAbort, SayAnswer
  <1>4. QED
    BY <1>1, <1>2, <1>3, Conclude DEF Sound, Named

\* Dhp_data_tick, when the patience has run out: the offer again, which no
\* chunk precedes, or the chunks again
LEMMA RetryOK ==
  ASSUME NEW ids, Sound(ids), NEW e \in Ends, NEW i \in Slot, Retry(e, i)
  PROVE  IInv'
  <1> DEFINE s == [out[e][i] EXCEPT !.retries = @ + 1]
             b == [s EXCEPT !.next_seq = s.acked, !.rewound_to = NoRewind,
                            !.state = "SENDING"]
             m == Op("OFFER", s.id, s.x)
  <1>1. /\ out[e][i] # Free
        /\ UNCHANGED <<in, next_id, begun, reported, received, faults>>
        /\ IF s.state = "OFFERING"
           THEN out' = [out EXCEPT ![e][i] = s] /\ chan' = Say(e, <<m>>)
           ELSE /\ out' = [out EXCEPT ![e][i] = Pump(b).stream]
                /\ chan' = Say(e, Pump(b).msgs)
    BY DEF Retry
  <1>2. /\ out[e][i] \in Outbound /\ OutStreamOK(out[e][i], e, ids, begun, reported, received)
        /\ OutOK(out, ids, begun, reported, received)
        /\ ChanOK(chan, ids, begun, received, out)
    BY <1>1 DEF Sound, Named, OutOK, OutStreamOK
  <1>3. /\ s \in Outbound /\ s.id = out[e][i].id /\ s.x = out[e][i].x
        /\ s.state = out[e][i].state
    BY <1>2 DEF Outbound
  <1> HIDE DEF s
  <1>4. b \in Outbound /\ b.id = out[e][i].id /\ b.x = out[e][i].x
    BY <1>3 DEF Outbound
  <1> HIDE DEF b
  <1>5. Peer(e) \in Ends
    BY PeerFacts
  <1>6. CASE s.state = "OFFERING"
    <2>1. out' = [out EXCEPT ![e][i] = s] /\ chan' = Say(e, <<m>>)
      BY <1>1, <1>6
    <2>2. /\ OutOK(out', ids, begun, reported, received)
          /\ ChanOK(chan, ids, begun, received, out')
      BY <1>1, <1>3, <2>1, OutMoves
    <2>3. /\ s.x \in Transfers /\ s.x \in begun /\ From[s.x] = e
          /\ s.id = ids[s.x] /\ received[s.x] = <<>> /\ s.id \in Ids
      BY <1>2, <1>3, <1>6 DEF OutStreamOK, Outbound, Ids
    <2>4. m \in Msg /\ m.op = "OFFER" /\ m.arg = s.x /\ m.id = s.id
      BY <2>3, PlainMsg DEF Op
    <2> HIDE DEF m
    <2>5. m \in Valid(Peer(e), ids, begun, received, out')
      BY <2>3, <2>4 DEF Valid
    <2>6. Fifo(chan[Peer(e)] \o <<m>>)
      <3>1. chan[Peer(e)] \in Seq(Msg) /\ Fifo(chan[Peer(e)])
            /\ chan[Peer(e)] \in Seq(Valid(Peer(e), ids, begun, received, out))
        BY <1>2, <1>5 DEF ChanOK
      <3>2. <<m>> \in Seq(Msg) /\ Len(<<m>>) = 1 /\ <<m>>[1] = m
        BY <2>4
      <3>3. Fifo(<<m>>)
        BY <3>2 DEF Fifo
      <3>4. Offering(out, s.x)
        BY <1>1, <1>3, <1>6, <2>3 DEF Offering
      <3>5. \A k \in 1..Len(chan[Peer(e)]) :
              chan[Peer(e)][k].op = "CHUNK" => ~Offering(out, chan[Peer(e)][k].x)
        BY <3>1, ElementOfSeq DEF Valid
      <3>6. \A k \in 1..Len(chan[Peer(e)]), l \in 1..Len(<<m>>) :
              chan[Peer(e)][k].op = "CHUNK" /\ <<m>>[l].op = "OFFER" =>
                <<m>>[l].arg # chan[Peer(e)][k].x
        BY <2>4, <3>2, <3>4, <3>5
      <3>7. QED
        BY <3>1, <3>2, <3>3, <3>6, FifoAppend
    <2>7. <<m>> \in Seq(Valid(Peer(e), ids, begun, received, out'))
      BY <2>5, OneAnswer
    <2>8. ChanOK([chan EXCEPT ![Peer(e)] = @ \o <<m>>], ids, begun, received, out')
      BY <1>5, <2>2, <2>6, <2>7, SayOK
    <2>9. ChanOK(chan', ids, begun, received, out')
      BY <2>1, <2>8 DEF Say
    <2>10. QED
      BY <1>1, <2>2, <2>9, Conclude DEF Sound, Named
  <1>7. CASE s.state # "OFFERING"
    <2>1. /\ out' = [out EXCEPT ![e][i] = Pump(b).stream]
          /\ chan' = Say(e, Pump(b).msgs)
      BY <1>1, <1>7
    <2>2. /\ OutOK(out', ids, begun, reported, received)
          /\ ChanOK(chan, ids, begun, received, out')
          /\ Pump(b).msgs \in Seq(Answer(Peer(e), ids, begun, received, out'))
      BY <1>1, <1>4, <2>1, OutPumps
    <2>3. ChanOK([chan EXCEPT ![Peer(e)] = @ \o Pump(b).msgs], ids, begun,
                 received, out')
      BY <1>5, <2>2, AnswerOK
    <2>4. ChanOK(chan', ids, begun, received, out')
      BY <2>1, <2>3 DEF Say
    <2>5. QED
      BY <1>1, <2>2, <2>4, Conclude DEF Sound, Named
  <1>8. QED
    BY <1>6, <1>7

\* Rx_offer
LEMMA RxOfferOK ==
  ASSUME NEW ids, Sound(ids), NEW e \in Ends, RxOffer(e)
  PROVE  IInv'
  <1> DEFINE m == Head(chan[e])
             known == SlotFind(in[e], m.id)
             i == SlotFree(in[e])
             s == [state |-> "OFFERED", id |-> m.id, x |-> m.arg,
                   next_seq |-> 0, running |-> <<>>]
  <1>1. /\ chan[e] # <<>> /\ m.op = "OFFER"
        /\ UNCHANGED <<out, next_id, history, faults>>
    BY DEF RxOffer, Heard
  <1>2. /\ ChanOK(chan, ids, begun, received, out)
        /\ InOK(in, ids, begun, received)
    BY DEF Sound, Named
  <1>3. m \in Msg /\ m \in Valid(e, ids, begun, received, out)
    BY <1>1, <1>2, HeadOK
  <1>4. /\ m.id \in Ids /\ m.arg \in Transfers /\ m.arg \in begun
        /\ e = Peer(From[m.arg]) /\ m.id = ids[m.arg] /\ received[m.arg] = <<>>
    <2> HIDE DEF m
    <2>1. QED
      BY <1>1, <1>3, MsgKinds DEF Valid, Offer
  <1>5. ChanOK(chan', ids, begun, received, out) /\ InOK(in', ids, begun, received)
    <2>1. CASE known # 0
      <3>1. /\ chan' = Reply(e, IF in[e][known].state = "RECEIVING"
                                THEN <<Ack(in[e][known])>> ELSE <<>>)
            /\ in' = in
        BY <2>1, Zenon DEF RxOffer
      <3>2. known \in Slot /\ in[e][known] # Free
        BY <2>1, SlotFacts
      <3>3. in[e][known].id \in Ids /\ in[e][known].next_seq \in 0..SEQ
        BY <1>2, <3>2 DEF InOK, InStreamOK, Inbound, Ids
      <3>4. Ack(in[e][known]) \in Msg /\ Ack(in[e][known]).op \notin {"OFFER", "CHUNK"}
        BY <3>3, PlainMsg DEF Ack, Op
      <3> HIDE DEF known, m
      <3>5. ChanOK(Reply(e, <<Ack(in[e][known])>>), ids, begun, received, out)
        BY <1>1, <1>2, <3>4, ReplyAnswer
      <3>6. ChanOK(Reply(e, <<>>), ids, begun, received, out)
        BY <1>1, <1>2, ReadOK
      <3>7. QED
        BY <1>2, <3>1, <3>5, <3>6
    <2>2. CASE known = 0 /\ (i = 0 \/ Bytes[m.arg] > MaxInbound)
      <3>1. /\ \E r \in {"NO_STREAM", "TOO_BIG"} :
                 chan' = Reply(e, <<Op("REJECT", m.id, r)>>)
            /\ in' = in
        <4>1. CASE i = 0
          BY <2>2, <4>1, Zenon DEF RxOffer
        <4>2. CASE i # 0
          <5>1. known = 0 /\ i # 0 /\ Bytes[m.arg] > MaxInbound
            BY <2>2, <4>2
          <5>2. QED
            BY <5>1, Zenon DEF RxOffer
        <4>3. QED
          BY <4>1, <4>2
      <3>2. PICK r \in {"NO_STREAM", "TOO_BIG"} :
              chan' = Reply(e, <<Op("REJECT", m.id, r)>>)
        BY <3>1
      <3>3. Op("REJECT", m.id, r) \in Msg /\ Op("REJECT", m.id, r).op = "REJECT"
        BY <1>4, PlainMsg DEF Op, Result
      <3> HIDE DEF m
      <3>4. ChanOK(Reply(e, <<Op("REJECT", m.id, r)>>), ids, begun, received, out)
        BY <1>1, <1>2, <3>3, ReplyAnswer
      <3>5. QED
        BY <1>2, <3>1, <3>2, <3>4
    <2>3. CASE known = 0 /\ i # 0 /\ ~(Bytes[m.arg] > MaxInbound)
      <3>1. chan' = Reply(e, <<>>) /\ in' = [in EXCEPT ![e][i] = s]
        BY <2>3, Zenon DEF RxOffer
      <3>2. i \in Slot /\ \A j \in Slot : in[e][j] # Free => in[e][j].id # m.id
        BY <2>3, SlotFacts
      <3> HIDE DEF m, i
      <3>3. s \in Inbound /\ s.id = m.id /\ s.x = m.arg /\ s.next_seq = 0
        BY <1>4, DataAssumption DEF Inbound, Ids
      <3> HIDE DEF s
      <3>4. InStreamOK(s, e, ids, begun, received)
        BY <1>4, <3>3, DataAssumption DEF InStreamOK
      <3>5. \A j \in Slot : in[e][j] # Free => in[e][j].id # s.id
        BY <3>2, <3>3
      <3>6. InOK([in EXCEPT ![e][i] = s], ids, begun, received)
        BY <1>2, <3>2, <3>4, <3>5, AddIn
      <3>7. ChanOK(Reply(e, <<>>), ids, begun, received, out)
        BY <1>1, <1>2, ReadOK
      <3>8. QED
        BY <3>1, <3>6, <3>7
    <2>4. QED
      BY <2>1, <2>2, <2>3
  <1>6. QED
    BY <1>1, <1>5, Conclude DEF Sound, Named, history

\* A frame that finds nothing to do but count as a sign of life
LEMMA IgnoredOK ==
  ASSUME NEW ids, Sound(ids), NEW e \in Ends, NEW i \in Slot, out[e][i] # Free,
         chan[e] # <<>>, Ignored(e, i)
  PROVE  IInv'
  <1> DEFINE s == [out[e][i] EXCEPT !.retries = 0]
  <1>1. /\ chan' = Reply(e, <<>>) /\ out' = [out EXCEPT ![e][i] = s]
        /\ UNCHANGED <<in, next_id, history, faults>>
    BY DEF Ignored
  <1>2. out[e][i] \in Outbound
    BY DEF Sound, Named, OutOK, OutStreamOK
  <1>3. /\ s \in Outbound /\ s.id = out[e][i].id /\ s.x = out[e][i].x
        /\ s.state = out[e][i].state
    BY <1>2 DEF Outbound
  <1> HIDE DEF s
  <1>4. /\ OutOK(out', ids, begun, reported, received)
        /\ ChanOK(chan, ids, begun, received, out')
    BY <1>1, <1>3, OutMoves
  <1>5. ChanOK(chan', ids, begun, received, out')
    BY <1>1, <1>4, ReadOK
  <1>6. QED
    BY <1>1, <1>4, <1>5, Conclude DEF Sound, Named, history

\* frames for streams that are not there, and frames lost
LEMMA SkipOK ==
  ASSUME NEW ids, Sound(ids), NEW e \in Ends, chan[e] # <<>>,
         chan' = Reply(e, <<>>), UNCHANGED <<out, in, next_id, history>>
  PROVE  IInv'
  <1>1. ChanOK(chan', ids, begun, received, out)
    BY ReadOK DEF Sound, Named
  <1>2. QED
    BY <1>1, Conclude DEF Sound, Named, history

\* Op_accept
LEMMA RxAcceptOK ==
  ASSUME NEW ids, Sound(ids), NEW e \in Ends, RxAccept(e)
  PROVE  IInv'
  <1> DEFINE i == SlotFind(out[e], Head(chan[e]).id)
             s == [out[e][i] EXCEPT !.state = "SENDING", !.retries = 0]
  <1>1. i # 0 /\ chan[e] # <<>>
    BY DEF RxAccept, Heard
  <1>2. i \in Slot /\ out[e][i] # Free
    BY <1>1, SlotFacts
  <1>3. \/ Ignored(e, i)
        \/ /\ out' = [out EXCEPT ![e][i] = Pump(s).stream]
           /\ chan' = Reply(e, Pump(s).msgs)
           /\ UNCHANGED <<in, next_id, history, faults>>
    BY DEF RxAccept
  <1> HIDE DEF i
  <1>4. s \in Outbound /\ s.id = out[e][i].id /\ s.x = out[e][i].x
    <2>1. out[e][i] \in Outbound
      BY <1>2 DEF Sound, Named, OutOK, OutStreamOK
    <2>2. QED
      BY <2>1 DEF Outbound
  <1> HIDE DEF s
  <1>5. CASE Ignored(e, i)
    BY <1>1, <1>2, <1>5, IgnoredOK
  <1>6. CASE /\ out' = [out EXCEPT ![e][i] = Pump(s).stream]
             /\ chan' = Reply(e, Pump(s).msgs)
             /\ UNCHANGED <<in, next_id, history, faults>>
    <2>1. /\ OutOK(out', ids, begun, reported, received)
          /\ ChanOK(chan, ids, begun, received, out')
          /\ Pump(s).msgs \in Seq(Answer(Peer(e), ids, begun, received, out'))
      BY <1>2, <1>4, <1>6, OutPumps
    <2>2. ChanOK(chan', ids, begun, received, out')
      BY <1>1, <1>6, <2>1, ReplyOK
    <2>3. QED
      BY <1>6, <2>1, <2>2, Conclude DEF Sound, Named, history
  <1>7. QED
    BY <1>3, <1>5, <1>6

\* Op_ack
LEMMA RxAckOK ==
  ASSUME NEW ids, Sound(ids), NEW e \in Ends, RxAck(e)
  PROVE  IInv'
  <1> DEFINE m == Head(chan[e])
             i == SlotFind(out[e], m.id)
             s == Acked(out[e][i], m.arg)
  <1>1. i # 0 /\ chan[e] # <<>> /\ m.op = "ACK"
    BY DEF RxAck, Heard
  <1>2. i \in Slot /\ out[e][i] # Free
    BY <1>1, SlotFacts
  <1>3. \/ Ignored(e, i)
        \/ /\ out' = [out EXCEPT ![e][i] = Pump(s).stream]
           /\ chan' = Reply(e, Pump(s).msgs)
           /\ UNCHANGED <<in, next_id, begun, reported, received, faults>>
    BY DEF RxAck
  <1>4. m \in Msg
    BY <1>1, HeadOK DEF Sound, Named
  <1> HIDE DEF i, m
  <1>5. s \in Outbound /\ s.id = out[e][i].id /\ s.x = out[e][i].x
    <2>1. out[e][i] \in Outbound
      BY <1>2 DEF Sound, Named, OutOK, OutStreamOK
    <2>2. m.arg \in 0..SEQ
      BY <1>1, <1>4, MsgKinds DEF Acks
    <2>3. QED
      BY <2>1, <2>2, AckedOK
  <1> HIDE DEF s
  <1>6. CASE Ignored(e, i)
    BY <1>1, <1>2, <1>6, IgnoredOK
  <1>7. CASE /\ out' = [out EXCEPT ![e][i] = Pump(s).stream]
             /\ chan' = Reply(e, Pump(s).msgs)
             /\ UNCHANGED <<in, next_id, begun, reported, received, faults>>
    <2>1. /\ OutOK(out', ids, begun, reported, received)
          /\ ChanOK(chan, ids, begun, received, out')
          /\ Pump(s).msgs \in Seq(Answer(Peer(e), ids, begun, received, out'))
      BY <1>2, <1>5, <1>7, OutPumps
    <2>2. ChanOK(chan', ids, begun, received, out')
      BY <1>1, <1>7, <2>1, ReplyOK
    <2>3. QED
      BY <1>7, <2>1, <2>2, Conclude DEF Sound, Named
  <1>8. QED
    BY <1>3, <1>6, <1>7

\* Op_done, Op_reject and Op_abort
LEMMA RxEndOK ==
  ASSUME NEW ids, Sound(ids), NEW e \in Ends, RxEnd(e)
  PROVE  IInv'
  <1> DEFINE m == Head(chan[e])
             i == SlotFind(out[e], m.id)
             j == SlotFind(in[e], m.id)
  <1>1. /\ chan[e] # <<>> /\ m.op \in {"DONE", "REJECT", "ABORT"}
        /\ \/ j # 0 /\ in' = [in EXCEPT ![e][j] = Free] /\ UNCHANGED <<out, reported>>
           \/ i # 0 /\ FinishOut(e, i, m.arg) /\ UNCHANGED in
        /\ chan' = Reply(e, <<>>)
        /\ UNCHANGED <<next_id, begun, received, rewinds, faults>>
    BY DEF RxEnd, EndResult
  <1>2. m.arg \in Result
    <2>1. m \in Msg
      BY <1>1, HeadOK DEF Sound, Named
    <2> HIDE DEF m
    <2>2. QED
      BY <1>1, <2>1, MsgKinds DEF Ending
  <1>3. /\ i # 0 => i \in Slot /\ out[e][i] # Free
        /\ j # 0 => j \in Slot
    BY SlotFacts
  <1> HIDE DEF i, j, m
  <1>4. CASE j # 0 /\ in' = [in EXCEPT ![e][j] = Free] /\ UNCHANGED <<out, reported>>
    <2>1. InOK(in', ids, begun, received)
      BY <1>3, <1>4, FreeIn DEF Sound, Named
    <2>2. ChanOK(chan', ids, begun, received, out)
      BY <1>1, ReadOK DEF Sound, Named
    <2>3. QED
      BY <1>1, <1>4, <2>1, <2>2, Conclude DEF Sound, Named
  <1>5. CASE i # 0 /\ FinishOut(e, i, m.arg) /\ UNCHANGED in
    <2>1. /\ OutOK(out', ids, begun, reported', received)
          /\ ChanOK(chan, ids, begun, received, out')
          /\ HistoryOK(begun, reported', received)
      BY <1>2, <1>3, <1>5, OutEnds
    <2>2. ChanOK(chan', ids, begun, received, out')
      BY <1>1, <2>1, ReadOK
    <2>3. QED
      BY <1>1, <1>5, <2>1, <2>2, Conclude DEF Sound, Named
  <1>6. QED
    BY <1>1, <1>4, <1>5

\* Rx_chunk, when nothing is kept
LEMMA RxChunkDroppedOK ==
  ASSUME NEW ids, Sound(ids), NEW e \in Ends, RxChunkDropped(e)
  PROVE  IInv'
  <1> DEFINE i == SlotFind(in[e], Head(chan[e]).id)
             s == in[e][i]
  <1>1. /\ i # 0 /\ chan[e] # <<>>
        /\ chan' = Reply(e, <<>>) \/ chan' = Reply(e, <<Ack(s)>>)
        /\ UNCHANGED <<out, in, next_id, history, faults>>
    BY DEF RxChunkDropped, Heard
  <1>2. i \in Slot /\ s # Free
    BY <1>1, SlotFacts
  <1> HIDE DEF i
  <1>3. s.id \in Ids /\ s.next_seq \in 0..SEQ
    BY <1>2 DEF Sound, Named, InOK, InStreamOK, Inbound, Ids
  <1> HIDE DEF s
  <1>4. Ack(s) \in Msg /\ Ack(s).op \notin {"OFFER", "CHUNK"}
    BY <1>3, PlainMsg DEF Ack, Op
  <1>5. ChanOK(Reply(e, <<>>), ids, begun, received, out)
    BY <1>1, ReadOK DEF Sound, Named
  <1>6. ChanOK(Reply(e, <<Ack(s)>>), ids, begun, received, out)
    BY <1>1, <1>4, ReplyAnswer DEF Sound, Named
  <1>7. QED
    BY <1>1, <1>5, <1>6, Conclude DEF Sound, Named, history

\* The sweep of idle inbound streams
LEMMA IdleOK ==
  ASSUME NEW ids, Sound(ids), NEW e \in Ends, NEW i \in Slot, Idle(e, i)
  PROVE  IInv'
  <1>1. InOK(in', ids, begun, received)
    BY FreeIn DEF Idle, Sound, Named
  <1>2. QED
    BY <1>1, Conclude DEF Idle, Sound, Named, history

\* A restart
LEMMA RestartOK ==
  ASSUME NEW ids, Sound(ids), NEW e \in Ends, Restart(e)
  PROVE  IInv'
  <1>1. /\ chan[Peer(e)] = <<>> /\ chan' = [chan EXCEPT ![e] = <<>>]
        /\ out' = [out EXCEPT ![e] = [i \in Slot |-> Free]]
        /\ in' = [in EXCEPT ![e] = [i \in Slot |-> Free]]
        /\ next_id' = [next_id EXCEPT ![e] = 1]
        /\ reported' = [x \in Transfers |->
             IF From[x] = e /\ x \in begun /\ reported[x] = "NONE" THEN "CRASHED"
             ELSE reported[x]]
        /\ UNCHANGED <<begun, received, rewinds>>
    BY DEF Restart
  <1>2. /\ OutOK(out, ids, begun, reported, received)
        /\ InOK(in, ids, begun, received)
        /\ ChanOK(chan, ids, begun, received, out)
        /\ ids \in [Transfers -> Ids]
    BY DEF Sound, Named
  <1>3. next_id' \in [Ends -> Ids]
    BY <1>1, DataAssumption DEF Sound, Ids
  <1>4. HistoryOK(begun, reported', received)
    <2>1. HistoryOK(begun, reported, received)
      BY DEF Sound
    <2>2. QED
      BY <1>1, <2>1 DEF HistoryOK
  <1>5. InOK(in', ids, begun, received)
    <2>1. in \in [Ends -> [Slot -> Inbound \cup {Free}]]
      BY <1>2 DEF InOK
    <2>2. /\ in' \in [Ends -> [Slot -> Inbound \cup {Free}]]
          /\ \A i \in Slot : in'[e][i] = Free
          /\ \A d \in Ends : d # e => in'[d] = in[d]
      BY <1>1, <2>1
    <2>3. QED
      BY <1>2, <2>2 DEF InOK
  <1>6. OutOK(out', ids, begun, reported', received)
    <2>1. out \in [Ends -> [Slot -> Outbound \cup {Free}]]
      BY <1>2 DEF OutOK
    <2>2. /\ out' \in [Ends -> [Slot -> Outbound \cup {Free}]]
          /\ \A i \in Slot : out'[e][i] = Free
          /\ \A d \in Ends : d # e => out'[d] = out[d]
      BY <1>1, <2>1
    <2>3. ASSUME NEW d \in Ends, NEW i \in Slot, out'[d][i] # Free
          PROVE  /\ OutStreamOK(out'[d][i], d, ids, begun, reported', received)
                 /\ \A j \in Slot : out'[d][j] # Free /\ out'[d][j].x = out'[d][i].x
                                    => j = i
      <3>1. d # e /\ out'[d] = out[d]
        BY <2>2, <2>3
      <3>2. /\ OutStreamOK(out[d][i], d, ids, begun, reported, received)
            /\ \A j \in Slot : out[d][j] # Free /\ out[d][j].x = out[d][i].x => j = i
        BY <1>2, <2>3, <3>1 DEF OutOK
      <3>3. reported'[out[d][i].x] = reported[out[d][i].x]
        BY <1>1, <3>1, <3>2 DEF OutStreamOK, Outbound
      <3>4. QED
        BY <3>1, <3>2, <3>3 DEF OutStreamOK
    <2>4. QED
      BY <2>2, <2>3 DEF OutOK
  <1>7. ChanOK(chan', ids, begun, received, out')
    <2>1. chan \in [Ends -> Seq(Msg)] /\ Ends = {e, Peer(e)}
      BY <1>2, PeerFacts DEF ChanOK
    <2>2. chan' \in [Ends -> Seq(Msg)] /\ \A d \in Ends : chan'[d] = <<>>
      BY <1>1, <2>1, EmptySeq
    <2>3. QED
      BY <2>2, EmptySeq DEF ChanOK, Fifo
  <1>8. Named(ids)'
    BY <1>1, <1>2, <1>5, <1>6, <1>7 DEF Named
  <1>9. QED
    BY <1>1, <1>2, <1>3, <1>4, <1>8 DEF IInv

\* A sequence that is Content(x) ends with a chunk of x
LEMMA LastChunk ==
  ASSUME NEW x \in Transfers, NEW r \in Seq(Transfers), NEW y \in Transfers,
         Append(r, y) = Content(x)
  PROVE  y = x
  <1>1. Len(Content(x)) = Len(r) + 1 /\ Content(x)[Len(r) + 1] = y
    BY AppendProperties
  <1>2. QED
    BY <1>1, ContentLen

\* A transfer handed over: nothing that would hand it over again is left
LEMMA HandOver ==
  ASSUME NEW ids, Sound(ids), NEW e \in Ends, NEW i \in Slot, in[e][i] # Free,
         chan[e] # <<>>, Head(chan[e]).op = "CHUNK", Head(chan[e]).x = in[e][i].x,
         NEW m \in Msg, m.op \notin {"OFFER", "CHUNK"},
         in' = [in EXCEPT ![e][i] = Free],
         chan' = Reply(e, <<m>>),
         received' = [received EXCEPT ![in[e][i].x] = Append(@, Content(in[e][i].x))],
         UNCHANGED <<out, next_id, begun, reported>>
  PROVE  IInv'
  <1>0. PICK x : x = in[e][i].x
    OBVIOUS
  <1>1. /\ OutOK(out, ids, begun, reported, received)
        /\ InOK(in, ids, begun, received)
        /\ ChanOK(chan, ids, begun, received, out)
        /\ HistoryOK(begun, reported, received)
    BY DEF Sound, Named
  <1>2. /\ x \in Transfers /\ x \in begun /\ e = Peer(From[x])
        /\ in[e][i].id = ids[x] /\ received[x] = <<>>
    BY <1>0, <1>1 DEF InOK, InStreamOK, Inbound
  <1>3. /\ DOMAIN received' = Transfers /\ received'[x] = <<Content(x)>>
        /\ \A y \in Transfers : y # x => received'[y] = received[y]
    <2>1. DOMAIN received = Transfers
      BY <1>1 DEF HistoryOK
    <2>2. received' = [received EXCEPT ![x] = Append(@, Content(x))]
      BY <1>0
    <2>3. DOMAIN received' = DOMAIN received
      BY <2>2, Zenon
    <2>4. received'[x] = Append(received[x], Content(x))
      BY <1>2, <2>1, <2>2, Zenon
    <2>5. ASSUME NEW y \in Transfers, y # x
          PROVE  received'[y] = received[y]
      BY <2>1, <2>2, <2>5, Zenon
    <2>6. Append(<<>>, Content(x)) = <<Content(x)>>
      BY EmptySeq
    <2>7. QED
      BY <1>2, <2>1, <2>3, <2>4, <2>5, <2>6, Zenon
  <1>4. HistoryOK(begun, reported, received')
    BY <1>1, <1>2, <1>3 DEF HistoryOK
  <1>5. OutOK(out, ids, begun, reported, received')
    <2>1. ~Offering(out, x)
      <3>1. PICK f : f = Head(chan[e])
        OBVIOUS
      <3>2. f \in Valid(e, ids, begun, received, out)
        BY <1>1, <3>1, HeadOK
      <3>3. f.op = "CHUNK" /\ f.x = x
        BY <1>0, <3>1
      <3>4. QED
        BY <3>2, <3>3 DEF Valid
    <2>2. ASSUME NEW d \in Ends, NEW j \in Slot, out[d][j] # Free
          PROVE  OutStreamOK(out[d][j], d, ids, begun, reported, received')
      <3>1. OutStreamOK(out[d][j], d, ids, begun, reported, received)
        BY <1>1, <2>2 DEF OutOK
      <3>2. out[d][j].x \in Transfers /\ From[out[d][j].x] = d
        BY <3>1 DEF OutStreamOK, Outbound
      <3>3. out[d][j].state = "OFFERING" => out[d][j].x # x
        BY <2>1, <2>2, <3>2 DEF Offering
      <3>4. QED
        BY <1>3, <3>1, <3>2, <3>3 DEF OutStreamOK
    <2>3. QED
      BY <1>1, <2>2 DEF OutOK
  <1>6. InOK(in', ids, begun, received')
    <2>1. InOK(in', ids, begun, received)
      BY <1>1, FreeIn
    <2>2. in \in [Ends -> [Slot -> Inbound \cup {Free}]]
      BY <1>1 DEF InOK
    <2>3. /\ in'[e][i] = Free
          /\ \A d \in Ends, j \in Slot : in'[d][j] # Free => in'[d][j] = in[d][j]
      BY <2>2
    <2>4. ASSUME NEW d \in Ends, NEW j \in Slot, in'[d][j] # Free
          PROVE  InStreamOK(in'[d][j], d, ids, begun, received')
      <3>1. in'[d][j] = in[d][j] /\ InStreamOK(in'[d][j], d, ids, begun, received)
        BY <2>1, <2>3, <2>4 DEF InOK
      <3>2. in[d][j].x # x
        <4>1. SUFFICES ASSUME in[d][j].x = x PROVE FALSE
          OBVIOUS
        <4>2. d = e /\ in[d][j].id = in[e][i].id
          BY <1>2, <3>1, <4>1 DEF InStreamOK
        <4>3. j = i
          BY <1>1, <2>4, <3>1, <4>2 DEF InOK
        <4>4. QED
          BY <2>3, <2>4, <4>2, <4>3
      <3>3. in[d][j].x \in Transfers
        BY <3>1 DEF InStreamOK, Inbound
      <3>4. QED
        BY <1>3, <3>1, <3>2, <3>3 DEF InStreamOK
    <2>5. QED
      BY <2>1, <2>4 DEF InOK
  <1>7. ChanOK(chan', ids, begun, received', out)
    <2> DEFINE q == [chan EXCEPT ![e] = Tail(@)]
               V(d) == Valid(d, ids, begun, received, out)
               W(d) == Valid(d, ids, begun, received', out)
    <2>1. /\ chan \in [Ends -> Seq(Msg)] /\ Peer(e) \in Ends /\ Peer(e) # e
          /\ Ends = {e, Peer(e)}
      BY <1>1, PeerFacts DEF ChanOK
    <2>2. q \in [Ends -> Seq(Msg)] /\ q[e] = Tail(chan[e]) /\ q[Peer(e)] = chan[Peer(e)]
      BY <1>1, <2>1, HeadOK
    <2>3. Tail(chan[e]) \in Seq(W(e)) /\ Fifo(Tail(chan[e]))
      <3>1. /\ Tail(chan[e]) \in Seq(V(e)) /\ Fifo(Tail(chan[e]))
            /\ \A k \in 1..Len(Tail(chan[e])) :
                 Tail(chan[e])[k].op = "OFFER" => Tail(chan[e])[k].arg # x
        <4>1. /\ Tail(chan[e]) \in Seq(V(e)) /\ Fifo(Tail(chan[e]))
              /\ \A k \in 1..Len(Tail(chan[e])) :
                   Tail(chan[e])[k].op = "OFFER" =>
                     Tail(chan[e])[k].arg # Head(chan[e]).x
          BY <1>1, HeadOK
        <4>2. Head(chan[e]).x = x
          BY <1>0
        <4>3. QED
          BY <4>1, <4>2, Zenon
      <3>2. ASSUME NEW k \in 1..Len(Tail(chan[e]))
            PROVE  Tail(chan[e])[k] \in W(e)
        <4>1. PICK f \in V(e) : f = Tail(chan[e])[k]
          BY <3>1, ElementOfSeq
        <4>2. f.op = "OFFER" => f.arg # x /\ f.arg \in Transfers
          BY <1>1, <3>1, <4>1 DEF Valid, HistoryOK
        <4>3. f \in W(e)
          BY <1>3, <4>1, <4>2 DEF Valid
        <4>4. QED
          BY <4>1, <4>3
      <3> HIDE DEF V, W
      <3>3. Tail(chan[e]) \in Seq(W(e))
        <4> PICK u : u = Tail(chan[e])
          OBVIOUS
        <4>1. /\ u \in Seq(V(e))
              /\ \A k \in 1..Len(u) : u[k] \in W(e)
          BY <3>1, <3>2
        <4>2. u = [k \in 1..Len(u) |-> u[k]] /\ Len(u) \in Nat
          BY <4>1, LenProperties
        <4>3. [k \in 1..Len(u) |-> u[k]] \in Seq(W(e))
          BY <4>1, <4>2, IsASeq
        <4>4. u \in Seq(W(e))
          BY <4>2, <4>3
        <4>5. QED
          BY <4>4
      <3>4. QED
        BY <3>1, <3>3
    <2>4. chan[Peer(e)] \in Seq(W(Peer(e))) /\ Fifo(chan[Peer(e)])
      <3>1. chan[Peer(e)] \in Seq(V(Peer(e))) /\ Fifo(chan[Peer(e)])
        BY <1>1, <2>1 DEF ChanOK
      <3>2. V(Peer(e)) \subseteq W(Peer(e))
        <4>1. ASSUME NEW f \in V(Peer(e))
              PROVE  f \in W(Peer(e))
          <5>1. f.op = "OFFER" => f.arg # x /\ f.arg \in Transfers
            BY <1>1, <1>2, <2>1 DEF Valid, HistoryOK
          <5>2. QED
            BY <1>3, <5>1 DEF Valid
        <4>2. QED
          BY <4>1
      <3> HIDE DEF V, W
      <3>3. QED
        BY <3>1, <3>2, SeqMonotonic
    <2>5. ChanOK(q, ids, begun, received', out)
      <3> HIDE DEF q
      <3>1. QED
        BY <2>1, <2>2, <2>3, <2>4 DEF ChanOK
    <2>6. <<m>> \in Seq(Answer(Peer(e), ids, begun, received', out))
      BY PlainAnswer, OneAnswer
    <2>7. ChanOK([q EXCEPT ![Peer(e)] = @ \o <<m>>], ids, begun, received', out)
      <3> HIDE DEF q
      <3>1. QED
        BY <2>1, <2>5, <2>6, AnswerOK
    <2>8. chan' = [q EXCEPT ![Peer(e)] = @ \o <<m>>]
      BY <2>2 DEF Reply
    <2> HIDE DEF q
    <2>9. QED
      BY <2>7, <2>8
  <1>8. QED
    BY <1>4, <1>5, <1>6, <1>7, Conclude

\* Rx_chunk
LEMMA RxChunkOK ==
  ASSUME NEW ids, Sound(ids), NEW e \in Ends, RxChunk(e)
  PROVE  IInv'
  <1> DEFINE m == Head(chan[e])
             i == SlotFind(in[e], m.id)
             t == in[e][i]
             s == [t EXCEPT !.next_seq = @ + 1, !.running = Append(@, m.x)]
             a == m.seq * ChunkBytes + ChunkLen(m.x, m.seq)
             last == s.next_seq >= ChunksFor(s.x)
             Past == /\ in' = [in EXCEPT ![e][i] = Free]
                     /\ chan' = Reply(e, <<Op("ABORT", s.id, "CORRUPT")>>)
                     /\ UNCHANGED received
             Last == /\ in' = [in EXCEPT ![e][i] = Free]
                     /\ chan' = Reply(e, <<Op("DONE", s.id, Verdict(s))>>)
                     /\ received' = IF Verdict(s) = "OK"
                                    THEN [received EXCEPT ![s.x] =
                                            Append(@, s.running)]
                                    ELSE received
             More == /\ in' = [in EXCEPT ![e][i] = s]
                     /\ chan' = Reply(e, IF AckDue(s.next_seq) THEN <<Ack(s)>>
                                         ELSE <<>>)
                     /\ UNCHANGED received
  <1>1. /\ chan[e] # <<>> /\ m.op = "CHUNK" /\ i # 0
        /\ t.state = "RECEIVING" /\ m.seq = t.next_seq
        /\ UNCHANGED <<out, next_id, begun, reported, rewinds, faults>>
    BY DEF RxChunk, Heard
  <1>2. (CASE a > Bytes[s.x] -> Past
           [] a <= Bytes[s.x] /\ last -> Last
           [] OTHER -> More)
    BY DEF RxChunk
  <1>3. i \in Slot /\ t # Free
    BY <1>1, SlotFacts
  <1>4. /\ OutOK(out, ids, begun, reported, received)
        /\ InOK(in, ids, begun, received)
        /\ ChanOK(chan, ids, begun, received, out)
        /\ HistoryOK(begun, reported, received)
    BY DEF Sound, Named
  <1>5. m \in Chunks
    BY <1>1, <1>4, HeadOK, MsgKinds
  <1>6. t \in Inbound /\ t.next_seq < SEQ
    BY <1>3, <1>4 DEF InOK, InStreamOK
  <1>7. a \in Int /\ Bytes[s.x] \in Int
    <2>1. m.seq \in Nat /\ m.x \in Transfers /\ s.x = t.x /\ t.x \in Transfers
      BY <1>5, <1>6, DataAssumption, SMTT(30) DEF Chunks, Inbound
    <2>2. Bytes[m.x] \in Int /\ Bytes[s.x] \in Int /\ ChunkBytes \in Int
      BY <2>1, DataAssumption
    <2>3. m.seq * ChunkBytes \in Int
      BY <2>1, <2>2
    <2> HIDE DEF m
    <2>4. ChunkLen(m.x, m.seq) \in Int
      BY <2>2, <2>3 DEF ChunkLen
    <2>5. QED
      BY <2>2, <2>3, <2>4
  <1>8. Past \/ Last \/ (More /\ ~last)
    <2> HIDE DEF a, s, last, Past, Last, More
    <2>1. a > Bytes[s.x] \/ a <= Bytes[s.x]
      BY <1>7
    <2>2. QED
      BY <1>2, <2>1
  <1> HIDE DEF a, m, i
  <1>9. m.x \in Transfers
    BY <1>5 DEF Chunks
  <1>10. /\ s.id = t.id /\ s.x = t.x /\ s.state = t.state
         /\ s.next_seq = t.next_seq + 1 /\ s.running = Append(t.running, m.x)
    BY <1>6, Zenon DEF Inbound
  <1>11. t.x \in Transfers /\ t.next_seq \in 0..SEQ /\ t.running \in Seq(Transfers)
         /\ t.id \in Ids
    BY <1>6 DEF Inbound, Ids
  <1>12. CASE Past
    <2>1. Op("ABORT", s.id, "CORRUPT") \in Msg
          /\ Op("ABORT", s.id, "CORRUPT").op \notin {"OFFER", "CHUNK"}
      BY <1>3, <1>10, StreamAbort DEF Result
    <2>2. ChanOK(chan', ids, begun, received, out)
      BY <1>1, <1>4, <1>12, <2>1, ReplyAnswer
    <2>3. InOK(in', ids, begun, received)
      BY <1>3, <1>4, <1>12, FreeIn
    <2>4. QED
      BY <1>1, <1>4, <1>12, <2>2, <2>3, Conclude
  <1>13. CASE Last
    <2>1. PICK v \in Result : v = Verdict(s)
      BY DEF Verdict, Result
    <2>2. PICK w : w = Op("DONE", s.id, v)
      OBVIOUS
    <2>3. w \in Msg /\ w.op \notin {"OFFER", "CHUNK"}
      BY <1>3, <1>10, <2>2, StreamAbort
    <2>4. in' = [in EXCEPT ![e][i] = Free] /\ chan' = Reply(e, <<w>>)
      BY <1>13, <2>1, <2>2
    <2>5. CASE v = "OK"
      <3>1. s.running = Content(s.x)
        BY <2>1, <2>5 DEF Verdict
      <3>2. m.x = t.x
        BY <1>9, <1>10, <1>11, <3>1, LastChunk
      <3>3. received' = [received EXCEPT ![t.x] = Append(@, Content(t.x))]
        BY <1>10, <1>13, <2>1, <2>5, <3>1
      <3>4. QED
        BY <1>1, <1>3, <2>3, <2>4, <3>2, <3>3, HandOver DEF m
    <2>6. CASE v # "OK"
      <3>1. received' = received
        BY <1>13, <2>1, <2>6
      <3>2. ChanOK(chan', ids, begun, received, out)
        BY <1>1, <1>4, <2>3, <2>4, ReplyAnswer
      <3>3. InOK(in', ids, begun, received)
        BY <1>3, <1>4, <2>4, FreeIn
      <3>4. QED
        BY <1>1, <1>4, <3>1, <3>2, <3>3, Conclude
    <2>7. QED
      BY <2>5, <2>6
  <1>14. CASE More /\ ~last
    <2>1. s.next_seq < SEQ /\ s.next_seq \in 0..SEQ
      <3>1. ChunksFor(t.x) \in 0..(SEQ - 1) /\ SEQ \in Nat
        BY <1>11, ChunksForType, DataAssumption
      <3> HIDE DEF s
      <3>2. QED
        BY <1>10, <1>11, <1>14, <3>1
    <2>2. s \in Inbound
      <3>1. Append(t.running, m.x) \in Seq(Transfers)
        BY <1>9, <1>11, AppendProperties
      <3>2. t.next_seq + 1 \in 0..SEQ
        BY <1>10, <2>1
      <3>3. QED
        BY <1>6, <3>1, <3>2 DEF Inbound
    <2>3. InOK(in', ids, begun, received)
      <3> HIDE DEF s
      <3>1. QED
        BY <1>3, <1>4, <1>10, <1>14, <2>1, <2>2, ReplaceIn
    <2>4. ChanOK(chan', ids, begun, received, out)
      <3> HIDE DEF s
      <3>1. Ack(s) \in Msg /\ Ack(s).op \notin {"OFFER", "CHUNK"}
        BY <1>10, <1>11, <2>1, PlainMsg DEF Ack, Op
      <3>2. ChanOK(Reply(e, <<Ack(s)>>), ids, begun, received, out)
        BY <1>1, <1>4, <3>1, ReplyAnswer
      <3>3. ChanOK(Reply(e, <<>>), ids, begun, received, out)
        BY <1>1, <1>4, ReadOK
      <3>4. QED
        BY <1>14, <3>2, <3>3
    <2>5. QED
      BY <1>1, <1>4, <1>14, <2>3, <2>4, Conclude
  <1>15. QED
    BY <1>8, <1>12, <1>13, <1>14


-----------------------------------------------------------------------------
(* The invariant, and what it says of whole transfers *)

\* One case for each action of Next
LEMMA NextOK == IInv /\ [Next]_vars => IInv'
  <1> SUFFICES ASSUME IInv, [Next]_vars PROVE IInv'
    OBVIOUS
  <1>1. PICK ids \in [Transfers -> Ids] : Sound(ids)
    BY DEF IInv, Sound
  <1>2. CASE UNCHANGED vars
    BY <1>1, <1>2, Conclude DEF Sound, Named, vars
  <1>3. ASSUME NEW e \in Ends, NEW x \in Transfers, Send(e, x)
        PROVE  IInv'
    BY <1>1, <1>3, SendOK
  <1>4. ASSUME NEW e \in Ends, NEW i \in Slot,
               Decide(e, i) \/ Cancel(e, i) \/ Tick(e, i) \/ Idle(e, i)
        PROVE  IInv'
    BY <1>1, <1>4, AcceptOK, RejectOK, CancelOK, RetryOK, GiveUpOK, IdleOK
       DEF Decide, Tick
  <1>5. ASSUME NEW e \in Ends, Receive(e)
        PROVE  IInv'
    <2>1. CASE RxUnknown(e)
      BY <1>1, <2>1, SkipOK DEF RxUnknown
    <2>2. CASE RxChunkAstray(e)
      <3>1. SlotFind(out[e], Head(chan[e]).id) \in Slot
            /\ out[e][SlotFind(out[e], Head(chan[e]).id)] # Free
        BY <2>2, SlotFacts DEF RxChunkAstray
      <3>2. QED
        BY <1>1, <2>2, <3>1, IgnoredOK DEF RxChunkAstray, Heard
    <2>3. QED
      BY <1>1, <1>5, <2>1, <2>2, RxOfferOK, RxAcceptOK, RxAckOK, RxEndOK,
         RxChunkDroppedOK, RxChunkOK DEF Receive
  <1>6. ASSUME NEW e \in Ends, Lose(e)
        PROVE  IInv'
    BY <1>1, <1>6, SkipOK DEF Lose
  <1>7. ASSUME NEW e \in Ends, Restart(e)
        PROVE  IInv'
    BY <1>1, <1>7, RestartOK
  <1>8. QED
    BY <1>2, <1>3, <1>4, <1>5, <1>6, <1>7 DEF Next

\* The invariant is one of the specification
LEMMA Invariance == Spec => []IInv
  BY InitOK, NextOK, PTL DEF Spec

\* Streams, ids and reports keep their types: no chunk count, chunk number or
\* stream id leaves its width, whatever is lost, cancelled or restarted
\* (dhp_data_send, dhp_data_rx, dhp_data_tick).
THEOREM TypeCorrect == Spec => []TypeOK
  <1>1. IInv => TypeOK
    BY DEF IInv, Named, OutOK, InOK, HistoryOK, TypeOK, Ids
  <1>2. QED
    BY <1>1, Invariance, PTL

\* What an application is told it has received whole is what was sent, and is
\* handed over once, for transfers of any length both ways, any window and
\* any number of losses, retries and restarts (rx_chunk, OP_DONE).
THEOREM WholeAndOnce == Spec => []Intact
  <1>1. IInv => Intact
    BY DEF IInv, HistoryOK, Intact
  <1>2. QED
    BY <1>1, Invariance, PTL
=============================================================================
