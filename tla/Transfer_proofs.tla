--------------------------- MODULE Transfer_proofs ---------------------------
(***************************************************************************)
(* Bulk transfer implements Transfer: as long as an id that comes round    *)
(* names no open stream, chunk or verdict of before, every step of the     *)
(* protocol is a step of what it promises the application, or none, and    *)
(* what a sender counts as confirmed its receiver has taken.               *)
(***************************************************************************)
EXTENDS Data_proofs, FiniteSetTheorems

\* next_id[e] is free for a new stream: no open stream has it, and no chunk
\* or verdict of an earlier one is on its way
IdFree(e) ==
  /\ \A i \in Slot : out[e][i] # Free => out[e][i].id # next_id[e]
  /\ \A k \in 1..Len(chan[Peer(e)]) :
       chan[Peer(e)][k].op = "CHUNK" => chan[Peer(e)][k].id # next_id[e]
  /\ \A k \in 1..Len(chan[e]) :
       chan[e][k].op = "DONE" => chan[e][k].id # next_id[e]

\* dhp_data_send takes ids that are free
FreshIds == \A e \in Ends, x \in Transfers : Send(e, x) => IdFree(e)

-----------------------------------------------------------------------------
(* What a step other than dhp_data_send and a restart does *)

\* open streams stay what they are, or end
Kept(o, p) ==
  \A d \in Ends, i \in Slot :
    p[d][i] # Free => o[d][i] # Free /\ p[d][i].id = o[d][i].id
                      /\ p[d][i].x = o[d][i].x

\* a frame e sends: a chunk is one of an open stream's, a verdict is about
\* the chunk that e reads, and says OK of a transfer that has been handed over
Says(e) ==
  {m \in Msg :
     /\ m.op = "CHUNK" => \E i \in Slot : /\ out'[e][i] # Free
                                          /\ out'[e][i].id = m.id
                                          /\ out'[e][i].x = m.x
     /\ m.op = "DONE" => /\ chan[e] # <<>> /\ Head(chan[e]).op = "CHUNK"
                         /\ Head(chan[e]).id = m.id
                         /\ m.arg = "OK" => received'[Head(chan[e]).x] # <<>>
     /\ m.op \in {"REJECT", "ABORT"} => m.arg # "OK"}

Shape(e, ms) ==
  /\ ms \in Seq(Says(e))
  /\ \/ chan' = Say(e, ms)
     \/ chan[e] # <<>> /\ chan' = Reply(e, ms)
     \/ chan' = chan
  /\ Kept(out, out')
  /\ \A x \in Transfers : received[x] # <<>> => received'[x] # <<>>
  /\ begun' = begun /\ next_id' = next_id

Ordinary(e) == \E ms : Shape(e, ms)

\* streams that stay, move on or end are kept
LEMMA KeptFacts ==
  ASSUME NEW o \in [Ends -> [Slot -> Outbound \cup {Free}]],
         NEW e \in Ends, NEW i \in Slot
  PROVE  Kept(o, o) /\ Kept(o, [o EXCEPT ![e][i] = Free])
  <1>1. \A d \in Ends, j \in Slot :
          [o EXCEPT ![e][i] = Free][d][j] =
            IF d = e /\ j = i THEN Free ELSE o[d][j]
    OBVIOUS
  <1>2. Kept(o, [o EXCEPT ![e][i] = Free])
    BY <1>1, Zenon DEF Kept
  <1>3. QED
    BY <1>2 DEF Kept

\* one that moves on
LEMMA KeptMoves ==
  ASSUME NEW o \in [Ends -> [Slot -> Outbound \cup {Free}]],
         NEW e \in Ends, NEW i \in Slot, o[e][i] # Free,
         NEW s, s.id = o[e][i].id, s.x = o[e][i].x
  PROVE  Kept(o, [o EXCEPT ![e][i] = s])
  <1>1. \A d \in Ends, j \in Slot :
          [o EXCEPT ![e][i] = s][d][j] =
            IF d = e /\ j = i THEN s ELSE o[d][j]
    OBVIOUS
  <1>2. QED
    BY <1>1, Zenon DEF Kept

\* frames that carry neither a chunk nor a verdict
Plain == {m \in Msg : /\ m.op \notin {"CHUNK", "DONE"}
                      /\ m.op \in {"REJECT", "ABORT"} => m.arg # "OK"}

\* Which these are
LEMMA PlainFrames ==
  ASSUME NEW id \in Ids
  PROVE  /\ Op("ACCEPT", id, Window) \in Plain
         /\ \A n \in 0..SEQ : Op("ACK", id, n) \in Plain
         /\ \A r \in Result \ {"OK"} : /\ Op("REJECT", id, r) \in Plain
                                       /\ Op("ABORT", id, r) \in Plain
         /\ \A x \in Transfers : Op("OFFER", id, x) \in Plain
  <1>1. ASSUME NEW op, NEW arg
        PROVE  Op(op, id, arg).op = op /\ Op(op, id, arg).arg = arg
    BY DEF Op
  <1>2. QED
    BY <1>1, PlainMsg DEF Plain

\* Any end may send them
LEMMA PlainSays ==
  ASSUME NEW e, NEW m \in Plain
  PROVE  <<m>> \in Seq(Says(e))
  <1>1. m \in Says(e)
    BY DEF Says, Plain
  <1>2. QED
    BY <1>1, OneAnswer

\* The tables and the history have their types
LEMMA SoundTypes ==
  ASSUME NEW ids, Sound(ids)
  PROVE  /\ out \in [Ends -> [Slot -> Outbound \cup {Free}]]
         /\ in \in [Ends -> [Slot -> Inbound \cup {Free}]]
         /\ chan \in [Ends -> Seq(Msg)]
         /\ \A e \in Ends, i \in Slot : out[e][i] # Free => out[e][i] \in Outbound
         /\ \A e \in Ends, i \in Slot : in[e][i] # Free => in[e][i] \in Inbound
         /\ \A e \in Ends : chan[e] # <<>> => Head(chan[e]) \in Msg
  <1>1. /\ out \in [Ends -> [Slot -> Outbound \cup {Free}]]
        /\ in \in [Ends -> [Slot -> Inbound \cup {Free}]]
        /\ chan \in [Ends -> Seq(Msg)]
    BY DEF Sound, Named, OutOK, InOK, ChanOK
  <1>2. \A e \in Ends : chan[e] # <<>> => Head(chan[e]) \in Msg
    BY HeadOK DEF Sound, Named
  <1>3. QED
    BY <1>1, <1>2

\* a step that sends one plain frame, or none, and leaves the streams alone
LEMMA PlainStep ==
  ASSUME NEW ids, Sound(ids), NEW e \in Ends, NEW ms,
         ms = <<>> \/ \E m \in Plain : ms = <<m>>,
         \/ chan' = Say(e, ms)
         \/ chan[e] # <<>> /\ chan' = Reply(e, ms)
         \/ chan' = chan,
         Kept(out, out'), UNCHANGED <<received, begun, next_id>>
  PROVE  Ordinary(e)
  <1>1. ms \in Seq(Says(e))
    BY PlainSays, EmptySeq
  <1>2. QED
    BY <1>1 DEF Ordinary, Shape

\* a step that pumps
LEMMA PumpStep ==
  ASSUME NEW ids, Sound(ids), NEW e \in Ends, NEW i \in Slot, out[e][i] # Free,
         NEW s \in Outbound, s.id = out[e][i].id, s.x = out[e][i].x,
         out' = [out EXCEPT ![e][i] = Pump(s).stream],
         \/ chan' = Say(e, Pump(s).msgs)
         \/ chan[e] # <<>> /\ chan' = Reply(e, Pump(s).msgs),
         UNCHANGED <<received, begun, next_id>>
  PROVE  Ordinary(e)
  <1> DEFINE t == Pump(s).stream
             C == {m \in Chunks : m.id = s.id /\ m.x = s.x}
  <1>1. t \in Outbound /\ t.id = s.id /\ t.x = s.x /\ Pump(s).msgs \in Seq(C)
    BY PumpOK
  <1> HIDE DEF t
  <1>2. out \in [Ends -> [Slot -> Outbound \cup {Free}]] /\ out' = [out EXCEPT ![e][i] = t]
    BY SoundTypes DEF t
  <1>3. Kept(out, out')
    <2>1. t.id = out[e][i].id /\ t.x = out[e][i].x
      BY <1>1
    <2>2. Kept(out, [out EXCEPT ![e][i] = t])
      BY <1>2, <2>1, KeptMoves
    <2>3. QED
      BY <1>2, <2>2
  <1>4. out'[e][i] # Free /\ out'[e][i].id = s.id /\ out'[e][i].x = s.x
    <2>1. out'[e][i] = t
      BY <1>2
    <2>2. QED
      BY <1>1, <2>1, FreeFacts, Zenon
  <1>5. C \subseteq Says(e)
    <2>1. ASSUME NEW m \in C PROVE m \in Says(e)
      <3>1. m \in Msg /\ m.op = "CHUNK" /\ m.id = s.id /\ m.x = s.x
        BY DEF Msg, Chunks
      <3>2. QED
        BY <1>4, <3>1 DEF Says
    <2>2. QED
      BY <2>1
  <1> HIDE DEF C
  <1>6. Pump(s).msgs \in Seq(Says(e))
    BY <1>1, <1>5, SeqMonotonic
  <1>7. QED
    BY <1>3, <1>6 DEF Ordinary, Shape

\* Each action in turn
LEMMA AppShape ==
  ASSUME NEW ids, Sound(ids), NEW e \in Ends, NEW i \in Slot,
         Decide(e, i) \/ Cancel(e, i) \/ GiveUp(e, i) \/ Idle(e, i)
  PROVE  Ordinary(e)
  <1>1. /\ out \in [Ends -> [Slot -> Outbound \cup {Free}]]
        /\ out[e][i] # Free => out[e][i].id \in Ids
        /\ in[e][i] # Free => in[e][i].id \in Ids
    BY SoundTypes DEF Outbound, Inbound, Ids
  <1>2. /\ Kept(out, out) /\ Kept(out, [out EXCEPT ![e][i] = Free])
    BY <1>1, KeptFacts
  <1>3. CASE Decide(e, i)
    <2>1. in[e][i] # Free
      BY <1>3, FreeFacts DEF Decide, Accept, Reject
    <2>2. PICK m : /\ m \in {Op("ACCEPT", in[e][i].id, Window),
                             Op("REJECT", in[e][i].id, "REFUSED")}
                   /\ chan' = Say(e, <<m>>)
      BY <1>3 DEF Decide, Accept, Reject
    <2>3. m \in Plain
      BY <1>1, <2>1, <2>2, PlainFrames DEF Result
    <2>4. UNCHANGED <<out, received, begun, next_id>>
      BY <1>3 DEF Decide, Accept, Reject, history
    <2>5. QED
      BY <1>2, <2>2, <2>3, <2>4, PlainStep
  <1>4. CASE Cancel(e, i) \/ GiveUp(e, i)
    <2>1. PICK m : /\ \/ /\ out[e][i] # Free
                         /\ m \in {Op("ABORT", out[e][i].id, "CANCELLED"),
                                   Op("ABORT", out[e][i].id, "TIMEOUT")}
                      \/ /\ in[e][i] # Free
                         /\ m = Op("ABORT", in[e][i].id, "CANCELLED")
                   /\ chan' = Say(e, <<m>>)
      BY <1>4 DEF Cancel, GiveUp
    <2>2. m \in Plain
      BY <1>1, <2>1, PlainFrames DEF Result
    <2>3. out' = out \/ out' = [out EXCEPT ![e][i] = Free]
      BY <1>4 DEF Cancel, GiveUp, FinishOut
    <2>4. UNCHANGED <<received, begun, next_id>>
      BY <1>4 DEF Cancel, GiveUp
    <2>5. QED
      BY <1>2, <2>1, <2>2, <2>3, <2>4, PlainStep
  <1>5. CASE Idle(e, i)
    <2>1. chan' = chan /\ UNCHANGED <<out, received, begun, next_id>>
      BY <1>5 DEF Idle, history
    <2>2. QED
      BY <1>2, <2>1, PlainStep
  <1>6. QED
    BY <1>3, <1>4, <1>5

\* a timeout
LEMMA RetryShape ==
  ASSUME NEW ids, Sound(ids), NEW e \in Ends, NEW i \in Slot, Retry(e, i)
  PROVE  Ordinary(e)
  <1> DEFINE s == [out[e][i] EXCEPT !.retries = @ + 1]
             b == [s EXCEPT !.next_seq = s.acked, !.rewound_to = NoRewind,
                            !.state = "SENDING"]
             m == Op("OFFER", s.id, s.x)
  <1>1. /\ out[e][i] # Free
        /\ UNCHANGED <<received, begun, next_id>>
        /\ IF s.state = "OFFERING"
           THEN out' = [out EXCEPT ![e][i] = s] /\ chan' = Say(e, <<m>>)
           ELSE /\ out' = [out EXCEPT ![e][i] = Pump(b).stream]
                /\ chan' = Say(e, Pump(b).msgs)
    BY DEF Retry
  <1>2. out[e][i] \in Outbound /\ out \in [Ends -> [Slot -> Outbound \cup {Free}]]
    BY <1>1, SoundTypes
  <1>3. s \in Outbound /\ s.id = out[e][i].id /\ s.x = out[e][i].x
    BY <1>2 DEF Outbound
  <1> HIDE DEF s
  <1>4. b \in Outbound /\ b.id = out[e][i].id /\ b.x = out[e][i].x
    BY <1>3 DEF Outbound
  <1> HIDE DEF b
  <1>5. CASE s.state = "OFFERING"
    <2>1. m \in Plain
      BY <1>3, PlainFrames DEF Outbound, Ids
    <2>2. Kept(out, out')
      <3>1. Kept(out, [out EXCEPT ![e][i] = s])
        BY <1>1, <1>2, <1>3, KeptMoves
      <3>2. QED
        BY <1>1, <1>5, <3>1
    <2> HIDE DEF m
    <2>3. QED
      BY <1>1, <1>5, <2>1, <2>2, PlainStep
  <1>6. CASE s.state # "OFFERING"
    BY <1>1, <1>4, <1>6, PumpStep
  <1>7. QED
    BY <1>5, <1>6

\* a sign of life
LEMMA IgnoredShape ==
  ASSUME NEW ids, Sound(ids), NEW e \in Ends, NEW i \in Slot, out[e][i] # Free,
         chan[e] # <<>>, Ignored(e, i)
  PROVE  Ordinary(e)
  <1> DEFINE s == [out[e][i] EXCEPT !.retries = 0]
  <1>1. /\ chan' = Reply(e, <<>>) /\ out' = [out EXCEPT ![e][i] = s]
        /\ UNCHANGED <<received, begun, next_id>>
    BY DEF Ignored, history
  <1>2. out[e][i] \in Outbound /\ out \in [Ends -> [Slot -> Outbound \cup {Free}]]
    BY SoundTypes
  <1>3. s.id = out[e][i].id /\ s.x = out[e][i].x
    BY <1>2 DEF Outbound
  <1> HIDE DEF s
  <1>4. Kept(out, out')
    BY <1>1, <1>2, <1>3, KeptMoves
  <1>5. QED
    BY <1>1, <1>4, PlainStep

\* frames read
LEMMA ReadShape ==
  ASSUME NEW ids, Sound(ids), NEW e \in Ends,
         \/ RxOffer(e) \/ RxUnknown(e) \/ RxChunkAstray(e) \/ RxChunkDropped(e)
         \/ RxEnd(e) \/ Lose(e)
  PROVE  Ordinary(e)
  <1>1. /\ out \in [Ends -> [Slot -> Outbound \cup {Free}]]
        /\ \A i \in Slot : in[e][i] # Free => /\ in[e][i].id \in Ids
                                              /\ in[e][i].next_seq \in 0..SEQ
    BY SoundTypes DEF Outbound, Inbound, Ids
  <1>2. \A i \in Slot : Kept(out, out) /\ Kept(out, [out EXCEPT ![e][i] = Free])
    BY <1>1, KeptFacts
  <1>3. 1 \in Slot
    BY DataAssumption DEF Slot
  <1>4. \A i \in Slot : in[e][i] # Free => Ack(in[e][i]) \in Plain
    BY <1>1, PlainFrames DEF Ack
  <1>5. CASE RxOffer(e)
    <2> DEFINE m == Head(chan[e])
               known == SlotFind(in[e], m.id)
               i == SlotFree(in[e])
    <2>1. /\ chan[e] # <<>> /\ m.op = "OFFER"
          /\ UNCHANGED <<out, received, begun, next_id>>
      BY <1>5 DEF RxOffer, Heard, history
    <2>2. m.id \in Ids
      BY <2>1, SoundTypes, MsgKinds
    <2>3. CASE known # 0
      <3>1. chan' = Reply(e, IF in[e][known].state = "RECEIVING"
                             THEN <<Ack(in[e][known])>> ELSE <<>>)
        BY <1>5, <2>3, Zenon DEF RxOffer
      <3>2. Ack(in[e][known]) \in Plain
        BY <1>4, <2>3, SlotFacts
      <3> HIDE DEF known
      <3>3. QED
        BY <1>2, <1>3, <2>1, <3>1, <3>2, PlainStep
    <2>4. CASE known = 0 /\ (i = 0 \/ Bytes[m.arg] > MaxInbound)
      <3>1. \E r \in {"NO_STREAM", "TOO_BIG"} :
              chan' = Reply(e, <<Op("REJECT", m.id, r)>>)
        <4>1. CASE i = 0
          BY <1>5, <2>4, <4>1, Zenon DEF RxOffer
        <4>2. CASE i # 0
          <5>1. known = 0 /\ i # 0 /\ Bytes[m.arg] > MaxInbound
            BY <2>4, <4>2
          <5>2. QED
            BY <1>5, <5>1, Zenon DEF RxOffer
        <4>3. QED
          BY <4>1, <4>2
      <3>2. PICK r \in {"NO_STREAM", "TOO_BIG"} :
              chan' = Reply(e, <<Op("REJECT", m.id, r)>>)
        BY <3>1
      <3>3. Op("REJECT", m.id, r) \in Plain
        BY <2>2, PlainFrames DEF Result
      <3> HIDE DEF m
      <3>4. QED
        BY <1>2, <1>3, <2>1, <3>2, <3>3, PlainStep
    <2>5. CASE known = 0 /\ i # 0 /\ ~(Bytes[m.arg] > MaxInbound)
      <3>1. chan' = Reply(e, <<>>)
        BY <1>5, <2>5, Zenon DEF RxOffer
      <3>2. QED
        BY <1>2, <1>3, <2>1, <3>1, PlainStep
    <2>6. QED
      BY <2>3, <2>4, <2>5
  <1>6. CASE RxUnknown(e) \/ Lose(e)
    <2>1. /\ chan[e] # <<>> /\ chan' = Reply(e, <<>>)
          /\ UNCHANGED <<out, received, begun, next_id>>
      BY <1>6 DEF RxUnknown, Lose, history
    <2>2. QED
      BY <1>2, <1>3, <2>1, PlainStep
  <1>7. CASE RxChunkAstray(e)
    <2>1. SlotFind(out[e], Head(chan[e]).id) \in Slot
          /\ out[e][SlotFind(out[e], Head(chan[e]).id)] # Free
      BY <1>7, SlotFacts DEF RxChunkAstray
    <2>2. QED
      BY <1>7, <2>1, IgnoredShape DEF RxChunkAstray, Heard
  <1>8. CASE RxChunkDropped(e)
    <2> DEFINE i == SlotFind(in[e], Head(chan[e]).id)
    <2>1. /\ i # 0 /\ chan[e] # <<>>
          /\ chan' = Reply(e, <<>>) \/ chan' = Reply(e, <<Ack(in[e][i])>>)
          /\ UNCHANGED <<out, received, begun, next_id>>
      BY <1>8 DEF RxChunkDropped, Heard, history
    <2>2. Ack(in[e][i]) \in Plain
      BY <1>4, <2>1, SlotFacts
    <2> HIDE DEF i
    <2>3. QED
      BY <1>2, <1>3, <2>1, <2>2, PlainStep
  <1>9. CASE RxEnd(e)
    <2> DEFINE i == SlotFind(out[e], Head(chan[e]).id)
    <2>1. /\ chan[e] # <<>> /\ chan' = Reply(e, <<>>)
          /\ UNCHANGED <<received, begun, next_id>>
          /\ out' = out \/ (i # 0 /\ out' = [out EXCEPT ![e][i] = Free])
      BY <1>9 DEF RxEnd, FinishOut
    <2>2. i # 0 => i \in Slot
      BY SlotFacts
    <2> HIDE DEF i
    <2>3. Kept(out, out')
      BY <1>2, <1>3, <2>1, <2>2
    <2>4. QED
      BY <2>1, <2>3, PlainStep
  <1>10. QED
    BY <1>5, <1>6, <1>7, <1>8, <1>9

\* frames that make a sender push on
LEMMA PushShape ==
  ASSUME NEW ids, Sound(ids), NEW e \in Ends, RxAccept(e) \/ RxAck(e)
  PROVE  Ordinary(e)
  <1> DEFINE m == Head(chan[e])
             i == SlotFind(out[e], m.id)
             a == [out[e][i] EXCEPT !.state = "SENDING", !.retries = 0]
             b == Acked(out[e][i], m.arg)
  <1>1. i # 0 /\ chan[e] # <<>> /\ (m.op = "ACCEPT" \/ m.op = "ACK")
    BY DEF RxAccept, RxAck, Heard
  <1>2. i \in Slot /\ out[e][i] # Free
    BY <1>1, SlotFacts
  <1>3. \/ Ignored(e, i)
        \/ /\ \/ /\ out' = [out EXCEPT ![e][i] = Pump(a).stream]
                 /\ chan' = Reply(e, Pump(a).msgs)
              \/ /\ m.op = "ACK"
                 /\ out' = [out EXCEPT ![e][i] = Pump(b).stream]
                 /\ chan' = Reply(e, Pump(b).msgs)
           /\ UNCHANGED <<received, begun, next_id>>
    BY DEF RxAck, RxAccept, Heard, history
  <1>4. m \in Msg
    BY <1>1, SoundTypes
  <1> HIDE DEF i, m
  <1>5. out[e][i] \in Outbound
    BY <1>2, SoundTypes
  <1>6. a \in Outbound /\ a.id = out[e][i].id /\ a.x = out[e][i].x
    BY <1>5 DEF Outbound
  <1>7. m.op = "ACK" => b \in Outbound /\ b.id = out[e][i].id /\ b.x = out[e][i].x
    <2>1. m.op = "ACK" => m.arg \in 0..SEQ
      BY <1>1, <1>4, MsgKinds DEF Acks
    <2>2. QED
      BY <1>5, <2>1, AckedOK
  <1> HIDE DEF a, b
  <1>8. CASE Ignored(e, i)
    BY <1>1, <1>2, <1>8, IgnoredShape
  <1>9. CASE /\ out' = [out EXCEPT ![e][i] = Pump(a).stream]
             /\ chan' = Reply(e, Pump(a).msgs)
             /\ UNCHANGED <<received, begun, next_id>>
    BY <1>1, <1>2, <1>6, <1>9, PumpStep
  <1>10. CASE /\ m.op = "ACK"
              /\ out' = [out EXCEPT ![e][i] = Pump(b).stream]
              /\ chan' = Reply(e, Pump(b).msgs)
              /\ UNCHANGED <<received, begun, next_id>>
    BY <1>1, <1>2, <1>7, <1>10, PumpStep
  <1>11. QED
    BY <1>3, <1>8, <1>9, <1>10

\* the expected chunk, and what it may hand over
LEMMA RxChunkShape ==
  ASSUME NEW ids, Sound(ids), NEW e \in Ends, RxChunk(e)
  PROVE  /\ Ordinary(e)
         /\ begun' = begun /\ reported' = reported
         /\ \/ received' = received
            \/ \E x \in begun : /\ received[x] = <<>>
                                /\ received' = [received EXCEPT ![x] = <<Content(x)>>]
  <1> DEFINE m == Head(chan[e])
             i == SlotFind(in[e], m.id)
             t == in[e][i]
             s == [t EXCEPT !.next_seq = @ + 1, !.running = Append(@, m.x)]
             a == m.seq * ChunkBytes + ChunkLen(m.x, m.seq)
             last == s.next_seq >= ChunksFor(s.x)
             Past == /\ in' = [in EXCEPT ![e][i] = Free]
                     /\ chan' = Reply(e, <<Op("ABORT", s.id, "CORRUPT")>>)
                     /\ UNCHANGED received
             Last == /\ in' = [in EXCEPT ![e][i] = Free]
                     /\ chan' = Reply(e, <<Op("DONE", s.id, Verdict(s))>>)
                     /\ received' = IF Verdict(s) = "OK"
                                    THEN [received EXCEPT ![s.x] =
                                            Append(@, s.running)]
                                    ELSE received
             More == /\ in' = [in EXCEPT ![e][i] = s]
                     /\ chan' = Reply(e, IF AckDue(s.next_seq) THEN <<Ack(s)>>
                                         ELSE <<>>)
                     /\ UNCHANGED received
  <1>1. /\ chan[e] # <<>> /\ m.op = "CHUNK" /\ i # 0
        /\ UNCHANGED <<out, next_id, begun, reported>>
    BY DEF RxChunk, Heard
  <1>2. Past \/ Last \/ More
    <2>1. (CASE a > Bytes[s.x] -> Past
             [] a <= Bytes[s.x] /\ last -> Last
             [] OTHER -> More)
      BY DEF RxChunk
    <2> HIDE DEF a, s, last, Past, Last, More
    <2>2. QED
      BY <2>1
  <1>3. i \in Slot /\ t # Free /\ t.id = m.id
    BY <1>1, SlotFacts
  <1>4. m \in Chunks
    BY <1>1, SoundTypes, MsgKinds
  <1>5. t \in Inbound /\ t.next_seq < SEQ /\ t.x \in begun /\ received[t.x] = <<>>
    BY <1>3 DEF Sound, Named, InOK, InStreamOK
  <1> HIDE DEF m, i
  <1>6. m.x \in Transfers
    BY <1>4 DEF Chunks
  <1>7. /\ s.id = t.id /\ s.x = t.x /\ s.next_seq = t.next_seq + 1
        /\ s.running = Append(t.running, m.x)
    BY <1>5, Zenon DEF Inbound
  <1>8. /\ t.x \in Transfers /\ t.next_seq \in 0..SEQ /\ t.running \in Seq(Transfers)
        /\ t.id \in Ids /\ SEQ \in Nat
    BY <1>5, DataAssumption DEF Inbound, Ids
  <1>9. Kept(out, out')
    BY <1>1, <1>3, SoundTypes, KeptFacts
  <1>10. DOMAIN received = Transfers
    BY DEF Sound, HistoryOK
  <1> HIDE DEF s
  <1>11. CASE Past
    <2>1. Op("ABORT", s.id, "CORRUPT") \in Plain
      BY <1>7, <1>8, PlainFrames DEF Result
    <2>2. QED
      BY <1>1, <1>9, <1>11, <2>1, PlainStep
  <1>12. CASE More
    <2>1. Ack(s) \in Plain
      BY <1>5, <1>7, <1>8, PlainFrames DEF Ack
    <2>2. QED
      BY <1>1, <1>9, <1>12, <2>1, PlainStep
  <1>13. CASE Last
    <2>1. PICK v \in Result : v = Verdict(s)
      BY DEF Verdict, Result
    <2>2. PICK w : w = Op("DONE", s.id, v)
      OBVIOUS
    <2>3. w \in Msg /\ w.op = "DONE" /\ w.id = m.id /\ w.arg = v
      BY <1>3, <1>7, <1>8, <2>2, PlainMsg DEF Op
    <2>4. chan' = Reply(e, <<w>>)
      BY <1>13, <2>1, <2>2
    <2>5. CASE v = "OK"
      <3>1. s.running = Content(s.x)
        BY <2>1, <2>5 DEF Verdict
      <3>2. m.x = t.x
        BY <1>6, <1>7, <1>8, <3>1, LastChunk
      <3>3. received' = [received EXCEPT ![t.x] = Append(@, Content(t.x))]
        BY <1>7, <1>13, <2>1, <2>5, <3>1
      <3>4. Append(<<>>, Content(t.x)) = <<Content(t.x)>>
        BY EmptySeq
      <3>5. received' = [received EXCEPT ![t.x] = <<Content(t.x)>>]
        BY <1>5, <1>10, <3>3, <3>4
      <3>6. /\ received'[t.x] = <<Content(t.x)>> /\ received'[t.x] # <<>>
            /\ \A x \in Transfers : x # t.x => received'[x] = received[x]
        BY <1>8, <1>10, <3>5
      <3>7. w \in Says(e)
        BY <1>1, <2>3, <3>2, <3>6 DEF Says, m
      <3>8. <<w>> \in Seq(Says(e))
        BY <3>7, OneAnswer
      <3>9. \A x \in Transfers : received[x] # <<>> => received'[x] # <<>>
        BY <3>6
      <3>10. Ordinary(e)
        BY <1>1, <1>9, <2>4, <3>8, <3>9 DEF Ordinary, Shape
      <3>11. QED
        BY <1>1, <1>5, <3>5, <3>10
    <2>6. CASE v # "OK"
      <3>1. received' = received
        BY <1>13, <2>1, <2>6
      <3>2. w \in Says(e)
        BY <1>1, <2>3, <2>6 DEF Says, m
      <3>3. <<w>> \in Seq(Says(e))
        BY <3>2, OneAnswer
      <3>4. Ordinary(e)
        BY <1>1, <1>9, <2>4, <3>1, <3>3 DEF Ordinary, Shape
      <3>5. QED
        BY <1>1, <3>1, <3>4
    <2>7. QED
      BY <2>5, <2>6
  <1>14. QED
    BY <1>2, <1>11, <1>12, <1>13

\* Every step is one of these, the beginning of a transfer or a restart
LEMMA Shapes ==
  ASSUME IInv, Next
  PROVE  \/ \E e \in Ends : Ordinary(e)
         \/ \E e \in Ends, x \in Transfers : Send(e, x)
         \/ \E e \in Ends : Restart(e)
  <1>1. PICK ids \in [Transfers -> Ids] : Sound(ids)
    BY DEF IInv, Sound
  <1>2. PICK e \in Ends :
          \/ \E x \in Transfers : Send(e, x)
          \/ \E i \in Slot : Decide(e, i) \/ Cancel(e, i) \/ Tick(e, i) \/ Idle(e, i)
          \/ Receive(e) \/ Lose(e) \/ Restart(e)
    BY DEF Next
  <1>3. ASSUME NEW i \in Slot,
               Decide(e, i) \/ Cancel(e, i) \/ Tick(e, i) \/ Idle(e, i)
        PROVE  Ordinary(e)
    BY <1>1, <1>3, AppShape, RetryShape DEF Tick
  <1>4. ASSUME Receive(e) \/ Lose(e)
        PROVE  Ordinary(e)
    BY <1>1, <1>4, ReadShape, PushShape, RxChunkShape DEF Receive
  <1>5. QED
    BY <1>2, <1>3, <1>4

-----------------------------------------------------------------------------
(* Ids name one stream *)

\* The open streams of an end have different ids
Distinct(o) ==
  \A e \in Ends, i, j \in Slot :
    o[e][i] # Free /\ o[e][j] # Free /\ o[e][i].id = o[e][j].id => i = j

\* frames on their way to d: a chunk is of the transfer that its id names at
\* the sender, and OK is said of a transfer that has been handed over
Right(d, o, rc) ==
  {m \in Msg :
     /\ m.op = "CHUNK" => \A i \in Slot :
          o[Peer(d)][i] # Free /\ o[Peer(d)][i].id = m.id => o[Peer(d)][i].x = m.x
     /\ m.op = "DONE" /\ m.arg = "OK" => \A i \in Slot :
          o[d][i] # Free /\ o[d][i].id = m.id => rc[o[d][i].x] # <<>>
     /\ m.op \in {"REJECT", "ABORT"} => m.arg # "OK"}

RInv ==
  /\ Distinct(out)
  /\ \A d \in Ends : chan[d] \in Seq(Right(d, out, received))

\* frames stay right when streams are kept and more is handed over
LEMMA RightGrows ==
  ASSUME NEW d \in Ends, NEW o, NEW rc, NEW p, NEW rd, Kept(o, p),
         o \in [Ends -> [Slot -> Outbound \cup {Free}]],
         \A x \in Transfers : rc[x] # <<>> => rd[x] # <<>>
  PROVE  Right(d, o, rc) \subseteq Right(d, p, rd)
  <1>1. Peer(d) \in Ends
    BY PeerFacts
  <1>2. ASSUME NEW e \in Ends, NEW i \in Slot, p[e][i] # Free
        PROVE  /\ o[e][i] # Free /\ p[e][i].id = o[e][i].id
               /\ p[e][i].x = o[e][i].x /\ o[e][i].x \in Transfers
    BY <1>2 DEF Kept, Outbound
  <1>3. QED
    BY <1>1, <1>2 DEF Right

\* channels after a step
LEMMA SeqStep ==
  ASSUME NEW e \in Ends, chan \in [Ends -> Seq(Msg)], NEW S, NEW T,
         chan[e] \in Seq(S), chan[Peer(e)] \in Seq(T), NEW ms \in Seq(T),
         \/ chan' = Say(e, ms)
         \/ chan[e] # <<>> /\ chan' = Reply(e, ms)
         \/ chan' = chan
  PROVE  chan'[e] \in Seq(S) /\ chan'[Peer(e)] \in Seq(T)
  <1>1. Peer(e) \in Ends /\ Peer(e) # e
    BY PeerFacts
  <1>2. chan[Peer(e)] \o ms \in Seq(T)
    BY ConcatProperties
  <1>3. chan[e] # <<>> => Tail(chan[e]) \in Seq(S)
    BY HeadTailProperties
  <1>4. CASE chan' = Say(e, ms)
    <2>1. chan'[e] = chan[e] /\ chan'[Peer(e)] = chan[Peer(e)] \o ms
      BY <1>1, <1>4 DEF Say
    <2>2. QED
      BY <1>2, <2>1
  <1>5. CASE chan[e] # <<>> /\ chan' = Reply(e, ms)
    <2>1. chan'[e] = Tail(chan[e]) /\ chan'[Peer(e)] = chan[Peer(e)] \o ms
      BY <1>1, <1>5 DEF Reply
    <2>2. QED
      BY <1>2, <1>3, <1>5, <2>1
  <1>6. QED
    BY <1>4, <1>5

\* An ordinary step keeps names right
LEMMA OrdinaryRight ==
  ASSUME IInv, RInv, NEW e \in Ends, Ordinary(e)
  PROVE  RInv'
  <1>1. /\ out \in [Ends -> [Slot -> Outbound \cup {Free}]]
        /\ chan \in [Ends -> Seq(Msg)] /\ Peer(e) \in Ends /\ Peer(Peer(e)) = e
        /\ Ends = {e, Peer(e)}
    BY PeerFacts DEF IInv, Named, OutOK, ChanOK
  <1>2. PICK ms : Shape(e, ms)
    BY DEF Ordinary
  <1>3. /\ ms \in Seq(Says(e)) /\ Kept(out, out')
        /\ \A x \in Transfers : received[x] # <<>> => received'[x] # <<>>
        /\ \/ chan' = Say(e, ms)
           \/ chan[e] # <<>> /\ chan' = Reply(e, ms)
           \/ chan' = chan
    BY <1>2 DEF Shape
  <1>4. Distinct(out')
    BY <1>3 DEF RInv, Distinct, Kept
  <1>5. ASSUME NEW d \in Ends
        PROVE  chan[d] \in Seq(Right(d, out', received'))
    <2>1. Right(d, out, received) \subseteq Right(d, out', received')
      BY <1>1, <1>3, RightGrows
    <2>2. QED
      BY <2>1, SeqMonotonic DEF RInv
  <1>6. Says(e) \subseteq Right(Peer(e), out', received')
    <2> SUFFICES ASSUME NEW m \in Says(e)
                 PROVE  m \in Right(Peer(e), out', received')
      OBVIOUS
    <2>1. ASSUME m.op = "CHUNK", NEW i \in Slot, out'[e][i] # Free, out'[e][i].id = m.id
          PROVE  out'[e][i].x = m.x
      <3>1. PICK j \in Slot : out'[e][j] # Free /\ out'[e][j].id = m.id /\ out'[e][j].x = m.x
        BY <2>1 DEF Says
      <3>2. i = j
        BY <1>4, <2>1, <3>1 DEF Distinct
      <3>3. QED
        BY <3>1, <3>2
    <2>2. ASSUME m.op = "DONE", m.arg = "OK", NEW i \in Slot,
                 out'[Peer(e)][i] # Free, out'[Peer(e)][i].id = m.id
          PROVE  received'[out'[Peer(e)][i].x] # <<>>
      <3>1. PICK f : f = Head(chan[e])
        OBVIOUS
      <3>2. chan[e] # <<>> /\ f.op = "CHUNK" /\ f.id = m.id /\ received'[f.x] # <<>>
        BY <2>2, <3>1 DEF Says
      <3>3. f \in Right(e, out', received')
        BY <1>5, <3>1, <3>2, HeadTailProperties
      <3>4. out'[Peer(e)][i].x = f.x
        BY <2>2, <3>2, <3>3 DEF Right
      <3>5. QED
        BY <3>2, <3>4
    <2>3. m \in Msg /\ (m.op \in {"REJECT", "ABORT"} => m.arg # "OK")
      BY DEF Says
    <2>4. QED
      BY <1>1, <2>1, <2>2, <2>3 DEF Right
  <1>7. ms \in Seq(Right(Peer(e), out', received'))
    BY <1>3, <1>6, SeqMonotonic
  <1>8. /\ chan'[e] \in Seq(Right(e, out', received'))
        /\ chan'[Peer(e)] \in Seq(Right(Peer(e), out', received'))
    BY <1>1, <1>3, <1>5, <1>7, SeqStep
  <1>9. QED
    BY <1>1, <1>4, <1>8 DEF RInv

\* a sequence is one of what its elements are
LEMMA Rebuild ==
  ASSUME NEW S, NEW T, NEW u \in Seq(S), \A k \in 1..Len(u) : u[k] \in T
  PROVE  u \in Seq(T)
  <1>1. u = [k \in 1..Len(u) |-> u[k]] /\ Len(u) \in Nat
    BY LenProperties
  <1>2. [k \in 1..Len(u) |-> u[k]] \in Seq(T)
    BY <1>1, IsASeq
  <1>3. QED
    BY <1>1, <1>2

\* a transfer begun under an id that is free
LEMMA SendRight ==
  ASSUME IInv, RInv, NEW e \in Ends, NEW x \in Transfers, Send(e, x), IdFree(e)
  PROVE  RInv'
  <1> DEFINE i == SlotFree(out[e])
             s == [state |-> "OFFERING", id |-> next_id[e], x |-> x,
                   next_seq |-> 0, acked |-> 0, rewound_to |-> NoRewind,
                   retries |-> 0]
             w == Op("OFFER", next_id[e], x)
  <1>1. /\ out \in [Ends -> [Slot -> Outbound \cup {Free}]]
        /\ chan \in [Ends -> Seq(Msg)] /\ next_id \in [Ends -> Ids]
        /\ Peer(e) \in Ends /\ Peer(Peer(e)) = e /\ Peer(e) # e
        /\ Ends = {e, Peer(e)}
    BY PeerFacts DEF IInv, Named, OutOK, ChanOK
  <1>2. /\ i # 0 /\ out' = [out EXCEPT ![e][i] = s]
        /\ chan' = Say(e, <<w>>) /\ received' = received
    BY DEF Send
  <1>3. i \in Slot /\ out[e][i] = Free
    BY <1>2, SlotFacts
  <1>4. s.id = next_id[e] /\ s.x = x
    OBVIOUS
  <1>5. w \in Plain
    BY <1>1, PlainFrames
  <1> HIDE DEF i, s, w
  <1>6. \A d \in Ends, j \in Slot :
          out'[d][j] = IF d = e /\ j = i THEN s ELSE out[d][j]
    BY <1>1, <1>2, <1>3
  <1>7. Distinct(out')
    <2> SUFFICES ASSUME NEW d \in Ends, NEW j \in Slot, NEW k \in Slot,
                        out'[d][j] # Free, out'[d][k] # Free,
                        out'[d][j].id = out'[d][k].id
                 PROVE  j = k
      BY DEF Distinct
    <2>1. CASE d = e
      BY <1>4, <1>6, <2>1 DEF IdFree, RInv, Distinct
    <2>2. CASE d # e
      BY <1>6, <2>2 DEF RInv, Distinct
    <2>3. QED
      BY <2>1, <2>2
  <1>8. chan[e] \in Seq(Right(e, out', received'))
    <2>1. chan[e] \in Seq(Right(e, out, received))
      BY DEF RInv
    <2>2. ASSUME NEW k \in 1..Len(chan[e])
          PROVE  chan[e][k] \in Right(e, out', received')
      <3>1. PICK m : m = chan[e][k]
        OBVIOUS
      <3>2. m \in Right(e, out, received)
        BY <2>1, <3>1, ElementOfSeq
      <3>3. m.op = "DONE" => m.id # s.id
        BY <1>4, <3>1 DEF IdFree
      <3>4. m \in Right(e, out', received')
        BY <1>1, <1>2, <1>6, <3>2, <3>3 DEF Right
      <3>5. QED
        BY <3>1, <3>4
    <2>3. QED
      BY <2>1, <2>2, Rebuild
  <1>9. chan[Peer(e)] \in Seq(Right(Peer(e), out', received'))
    <2>1. chan[Peer(e)] \in Seq(Right(Peer(e), out, received))
      BY <1>1 DEF RInv
    <2>2. ASSUME NEW k \in 1..Len(chan[Peer(e)])
          PROVE  chan[Peer(e)][k] \in Right(Peer(e), out', received')
      <3>1. PICK m : m = chan[Peer(e)][k]
        OBVIOUS
      <3>2. m \in Right(Peer(e), out, received)
        BY <2>1, <3>1, ElementOfSeq
      <3>3. m.op = "CHUNK" => m.id # s.id
        BY <1>4, <3>1 DEF IdFree
      <3>4. m \in Right(Peer(e), out', received')
        BY <1>1, <1>2, <1>6, <3>2, <3>3 DEF Right
      <3>5. QED
        BY <3>1, <3>4
    <2>3. QED
      BY <2>1, <2>2, Rebuild
  <1>10. <<w>> \in Seq(Right(Peer(e), out', received'))
    <2>1. w \in Right(Peer(e), out', received')
      BY <1>5 DEF Plain, Right
    <2>2. QED
      BY <2>1, OneAnswer
  <1>11. /\ chan'[e] \in Seq(Right(e, out', received'))
         /\ chan'[Peer(e)] \in Seq(Right(Peer(e), out', received'))
    BY <1>1, <1>2, <1>8, <1>9, <1>10, SeqStep
  <1>12. QED
    BY <1>1, <1>7, <1>11 DEF RInv

\* and a restart, which leaves no frame and no stream of its end
LEMMA RestartRight ==
  ASSUME IInv, RInv, NEW e \in Ends, Restart(e)
  PROVE  RInv'
  <1>1. /\ out \in [Ends -> [Slot -> Outbound \cup {Free}]]
        /\ chan \in [Ends -> Seq(Msg)]
        /\ Ends = {e, Peer(e)}
    BY PeerFacts DEF IInv, Named, OutOK, ChanOK
  <1>2. \A d \in Ends : chan'[d] = <<>>
    BY <1>1 DEF Restart
  <1>3. \A d \in Ends, i \in Slot : out'[d][i] = Free \/ out'[d][i] = out[d][i]
    BY <1>1 DEF Restart
  <1>4. Distinct(out')
    BY <1>3 DEF RInv, Distinct
  <1>5. QED
    BY <1>2, <1>4, EmptySeq DEF RInv

\* Names stay right
LEMMA RightStep == IInv /\ RInv /\ [Next /\ FreshIds]_vars => RInv'
  <1> SUFFICES ASSUME IInv, RInv, [Next /\ FreshIds]_vars PROVE RInv'
    OBVIOUS
  <1>1. CASE UNCHANGED vars
    BY <1>1 DEF vars, RInv
  <1>2. CASE Next /\ FreshIds
    BY <1>2, Shapes, OrdinaryRight, SendRight, RestartRight DEF FreshIds
  <1>3. QED
    BY <1>1, <1>2

-----------------------------------------------------------------------------
(* The refinement *)

Delivered == {x \in Transfers : received[x] # <<>>}
Told == [x \in Transfers |-> IF reported[x] \in {"NONE", "OK"} THEN reported[x]
                             ELSE "FAILED"]

\* Init maps to Init
LEMMA RefineInit == Init => Abstract!Init /\ RInv
  <1> SUFFICES ASSUME Init PROVE Abstract!Init /\ RInv
    OBVIOUS
  <1>1. Abstract!Init
    BY DEF Init, Abstract!Init
  <1>2. RInv
    BY EmptySeq DEF Init, RInv, Distinct
  <1>3. QED
    BY <1>1, <1>2

\* An outbound stream that ends is a report
LEMMA ReportStep ==
  ASSUME IInv, NEW e \in Ends, NEW i \in Slot, out[e][i] # Free,
         NEW r \in Result, FinishOut(e, i, r),
         r = "OK" => received[out[e][i].x] # <<>>,
         UNCHANGED <<begun, received>>
  PROVE  Abstract!Next
  <1>1. PICK x : x = out[e][i].x
    OBVIOUS
  <1>2. /\ x \in Transfers /\ x \in begun /\ reported[x] = "NONE"
        /\ reported \in [Transfers -> Result \cup {"NONE", "CRASHED"}]
    BY <1>1 DEF IInv, Named, OutOK, OutStreamOK, Outbound, HistoryOK
  <1>3. reported' = [reported EXCEPT ![x] = r]
    BY <1>1 DEF FinishOut
  <1>4. Told[x] = "NONE"
    BY <1>2 DEF Told
  <1>5. Told' = [Told EXCEPT ![x] = IF r = "OK" THEN "OK" ELSE "FAILED"]
    <2>1. \A y \in Transfers :
            Told'[y] = IF y = x THEN IF r = "OK" THEN "OK" ELSE "FAILED" ELSE Told[y]
      BY <1>2, <1>3 DEF Told, Result
    <2>2. /\ Told' \in [Transfers -> {"NONE", "OK", "FAILED"}]
          /\ Told \in [Transfers -> {"NONE", "OK", "FAILED"}]
      BY DEF Told
    <2>3. QED
      BY <1>2, <2>1, <2>2
  <1>6. r = "OK" => x \in Delivered
    BY <1>1, <1>2 DEF Delivered
  <1>7. Delivered' = Delivered /\ begun' = begun
    BY DEF Delivered
  <1>8. Abstract!Report(x)
    BY <1>2, <1>4, <1>5, <1>6, <1>7 DEF Abstract!Report, Told, Delivered
  <1>9. QED
    BY <1>2, <1>8 DEF Abstract!Next

\* A chunk that completes a transfer is its delivery
LEMMA DeliverStep ==
  ASSUME IInv, NEW x \in begun, received[x] = <<>>,
         received' = [received EXCEPT ![x] = <<Content(x)>>],
         UNCHANGED <<begun, reported>>
  PROVE  Abstract!Next
  <1>1. x \in Transfers /\ DOMAIN received = Transfers
    BY DEF IInv, HistoryOK
  <1>2. /\ received'[x] # <<>>
        /\ \A y \in Transfers : y # x => received'[y] = received[y]
    BY <1>1
  <1>3. Delivered' = Delivered \cup {x} /\ x \notin Delivered
    BY <1>1, <1>2 DEF Delivered
  <1>4. Told' = Told
    BY DEF Told
  <1>5. Abstract!Deliver(x)
    BY <1>3, <1>4 DEF Abstract!Deliver, Told, Delivered
  <1>6. QED
    BY <1>1, <1>5 DEF Abstract!Next

\* A restart takes the transfers of its end that were open with it
LEMMA CrashStep ==
  ASSUME IInv, NEW e \in Ends, Restart(e)
  PROVE  Abstract!Next
  <1> DEFINE S == {x \in begun : From[x] = e}
  <1>1. begun' = begun /\ received' = received /\ S \in SUBSET begun
    BY DEF Restart
  <1>2. begun \subseteq Transfers
        /\ reported \in [Transfers -> Result \cup {"NONE", "CRASHED"}]
    BY DEF IInv, HistoryOK
  <1>3. Told' = [x \in Transfers |-> IF x \in S /\ Told[x] = "NONE" THEN "FAILED"
                                     ELSE Told[x]]
    <2>1. ASSUME NEW x \in Transfers
          PROVE  /\ Told[x] = IF reported[x] \in {"NONE", "OK"} THEN reported[x]
                              ELSE "FAILED"
                 /\ Told'[x] = IF reported'[x] \in {"NONE", "OK"} THEN reported'[x]
                               ELSE "FAILED"
                 /\ reported'[x] = IF From[x] = e /\ x \in begun /\ reported[x] = "NONE"
                                   THEN "CRASHED" ELSE reported[x]
      BY DEF Told, Restart
    <2>2. ASSUME NEW x \in Transfers
          PROVE  Told'[x] = IF x \in S /\ Told[x] = "NONE" THEN "FAILED" ELSE Told[x]
      BY <1>2, <2>1
    <2>3. Told' = [x \in Transfers |-> Told'[x]]
      BY DEF Told
    <2>4. QED
      BY <2>2, <2>3
  <1>4. Delivered' = Delivered
    BY <1>1 DEF Delivered
  <1> HIDE DEF S
  <1>5. Abstract!Crash
    BY <1>1, <1>3, <1>4 DEF Abstract!Crash, Told, Delivered
  <1>6. QED
    BY <1>5 DEF Abstract!Next

\* A transfer begun
LEMMA BeginStep ==
  ASSUME NEW e \in Ends, NEW x \in Transfers, Send(e, x)
  PROVE  Abstract!Next
  <1>1. x \notin begun /\ begun' = begun \cup {x} /\ UNCHANGED <<reported, received>>
    BY DEF Send
  <1>2. Delivered' = Delivered /\ Told' = Told
    BY <1>1 DEF Delivered, Told
  <1>3. Abstract!Begin(x)
    BY <1>1, <1>2 DEF Abstract!Begin, Delivered, Told
  <1>4. QED
    BY <1>3 DEF Abstract!Next

\* Nothing an application can see
LEMMA Silent ==
  ASSUME UNCHANGED <<begun, reported, received>>
  PROVE  UNCHANGED Abstract!vars
  BY DEF Abstract!vars

\* A verdict, a refusal or an abort that ends a stream is a report of it
LEMMA EndStep ==
  ASSUME IInv, RInv, NEW e \in Ends, RxEnd(e)
  PROVE  [Abstract!Next]_(Abstract!vars)
  <1> DEFINE i == SlotFind(out[e], Head(chan[e]).id)
  <1>1. PICK m : m = Head(chan[e])
    OBVIOUS
  <1>2. /\ chan[e] # <<>> /\ m.op \in {"DONE", "REJECT", "ABORT"}
        /\ UNCHANGED <<begun, received>>
        /\ \/ UNCHANGED reported
           \/ i # 0 /\ FinishOut(e, i, m.arg)
    BY <1>1 DEF RxEnd, EndResult
  <1>3. m \in Right(e, out, received)
    <2>1. chan[e] \in Seq(Right(e, out, received))
      BY DEF RInv
    <2>2. QED
      BY <1>1, <1>2, <2>1, HeadTailProperties
  <1>4. m.arg \in Result
    <2>1. m \in Msg
      BY <1>3 DEF Right
    <2>2. QED
      BY <1>2, <2>1, MsgKinds DEF Ending
  <1>5. i # 0 => i \in Slot /\ out[e][i] # Free /\ out[e][i].id = m.id
    BY <1>1, SlotFacts
  <1> HIDE DEF i
  <1>6. CASE UNCHANGED reported
    BY <1>2, <1>6, Silent
  <1>7. CASE i # 0 /\ FinishOut(e, i, m.arg)
    <2>1. m.arg = "OK" => received[out[e][i].x] # <<>>
      BY <1>2, <1>3, <1>5, <1>7 DEF Right
    <2>2. QED
      BY <1>2, <1>4, <1>5, <1>7, <2>1, ReportStep
  <1>8. QED
    BY <1>2, <1>6, <1>7

\* Every step is a step of Transfer, or none
LEMMA RefineStep == IInv /\ RInv /\ [Next]_vars => [Abstract!Next]_(Abstract!vars)
  <1> SUFFICES ASSUME IInv, RInv, [Next]_vars PROVE [Abstract!Next]_(Abstract!vars)
    OBVIOUS
  <1>1. CASE UNCHANGED vars
    BY <1>1, Silent DEF vars
  <1>2. ASSUME NEW e \in Ends, NEW x \in Transfers, Send(e, x)
        PROVE  Abstract!Next
    BY <1>2, BeginStep
  <1>3. ASSUME NEW e \in Ends, NEW i \in Slot,
               Decide(e, i) \/ Cancel(e, i) \/ Tick(e, i) \/ Idle(e, i)
        PROVE  [Abstract!Next]_(Abstract!vars)
    <2>1. \/ UNCHANGED <<begun, reported, received>>
          \/ \E r \in {"CANCELLED", "TIMEOUT"} :
               out[e][i] # Free /\ FinishOut(e, i, r) /\ UNCHANGED <<begun, received>>
      <3>1. CASE Decide(e, i) \/ Retry(e, i) \/ Idle(e, i)
        BY <3>1 DEF Decide, Accept, Reject, Retry, Idle, history
      <3>2. CASE Cancel(e, i) \/ GiveUp(e, i)
        BY <3>2 DEF Cancel, GiveUp
      <3>3. QED
        BY <1>3, <3>1, <3>2 DEF Tick
    <2>2. CASE UNCHANGED <<begun, reported, received>>
      BY <2>2, Silent
    <2>3. ASSUME NEW r \in {"CANCELLED", "TIMEOUT"}, out[e][i] # Free,
                 FinishOut(e, i, r), UNCHANGED <<begun, received>>
          PROVE  Abstract!Next
      <3>1. r \in Result /\ r # "OK"
        BY DEF Result
      <3>2. QED
        BY <2>3, <3>1, ReportStep
    <2>4. QED
      BY <2>1, <2>2, <2>3
  <1>4. ASSUME NEW e \in Ends, Receive(e) \/ Lose(e)
        PROVE  [Abstract!Next]_(Abstract!vars)
    <2>1. CASE RxEnd(e)
      BY <2>1, EndStep
    <2>2. CASE RxChunk(e)
      <3>1. PICK ids \in [Transfers -> Ids] : Sound(ids)
        BY DEF IInv, Sound
      <3>2. /\ begun' = begun /\ reported' = reported
            /\ \/ received' = received
               \/ \E x \in begun :
                    /\ received[x] = <<>>
                    /\ received' = [received EXCEPT ![x] = <<Content(x)>>]
        BY <2>2, <3>1, RxChunkShape
      <3>3. QED
        BY <3>2, Silent, DeliverStep
    <2>3. CASE \/ RxOffer(e) \/ RxUnknown(e) \/ RxAccept(e) \/ RxAck(e)
               \/ RxChunkAstray(e) \/ RxChunkDropped(e) \/ Lose(e)
      <3>1. UNCHANGED <<begun, reported, received>>
        BY <2>3 DEF RxOffer, RxUnknown, RxAccept, RxAck, RxChunkAstray,
                    RxChunkDropped, Lose, Ignored, history
      <3>2. QED
        BY <3>1, Silent
    <2>4. QED
      BY <1>4, <2>1, <2>2, <2>3 DEF Receive
  <1>5. ASSUME NEW e \in Ends, Restart(e)
        PROVE  Abstract!Next
    BY <1>5, CrashStep
  <1>6. QED
    BY <1>1, <1>2, <1>3, <1>4, <1>5 DEF Next

\* Bulk transfer implements Transfer while ids come round to streams that have
\* ended: one report for each transfer, success only of what was handed over
\* whole, and no transfer handed over twice, for any window, slots, lengths
\* and any number of faults (dhp_data_send, dhp_data_rx, dhp_data_tick).
THEOREM Refinement == Spec /\ [][FreshIds]_vars => Implements
  <1>1. Init => IInv /\ RInv /\ Abstract!Init
    BY InitOK, RefineInit
  <1>2. IInv /\ RInv /\ [Next]_vars /\ [FreshIds]_vars =>
          IInv' /\ RInv' /\ [Abstract!Next]_(Abstract!vars)
    BY NextOK, RightStep, RefineStep
  <1>3. QED
    BY <1>1, <1>2, PTL DEF Spec, Implements, Abstract!Spec

-----------------------------------------------------------------------------
(* When ids are free: no more transfers than there are ids *)

\* fewer transfers are begun than there are ids to go round
FewTransfers == \A load \in Loads : IsFiniteSet(load) /\ Cardinality(load) < IDS

\* chunks and verdicts on their way to d are about ids that have been given
Given(d, nid) ==
  {m \in Msg : /\ m.op = "CHUNK" => m.id < nid[Peer(d)]
               /\ m.op = "DONE" => m.id < nid[d]}

\* Until they have all been given, ids are given in order
CInv ==
  /\ IsFiniteSet(begun)
  /\ Cardinality(begun) < IDS - 1 =>
       \A e \in Ends :
         /\ next_id[e] <= Cardinality(begun) + 1
         /\ \A i \in Slot : out[e][i] # Free => out[e][i].id < next_id[e]
         /\ chan[e] \in Seq(Given(e, next_id))

\* an ordinary step names no new stream
LEMMA OrdinaryGiven ==
  ASSUME IInv, CInv, NEW e \in Ends, Ordinary(e)
  PROVE  CInv'
  <1>1. /\ out \in [Ends -> [Slot -> Outbound \cup {Free}]]
        /\ chan \in [Ends -> Seq(Msg)] /\ Peer(e) \in Ends /\ Peer(Peer(e)) = e
        /\ Ends = {e, Peer(e)}
    BY PeerFacts DEF IInv, Named, OutOK, ChanOK
  <1>2. PICK ms : Shape(e, ms)
    BY DEF Ordinary
  <1>3. /\ ms \in Seq(Says(e)) /\ Kept(out, out')
        /\ \/ chan' = Say(e, ms)
           \/ chan[e] # <<>> /\ chan' = Reply(e, ms)
           \/ chan' = chan
        /\ begun' = begun /\ next_id' = next_id
    BY <1>2 DEF Shape
  <1> SUFFICES ASSUME Cardinality(begun) < IDS - 1
               PROVE  \A d \in Ends :
                        /\ \A i \in Slot : out'[d][i] # Free => out'[d][i].id < next_id[d]
                        /\ chan'[d] \in Seq(Given(d, next_id))
    BY <1>3 DEF CInv
  <1>4. \A d \in Ends, i \in Slot : out'[d][i] # Free => out'[d][i].id < next_id[d]
    BY <1>3 DEF CInv, Kept
  <1>5. Says(e) \subseteq Given(Peer(e), next_id)
    <2> SUFFICES ASSUME NEW m \in Says(e) PROVE m \in Given(Peer(e), next_id)
      OBVIOUS
    <2>1. m.op = "CHUNK" => m.id < next_id[e]
      BY <1>4 DEF Says
    <2>2. ASSUME m.op = "DONE" PROVE m.id < next_id[Peer(e)]
      <3>1. PICK f : f = Head(chan[e])
        OBVIOUS
      <3>2. chan[e] # <<>> /\ f.op = "CHUNK" /\ f.id = m.id
        BY <2>2, <3>1 DEF Says
      <3>3. chan[e] \in Seq(Given(e, next_id))
        BY DEF CInv
      <3>4. f \in Given(e, next_id)
        BY <3>1, <3>2, <3>3, HeadTailProperties
      <3>5. QED
        BY <3>2, <3>4 DEF Given
    <2>3. QED
      BY <1>1, <2>1, <2>2 DEF Says, Given
  <1>6. ms \in Seq(Given(Peer(e), next_id))
    BY <1>3, <1>5, SeqMonotonic
  <1>7. chan[e] \in Seq(Given(e, next_id)) /\ chan[Peer(e)] \in Seq(Given(Peer(e), next_id))
    BY <1>1 DEF CInv
  <1>8. chan'[e] \in Seq(Given(e, next_id)) /\ chan'[Peer(e)] \in Seq(Given(Peer(e), next_id))
    BY <1>1, <1>3, <1>6, <1>7, SeqStep
  <1>9. QED
    BY <1>1, <1>4, <1>8

\* a new one takes an id that is free, and the next
LEMMA SendGiven ==
  ASSUME IInv, CInv, FewTransfers, NEW e \in Ends, NEW x \in Transfers, Send(e, x)
  PROVE  CInv' /\ IdFree(e)
  <1> DEFINE i == SlotFree(out[e])
             s == [state |-> "OFFERING", id |-> next_id[e], x |-> x,
                   next_seq |-> 0, acked |-> 0, rewound_to |-> NoRewind,
                   retries |-> 0]
             w == Op("OFFER", next_id[e], x)
             c == Cardinality(begun)
  <1>1. /\ out \in [Ends -> [Slot -> Outbound \cup {Free}]]
        /\ chan \in [Ends -> Seq(Msg)] /\ next_id \in [Ends -> Ids]
        /\ Peer(e) \in Ends /\ Peer(Peer(e)) = e /\ Peer(e) # e
        /\ Ends = {e, Peer(e)}
    BY PeerFacts DEF IInv, Named, OutOK, ChanOK
  <1>2. /\ i # 0 /\ out' = [out EXCEPT ![e][i] = s]
        /\ next_id' = [next_id EXCEPT ![e] = NextId(next_id[e])]
        /\ chan' = Say(e, <<w>>) /\ begun' = begun \cup {x} /\ x \notin begun
    BY DEF Send
  <1>3. i \in Slot
    BY <1>2, SlotFacts
  <1>4. s.id = next_id[e] /\ w \in Plain
    BY <1>1, PlainFrames
  <1> HIDE DEF i, s, w
  <1>5. PICK load \in Loads : begun \cup {x} \subseteq load
    BY DEF Send
  <1>6. /\ IsFiniteSet(begun') /\ c \in Nat /\ Cardinality(begun') = c + 1
        /\ c + 1 <= Cardinality(load) /\ Cardinality(load) \in Nat
    <2>1. IsFiniteSet(load) /\ IsFiniteSet(begun)
      BY DEF FewTransfers, CInv
    <2>2. IsFiniteSet(begun') /\ Cardinality(begun') = c + 1
      BY <1>2, <2>1, FS_AddElement
    <2>3. Cardinality(begun') <= Cardinality(load)
      BY <1>2, <1>5, <2>1, FS_Subset
    <2>4. QED
      BY <2>1, <2>2, <2>3, FS_CardinalityType
  <1>7. c < IDS - 1 /\ IDS \in Nat \ {0, 1}
    BY <1>6, DataAssumption DEF FewTransfers
  <1>8. \A d \in Ends :
          /\ next_id[d] <= c + 1 /\ next_id[d] \in 1..(IDS - 1)
          /\ \A j \in Slot : out[d][j] # Free => out[d][j].id < next_id[d]
          /\ chan[d] \in Seq(Given(d, next_id))
    BY <1>1, <1>7 DEF CInv, Ids
  <1> HIDE DEF c
  <1>9. IdFree(e)
    <2>1. \A j \in Slot : out[e][j] # Free => out[e][j].id # next_id[e]
      BY <1>8
    <2>2. ASSUME NEW k \in 1..Len(chan[Peer(e)]), chan[Peer(e)][k].op = "CHUNK"
          PROVE  chan[Peer(e)][k].id # next_id[e]
      <3>1. PICK m : m = chan[Peer(e)][k]
        OBVIOUS
      <3>2. m \in Given(Peer(e), next_id)
        BY <1>1, <1>8, <3>1, ElementOfSeq
      <3>3. m.id < next_id[e]
        BY <1>1, <2>2, <3>1, <3>2 DEF Given
      <3>4. QED
        BY <1>8, <3>1, <3>3
    <2>3. ASSUME NEW k \in 1..Len(chan[e]), chan[e][k].op = "DONE"
          PROVE  chan[e][k].id # next_id[e]
      <3>1. PICK m : m = chan[e][k]
        OBVIOUS
      <3>2. m \in Given(e, next_id)
        BY <1>8, <3>1, ElementOfSeq
      <3>3. m.id < next_id[e]
        BY <2>3, <3>1, <3>2 DEF Given
      <3>4. QED
        BY <1>8, <3>1, <3>3
    <2>4. QED
      BY <2>1, <2>2, <2>3 DEF IdFree
  <1>10. ASSUME c + 1 < IDS - 1
         PROVE  \A d \in Ends :
                  /\ next_id'[d] <= c + 2
                  /\ \A j \in Slot : out'[d][j] # Free => out'[d][j].id < next_id'[d]
                  /\ chan'[d] \in Seq(Given(d, next_id'))
    <2>1. NextId(next_id[e]) = next_id[e] + 1
      <3>1. next_id[e] \in 1..(IDS - 2)
        BY <1>6, <1>7, <1>8, <1>10
      <3>2. ASSUME NEW id \in 1..(IDS - 2) PROVE id % (IDS - 1) = id
        BY <1>7
      <3>3. QED
        BY <3>1, <3>2 DEF NextId
    <2>2. /\ next_id'[e] = next_id[e] + 1 /\ next_id'[Peer(e)] = next_id[Peer(e)]
      BY <1>1, <1>2, <2>1
    <2>3. \A d \in Ends : next_id'[d] \in Nat /\ next_id[d] <= next_id'[d] /\ next_id'[d] <= c + 2
      BY <1>1, <1>6, <1>8, <2>2
    <2>4. \A d \in Ends, j \in Slot :
            out'[d][j] = IF d = e /\ j = i THEN s ELSE out[d][j]
      BY <1>1, <1>2, <1>3
    <2>5. ASSUME NEW d \in Ends, NEW j \in Slot, out'[d][j] # Free
          PROVE  out'[d][j].id < next_id'[d]
      <3>1. CASE d = e /\ j = i
        BY <1>4, <1>8, <2>2, <2>4, <3>1
      <3>2. CASE ~(d = e /\ j = i)
        <4>1. out'[d][j] = out[d][j] /\ out[d][j].id < next_id[d]
          BY <1>8, <2>4, <2>5, <3>2
        <4>2. out[d][j].id \in Nat
          <5>1. out[d][j] \in Outbound
            BY <1>1, <2>5, <4>1
          <5>2. QED
            BY <5>1, <1>7 DEF Outbound
        <4>3. QED
          BY <1>8, <2>3, <4>1, <4>2
      <3>3. QED
        BY <3>1, <3>2
    <2>6. ASSUME NEW d \in Ends
          PROVE  chan[d] \in Seq(Given(d, next_id'))
      <3>1. Given(d, next_id) \subseteq Given(d, next_id')
        <4>1. Peer(d) \in Ends
          BY PeerFacts
        <4>2. ASSUME NEW m \in Msg PROVE m.id \in Nat
          BY <1>7, MsgKinds DEF Ids
        <4>3. ASSUME NEW a \in Nat, NEW b \in Ends, a < next_id[b]
              PROVE  a < next_id'[b]
          BY <1>8, <2>3, <4>3
        <4>4. QED
          BY <4>1, <4>2, <4>3 DEF Given
      <3>2. QED
        BY <1>8, <3>1, SeqMonotonic
    <2>7. <<w>> \in Seq(Given(Peer(e), next_id'))
      <3>1. w \in Given(Peer(e), next_id')
        BY <1>4 DEF Plain, Given
      <3>2. QED
        BY <3>1, OneAnswer
    <2>8. /\ chan'[e] \in Seq(Given(e, next_id'))
          /\ chan'[Peer(e)] \in Seq(Given(Peer(e), next_id'))
      BY <1>1, <1>2, <2>6, <2>7, SeqStep
    <2>9. QED
      BY <1>1, <2>3, <2>5, <2>8
  <1>11. CInv'
    BY <1>6, <1>10 DEF CInv
  <1>12. QED
    BY <1>9, <1>11

\* After a restart the ids start over, with nothing about the old ones left
LEMMA RestartGiven ==
  ASSUME IInv, CInv, NEW e \in Ends, Restart(e)
  PROVE  CInv'
  <1>1. /\ out \in [Ends -> [Slot -> Outbound \cup {Free}]]
        /\ chan \in [Ends -> Seq(Msg)] /\ next_id \in [Ends -> Ids]
        /\ Ends = {e, Peer(e)} /\ Peer(e) # e
    BY PeerFacts DEF IInv, Named, OutOK, ChanOK
  <1>2. begun' = begun /\ (\A d \in Ends : chan'[d] = <<>>)
    BY <1>1 DEF Restart
  <1>3. \A i \in Slot : out'[e][i] = Free
    BY <1>1 DEF Restart
  <1>4. next_id'[e] = 1 /\ next_id'[Peer(e)] = next_id[Peer(e)]
        /\ out'[Peer(e)] = out[Peer(e)]
    BY <1>1 DEF Restart
  <1>5. Cardinality(begun) \in Nat
    BY FS_CardinalityType DEF CInv
  <1>6. ASSUME Cardinality(begun) < IDS - 1, NEW d \in Ends
        PROVE  /\ next_id'[d] <= Cardinality(begun) + 1
               /\ \A i \in Slot : out'[d][i] # Free => out'[d][i].id < next_id'[d]
    BY <1>1, <1>3, <1>4, <1>5, <1>6 DEF CInv
  <1>7. QED
    BY <1>2, <1>6, EmptySeq DEF CInv

\* As long as no more transfers are begun than there are ids, ids are free
\* and the protocol implements Transfer without more ado (dhp_data_send).
THEOREM FewRefine == FewTransfers => (Spec => Implements)
  <1> SUFFICES ASSUME FewTransfers PROVE Spec => Implements
    OBVIOUS
  <1>1. Init => IInv /\ CInv
    <2>1. Init => CInv
      BY FS_EmptySet, EmptySeq, DataAssumption DEF Init, CInv
    <2>2. QED
      BY <2>1, InitOK
  <1>2. IInv /\ CInv /\ [Next]_vars => IInv' /\ CInv' /\ [FreshIds]_vars
    <2> SUFFICES ASSUME IInv, CInv, [Next]_vars PROVE CInv' /\ [FreshIds]_vars
      BY NextOK
    <2>1. CASE UNCHANGED vars
      BY <2>1 DEF vars, CInv
    <2>2. CASE Next
      <3>1. FreshIds
        BY SendGiven DEF FreshIds
      <3>2. CInv'
        BY <2>2, Shapes, OrdinaryGiven, SendGiven, RestartGiven
      <3>3. QED
        BY <3>1, <3>2
    <2>3. QED
      BY <2>1, <2>2
  <1>3. QED
    BY <1>1, <1>2, Refinement, PTL DEF Spec

-----------------------------------------------------------------------------
(* Confirmed and taken *)

\* where the frames of a kind about id stand in a channel
Of(q, op, id) == {k \in DOMAIN q : q[k].op = op /\ q[k].id = id}

\* Nothing has come of the accepts of id that are on their way in q: the
\* receiver's table n holds no chunk, and its acks since confirm none
Untouched(n, q, id) ==
  Of(q, "ACCEPT", id) # {} =>
    /\ \A j \in Slot : n[j] # Free /\ n[j].id = id => n[j].next_seq = 0
    /\ \A k \in Of(q, "ACCEPT", id), l \in Of(q, "ACK", id) : k < l => q[l].arg = 0

\* An outbound stream, the peer's inbound table n, the channel q back to the
\* sender and p to the receiver.  While it is being offered nothing is sent;
Offered(s, n, q, p) ==
  /\ s.acked = 0 /\ s.next_seq = 0
  /\ Untouched(n, q, s.id)
  /\ Of(p, "CHUNK", s.id) = {}
  /\ \A j \in Slot : n[j] # Free /\ n[j].id = s.id /\ n[j].x = s.x => n[j].next_seq = 0

\* then acks come in order, between what is confirmed and what is taken, which
\* are a window apart; and as long as an offer is on its way, ahead of the
\* chunks, nothing is taken that a new inbound stream would not have.
Started(s, n, q, p) ==
  /\ s.acked <= ChunksFor(s.x)
  /\ \A k \in Of(q, "ACK", s.id) :
       /\ s.acked <= q[k].arg /\ q[k].arg <= ChunksFor(s.x)
       /\ \A l \in Of(q, "ACK", s.id) : k < l => q[k].arg <= q[l].arg
       /\ \A j \in Slot : n[j] # Free /\ n[j].id = s.id => q[k].arg <= n[j].next_seq
  /\ \A j \in Slot : n[j] # Free /\ n[j].id = s.id =>
       /\ s.acked <= n[j].next_seq
       /\ n[j].next_seq <= s.acked + Window /\ n[j].next_seq <= ChunksFor(s.x)
  /\ \A k \in Of(p, "CHUNK", s.id) :
       p[k].seq < s.acked + Window /\ p[k].seq < ChunksFor(s.x)
  /\ Of(p, "OFFER", s.id) # {} =>
       /\ s.acked = 0
       /\ \A k \in Of(q, "ACK", s.id) : q[k].arg = 0
       /\ \A j \in Slot : n[j] # Free /\ n[j].id = s.id => n[j].next_seq = 0
  /\ \A k \in Of(p, "CHUNK", s.id), l \in Of(p, "OFFER", s.id) : l < k

Stream(s, n, q, p) ==
  IF s.state = "OFFERING" THEN Offered(s, n, q, p) ELSE Started(s, n, q, p)

\* What r says about id with ops, q said before, in the same order
Follows(q, r, ops, id) ==
  \E c \in Nat : \A k \in DOMAIN r :
    r[k].op \in ops /\ r[k].id = id => k + c \in DOMAIN q /\ r[k] = q[k + c]

\* The inbound streams with id in table m are those in n
Tables(n, m, id) ==
  \A j \in Slot : m[j] # Free /\ m[j].id = id =>
    /\ n[j] # Free /\ n[j].id = id
    /\ n[j].x = m[j].x /\ n[j].next_seq = m[j].next_seq

\* such a place is one in the channel
LEMMA OfType ==
  ASSUME NEW q \in Seq(Msg), NEW op, NEW id, NEW k \in Of(q, op, id)
  PROVE  k \in Nat /\ k \in 1..Len(q) /\ q[k] \in Msg /\ q[k].op = op /\ q[k].id = id
  <1>1. k \in DOMAIN q /\ q[k].op = op /\ q[k].id = id
    BY DEF Of
  <1>2. DOMAIN q = 1..Len(q) /\ Len(q) \in Nat
    BY LenProperties
  <1>3. QED
    BY <1>1, <1>2, ElementOfSeq

\* a channel says what it says
LEMMA FollowsSelf ==
  ASSUME NEW q \in Seq(Msg), NEW ops, NEW id
  PROVE  Follows(q, q, ops, id)
  <1>1. DOMAIN q = 1..Len(q) /\ Len(q) \in Nat
    BY LenProperties
  <1>2. \A k \in DOMAIN q : k + 0 = k
    BY <1>1
  <1>3. \A k \in DOMAIN q : q[k].op \in ops /\ q[k].id = id
          => k + 0 \in DOMAIN q /\ q[k] = q[k + 0]
    BY <1>2
  <1>4. 0 \in Nat
    OBVIOUS
  <1>5. QED
    BY <1>3, <1>4, Zenon DEF Follows

\* what is left when its head is read
LEMMA FollowsTail ==
  ASSUME NEW q \in Seq(Msg), q # <<>>, NEW ops, NEW id
  PROVE  Follows(q, Tail(q), ops, id)
  <1>1. /\ Len(q) \in Nat /\ Len(q) # 0 /\ DOMAIN q = 1..Len(q)
        /\ DOMAIN Tail(q) = 1..(Len(q) - 1)
        /\ \A k \in 1..(Len(q) - 1) : Tail(q)[k] = q[k + 1]
    BY LenProperties, HeadTailProperties, EmptySeq
  <1>2. \A k \in DOMAIN Tail(q) : k + 1 \in DOMAIN q /\ Tail(q)[k] = q[k + 1]
    BY <1>1
  <1>3. 1 \in Nat
    OBVIOUS
  <1>4. QED
    BY <1>2, <1>3, Zenon DEF Follows

\* and when all is gone
LEMMA FollowsEmpty ==
  ASSUME NEW q, NEW ops, NEW id
  PROVE  Follows(q, <<>>, ops, id)
  <1>1. DOMAIN <<>> = {} /\ 0 \in Nat
    OBVIOUS
  <1>2. QED
    BY <1>1 DEF Follows

\* what is added is about something else
LEMMA FollowsAppend ==
  ASSUME NEW q, NEW r \in Seq(Msg), NEW ops, NEW id, Follows(q, r, ops, id),
         NEW ms \in Seq(Msg), \A k \in DOMAIN ms : ~(ms[k].op \in ops /\ ms[k].id = id)
  PROVE  Follows(q, r \o ms, ops, id)
  <1>1. /\ Len(r) \in Nat /\ DOMAIN r = 1..Len(r) /\ Len(ms) \in Nat
        /\ DOMAIN ms = 1..Len(ms) /\ DOMAIN (r \o ms) = 1..(Len(r) + Len(ms))
        /\ \A k \in 1..(Len(r) + Len(ms)) :
             (r \o ms)[k] = IF k <= Len(r) THEN r[k] ELSE ms[k - Len(r)]
    BY LenProperties, ConcatProperties
  <1>2. PICK c \in Nat : \A k \in DOMAIN r :
          r[k].op \in ops /\ r[k].id = id => k + c \in DOMAIN q /\ r[k] = q[k + c]
    BY DEF Follows
  <1>3. ASSUME NEW k \in DOMAIN (r \o ms), (r \o ms)[k].op \in ops, (r \o ms)[k].id = id
        PROVE  k + c \in DOMAIN q /\ (r \o ms)[k] = q[k + c]
    <2>1. k <= Len(r)
      <3>1. SUFFICES ASSUME ~(k <= Len(r)) PROVE FALSE
        OBVIOUS
      <3>2. (r \o ms)[k] = ms[k - Len(r)] /\ k - Len(r) \in DOMAIN ms
        BY <1>1, <3>1
      <3>3. QED
        BY <1>3, <3>2
    <2>2. (r \o ms)[k] = r[k] /\ k \in DOMAIN r
      BY <1>1, <2>1
    <2>3. QED
      BY <1>2, <1>3, <2>2
  <1>4. QED
    BY <1>3 DEF Follows

\* one frame added that is about something else
LEMMA FollowsOne ==
  ASSUME NEW q, NEW r \in Seq(Msg), NEW ops, NEW id, Follows(q, r, ops, id),
         NEW m \in Msg, ~(m.op \in ops /\ m.id = id)
  PROVE  Follows(q, r \o <<m>>, ops, id)
  <1>1. <<m>> \in Seq(Msg) /\ DOMAIN <<m>> = {1} /\ <<m>>[1] = m
    OBVIOUS
  <1>2. PICK ms \in Seq(Msg) : ms = <<m>>
    BY <1>1
  <1>3. \A k \in DOMAIN ms : ~(ms[k].op \in ops /\ ms[k].id = id)
    BY <1>1, <1>2
  <1>4. Follows(q, r \o ms, ops, id)
    BY <1>3, FollowsAppend
  <1>5. QED
    BY <1>2, <1>4

\* the places from which it comes
LEMMA FollowsSteps ==
  ASSUME NEW q, NEW r, NEW ops, NEW id, Follows(q, r, ops, id)
  PROVE  \E c \in Nat : \A op \in ops : \A k \in Of(r, op, id) :
           k + c \in Of(q, op, id) /\ r[k] = q[k + c]
  BY DEF Follows, Of

\* What an accept on its way finds, when the step is not about id
LEMMA UntouchedKeeps ==
  ASSUME NEW n, NEW m, NEW q \in Seq(Msg), NEW r \in Seq(Msg), NEW id,
         Untouched(n, q, id), Tables(n, m, id),
         Follows(q, r, {"ACK", "ACCEPT"}, id)
  PROVE  Untouched(m, r, id)
  <1>1. PICK c \in Nat : \A op \in {"ACK", "ACCEPT"} : \A k \in Of(r, op, id) :
          k + c \in Of(q, op, id) /\ r[k] = q[k + c]
    BY FollowsSteps
  <1>2. SUFFICES ASSUME Of(r, "ACCEPT", id) # {}
                 PROVE  /\ \A j \in Slot : m[j] # Free /\ m[j].id = id => m[j].next_seq = 0
                        /\ \A k \in Of(r, "ACCEPT", id), l \in Of(r, "ACK", id) :
                             k < l => r[l].arg = 0
    BY DEF Untouched
  <1>3. Of(q, "ACCEPT", id) # {}
    BY <1>1, <1>2
  <1>4. \A j \in Slot : m[j] # Free /\ m[j].id = id => m[j].next_seq = 0
    BY <1>3 DEF Untouched, Tables
  <1>5. ASSUME NEW k \in Of(r, "ACCEPT", id), NEW l \in Of(r, "ACK", id), k < l
        PROVE  r[l].arg = 0
    <2>1. k \in Nat /\ l \in Nat
      BY OfType
    <2>2. k + c < l + c /\ k + c \in Of(q, "ACCEPT", id) /\ l + c \in Of(q, "ACK", id)
          /\ r[l] = q[l + c]
      BY <1>1, <1>5, <2>1
    <2>3. QED
      BY <1>3, <2>2 DEF Untouched
  <1>6. QED
    BY <1>4, <1>5

\* the same of a stream
LEMMA StreamKeeps ==
  ASSUME NEW s \in Outbound, NEW t \in Outbound, NEW n, NEW m,
         NEW q \in Seq(Msg), NEW r \in Seq(Msg), NEW p \in Seq(Msg), NEW u \in Seq(Msg),
         Stream(s, n, q, p),
         t.state = s.state, t.id = s.id, t.x = s.x, t.acked = s.acked, t.next_seq = s.next_seq,
         Tables(n, m, s.id),
         Follows(q, r, {"ACK", "ACCEPT"}, s.id), Follows(p, u, {"OFFER", "CHUNK"}, s.id)
  PROVE  Stream(t, m, r, u)
  <1> DEFINE id == s.id
  <1>1. PICK c \in Nat : \A op \in {"ACK", "ACCEPT"} : \A k \in Of(r, op, id) :
          k + c \in Of(q, op, id) /\ r[k] = q[k + c]
    <2>1. PICK i : i = s.id
      OBVIOUS
    <2>2. Follows(q, r, {"ACK", "ACCEPT"}, i)
      BY <2>1
    <2>3. \E c \in Nat : \A op \in {"ACK", "ACCEPT"} : \A k \in Of(r, op, i) :
            k + c \in Of(q, op, i) /\ r[k] = q[k + c]
      BY <2>2 DEF Follows, Of
    <2>4. QED
      BY <2>1, <2>3
  <1>2. PICK d \in Nat : \A op \in {"OFFER", "CHUNK"} : \A k \in Of(u, op, id) :
          k + d \in Of(p, op, id) /\ u[k] = p[k + d]
    <2>1. PICK i : i = s.id
      OBVIOUS
    <2>2. Follows(p, u, {"OFFER", "CHUNK"}, i)
      BY <2>1
    <2>3. \E d \in Nat : \A op \in {"OFFER", "CHUNK"} : \A k \in Of(u, op, i) :
            k + d \in Of(p, op, i) /\ u[k] = p[k + d]
      BY <2>2 DEF Follows, Of
    <2>4. QED
      BY <2>1, <2>3
  <1>3. CASE s.state = "OFFERING"
    <2>1. Offered(s, n, q, p)
      BY <1>3 DEF Stream
    <2>2. Untouched(m, r, id)
      BY <2>1, UntouchedKeeps DEF Offered
    <2>3. Of(u, "CHUNK", id) = {}
      BY <1>2, <2>1 DEF Offered
    <2>4. \A j \in Slot : m[j] # Free /\ m[j].id = id /\ m[j].x = s.x => m[j].next_seq = 0
      BY <2>1 DEF Offered, Tables
    <2>5. Offered(t, m, r, u)
      BY <2>1, <2>2, <2>3, <2>4 DEF Offered
    <2>6. QED
      BY <1>3, <2>5 DEF Stream
  <1>4. CASE s.state # "OFFERING"
    <2> DEFINE C == ChunksFor(s.x)
               a == s.acked
    <2>1. Started(s, n, q, p)
      BY <1>4 DEF Stream
    <2>2. ASSUME NEW k \in Of(r, "ACK", id)
          PROVE  /\ a <= r[k].arg /\ r[k].arg <= C
                 /\ \A l \in Of(r, "ACK", id) : k < l => r[k].arg <= r[l].arg
                 /\ \A j \in Slot : m[j] # Free /\ m[j].id = id => r[k].arg <= m[j].next_seq
      <3>1. k + c \in Of(q, "ACK", id) /\ r[k] = q[k + c] /\ k \in Nat
        BY <1>1, OfType
      <3>2. ASSUME NEW l \in Of(r, "ACK", id), k < l
            PROVE  r[k].arg <= r[l].arg
        <4>1. l + c \in Of(q, "ACK", id) /\ r[l] = q[l + c] /\ l \in Nat
          BY <1>1, OfType
        <4>2. k + c < l + c
          BY <3>1, <3>2, <4>1
        <4>3. QED
          BY <2>1, <3>1, <4>1, <4>2 DEF Started
      <3>3. \A j \in Slot : m[j] # Free /\ m[j].id = id => r[k].arg <= m[j].next_seq
        BY <2>1, <3>1 DEF Started, Tables
      <3>4. QED
        BY <2>1, <3>1, <3>2, <3>3 DEF Started
    <2>3. \A j \in Slot : m[j] # Free /\ m[j].id = id =>
            a <= m[j].next_seq /\ m[j].next_seq <= a + Window /\ m[j].next_seq <= C
      BY <2>1 DEF Started, Tables
    <2>4. \A k \in Of(u, "CHUNK", id) : u[k].seq < a + Window /\ u[k].seq < C
      BY <1>2, <2>1 DEF Started
    <2>5. ASSUME Of(u, "OFFER", id) # {}
          PROVE  /\ a = 0 /\ \A k \in Of(r, "ACK", id) : r[k].arg = 0
                 /\ \A j \in Slot : m[j] # Free /\ m[j].id = id => m[j].next_seq = 0
      <3>1. Of(p, "OFFER", id) # {}
        BY <1>2, <2>5
      <3>2. QED
        BY <1>1, <2>1, <3>1, SMTT(60) DEF Started, Tables
    <2>6. ASSUME NEW k \in Of(u, "CHUNK", id), NEW l \in Of(u, "OFFER", id)
          PROVE  l < k
      <3>1. k \in Nat /\ l \in Nat
        BY OfType
      <3>2. l + d < k + d
        BY <1>2, <2>1 DEF Started
      <3>3. QED
        BY <3>1, <3>2
    <2>7. Started(t, m, r, u)
      BY <2>1, <2>2, <2>3, <2>4, <2>5, <2>6 DEF Started
    <2>8. QED
      BY <1>4, <2>7 DEF Stream
  <1>5. QED
    BY <1>3, <1>4

\* Of channel r, which is q and then m: what is said about id
Grown(q, r, m, op, id) ==
  /\ \A k \in Of(q, op, id) : k \in Of(r, op, id) /\ r[k] = q[k] /\ k < Len(q) + 1
  /\ \A k \in Of(r, op, id) :
       \/ k \in Of(q, op, id) /\ r[k] = q[k] /\ k < Len(q) + 1
       \/ k = Len(q) + 1 /\ r[k] = m /\ m.op = op /\ m.id = id

\* a channel that a frame is added to has grown by it
LEMMA OfAppend ==
  ASSUME NEW q \in Seq(Msg), NEW m \in Msg, NEW r, r = q \o <<m>>, NEW op, NEW id
  PROVE  r \in Seq(Msg) /\ Grown(q, r, m, op, id)
  <1>2. /\ Len(q) \in Nat /\ DOMAIN q = 1..Len(q)
        /\ <<m>> \in Seq(Msg) /\ Len(<<m>>) = 1 /\ <<m>>[1] = m
    BY LenProperties
  <1>3. r \in Seq(Msg) /\ DOMAIN r = 1..(Len(q) + 1)
        /\ \A k \in 1..(Len(q) + 1) : r[k] = IF k <= Len(q) THEN q[k] ELSE m
    BY <1>2, ConcatProperties, LenProperties
  <1>4. \A k \in Of(q, op, id) : k \in Of(r, op, id) /\ r[k] = q[k] /\ k < Len(q) + 1
    BY <1>2, <1>3 DEF Of
  <1>5. \A k \in Of(r, op, id) :
              \/ k \in Of(q, op, id) /\ r[k] = q[k] /\ k < Len(q) + 1
              \/ k = Len(q) + 1 /\ r[k] = m /\ m.op = op /\ m.id = id
    BY <1>2, <1>3 DEF Of
  <1>6. QED
    BY <1>3, <1>4, <1>5 DEF Grown

\* n[j] is the only inbound stream with its id
Only(n, j) == \A i \in Slot : n[i] # Free /\ n[i].id = n[j].id => i = j

\* the numbers of a stream
LEMMA StreamTypes ==
  /\ \A s \in Outbound : /\ s.id \in Ids /\ s.x \in Transfers /\ s.acked \in Nat
                         /\ s.next_seq \in Nat /\ ChunksFor(s.x) \in Nat
  /\ \A r \in Inbound : r.id \in Ids /\ r.next_seq \in 0..SEQ
  /\ Window \in Nat \ {0} /\ SEQ \in Nat \ {0}
  /\ \A m \in Msg : (m.op = "ACK" => m.arg \in 0..SEQ) /\ (m.op = "CHUNK" => m.seq \in 0..SEQ)
  <1>1. Window \in Nat \ {0} /\ SEQ \in Nat \ {0}
    BY DataAssumption
  <1>2. \A x \in Transfers : ChunksFor(x) \in Nat
    BY <1>1, ChunksForType
  <1>3. \A m \in Msg : (m.op = "ACK" => m.arg \in 0..SEQ) /\ (m.op = "CHUNK" => m.seq \in 0..SEQ)
    BY MsgKinds DEF Acks, Chunks
  <1>4. \A s \in Outbound : /\ s.id \in Ids /\ s.x \in Transfers /\ s.acked \in Nat
                            /\ s.next_seq \in Nat
    BY <1>1 DEF Outbound, Ids
  <1>5. \A r \in Inbound : r.id \in Ids /\ r.next_seq \in 0..SEQ
    BY DEF Inbound, Ids
  <1>6. QED
    BY <1>1, <1>2, <1>3, <1>4, <1>5

\* An ack says what is taken: to the streams with another id it says nothing
LEMMA UntouchedAck ==
  ASSUME NEW n, NEW j \in Slot, n[j] # Free, n[j] \in Inbound, NEW q \in Seq(Msg),
         NEW id, Untouched(n, q, id)
  PROVE  Untouched(n, q \o <<Ack(n[j])>>, id)
  <1>1. PICK m : m = Ack(n[j])
    OBVIOUS
  <1>2. m \in Msg /\ m.op = "ACK" /\ m.id = n[j].id /\ m.arg = n[j].next_seq
    BY <1>1, StreamTypes, PlainMsg DEF Ack, Op
  <1>3. PICK r : r = q \o <<m>>
    OBVIOUS
  <1>4. SUFFICES ASSUME Of(r, "ACCEPT", id) # {}
                 PROVE  /\ \A i \in Slot : n[i] # Free /\ n[i].id = id => n[i].next_seq = 0
                        /\ \A k \in Of(r, "ACCEPT", id), l \in Of(r, "ACK", id) :
                             k < l => r[l].arg = 0
    BY <1>1, <1>3, Zenon DEF Untouched
  <1>5. /\ \A k \in Of(r, "ACCEPT", id) : k \in Of(q, "ACCEPT", id)
        /\ \A l \in Of(r, "ACK", id) :
             \/ l \in Of(q, "ACK", id) /\ r[l] = q[l]
             \/ r[l] = m /\ m.id = id
    <2>1. Grown(q, r, m, "ACCEPT", id)
      BY <1>2, <1>3, OfAppend
    <2>2. Grown(q, r, m, "ACK", id)
      BY <1>2, <1>3, OfAppend
    <2>3. QED
      BY <1>2, <2>1, <2>2 DEF Grown
  <1>6. /\ \A i \in Slot : n[i] # Free /\ n[i].id = id => n[i].next_seq = 0
        /\ \A k \in Of(q, "ACCEPT", id), l \in Of(q, "ACK", id) : k < l => q[l].arg = 0
    BY <1>4, <1>5 DEF Untouched
  <1>7. QED
    BY <1>2, <1>5, <1>6

\* nor does it say more than is taken to the one it is about
LEMMA AckSent ==
  ASSUME NEW s \in Outbound, NEW n, NEW q \in Seq(Msg), NEW p \in Seq(Msg),
         Stream(s, n, q, p),
         NEW j \in Slot, n[j] # Free, n[j] \in Inbound, Only(n, j)
  PROVE  Stream(s, n, q \o <<Ack(n[j])>>, p)
  <1>1. PICK m : m = Ack(n[j])
    OBVIOUS
  <1>2. m \in Msg /\ m.op = "ACK" /\ m.id = n[j].id /\ m.arg = n[j].next_seq
    BY <1>1, StreamTypes, PlainMsg DEF Ack, Op
  <1>3. PICK r : r = q \o <<m>>
    OBVIOUS
  <1>4. CASE s.state = "OFFERING"
    <2>1. Offered(s, n, q, p)
      BY <1>4 DEF Stream
    <2>2. Untouched(n, q \o <<Ack(n[j])>>, s.id)
      BY <2>1, UntouchedAck DEF Offered
    <2>3. QED
      BY <1>4, <2>1, <2>2 DEF Offered, Stream
  <1>5. CASE s.state # "OFFERING"
    <2> DEFINE C == ChunksFor(s.x)
               a == s.acked
               id == s.id
    <2>1. Started(s, n, q, p)
      BY <1>5 DEF Stream
    <2>2. \A k \in Of(r, "ACK", id) :
            \/ k \in Of(q, "ACK", id) /\ r[k] = q[k] /\ k < Len(q) + 1
            \/ k = Len(q) + 1 /\ r[k] = m /\ m.id = id
      <3>1. Grown(q, r, m, "ACK", s.id)
        BY <1>2, <1>3, OfAppend
      <3>2. QED
        BY <3>1 DEF Grown
    <2>3. m.id = id => /\ a <= m.arg /\ m.arg <= C
                       /\ \A k \in Of(q, "ACK", id) : q[k].arg <= m.arg
                       /\ \A i \in Slot : n[i] # Free /\ n[i].id = id => m.arg <= n[i].next_seq
      <3>1. n[j].next_seq \in Nat
        BY StreamTypes
      <3>2. ASSUME m.id = id
            PROVE  /\ a <= m.arg /\ m.arg <= C
                   /\ \A k \in Of(q, "ACK", id) : q[k].arg <= m.arg
        BY <1>2, <2>1, <3>2 DEF Started
      <3>3. ASSUME m.id = id, NEW i \in Slot, n[i] # Free, n[i].id = id
            PROVE  m.arg <= n[i].next_seq
        BY <1>2, <3>1, <3>3 DEF Only
      <3>4. QED
        BY <3>2, <3>3
    <2>4. ASSUME NEW k \in Of(r, "ACK", id)
          PROVE  /\ a <= r[k].arg /\ r[k].arg <= C
                 /\ \A l \in Of(r, "ACK", id) : k < l => r[k].arg <= r[l].arg
                 /\ \A i \in Slot : n[i] # Free /\ n[i].id = id => r[k].arg <= n[i].next_seq
      <3>1. CASE k \in Of(q, "ACK", id) /\ r[k] = q[k]
        BY <2>1, <2>2, <2>3, <3>1 DEF Started
      <3>2. CASE k = Len(q) + 1 /\ r[k] = m /\ m.id = id
        <4>1. \A l \in Of(r, "ACK", id) : ~(k < l)
          <5>1. Len(q) \in Nat
            BY LenProperties
          <5>2. \A l \in Of(q, "ACK", id) : l \in Nat
            BY OfType
          <5>3. QED
            BY <2>2, <3>2, <5>1, <5>2
        <4>2. QED
          BY <2>3, <3>2, <4>1
      <3>3. QED
        BY <2>2, <3>1, <3>2
    <2>5. Of(p, "OFFER", id) # {} => \A k \in Of(r, "ACK", id) : r[k].arg = 0
      BY <1>2, <2>1, <2>2 DEF Started
    <2>6. Started(s, n, r, p)
      BY <2>1, <2>4, <2>5 DEF Started
    <2>7. QED
      BY <1>1, <1>3, <1>5, <2>6, Zenon DEF Stream
  <1>6. QED
    BY <1>4, <1>5

\* A chunk that is expected is taken
LEMMA Taken ==
  ASSUME NEW s \in Outbound, NEW n \in [Slot -> Inbound \cup {Free}],
         NEW q \in Seq(Msg), NEW p \in Seq(Msg), Stream(s, n, q, p),
         NEW j \in Slot, n[j] # Free, Only(n, j),
         p # <<>>, Head(p).op = "CHUNK", Head(p).id = n[j].id, Head(p).seq = n[j].next_seq,
         NEW m, NEW r, r.id = n[j].id, r.next_seq = n[j].next_seq + 1,
         m = [n EXCEPT ![j] = r]
  PROVE  Stream(s, m, q, Tail(p))
  <1>1. n[j] \in Inbound /\ n[j].next_seq \in Nat
    BY StreamTypes
  <1>2. \A i \in Slot : m[i] = IF i = j THEN r ELSE n[i]
    OBVIOUS
  <1>3. Tail(p) \in Seq(Msg) /\ Follows(p, Tail(p), {"OFFER", "CHUNK"}, s.id)
    BY HeadTailProperties, FollowsTail
  <1>4. Follows(q, q, {"ACK", "ACCEPT"}, s.id)
    BY FollowsSelf
  <1>5. CASE s.id # n[j].id
    <2>1. Tables(n, m, s.id)
      BY <1>2, <1>5 DEF Tables
    <2>2. QED
      BY <1>3, <1>4, <2>1, StreamKeeps
  <1>6. CASE s.id = n[j].id
    <2> DEFINE C == ChunksFor(s.x)
               a == s.acked
               id == s.id
    <2>1. 1 \in Of(p, "CHUNK", id) /\ p[1] = Head(p)
      <3>1. Len(p) \in Nat /\ Len(p) # 0 /\ DOMAIN p = 1..Len(p) /\ p[1] = Head(p)
        BY LenProperties, HeadTailProperties, EmptySeq
      <3>2. QED
        BY <1>6, <3>1 DEF Of
    <2>2. s.state # "OFFERING" /\ Started(s, n, q, p)
      BY <2>1 DEF Stream, Offered
    <2>3. n[j].next_seq < a + Window /\ n[j].next_seq < C
      BY <2>1, <2>2 DEF Started
    <2>4. Of(p, "OFFER", id) = {}
      <3>1. \A l \in Of(p, "OFFER", id) : l \in Nat /\ l >= 1
        BY OfType
      <3>2. \A l \in Of(p, "OFFER", id) : l < 1
        BY <2>1, <2>2 DEF Started
      <3>3. QED
        BY <3>1, <3>2
    <2>5. Started(s, n, q, Tail(p)) /\ Of(Tail(p), "OFFER", id) = {}
      <3>1. Tables(n, n, s.id)
        BY DEF Tables
      <3>2. Stream(s, n, q, Tail(p))
        BY <1>3, <1>4, <3>1, StreamKeeps
      <3>3. Of(Tail(p), "OFFER", id) = {}
        BY <1>3, <2>4 DEF Follows, Of
      <3>4. QED
        BY <2>2, <3>2, <3>3 DEF Stream
    <2>6. \A i \in Slot : m[i] # Free /\ m[i].id = id => i = j /\ n[i] # Free
            /\ m[i].next_seq = n[j].next_seq + 1
      BY <1>2, <1>6 DEF Only
    <2>7. /\ a \in Nat /\ C \in Nat /\ Window \in Nat
          /\ a <= n[j].next_seq
      BY <1>6, <2>2, StreamTypes DEF Started
    <2>8. \A i \in Slot : m[i] # Free /\ m[i].id = id =>
            a <= m[i].next_seq /\ m[i].next_seq <= a + Window /\ m[i].next_seq <= C
      BY <1>1, <2>3, <2>6, <2>7
    <2>9. \A k \in Of(q, "ACK", id), i \in Slot :
            m[i] # Free /\ m[i].id = id => q[k].arg <= m[i].next_seq
      <3>1. \A k \in Of(q, "ACK", id) : q[k].arg \in Nat
        BY OfType, StreamTypes
      <3>2. \A k \in Of(q, "ACK", id) : q[k].arg <= n[j].next_seq
        BY <1>6, <2>2 DEF Started
      <3>3. QED
        BY <1>1, <2>6, <3>1, <3>2
    <2>10. Started(s, m, q, Tail(p))
      BY <2>5, <2>8, <2>9 DEF Started
    <2>11. QED
      BY <2>2, <2>10 DEF Stream
  <1>7. QED
    BY <1>5, <1>6

\* An offer opens an inbound stream
LEMMA UntouchedOpen ==
  ASSUME NEW n \in [Slot -> Inbound \cup {Free}], NEW q, NEW id, Untouched(n, q, id),
         NEW j \in Slot, NEW m, NEW r, r.next_seq = 0, m = [n EXCEPT ![j] = r]
  PROVE  Untouched(m, q, id)
  <1>1. \A i \in Slot : m[i] = IF i = j THEN r ELSE n[i]
    OBVIOUS
  <1>2. QED
    BY <1>1 DEF Untouched

\* nothing is taken of a stream that is new
LEMMA Opened ==
  ASSUME NEW s \in Outbound, NEW n \in [Slot -> Inbound \cup {Free}],
         NEW q \in Seq(Msg), NEW p \in Seq(Msg), Stream(s, n, q, p),
         p # <<>>, Head(p).op = "OFFER",
         NEW j \in Slot, NEW m, NEW r, r.id = Head(p).id, r.next_seq = 0,
         m = [n EXCEPT ![j] = r]
  PROVE  Stream(s, m, q, Tail(p))
  <1>1. \A i \in Slot : m[i] = IF i = j THEN r ELSE n[i]
    OBVIOUS
  <1>2. Tail(p) \in Seq(Msg) /\ Follows(p, Tail(p), {"OFFER", "CHUNK"}, s.id)
    BY HeadTailProperties, FollowsTail
  <1>3. Follows(q, q, {"ACK", "ACCEPT"}, s.id) /\ Tables(n, n, s.id)
    BY FollowsSelf DEF Tables
  <1>4. Stream(s, n, q, Tail(p))
    BY <1>2, <1>3, StreamKeeps
  <1>5. CASE s.state = "OFFERING"
    <2>1. Offered(s, n, q, Tail(p))
      BY <1>4, <1>5 DEF Stream
    <2>2. Untouched(m, q, s.id)
      BY <2>1, UntouchedOpen DEF Offered
    <2>3. Offered(s, m, q, Tail(p))
      BY <1>1, <2>1, <2>2 DEF Offered
    <2>4. QED
      BY <1>5, <2>3 DEF Stream
  <1>6. CASE s.state # "OFFERING"
    <2>1. Started(s, n, q, p) /\ Started(s, n, q, Tail(p))
      BY <1>4, <1>6 DEF Stream
    <2>2. CASE s.id # r.id
      <3>1. Tables(n, m, s.id)
        BY <1>1, <2>2 DEF Tables
      <3>2. QED
        BY <1>2, <1>3, <3>1, StreamKeeps
    <2>3. CASE s.id = r.id
      <3>1. 1 \in Of(p, "OFFER", s.id)
        <4>1. Len(p) \in Nat /\ Len(p) # 0 /\ DOMAIN p = 1..Len(p) /\ p[1] = Head(p)
          BY LenProperties, HeadTailProperties, EmptySeq
        <4>2. QED
          BY <2>3, <4>1 DEF Of
      <3>2. /\ s.acked = 0 /\ \A k \in Of(q, "ACK", s.id) : q[k].arg = 0
            /\ \A i \in Slot : n[i] # Free /\ n[i].id = s.id => n[i].next_seq = 0
        BY <2>1, <3>1 DEF Started
      <3>3. \A i \in Slot : m[i] # Free /\ m[i].id = s.id => m[i].next_seq = 0
        BY <1>1, <3>2
      <3>4. Window \in Nat /\ ChunksFor(s.x) \in Nat
        BY StreamTypes
      <3>5. Started(s, m, q, Tail(p))
        <4>1. \A k \in Of(q, "ACK", s.id), i \in Slot :
                m[i] # Free /\ m[i].id = s.id => q[k].arg <= m[i].next_seq
          BY <3>2, <3>3
        <4>2. \A i \in Slot : m[i] # Free /\ m[i].id = s.id =>
                /\ s.acked <= m[i].next_seq
                /\ m[i].next_seq <= s.acked + Window /\ m[i].next_seq <= ChunksFor(s.x)
          BY <3>2, <3>3, <3>4
        <4>3. QED
          BY <2>1, <3>3, <4>1, <4>2 DEF Started
      <3>6. QED
        BY <1>6, <3>5 DEF Stream
    <2>4. QED
      BY <2>2, <2>3
  <1>7. QED
    BY <1>5, <1>6

\* The application takes an offer
LEMMA UntouchedAccept ==
  ASSUME NEW n, NEW q \in Seq(Msg), NEW id, Untouched(n, q, id),
         NEW j \in Slot, n[j] # Free, n[j].next_seq = 0, Only(n, j),
         NEW m, m \in Msg, m.op = "ACCEPT", m.id = n[j].id
  PROVE  Untouched(n, q \o <<m>>, id)
  <1>1. PICK r : r = q \o <<m>>
    OBVIOUS
  <1>2. Grown(q, r, m, "ACCEPT", id) /\ Grown(q, r, m, "ACK", id)
    BY <1>1, OfAppend
  <1>3. CASE m.id # id
    <2>1. /\ \A k \in Of(r, "ACCEPT", id) : k \in Of(q, "ACCEPT", id)
          /\ \A l \in Of(r, "ACK", id) : l \in Of(q, "ACK", id) /\ r[l] = q[l]
      BY <1>2, <1>3 DEF Grown
    <2>2. Untouched(n, r, id)
      BY <2>1 DEF Untouched
    <2>3. QED
      BY <1>1, <2>2
  <1>4. CASE m.id = id
    <2>1. \A i \in Slot : n[i] # Free /\ n[i].id = id => n[i].next_seq = 0
      BY <1>4 DEF Only
    <2>2. ASSUME NEW k \in Of(r, "ACCEPT", id), NEW l \in Of(r, "ACK", id), k < l
          PROVE  r[l].arg = 0
      <3>1. l \in Of(q, "ACK", id) /\ r[l] = q[l] /\ l < Len(q) + 1
        BY <1>2 DEF Grown
      <3>2. l \in Nat /\ Len(q) \in Nat
        BY <3>1, OfType, LenProperties
      <3>3. k \in Of(q, "ACCEPT", id)
        <4>1. k \in Of(q, "ACCEPT", id) \/ k = Len(q) + 1
          BY <1>2 DEF Grown
        <4>2. k # Len(q) + 1
          BY <2>2, <3>1, <3>2
        <4>3. QED
          BY <4>1, <4>2
      <3>4. QED
        BY <2>2, <3>1, <3>3 DEF Untouched
    <2>3. Untouched(n, r, id)
      BY <2>1, <2>2 DEF Untouched
    <2>4. QED
      BY <1>1, <2>3
  <1>5. QED
    BY <1>3, <1>4

\* what the accept of a stream finds is as it was offered
LEMMA AcceptSent ==
  ASSUME NEW s \in Outbound, NEW n, NEW q \in Seq(Msg), NEW p, Stream(s, n, q, p),
         NEW j \in Slot, n[j] # Free, n[j].next_seq = 0, Only(n, j),
         NEW m, m \in Msg, m.op = "ACCEPT", m.id = n[j].id
  PROVE  Stream(s, n, q \o <<m>>, p)
  <1>1. PICK r : r = q \o <<m>>
    OBVIOUS
  <1>2. Grown(q, r, m, "ACK", s.id)
    BY <1>1, OfAppend
  <1>3. \A l \in Of(r, "ACK", s.id) : l \in Of(q, "ACK", s.id) /\ r[l] = q[l]
    BY <1>2 DEF Grown
  <1>4. CASE s.state = "OFFERING"
    <2>1. Untouched(n, r, s.id)
      <3>1. PICK id : id = s.id
        OBVIOUS
      <3>2. Untouched(n, q, id)
        BY <1>4, <3>1 DEF Stream, Offered
      <3>3. QED
        BY <1>1, <3>1, <3>2, UntouchedAccept
    <2>2. QED
      BY <1>1, <1>4, <2>1 DEF Stream, Offered
  <1>5. CASE s.state # "OFFERING"
    <2>1. Started(s, n, r, p)
      BY <1>3, <1>5 DEF Stream, Started
    <2>2. QED
      BY <1>1, <1>5, <2>1 DEF Stream
  <1>6. QED
    BY <1>4, <1>5

-----------------------------------------------------------------------------
(* The sender's side *)

\* The offer is repeated
LEMMA OfferAgain ==
  ASSUME NEW s \in Outbound, NEW n, NEW q, NEW p \in Seq(Msg),
         s.state = "OFFERING", Stream(s, n, q, p), NEW m \in Msg, m.op = "OFFER"
  PROVE  Stream(s, n, q, p \o <<m>>)
  <1>1. PICK u : u = p \o <<m>>
    OBVIOUS
  <1>2. Grown(p, u, m, "CHUNK", s.id)
    BY <1>1, OfAppend
  <1>3. Of(u, "CHUNK", s.id) = {}
    BY <1>2 DEF Grown, Stream, Offered
  <1>4. QED
    BY <1>1, <1>3 DEF Stream, Offered

\* It is taken: what is sent from here on is new to the receiver
LEMMA Begins ==
  ASSUME NEW s \in Outbound, NEW n \in [Slot -> Inbound \cup {Free}],
         NEW q \in Seq(Msg), NEW p \in Seq(Msg),
         s.state = "OFFERING", Stream(s, n, q, p),
         q # <<>>, Head(q).op = "ACCEPT", Head(q).id = s.id,
         NEW t \in Outbound, t.state # "OFFERING", t.id = s.id, t.x = s.x,
         t.acked = s.acked
  PROVE  Stream(t, n, Tail(q), p)
  <1>1. Offered(s, n, q, p)
    BY DEF Stream
  <1>2. /\ Len(q) \in Nat /\ Len(q) # 0 /\ DOMAIN q = 1..Len(q) /\ q[1] = Head(q)
        /\ DOMAIN Tail(q) = 1..(Len(q) - 1) /\ Tail(q) \in Seq(Msg)
        /\ \A k \in 1..(Len(q) - 1) : Tail(q)[k] = q[k + 1]
    BY LenProperties, HeadTailProperties, EmptySeq
  <1>3. 1 \in Of(q, "ACCEPT", s.id)
    BY <1>2 DEF Of
  <1>4. /\ \A j \in Slot : n[j] # Free /\ n[j].id = s.id => n[j].next_seq = 0
        /\ \A l \in Of(q, "ACK", s.id) : 1 < l => q[l].arg = 0
    BY <1>1, <1>3 DEF Offered, Untouched
  <1>a. PICK v : v = Tail(q)
    OBVIOUS
  <1>5. ASSUME NEW l \in Of(v, "ACK", s.id)
        PROVE  v[l].arg = 0
    <2>1. l \in 1..(Len(q) - 1) /\ v[l] = q[l + 1] /\ q[l + 1].op = "ACK" /\ q[l + 1].id = s.id
      BY <1>2, <1>a DEF Of
    <2>2. l + 1 \in Of(q, "ACK", s.id) /\ 1 < l + 1
      BY <1>2, <2>1 DEF Of
    <2>3. QED
      BY <1>4, <2>1, <2>2
  <1>6. Window \in Nat /\ ChunksFor(t.x) \in Nat /\ t.acked = 0
    BY <1>1, StreamTypes DEF Offered
  <1>7. Of(p, "CHUNK", t.id) = {}
    BY <1>1 DEF Offered
  <1>8. Started(t, n, v, p)
    <2>1. PICK id : id = s.id
      OBVIOUS
    <2>2. t.id = id
      BY <2>1
    <2>3. \A l \in Of(v, "ACK", t.id) : v[l].arg = 0
      BY <1>5, <2>1, <2>2, Zenon
    <2>4. ASSUME NEW j \in Slot, n[j] # Free, n[j].id = t.id
          PROVE  n[j].next_seq = 0
      <3>1. n[j].id = s.id
        BY <2>4
      <3>2. QED
        BY <1>4, <2>4, <3>1
    <2>5. ASSUME NEW k \in Of(v, "ACK", t.id)
          PROVE  /\ t.acked <= v[k].arg /\ v[k].arg <= ChunksFor(t.x)
                 /\ \A l \in Of(v, "ACK", t.id) : k < l => v[k].arg <= v[l].arg
                 /\ \A j \in Slot : n[j] # Free /\ n[j].id = t.id => v[k].arg <= n[j].next_seq
      <3>1. v[k].arg = 0
        BY <2>3
      <3>2. \A l \in Of(v, "ACK", t.id) : k < l => v[k].arg <= v[l].arg
        BY <2>3, <3>1
      <3>3. \A j \in Slot : n[j] # Free /\ n[j].id = t.id => v[k].arg <= n[j].next_seq
        BY <2>4, <3>1
      <3>4. QED
        BY <1>6, <3>1, <3>2, <3>3
    <2>6. \A j \in Slot : n[j] # Free /\ n[j].id = t.id =>
            /\ t.acked <= n[j].next_seq
            /\ n[j].next_seq <= t.acked + Window /\ n[j].next_seq <= ChunksFor(t.x)
      BY <1>6, <2>4
    <2>7. QED
      BY <1>6, <1>7, <2>3, <2>4, <2>5, <2>6 DEF Started
  <1>9. QED
    BY <1>8, <1>a DEF Stream

\* An ack confirms no less than before and no more than is taken
LEMMA Confirms ==
  ASSUME NEW s \in Outbound, NEW n \in [Slot -> Inbound \cup {Free}],
         NEW q \in Seq(Msg), NEW p \in Seq(Msg),
         s.state # "OFFERING", Stream(s, n, q, p),
         q # <<>>, Head(q).op = "ACK", Head(q).id = s.id,
         NEW t \in Outbound, t.state # "OFFERING", t.id = s.id, t.x = s.x,
         t.acked = Head(q).arg
  PROVE  /\ Stream(t, n, Tail(q), p)
         /\ s.acked <= Head(q).arg /\ Head(q).arg <= ChunksFor(s.x)
  <1> DEFINE id == s.id
             C == ChunksFor(s.x)
  <1>1. Started(s, n, q, p)
    BY DEF Stream
  <1>a. PICK v : v = Tail(q)
    OBVIOUS
  <1>b. PICK a : a = Head(q).arg
    OBVIOUS
  <1>2. /\ Len(q) \in Nat /\ Len(q) # 0 /\ DOMAIN q = 1..Len(q) /\ q[1] = Head(q)
        /\ DOMAIN v = 1..(Len(q) - 1) /\ v \in Seq(Msg)
        /\ \A k \in 1..(Len(q) - 1) : v[k] = q[k + 1]
    BY <1>a, LenProperties, HeadTailProperties, EmptySeq
  <1>3. 1 \in Of(q, "ACK", id) /\ q[1].arg = a
    BY <1>2, <1>b DEF Of
  <1>4. /\ s.acked <= a /\ a <= C
        /\ \A l \in Of(q, "ACK", id) : 1 < l => a <= q[l].arg
        /\ \A j \in Slot : n[j] # Free /\ n[j].id = id => a <= n[j].next_seq
    BY <1>1, <1>3 DEF Started
  <1>5. \A l \in Of(v, "ACK", id) :
          /\ l \in Nat /\ l + 1 \in Of(q, "ACK", id) /\ 1 < l + 1 /\ v[l] = q[l + 1]
    BY <1>2 DEF Of
  <1>6. /\ Window \in Nat /\ C \in Nat /\ s.acked \in Nat /\ a \in Nat
        /\ \A j \in Slot : n[j] # Free => n[j].next_seq \in Nat
    <2>1. Head(q) \in Msg
      BY HeadTailProperties
    <2>2. a \in Nat
      BY <1>b, <2>1, StreamTypes
    <2>3. QED
      BY <2>2, StreamTypes
  <1>7. ASSUME NEW k \in Of(v, "ACK", id)
        PROVE  /\ a <= v[k].arg /\ v[k].arg <= C
               /\ \A l \in Of(v, "ACK", id) : k < l => v[k].arg <= v[l].arg
               /\ \A j \in Slot : n[j] # Free /\ n[j].id = id => v[k].arg <= n[j].next_seq
    <2>1. /\ k \in Nat /\ k + 1 \in Of(q, "ACK", id) /\ 1 < k + 1 /\ v[k] = q[k + 1]
      BY <1>5
    <2>2. ASSUME NEW l \in Of(v, "ACK", id), k < l
          PROVE  v[k].arg <= v[l].arg
      <3>1. l \in Nat /\ l + 1 \in Of(q, "ACK", id) /\ v[l] = q[l + 1]
        BY <1>5
      <3>2. k + 1 < l + 1
        BY <2>1, <2>2, <3>1
      <3>3. q[k + 1].arg <= q[l + 1].arg
        BY <1>1, <2>1, <3>1, <3>2 DEF Started
      <3>4. QED
        BY <2>1, <3>1, <3>3
    <2>3. a <= v[k].arg
      BY <1>4, <2>1
    <2>4. /\ v[k].arg <= C
          /\ \A j \in Slot : n[j] # Free /\ n[j].id = id => v[k].arg <= n[j].next_seq
      BY <1>1, <2>1 DEF Started
    <2>5. QED
      BY <2>2, <2>3, <2>4
  <1>8. ASSUME NEW j \in Slot, n[j] # Free, n[j].id = id
        PROVE  a <= n[j].next_seq /\ n[j].next_seq <= a + Window /\ n[j].next_seq <= C
    <2>1. /\ n[j].next_seq <= s.acked + Window /\ n[j].next_seq <= C
          /\ a <= n[j].next_seq
      BY <1>1, <1>4, <1>8 DEF Started
    <2>2. QED
      BY <1>4, <1>6, <1>8, <2>1
  <1>9. ASSUME NEW k \in Of(p, "CHUNK", id)
        PROVE  p[k].seq < a + Window /\ p[k].seq < C
    <2>1. p[k].seq \in Nat
      BY OfType, StreamTypes
    <2>2. p[k].seq < s.acked + Window /\ p[k].seq < C
      BY <1>1 DEF Started
    <2>3. QED
      BY <1>4, <1>6, <2>1, <2>2
  <1>10. ASSUME Of(p, "OFFER", id) # {}
         PROVE  /\ a = 0 /\ \A k \in Of(v, "ACK", id) : v[k].arg = 0
                /\ \A j \in Slot : n[j] # Free /\ n[j].id = id => n[j].next_seq = 0
    BY <1>1, <1>3, <1>5, <1>10 DEF Started
  <1>11. \A k \in Of(p, "CHUNK", id), l \in Of(p, "OFFER", id) : l < k
    BY <1>1 DEF Started
  <1>12. t.acked = a /\ t.id = id /\ ChunksFor(t.x) = C
    BY <1>b
  <1>13. Started(t, n, v, p)
    BY <1>4, <1>7, <1>8, <1>9, <1>10, <1>11, <1>12 DEF Started
  <1>14. QED
    BY <1>4, <1>13, <1>a, <1>b DEF Stream

\* Chunks go out, up to a window beyond what is confirmed
LEMMA Pumped ==
  ASSUME NEW s \in Outbound, NEW n, NEW q, NEW p \in Seq(Msg),
         s.state # "OFFERING", Stream(s, n, q, p),
         NEW t, t.state # "OFFERING", t.id = s.id, t.x = s.x, t.acked = s.acked,
         NEW ms \in Seq(Msg),
         \A k \in DOMAIN ms : /\ ms[k].op = "CHUNK"
                              /\ ms[k].seq < s.acked + Window /\ ms[k].seq < ChunksFor(s.x)
  PROVE  Stream(t, n, q, p \o ms)
  <1> DEFINE id == s.id
             C == ChunksFor(s.x)
             a == s.acked
  <1>1. Started(s, n, q, p)
    BY DEF Stream
  <1>2. PICK u : u = p \o ms
    OBVIOUS
  <1>3. /\ Len(p) \in Nat /\ DOMAIN p = 1..Len(p) /\ Len(ms) \in Nat
        /\ DOMAIN ms = 1..Len(ms) /\ DOMAIN u = 1..(Len(p) + Len(ms))
        /\ \A k \in 1..(Len(p) + Len(ms)) :
             u[k] = IF k <= Len(p) THEN p[k] ELSE ms[k - Len(p)]
    BY <1>2, LenProperties, ConcatProperties
  <1>4. \A k \in Of(u, "CHUNK", id) :
          \/ k \in Of(p, "CHUNK", id) /\ u[k] = p[k]
          \/ k > Len(p) /\ k - Len(p) \in DOMAIN ms /\ u[k] = ms[k - Len(p)]
    BY <1>3 DEF Of
  <1>5. \A k \in Of(u, "OFFER", id) : k \in Of(p, "OFFER", id) /\ k \in Nat /\ k <= Len(p)
    <2>1. SUFFICES ASSUME NEW k \in Of(u, "OFFER", id)
                   PROVE  k \in Of(p, "OFFER", id) /\ k \in Nat /\ k <= Len(p)
      OBVIOUS
    <2>2. k \in 1..(Len(p) + Len(ms)) /\ u[k].op = "OFFER" /\ u[k].id = id
      BY <1>3 DEF Of
    <2>3. k <= Len(p)
      <3>1. SUFFICES ASSUME ~(k <= Len(p)) PROVE FALSE
        OBVIOUS
      <3>2. k - Len(p) \in DOMAIN ms /\ u[k] = ms[k - Len(p)]
        BY <1>3, <2>2, <3>1
      <3>3. QED
        BY <2>2, <3>2
    <2>4. k \in DOMAIN p /\ u[k] = p[k]
      BY <1>3, <2>2, <2>3
    <2>5. QED
      BY <2>2, <2>3, <2>4 DEF Of
  <1>6. \A k \in Of(u, "CHUNK", id) : u[k].seq < a + Window /\ u[k].seq < C
    BY <1>1, <1>4 DEF Started
  <1>7. ASSUME NEW k \in Of(u, "CHUNK", id), NEW l \in Of(u, "OFFER", id)
        PROVE  l < k
    <2>1. l \in Of(p, "OFFER", id) /\ l \in Nat /\ l <= Len(p)
      BY <1>5
    <2>2. CASE k \in Of(p, "CHUNK", id)
      BY <1>1, <2>1, <2>2 DEF Started
    <2>3. CASE k > Len(p)
      <3>1. k \in Nat
        BY <1>3 DEF Of
      <3>2. QED
        BY <1>3, <2>1, <2>3, <3>1
    <2>4. QED
      BY <1>4, <2>2, <2>3
  <1>8. Of(u, "OFFER", id) # {} => Of(p, "OFFER", id) # {}
    BY <1>5
  <1>9. Started(t, n, q, u)
    BY <1>1, <1>6, <1>7, <1>8 DEF Started
  <1>10. QED
    BY <1>2, <1>9 DEF Stream

\* Pump_sender keeps to the window and to the content
LEMMA PumpBounds ==
  ASSUME NEW s \in Outbound
  PROVE  LET b == Pump(s) IN
         /\ b.stream.acked = s.acked /\ b.stream.rewound_to = s.rewound_to
         /\ s.next_seq <= ChunksFor(s.x) => b.stream.next_seq <= ChunksFor(s.x)
         /\ \A k \in DOMAIN b.msgs :
              /\ b.msgs[k].op = "CHUNK" /\ b.msgs[k].id = s.id
              /\ b.msgs[k].seq < s.acked + Window /\ b.msgs[k].seq < ChunksFor(s.x)
  <1> DEFINE end == ChunksFor(s.x)
             lim == WindowLimit(s)
             limit == IF lim < end THEN lim ELSE end
             to == IF limit > s.next_seq THEN limit ELSE s.next_seq
  <1>1. /\ s.next_seq \in Nat /\ s.acked \in Nat /\ end \in Nat /\ Window \in Nat
    BY StreamTypes
  <1>2. lim \in Nat /\ (s.next_seq < lim => lim = s.acked + Window)
    <2>1. lim = IF s.next_seq < s.acked THEN s.next_seq ELSE s.acked + Window
      BY DEF WindowLimit
    <2> HIDE DEF lim
    <2>2. QED
      BY <1>1, <2>1
  <1>3. /\ Pump(s).stream = [s EXCEPT !.next_seq = to,
                               !.state = IF to >= end THEN "DRAINING" ELSE "SENDING"]
        /\ Pump(s).msgs = [k \in 1..(to - s.next_seq) |-> Chunk(s.id, s.x, s.next_seq + k - 1)]
    BY DEF Pump
  <1>4. /\ Pump(s).stream.acked = s.acked /\ Pump(s).stream.rewound_to = s.rewound_to
        /\ Pump(s).stream.next_seq = to
    BY <1>3 DEF Outbound
  <1> HIDE DEF end, lim
  <1>5. /\ to \in Nat /\ s.next_seq <= to /\ (s.next_seq <= end => to <= end)
        /\ s.next_seq < to => to <= end /\ to <= s.acked + Window
    BY <1>1, <1>2
  <1>6. ASSUME NEW k \in 1..(to - s.next_seq)
        PROVE  s.next_seq + k - 1 < s.acked + Window /\ s.next_seq + k - 1 < end
    <2>1. PICK g \in Nat, h \in Nat : g = to /\ h = s.next_seq
      BY <1>1, <1>5
    <2>2. k \in 1..(g - h)
      BY <1>6, <2>1
    <2>3. QED
      BY <1>1, <1>5, <2>1, <2>2
  <1> HIDE DEF to
  <1>7. \A k \in DOMAIN Pump(s).msgs :
          /\ k \in 1..(to - s.next_seq)
          /\ Pump(s).msgs[k] = Chunk(s.id, s.x, s.next_seq + k - 1)
    BY <1>3
  <1>8. ASSUME NEW k \in DOMAIN Pump(s).msgs
        PROVE  /\ Pump(s).msgs[k].op = "CHUNK" /\ Pump(s).msgs[k].id = s.id
               /\ Pump(s).msgs[k].seq < s.acked + Window /\ Pump(s).msgs[k].seq < end
    <2>1. k \in 1..(to - s.next_seq)
      BY <1>7
    <2>2. Pump(s).msgs[k] = Chunk(s.id, s.x, s.next_seq + k - 1)
      BY <1>7
    <2>3. s.next_seq + k - 1 < s.acked + Window /\ s.next_seq + k - 1 < end
      BY <1>6, <2>1
    <2>4. PICK c : c = s.next_seq + k - 1
      OBVIOUS
    <2>5. Pump(s).msgs[k] = [op |-> "CHUNK", id |-> s.id, x |-> s.x, seq |-> c]
      BY <2>2, <2>4, Zenon DEF Chunk
    <2>6. QED
      BY <2>3, <2>4, <2>5
  <1>9. QED
    BY <1>4, <1>5, <1>8 DEF end

-----------------------------------------------------------------------------
(* The invariant *)

Levels ==
  \A e \in Ends, i \in Slot : out[e][i] # Free =>
    Stream(out[e][i], in[Peer(e)], chan[e], chan[Peer(e)])

\* Nothing is taken of a stream that is not accepted
Unread ==
  \A e \in Ends, i \in Slot :
    in[e][i] # Free /\ in[e][i].state = "OFFERED" => in[e][i].next_seq = 0

\* Rewinds since the last timeout, n of them, at different positions
Pace(s, n) ==
  /\ s.next_seq <= ChunksFor(s.x)
  /\ s.rewound_to \in {NoRewind, s.acked}
  /\ s.rewound_to = s.acked => s.acked < ChunksFor(s.x)
  /\ s.state = "OFFERING" => n = 0 /\ s.rewound_to = NoRewind
  /\ n <= s.acked + IF s.rewound_to = s.acked THEN 1 ELSE 0

Paces ==
  /\ rewinds \in [Transfers -> Nat]
  /\ \A x \in Transfers : rewinds[x] <= ChunksFor(x) /\ (x \notin begun => rewinds[x] = 0)
  /\ \A e \in Ends, i \in Slot :
       out[e][i] # Free => Pace(out[e][i], rewinds[out[e][i].x])

TInv == Levels /\ Unread /\ Paces

\* What is sent, and what of it is read
Moves(e, ms) ==
  /\ ms \in Seq(Msg)
  /\ \/ chan' = Say(e, ms)
     \/ chan[e] # <<>> /\ chan' = Reply(e, ms)
     \/ ms = <<>> /\ chan' = chan

\* the same stream, but for its retries
Same(s, t) ==
  /\ t.state = s.state /\ t.id = s.id /\ t.x = s.x /\ t.acked = s.acked
  /\ t.next_seq = s.next_seq /\ t.rewound_to = s.rewound_to

\* the tables and channels are what they should be
LEMMA TableTypes ==
  ASSUME IInv
  PROVE  /\ out \in [Ends -> [Slot -> Outbound \cup {Free}]]
         /\ in \in [Ends -> [Slot -> Inbound \cup {Free}]]
         /\ chan \in [Ends -> Seq(Msg)]
         /\ next_id \in [Ends -> Ids]
         /\ \A e \in Ends, i \in Slot : out[e][i] # Free => out[e][i] \in Outbound
         /\ \A e \in Ends, i \in Slot : in[e][i] # Free =>
              in[e][i] \in Inbound /\ Only(in[e], i)
         /\ \A e \in Ends : chan[e] # <<>> => Head(chan[e]) \in Msg
  <1>1. PICK ids \in [Transfers -> Ids] : Sound(ids)
    BY DEF IInv, Sound
  <1>2. \A e \in Ends, i \in Slot : in[e][i] # Free => Only(in[e], i)
    BY <1>1 DEF Sound, Named, InOK, Only
  <1>3. QED
    BY <1>1, <1>2, SoundTypes DEF Sound

\* after the step, too
LEMMA NextTypes ==
  ASSUME IInv'
  PROVE  /\ chan' \in [Ends -> Seq(Msg)]
         /\ \A e \in Ends, i \in Slot : out'[e][i] # Free => out'[e][i] \in Outbound
         /\ \A e \in Ends, i \in Slot : in'[e][i] # Free => in'[e][i] \in Inbound
  <1>1. PICK ids \in [Transfers -> Ids] : Named(ids)'
    BY DEF IInv
  <1>2. /\ out' \in [Ends -> [Slot -> Outbound \cup {Free}]]
        /\ in' \in [Ends -> [Slot -> Inbound \cup {Free}]]
        /\ chan' \in [Ends -> Seq(Msg)]
    BY <1>1 DEF Named, OutOK, InOK, ChanOK
  <1>3. QED
    BY <1>2

\* the channels after such a step
LEMMA ChanMoves ==
  ASSUME chan \in [Ends -> Seq(Msg)], NEW e \in Ends, NEW ms, Moves(e, ms)
  PROVE  /\ chan'[Peer(e)] = chan[Peer(e)] \o ms
         /\ chan'[e] = chan[e] \/ (chan[e] # <<>> /\ chan'[e] = Tail(chan[e]))
  <1>1. Peer(e) \in Ends /\ Peer(e) # e
    BY PeerFacts
  <1>2. CASE ms = <<>> /\ chan' = chan
    <2>1. chan[Peer(e)] \o <<>> = chan[Peer(e)]
      BY <1>1, ConcatEmptySeq
    <2>2. QED
      BY <1>2, <2>1
  <1>3. CASE chan' = Say(e, ms) \/ (chan[e] # <<>> /\ chan' = Reply(e, ms))
    BY <1>1, <1>3 DEF Say, Reply
  <1>4. QED
    BY <1>2, <1>3 DEF Moves

\* What a step of e does to the channels
LEMMA MovesFollow ==
  ASSUME chan \in [Ends -> Seq(Msg)], NEW e \in Ends, NEW ms, Moves(e, ms),
         NEW ops, NEW id
  PROVE  /\ Follows(chan[e], chan'[e], ops, id)
         /\ (\A k \in DOMAIN ms : ~(ms[k].op \in ops /\ ms[k].id = id))
              => Follows(chan[Peer(e)], chan'[Peer(e)], ops, id)
  <1>1. Peer(e) \in Ends /\ ms \in Seq(Msg)
    BY PeerFacts DEF Moves
  <1>2. /\ chan'[Peer(e)] = chan[Peer(e)] \o ms
        /\ chan'[e] = chan[e] \/ (chan[e] # <<>> /\ chan'[e] = Tail(chan[e]))
    BY ChanMoves
  <1>3. chan[e] \in Seq(Msg) /\ chan[Peer(e)] \in Seq(Msg)
    BY <1>1
  <1>4. Follows(chan[e], chan'[e], ops, id)
    BY <1>2, <1>3, FollowsSelf, FollowsTail
  <1>5. Follows(chan[Peer(e)], chan[Peer(e)], ops, id)
    BY <1>3, FollowsSelf
  <1>6. ASSUME \A k \in DOMAIN ms : ~(ms[k].op \in ops /\ ms[k].id = id)
        PROVE  Follows(chan[Peer(e)], chan[Peer(e)] \o ms, ops, id)
    BY <1>1, <1>3, <1>5, <1>6, FollowsAppend
  <1>7. QED
    BY <1>2, <1>4, <1>6

\* A stream that the step is not about
LEMMA Stays ==
  ASSUME IInv, IInv', Levels, NEW e \in Ends, NEW i \in Slot, out[e][i] # Free,
         out'[e][i] # Free, Same(out[e][i], out'[e][i]),
         Tables(in[Peer(e)], in'[Peer(e)], out[e][i].id),
         Follows(chan[e], chan'[e], {"ACK", "ACCEPT"}, out[e][i].id),
         Follows(chan[Peer(e)], chan'[Peer(e)], {"OFFER", "CHUNK"}, out[e][i].id)
  PROVE  Stream(out'[e][i], in'[Peer(e)], chan'[e], chan'[Peer(e)])
  <1>1. Peer(e) \in Ends
    BY PeerFacts
  <1>2. /\ out[e][i] \in Outbound /\ chan[e] \in Seq(Msg) /\ chan[Peer(e)] \in Seq(Msg)
    BY <1>1, TableTypes
  <1>4. out'[e][i] \in Outbound /\ chan'[e] \in Seq(Msg) /\ chan'[Peer(e)] \in Seq(Msg)
    BY <1>1, NextTypes
  <1>5. Stream(out[e][i], in[Peer(e)], chan[e], chan[Peer(e)])
    BY DEF Levels
  <1>6. QED
    BY <1>2, <1>4, <1>5, StreamKeeps DEF Same

\* The streams of the end that only listens, when nothing is said of them
LEMMA PeersStay ==
  ASSUME IInv, IInv', Levels, NEW e \in Ends, NEW ms, Moves(e, ms),
         NEW i \in Slot, out[Peer(e)][i] # Free, out'[Peer(e)][i] # Free,
         Same(out[Peer(e)][i], out'[Peer(e)][i]),
         Tables(in[e], in'[e], out[Peer(e)][i].id),
         \A k \in DOMAIN ms : ms[k].op \notin {"ACK", "ACCEPT"}
  PROVE  Stream(out'[Peer(e)][i], in'[e], chan'[Peer(e)], chan'[e])
  <1>1. PICK d : d = Peer(e)
    OBVIOUS
  <1>2. d \in Ends /\ Peer(d) = e
    BY <1>1, PeerFacts
  <1>3. PICK id : id = out[d][i].id
    OBVIOUS
  <1>4. chan \in [Ends -> Seq(Msg)]
    BY TableTypes
  <1>5. Follows(chan[e], chan'[e], {"OFFER", "CHUNK"}, id)
    BY <1>4, MovesFollow
  <1>6. Follows(chan[d], chan'[d], {"ACK", "ACCEPT"}, id)
    <2>1. \A k \in DOMAIN ms : ~(ms[k].op \in {"ACK", "ACCEPT"} /\ ms[k].id = id)
      OBVIOUS
    <2>2. QED
      BY <1>1, <1>4, <2>1, MovesFollow
  <1>7. QED
    BY <1>1, <1>2, <1>3, <1>5, <1>6, Stays, Zenon

\* The streams of the end that speaks
LEMMA OwnStay ==
  ASSUME IInv, IInv', Levels, NEW e \in Ends, NEW ms, Moves(e, ms),
         NEW i \in Slot, out[e][i] # Free, out'[e][i] # Free,
         Same(out[e][i], out'[e][i]),
         Tables(in[Peer(e)], in'[Peer(e)], out[e][i].id),
         \A k \in DOMAIN ms : ~(ms[k].op \in {"OFFER", "CHUNK"} /\ ms[k].id = out[e][i].id)
  PROVE  Stream(out'[e][i], in'[Peer(e)], chan'[e], chan'[Peer(e)])
  <1>1. PICK id : id = out[e][i].id
    OBVIOUS
  <1>2. chan \in [Ends -> Seq(Msg)]
    BY TableTypes
  <1>3. Follows(chan[e], chan'[e], {"ACK", "ACCEPT"}, id)
    BY <1>2, MovesFollow
  <1>4. Follows(chan[Peer(e)], chan'[Peer(e)], {"OFFER", "CHUNK"}, id)
    BY <1>1, <1>2, MovesFollow
  <1>5. QED
    BY <1>1, <1>3, <1>4, Stays, Zenon

\* tables that are left alone
LEMMA TablesSelf ==
  ASSUME NEW n, NEW m, NEW id, \A j \in Slot : m[j] # Free => m[j] = n[j]
  PROVE  Tables(n, m, id)
  BY DEF Tables

\* a stream is the same as itself
LEMMA SameSelf ==
  ASSUME NEW s
  PROVE  Same(s, s)
  BY DEF Same

\* A step of the sending side
LEMMA SenderStep ==
  ASSUME IInv, IInv', Levels, NEW e \in Ends, NEW ms, Moves(e, ms),
         in' = in, out'[Peer(e)] = out[Peer(e)],
         \A k \in DOMAIN ms : ms[k].op \notin {"ACK", "ACCEPT"},
         \A i \in Slot : out'[e][i] # Free =>
           Stream(out'[e][i], in[Peer(e)], chan'[e], chan'[Peer(e)])
  PROVE  Levels'
  <1>1. Ends = {e, Peer(e)} /\ Peer(e) \in Ends /\ Peer(Peer(e)) = e
    BY PeerFacts
  <1>2. ASSUME NEW i \in Slot, out'[Peer(e)][i] # Free
        PROVE  Stream(out'[Peer(e)][i], in'[e], chan'[Peer(e)], chan'[e])
    <2>1. out[Peer(e)][i] # Free /\ Same(out[Peer(e)][i], out'[Peer(e)][i])
      BY <1>2, SameSelf
    <2>2. Tables(in[e], in'[e], out[Peer(e)][i].id)
      BY TablesSelf
    <2>3. QED
      BY <1>2, <2>1, <2>2, PeersStay
  <1>3. QED
    BY <1>1, <1>2 DEF Levels

\* and of the receiving side
LEMMA ReceiverStep ==
  ASSUME IInv, IInv', Levels, NEW e \in Ends, NEW ms, Moves(e, ms),
         out' = out, in'[Peer(e)] = in[Peer(e)],
         \A k \in DOMAIN ms : ms[k].op \notin {"OFFER", "CHUNK"},
         \A i \in Slot : out[Peer(e)][i] # Free =>
           Stream(out[Peer(e)][i], in'[e], chan'[Peer(e)], chan'[e])
  PROVE  Levels'
  <1>1. Ends = {e, Peer(e)} /\ Peer(e) \in Ends /\ Peer(Peer(e)) = e
    BY PeerFacts
  <1>2. ASSUME NEW i \in Slot, out'[e][i] # Free
        PROVE  Stream(out'[e][i], in'[Peer(e)], chan'[e], chan'[Peer(e)])
    <2>1. out[e][i] # Free /\ Same(out[e][i], out'[e][i])
      BY <1>2, SameSelf
    <2>2. Tables(in[Peer(e)], in'[Peer(e)], out[e][i].id)
      BY TablesSelf
    <2>3. QED
      BY <1>2, <2>1, <2>2, OwnStay
  <1>3. QED
    BY <1>1, <1>2 DEF Levels

\* A step that speaks of ends only, and in which streams stay or end
LEMMA QuietStep ==
  ASSUME IInv, IInv', Levels, NEW e \in Ends, NEW ms, Moves(e, ms),
         \A k \in DOMAIN ms : ms[k].op \in {"DONE", "REJECT", "ABORT"},
         \A d \in Ends, i \in Slot : out'[d][i] # Free =>
           out[d][i] # Free /\ Same(out[d][i], out'[d][i]),
         \A d \in Ends, i \in Slot : in'[d][i] # Free => in'[d][i] = in[d][i]
  PROVE  Levels'
  <1>1. Ends = {e, Peer(e)} /\ Peer(e) \in Ends /\ Peer(Peer(e)) = e
    BY PeerFacts
  <1>2. ASSUME NEW d \in Ends, NEW id PROVE Tables(in[d], in'[d], id)
    BY TablesSelf
  <1>3. /\ \A k \in DOMAIN ms : ms[k].op \notin {"ACK", "ACCEPT"}
        /\ \A k \in DOMAIN ms, id \in Ids : ~(ms[k].op \in {"OFFER", "CHUNK"} /\ ms[k].id = id)
    OBVIOUS
  <1>4. ASSUME NEW i \in Slot, out'[e][i] # Free
        PROVE  Stream(out'[e][i], in'[Peer(e)], chan'[e], chan'[Peer(e)])
    <2>1. out[e][i] # Free /\ Same(out[e][i], out'[e][i])
      BY <1>4
    <2>2. Tables(in[Peer(e)], in'[Peer(e)], out[e][i].id)
      BY <1>1, <1>2
    <2>3. QED
      BY <1>3, <1>4, <2>1, <2>2, OwnStay
  <1>5. ASSUME NEW i \in Slot, out'[Peer(e)][i] # Free
        PROVE  Stream(out'[Peer(e)][i], in'[e], chan'[Peer(e)], chan'[e])
    <2>1. out[Peer(e)][i] # Free /\ Same(out[Peer(e)][i], out'[Peer(e)][i])
      BY <1>1, <1>5
    <2>2. Tables(in[e], in'[e], out[Peer(e)][i].id)
      BY <1>2
    <2>3. QED
      BY <1>3, <1>5, <2>1, <2>2, PeersStay
  <1>6. QED
    BY <1>1, <1>4, <1>5 DEF Levels

\* The pace of the streams that are left as they are
LEMMA PacesStay ==
  ASSUME IInv, Paces, rewinds' = rewinds, begun' = begun,
         \A d \in Ends, i \in Slot : out'[d][i] # Free =>
           out[d][i] # Free /\ Same(out[d][i], out'[d][i])
  PROVE  Paces'
  BY DEF Paces, Pace, Same

\* and of one that moves
LEMMA PacesMove ==
  ASSUME IInv, Paces, NEW e \in Ends, NEW i \in Slot, out[e][i] # Free, NEW t \in Outbound,
         out' = [out EXCEPT ![e][i] = t], t.x = out[e][i].x, t.acked <= ChunksFor(t.x),
         NEW n \in Nat, rewinds' = [rewinds EXCEPT ![t.x] = n], Pace(t, n), begun' = begun
  PROVE  Paces'
  <1>1. PICK x : x = t.x
    OBVIOUS
  <1>2. x \in Transfers /\ x \in begun
    <2>1. PICK ids \in [Transfers -> Ids] : Named(ids)
      BY DEF IInv
    <2>2. OutStreamOK(out[e][i], e, ids, begun, reported, received)
      BY <2>1 DEF Named, OutOK
    <2>3. QED
      BY <1>1, <2>2 DEF OutStreamOK, Outbound
  <1>3. \A d \in Ends, j \in Slot : out[d][j] # Free /\ out[d][j].x = x => d = e /\ j = i
    <2>1. PICK ids \in [Transfers -> Ids] : Named(ids)
      BY DEF IInv
    <2>2. \A d \in Ends, j \in Slot : out[d][j] # Free =>
             /\ From[out[d][j].x] = d
             /\ \A k \in Slot : out[d][k] # Free /\ out[d][k].x = out[d][j].x => k = j
      BY <2>1 DEF Named, OutOK, OutStreamOK
    <2>3. QED
      BY <1>1, <2>2
  <1>4. n <= ChunksFor(x)
    <2>1. t.acked \in Nat /\ ChunksFor(x) \in Nat
      BY <1>1, StreamTypes
    <2>2. QED
      BY <1>1, <2>1 DEF Pace
  <1>5. /\ rewinds' \in [Transfers -> Nat]
        /\ \A y \in Transfers : rewinds'[y] = IF y = x THEN n ELSE rewinds[y]
    BY <1>1, <1>2 DEF Paces
  <1>6. \A d \in Ends, j \in Slot : out'[d][j] = IF d = e /\ j = i THEN t ELSE out[d][j]
    BY TableTypes
  <1>7. ASSUME NEW d \in Ends, NEW j \in Slot, out'[d][j] # Free
        PROVE  Pace(out'[d][j], rewinds'[out'[d][j].x])
    <2>1. CASE d = e /\ j = i
      BY <1>1, <1>2, <1>5, <1>6, <2>1
    <2>2. CASE ~(d = e /\ j = i)
      <3>1. out'[d][j] = out[d][j] /\ out[d][j] # Free /\ out[d][j].x # x
        BY <1>3, <1>6, <1>7, <2>2
      <3>2. out[d][j].x \in Transfers
        BY <3>1, TableTypes DEF Outbound
      <3>3. QED
        BY <1>5, <3>1, <3>2 DEF Paces
    <2>3. QED
      BY <2>1, <2>2
  <1>8. QED
    BY <1>2, <1>4, <1>5, <1>7 DEF Paces

-----------------------------------------------------------------------------
(* Steps that take nothing and confirm nothing *)

QuietOps == {"DONE", "REJECT", "ABORT"}

\* the invariant after such a step
LEMMA Quiet ==
  ASSUME IInv, IInv', TInv, NEW e \in Ends, NEW ms, Moves(e, ms),
         \A k \in DOMAIN ms : ms[k].op \in QuietOps,
         \A d \in Ends, i \in Slot : out'[d][i] # Free =>
           out[d][i] # Free /\ Same(out[d][i], out'[d][i]),
         \A d \in Ends, i \in Slot : in'[d][i] # Free => in'[d][i] = in[d][i],
         rewinds' = rewinds, begun' = begun
  PROVE  TInv'
  <1>1. Levels'
    BY QuietStep DEF TInv, QuietOps
  <1>2. Paces'
    BY PacesStay DEF TInv
  <1>3. Unread'
    BY DEF TInv, Unread
  <1>4. QED
    BY <1>1, <1>2, <1>3 DEF TInv

\* no frame, or one
LEMMA NoMoves ==
  ASSUME NEW e \in Ends,
         \/ chan' = chan
         \/ chan[e] # <<>> /\ chan' = Reply(e, <<>>)
  PROVE  /\ Moves(e, <<>>)
         /\ \A k \in DOMAIN <<>> : FALSE
  BY EmptySeq DEF Moves

\* one frame
LEMMA OneMove ==
  ASSUME NEW e \in Ends, NEW m \in Msg,
         \/ chan' = Say(e, <<m>>)
         \/ chan[e] # <<>> /\ chan' = Reply(e, <<m>>)
  PROVE  /\ Moves(e, <<m>>)
         /\ DOMAIN <<m>> = {1} /\ <<m>>[1] = m
  BY DEF Moves

\* a stream that ends, or has its retries counted from the start
LEMMA OutEnding ==
  ASSUME IInv, NEW e \in Ends, NEW i \in Slot,
         \/ out' = out
         \/ out' = [out EXCEPT ![e][i] = Free]
         \/ out[e][i] # Free /\ out' = [out EXCEPT ![e][i].retries = 0]
  PROVE  \A d \in Ends, j \in Slot : out'[d][j] # Free =>
           out[d][j] # Free /\ Same(out[d][j], out'[d][j])
  <1>1. out \in [Ends -> [Slot -> Outbound \cup {Free}]]
    BY TableTypes
  <1>2. CASE out' = out
    BY <1>2, SameSelf
  <1>3. CASE out' = [out EXCEPT ![e][i] = Free]
    <2>1. \A d \in Ends, j \in Slot : out'[d][j] = IF d = e /\ j = i THEN Free ELSE out[d][j]
      BY <1>1, <1>3
    <2>2. QED
      BY <2>1, SameSelf
  <1>4. CASE out[e][i] # Free /\ out' = [out EXCEPT ![e][i].retries = 0]
    <2>1. PICK t : t = [out[e][i] EXCEPT !.retries = 0]
      OBVIOUS
    <2>2. \A d \in Ends, j \in Slot : out'[d][j] = IF d = e /\ j = i THEN t ELSE out[d][j]
      BY <1>1, <1>4, <2>1
    <2>3. out[e][i] \in Outbound
      BY <1>4, TableTypes
    <2>4. Same(out[e][i], t)
      BY <2>1, <2>3 DEF Outbound, Same
    <2>5. QED
      BY <1>4, <2>2, <2>4, SameSelf
  <1>5. QED
    BY <1>2, <1>3, <1>4

\* an inbound stream that ends
LEMMA InEnding ==
  ASSUME IInv, NEW e \in Ends, NEW i \in Slot,
         in' = in \/ in' = [in EXCEPT ![e][i] = Free]
  PROVE  \A d \in Ends, j \in Slot : in'[d][j] # Free => in'[d][j] = in[d][j]
  <1>1. in \in [Ends -> [Slot -> Inbound \cup {Free}]]
    BY TableTypes
  <1>2. QED
    BY <1>1

\* what such a step may say and end
LEMMA QuietEnds ==
  ASSUME IInv, IInv', TInv, NEW e \in Ends, NEW i \in Slot, NEW j \in Slot,
         \/ chan' = chan
         \/ chan[e] # <<>> /\ chan' = Reply(e, <<>>)
         \/ \E m \in Msg : m.op \in QuietOps /\ chan' = Say(e, <<m>>)
         \/ \E m \in Msg : /\ m.op \in QuietOps
                           /\ chan[e] # <<>> /\ chan' = Reply(e, <<m>>),
         \/ out' = out
         \/ out' = [out EXCEPT ![e][i] = Free]
         \/ out[e][i] # Free /\ out' = [out EXCEPT ![e][i].retries = 0],
         in' = in \/ in' = [in EXCEPT ![e][j] = Free],
         rewinds' = rewinds, begun' = begun
  PROVE  TInv'
  <1>1. /\ \A d \in Ends, k \in Slot : out'[d][k] # Free =>
             out[d][k] # Free /\ Same(out[d][k], out'[d][k])
        /\ \A d \in Ends, k \in Slot : in'[d][k] # Free => in'[d][k] = in[d][k]
    BY OutEnding, InEnding
  <1>2. \E ms : Moves(e, ms) /\ \A k \in DOMAIN ms : ms[k].op \in QuietOps
    <2>1. CASE chan' = chan \/ (chan[e] # <<>> /\ chan' = Reply(e, <<>>))
      BY <2>1, NoMoves
    <2>2. CASE \E m \in Msg : /\ m.op \in QuietOps
                              /\ \/ chan' = Say(e, <<m>>)
                                 \/ chan[e] # <<>> /\ chan' = Reply(e, <<m>>)
      <3>1. PICK m \in Msg : /\ m.op \in QuietOps
                             /\ \/ chan' = Say(e, <<m>>)
                                \/ chan[e] # <<>> /\ chan' = Reply(e, <<m>>)
        BY <2>2
      <3>2. /\ Moves(e, <<m>>)
            /\ DOMAIN <<m>> = {1} /\ <<m>>[1] = m
        BY <3>1, OneMove
      <3>3. QED
        BY <3>1, <3>2
    <2>3. QED
      BY <2>1, <2>2
  <1>3. PICK ms : Moves(e, ms) /\ \A k \in DOMAIN ms : ms[k].op \in QuietOps
    BY <1>2
  <1>4. QED
    BY <1>1, <1>3, Quiet

\* the frames that end a stream
LEMMA QuietMsg ==
  ASSUME NEW id \in Ids, NEW op \in QuietOps, NEW r \in Result
  PROVE  Op(op, id, r) \in Msg /\ Op(op, id, r).op = op
  BY PlainMsg DEF QuietOps, Op

\* calls and timeouts that end a stream
LEMMA EndingActions ==
  ASSUME IInv, IInv', TInv, NEW e \in Ends, NEW i \in Slot,
         Reject(e, i) \/ Cancel(e, i) \/ GiveUp(e, i) \/ Idle(e, i)
  PROVE  TInv'
  <1>1. /\ out[e][i] # Free => out[e][i].id \in Ids
        /\ in[e][i] # Free => in[e][i].id \in Ids
    BY TableTypes, StreamTypes
  <1>2. {"REFUSED", "TIMEOUT", "CANCELLED"} \subseteq Result
    BY DEF Result
  <1>3. CASE Reject(e, i)
    <2>1. PICK m : m = Op("REJECT", in[e][i].id, "REFUSED")
      OBVIOUS
    <2>2. in[e][i] # Free
      BY <1>3, FreeFacts DEF Reject
    <2>3. m \in Msg /\ m.op \in QuietOps
      BY <1>1, <1>2, <2>1, <2>2, QuietMsg DEF QuietOps
    <2>4. chan' = Say(e, <<m>>) /\ in' = [in EXCEPT ![e][i] = Free] /\ out' = out
          /\ rewinds' = rewinds /\ begun' = begun
      BY <1>3, <2>1 DEF Reject, history
    <2>5. QED
      BY <2>3, <2>4, QuietEnds
  <1>4. CASE Cancel(e, i)
    <2>1. CASE /\ out[e][i] # Free
               /\ chan' = Say(e, <<Op("ABORT", out[e][i].id, "CANCELLED")>>)
               /\ FinishOut(e, i, "CANCELLED")
               /\ UNCHANGED in
      <3>1. PICK m : m = Op("ABORT", out[e][i].id, "CANCELLED")
        OBVIOUS
      <3>2. m \in Msg /\ m.op \in QuietOps
        BY <1>1, <1>2, <2>1, <3>1, QuietMsg DEF QuietOps
      <3>3. chan' = Say(e, <<m>>) /\ in' = in /\ out' = [out EXCEPT ![e][i] = Free]
            /\ rewinds' = rewinds /\ begun' = begun
        BY <1>4, <2>1, <3>1 DEF Cancel, FinishOut
      <3>4. QED
        BY <3>2, <3>3, QuietEnds
    <2>2. CASE /\ in[e][i] # Free
               /\ chan' = Say(e, <<Op("ABORT", in[e][i].id, "CANCELLED")>>)
               /\ in' = [in EXCEPT ![e][i] = Free]
               /\ UNCHANGED <<out, reported>>
      <3>1. PICK m : m = Op("ABORT", in[e][i].id, "CANCELLED")
        OBVIOUS
      <3>2. m \in Msg /\ m.op \in QuietOps
        BY <1>1, <1>2, <2>2, <3>1, QuietMsg DEF QuietOps
      <3>3. chan' = Say(e, <<m>>) /\ in' = [in EXCEPT ![e][i] = Free] /\ out' = out
            /\ rewinds' = rewinds /\ begun' = begun
        BY <1>4, <2>2, <3>1 DEF Cancel
      <3>4. QED
        BY <3>2, <3>3, QuietEnds
    <2>3. QED
      BY <1>4, <2>1, <2>2 DEF Cancel
  <1>5. CASE GiveUp(e, i)
    <2>1. PICK m : m = Op("ABORT", out[e][i].id, "TIMEOUT")
      OBVIOUS
    <2>2. m \in Msg /\ m.op \in QuietOps
      BY <1>1, <1>2, <1>5, <2>1, QuietMsg DEF QuietOps, GiveUp
    <2>3. chan' = Say(e, <<m>>) /\ in' = in /\ out' = [out EXCEPT ![e][i] = Free]
          /\ rewinds' = rewinds /\ begun' = begun
      BY <1>5, <2>1 DEF GiveUp, FinishOut
    <2>4. QED
      BY <2>2, <2>3, QuietEnds
  <1>6. CASE Idle(e, i)
    <2>1. /\ chan' = chan /\ in' = [in EXCEPT ![e][i] = Free] /\ out' = out
          /\ rewinds' = rewinds /\ begun' = begun
      BY <1>6 DEF Idle, history
    <2>2. QED
      BY <2>1, QuietEnds
  <1>7. QED
    BY <1>3, <1>4, <1>5, <1>6

\* frames that are read and lead to nothing, or end a stream
LEMMA EndingFrames ==
  ASSUME IInv, IInv', TInv, NEW e \in Ends,
         RxUnknown(e) \/ RxEnd(e) \/ RxChunkAstray(e) \/ Lose(e)
  PROVE  TInv'
  <1>0. chan[e] # <<>> /\ chan' = Reply(e, <<>>) /\ rewinds' = rewinds /\ begun' = begun
    BY DEF RxUnknown, RxEnd, RxChunkAstray, Lose, Ignored, Heard, history
  <1>1. PICK k \in Slot : TRUE
    BY DataAssumption DEF Slot
  <1>2. CASE RxUnknown(e) \/ Lose(e)
    <2>1. out' = out /\ in' = in
      BY <1>2 DEF RxUnknown, Lose
    <2>2. QED
      BY <1>0, <1>1, <2>1, QuietEnds
  <1>3. CASE RxEnd(e)
    <2> DEFINE i == SlotFind(out[e], Head(chan[e]).id)
               j == SlotFind(in[e], Head(chan[e]).id)
    <2>1. \/ /\ j # 0 /\ in' = [in EXCEPT ![e][j] = Free] /\ out' = out
          \/ /\ i # 0 /\ out' = [out EXCEPT ![e][i] = Free] /\ in' = in
      BY <1>3 DEF RxEnd, FinishOut
    <2>2. (i # 0 => i \in Slot) /\ (j # 0 => j \in Slot)
      BY SlotFacts
    <2> HIDE DEF i, j
    <2>3. QED
      BY <1>0, <1>1, <2>1, <2>2, QuietEnds
  <1>4. CASE RxChunkAstray(e)
    <2> DEFINE i == SlotFind(out[e], Head(chan[e]).id)
    <2>1. /\ i # 0 /\ out' = [out EXCEPT ![e][i].retries = 0] /\ in' = in
      BY <1>4 DEF RxChunkAstray, Ignored
    <2>2. i # 0 => i \in Slot /\ out[e][i] # Free
      BY SlotFacts
    <2> HIDE DEF i
    <2>3. QED
      BY <1>0, <2>1, <2>2, QuietEnds
  <1>5. QED
    BY <1>2, <1>3, <1>4

\* a frame that is only a sign of life
LEMMA IgnoredStep ==
  ASSUME IInv, IInv', TInv, NEW e \in Ends, NEW i \in Slot, out[e][i] # Free,
         chan[e] # <<>>, Ignored(e, i)
  PROVE  TInv'
  <1>1. /\ chan' = Reply(e, <<>>) /\ out' = [out EXCEPT ![e][i].retries = 0] /\ in' = in
        /\ rewinds' = rewinds /\ begun' = begun
    BY DEF Ignored, history
  <1>2. QED
    BY <1>1, QuietEnds

\* an end that starts again leaves nothing on its way
LEMMA RestartStep ==
  ASSUME IInv, IInv', TInv, NEW e \in Ends, Restart(e)
  PROVE  TInv'
  <1>1. /\ Ends = {e, Peer(e)} /\ Peer(e) \in Ends /\ Peer(Peer(e)) = e
    BY PeerFacts
  <1>2. /\ out \in [Ends -> [Slot -> Outbound \cup {Free}]]
        /\ in \in [Ends -> [Slot -> Inbound \cup {Free}]]
        /\ chan \in [Ends -> Seq(Msg)]
    BY TableTypes
  <1>3. /\ \A d \in Ends, i \in Slot : out'[d][i] # Free => out'[d][i] = out[d][i]
        /\ \A d \in Ends, i \in Slot : in'[d][i] # Free => in'[d][i] = in[d][i]
        /\ \A d \in Ends : chan'[d] = <<>>
        /\ rewinds' = rewinds /\ begun' = begun
    BY <1>1, <1>2 DEF Restart
  <1>4. ASSUME NEW d \in Ends, NEW i \in Slot, out'[d][i] # Free
        PROVE  Stream(out'[d][i], in'[Peer(d)], chan'[d], chan'[Peer(d)])
    <2>1. out'[d][i] = out[d][i] /\ out[d][i] # Free /\ Same(out[d][i], out'[d][i])
      BY <1>3, <1>4, SameSelf
    <2>2. Peer(d) \in Ends
      BY PeerFacts
    <2>3. Tables(in[Peer(d)], in'[Peer(d)], out[d][i].id)
      BY <1>3, <2>2, TablesSelf
    <2>4. Follows(chan[d], chan'[d], {"ACK", "ACCEPT"}, out[d][i].id)
          /\ Follows(chan[Peer(d)], chan'[Peer(d)], {"OFFER", "CHUNK"}, out[d][i].id)
      BY <1>3, <2>2, FollowsEmpty
    <2>5. QED
      BY <1>4, <2>1, <2>3, <2>4, Stays DEF TInv
  <1>5. Levels'
    BY <1>4 DEF Levels
  <1>6. Paces'
    <2>1. \A d \in Ends, i \in Slot : out'[d][i] # Free =>
            out[d][i] # Free /\ Same(out[d][i], out'[d][i])
      BY <1>3, SameSelf
    <2>2. QED
      BY <1>3, <2>1, PacesStay DEF TInv
  <1>7. Unread'
    BY <1>3 DEF TInv, Unread
  <1>8. QED
    BY <1>5, <1>6, <1>7 DEF TInv

-----------------------------------------------------------------------------
(* Steps of the receiving side *)

\* one frame is read and one answered
LEMMA Replies ==
  ASSUME IInv, NEW e \in Ends, NEW ms,
         chan' = Say(e, ms) \/ chan' = Reply(e, ms)
  PROVE  /\ chan'[Peer(e)] = chan[Peer(e)] \o ms
         /\ chan' = Say(e, ms) => chan'[e] = chan[e]
         /\ chan' = Reply(e, ms) => chan'[e] = Tail(chan[e])
  <1>1. chan \in [Ends -> Seq(Msg)] /\ Peer(e) \in Ends /\ Peer(e) # e
    BY TableTypes, PeerFacts
  <1>2. QED
    BY <1>1 DEF Say, Reply

\* a stream whose receiver has read a frame that leaves its table as it is
LEMMA Popped ==
  ASSUME NEW s \in Outbound, NEW n, NEW q \in Seq(Msg), NEW p \in Seq(Msg), p # <<>>,
         Stream(s, n, q, p)
  PROVE  Stream(s, n, q, Tail(p))
  <1>1. Tail(p) \in Seq(Msg) /\ Follows(p, Tail(p), {"OFFER", "CHUNK"}, s.id)
    BY HeadTailProperties, FollowsTail
  <1>2. Follows(q, q, {"ACK", "ACCEPT"}, s.id) /\ Tables(n, n, s.id)
    BY FollowsSelf DEF Tables
  <1>3. QED
    BY <1>1, <1>2, StreamKeeps

\* the streams sent to e
LEMMA PeerStreams ==
  ASSUME IInv, TInv, NEW e \in Ends, NEW i \in Slot, out[Peer(e)][i] # Free
  PROVE  /\ out[Peer(e)][i] \in Outbound
         /\ chan[Peer(e)] \in Seq(Msg) /\ chan[e] \in Seq(Msg)
         /\ in[e] \in [Slot -> Inbound \cup {Free}]
         /\ Stream(out[Peer(e)][i], in[e], chan[Peer(e)], chan[e])
  <1>1. Peer(e) \in Ends /\ Peer(Peer(e)) = e
    BY PeerFacts
  <1>2. Stream(out[Peer(e)][i], in[Peer(Peer(e))], chan[Peer(e)], chan[Peer(Peer(e))])
    BY <1>1, Zenon DEF TInv, Levels
  <1>3. QED
    BY <1>1, <1>2, TableTypes

\* the invariant after a step of the receiving end
LEMMA ReceiverInv ==
  ASSUME IInv, IInv', TInv, NEW e \in Ends, NEW ms, Moves(e, ms),
         out' = out, in'[Peer(e)] = in[Peer(e)], rewinds' = rewinds, begun' = begun,
         \A k \in DOMAIN ms : ms[k].op \notin {"OFFER", "CHUNK"},
         \A i \in Slot : out[Peer(e)][i] # Free =>
           Stream(out[Peer(e)][i], in'[e], chan'[Peer(e)], chan'[e]),
         \A i \in Slot : in'[e][i] # Free /\ in'[e][i].state = "OFFERED" => in'[e][i].next_seq = 0
  PROVE  TInv'
  <1>1. Levels'
    BY ReceiverStep DEF TInv
  <1>2. Paces'
    <2>1. \A d \in Ends, i \in Slot : out'[d][i] # Free =>
            out[d][i] # Free /\ Same(out[d][i], out'[d][i])
      BY SameSelf
    <2>2. QED
      BY <2>1, PacesStay DEF TInv
  <1>3. Unread'
    <2>1. Ends = {e, Peer(e)}
      BY PeerFacts
    <2>2. QED
      BY <2>1 DEF TInv, Unread
  <1>4. QED
    BY <1>1, <1>2, <1>3 DEF TInv

\* the application takes what it was offered
LEMMA AcceptStep ==
  ASSUME IInv, IInv', TInv, NEW e \in Ends, NEW i \in Slot, Accept(e, i)
  PROVE  TInv'
  <1>1. PICK m : m = Op("ACCEPT", in[e][i].id, Window)
    OBVIOUS
  <1>2. in[e][i] # Free /\ in[e][i].state = "OFFERED"
    BY FreeFacts DEF Accept
  <1>3. PICK r : r = [in[e][i] EXCEPT !.state = "RECEIVING"]
    OBVIOUS
  <1>4. /\ in[e][i] \in Inbound /\ Only(in[e], i) /\ in[e][i].id \in Ids
        /\ in \in [Ends -> [Slot -> Inbound \cup {Free}]]
    BY <1>2, TableTypes, StreamTypes
  <1>5. /\ r.id = in[e][i].id /\ r.x = in[e][i].x /\ r.next_seq = in[e][i].next_seq
        /\ r.state = "RECEIVING"
    BY <1>3, <1>4 DEF Inbound
  <1>6. /\ m \in Msg /\ m.op = "ACCEPT" /\ m.id = in[e][i].id
    BY <1>1, <1>4, PlainMsg DEF Op
  <1>7. /\ chan' = Say(e, <<m>>) /\ out' = out /\ rewinds' = rewinds /\ begun' = begun
        /\ in' = [in EXCEPT ![e][i] = r]
    BY <1>1, <1>3 DEF Accept, history
  <1>8. /\ in'[Peer(e)] = in[Peer(e)]
        /\ \A j \in Slot : in'[e][j] = IF j = i THEN r ELSE in[e][j]
    BY <1>4, <1>7, PeerFacts
  <1>9. in[e][i].next_seq = 0
    BY <1>2 DEF TInv, Unread
  <1>10. ASSUME NEW j \in Slot, out[Peer(e)][j] # Free
         PROVE  Stream(out[Peer(e)][j], in'[e], chan'[Peer(e)], chan'[e])
    <2>1. PICK s : s = out[Peer(e)][j]
      OBVIOUS
    <2>2. PICK q, p, n : q = chan[Peer(e)] /\ p = chan[e] /\ n = in[e]
      OBVIOUS
    <2>3. s \in Outbound /\ q \in Seq(Msg) /\ p \in Seq(Msg) /\ Stream(s, n, q, p)
      BY <1>10, <2>1, <2>2, PeerStreams
    <2>4. Stream(s, n, q \o <<m>>, p)
      BY <1>2, <1>4, <1>6, <1>9, <2>2, <2>3, AcceptSent
    <2>5. PICK v : v = q \o <<m>>
      OBVIOUS
    <2>6. v \in Seq(Msg)
      BY <1>6, <2>3, <2>5, OfAppend
    <2>7. Tables(n, in'[e], s.id)
      BY <1>2, <1>5, <1>8, <2>2 DEF Tables
    <2>8. Follows(v, v, {"ACK", "ACCEPT"}, s.id) /\ Follows(p, p, {"OFFER", "CHUNK"}, s.id)
      BY <2>3, <2>6, FollowsSelf
    <2>9. Stream(s, n, v, p)
      BY <2>4, <2>5
    <2>10. Stream(s, in'[e], v, p)
      BY <2>3, <2>6, <2>7, <2>8, <2>9, StreamKeeps
    <2>11. chan'[Peer(e)] = v /\ chan'[e] = p
      BY <1>7, <2>2, <2>5, Replies
    <2>12. QED
      BY <2>1, <2>10, <2>11
  <1>11. Moves(e, <<m>>) /\ (\A k \in DOMAIN <<m>> : <<m>>[k].op \notin {"OFFER", "CHUNK"})
    <2>1. Moves(e, <<m>>) /\ DOMAIN <<m>> = {1} /\ <<m>>[1] = m
      BY <1>6, <1>7, OneMove
    <2>2. QED
      BY <1>6, <2>1
  <1>12. \A j \in Slot : in'[e][j] # Free /\ in'[e][j].state = "OFFERED" => in'[e][j].next_seq = 0
    BY <1>5, <1>8 DEF TInv, Unread
  <1>13. QED
    BY <1>7, <1>8, <1>10, <1>11, <1>12, ReceiverInv

\* a frame is answered with what is taken
LEMMA AckStep ==
  ASSUME IInv, IInv', TInv, NEW e \in Ends, NEW k \in Slot, in[e][k] # Free,
         chan[e] # <<>>, chan' = Reply(e, <<Ack(in[e][k])>>),
         out' = out, in' = in, rewinds' = rewinds, begun' = begun
  PROVE  TInv'
  <1>1. PICK m : m = Ack(in[e][k])
    OBVIOUS
  <1>2. in[e][k] \in Inbound /\ Only(in[e], k)
    BY TableTypes
  <1>3. m \in Msg /\ m.op = "ACK"
    BY <1>1, <1>2, StreamTypes, PlainMsg DEF Ack, Op
  <1>4. ASSUME NEW j \in Slot, out[Peer(e)][j] # Free
        PROVE  Stream(out[Peer(e)][j], in'[e], chan'[Peer(e)], chan'[e])
    <2>1. PICK s : s = out[Peer(e)][j]
      OBVIOUS
    <2>2. PICK q, p, n : q = chan[Peer(e)] /\ p = chan[e] /\ n = in[e]
      OBVIOUS
    <2>3. s \in Outbound /\ q \in Seq(Msg) /\ p \in Seq(Msg) /\ Stream(s, n, q, p)
      BY <1>4, <2>1, <2>2, PeerStreams
    <2>4. Stream(s, n, q, Tail(p))
      BY <2>2, <2>3, Popped
    <2>5. PICK u : u = Tail(p)
      OBVIOUS
    <2>6. u \in Seq(Msg)
      BY <2>2, <2>3, <2>5, HeadTailProperties
    <2>7. Stream(s, n, q \o <<Ack(n[k])>>, u)
      BY <1>2, <2>2, <2>3, <2>4, <2>5, <2>6, AckSent
    <2>8. chan'[Peer(e)] = q \o <<Ack(n[k])>> /\ chan'[e] = u
      BY <2>2, <2>5, Replies
    <2>9. QED
      BY <2>1, <2>2, <2>7, <2>8
  <1>5. Moves(e, <<m>>) /\ (\A l \in DOMAIN <<m>> : <<m>>[l].op \notin {"OFFER", "CHUNK"})
    <2>1. Moves(e, <<m>>) /\ DOMAIN <<m>> = {1} /\ <<m>>[1] = m
      BY <1>1, <1>3, OneMove
    <2>2. QED
      BY <1>3, <2>1
  <1>6. QED
    BY <1>4, <1>5, ReceiverInv DEF TInv, Unread

\* nothing is said, or that a stream ends
LEMMA QuietReply ==
  ASSUME IInv, IInv', TInv, NEW e \in Ends, chan[e] # <<>>,
         \/ chan' = Reply(e, <<>>)
         \/ \E m \in Msg : m.op \in QuietOps /\ chan' = Reply(e, <<m>>),
         out' = out, in' = in, rewinds' = rewinds, begun' = begun
  PROVE  TInv'
  <1>1. PICK k \in Slot : TRUE
    BY DataAssumption DEF Slot
  <1>2. QED
    BY <1>1, QuietEnds

\* an offer opens a stream
LEMMA OpenStep ==
  ASSUME IInv, IInv', TInv, NEW e \in Ends, NEW i \in Slot,
         chan[e] # <<>>, Head(chan[e]).op = "OFFER", chan' = Reply(e, <<>>),
         NEW r, r.id = Head(chan[e]).id, r.next_seq = 0,
         in' = [in EXCEPT ![e][i] = r],
         out' = out, rewinds' = rewinds, begun' = begun
  PROVE  TInv'
  <1>1. in \in [Ends -> [Slot -> Inbound \cup {Free}]]
    BY TableTypes
  <1>2. /\ in'[Peer(e)] = in[Peer(e)] /\ in'[e] = [in[e] EXCEPT ![i] = r]
        /\ \A j \in Slot : in'[e][j] = IF j = i THEN r ELSE in[e][j]
    BY <1>1, PeerFacts
  <1>3. ASSUME NEW j \in Slot, out[Peer(e)][j] # Free
        PROVE  Stream(out[Peer(e)][j], in'[e], chan'[Peer(e)], chan'[e])
    <2>1. PICK s : s = out[Peer(e)][j]
      OBVIOUS
    <2>2. PICK q, p, n, m : q = chan[Peer(e)] /\ p = chan[e] /\ n = in[e] /\ m = in'[e]
      OBVIOUS
    <2>3. s \in Outbound /\ q \in Seq(Msg) /\ p \in Seq(Msg) /\ Stream(s, n, q, p)
          /\ n \in [Slot -> Inbound \cup {Free}]
      BY <1>3, <2>1, <2>2, PeerStreams
    <2>4. p # <<>> /\ Head(p).op = "OFFER" /\ r.id = Head(p).id /\ m = [n EXCEPT ![i] = r]
      BY <1>2, <2>2
    <2>5. Stream(s, m, q, Tail(p))
      BY <2>3, <2>4, Opened
    <2>6. chan'[Peer(e)] = q \o <<>> /\ chan'[e] = Tail(p)
      BY <2>2, Replies
    <2>7. q \o <<>> = q
      BY <2>3, ConcatEmptySeq
    <2>8. QED
      BY <2>1, <2>2, <2>5, <2>6, <2>7
  <1>4. Moves(e, <<>>) /\ \A l \in DOMAIN <<>> : FALSE
    BY NoMoves
  <1>5. \A j \in Slot : in'[e][j] # Free /\ in'[e][j].state = "OFFERED" => in'[e][j].next_seq = 0
    BY <1>2 DEF TInv, Unread
  <1>6. QED
    BY <1>2, <1>3, <1>4, <1>5, ReceiverInv

\* rx_offer
LEMMA RxOfferStep ==
  ASSUME IInv, IInv', TInv, NEW e \in Ends, RxOffer(e)
  PROVE  TInv'
  <1> DEFINE m == Head(chan[e])
             known == SlotFind(in[e], m.id)
             i == SlotFree(in[e])
             r == [state |-> "OFFERED", id |-> m.id, x |-> m.arg,
                   next_seq |-> 0, running |-> <<>>]
  <1>1. /\ chan[e] # <<>> /\ m.op = "OFFER"
        /\ out' = out /\ rewinds' = rewinds /\ begun' = begun
    BY DEF RxOffer, Heard, history
  <1>2. m \in Msg /\ m.id \in Ids
    BY <1>1, TableTypes, MsgKinds
  <1>3. /\ known # 0 => known \in Slot /\ in[e][known] # Free
        /\ i # 0 => i \in Slot
    BY SlotFacts
  <1>4. \/ known # 0 /\ in' = in /\ chan' = Reply(e, <<Ack(in[e][known])>>)
        \/ in' = in /\ chan' = Reply(e, <<>>)
        \/ in' = in /\ chan' = Reply(e, <<Op("REJECT", m.id, "NO_STREAM")>>)
        \/ in' = in /\ chan' = Reply(e, <<Op("REJECT", m.id, "TOO_BIG")>>)
        \/ i # 0 /\ chan' = Reply(e, <<>>) /\ in' = [in EXCEPT ![e][i] = r]
    BY DEF RxOffer
  <1>5. r.id = m.id /\ r.next_seq = 0
    OBVIOUS
  <1>6. {"NO_STREAM", "TOO_BIG"} \subseteq Result
    BY DEF Result
  <1> HIDE DEF m, known, i, r
  <1>7. CASE known # 0 /\ in' = in /\ chan' = Reply(e, <<Ack(in[e][known])>>)
    BY <1>1, <1>3, <1>7, AckStep
  <1>8. CASE in' = in /\ chan' = Reply(e, <<>>)
    BY <1>1, <1>8, QuietReply
  <1>9. ASSUME NEW v \in {"NO_STREAM", "TOO_BIG"}, in' = in,
               chan' = Reply(e, <<Op("REJECT", m.id, v)>>)
        PROVE  TInv'
    <2>1. PICK w : w = Op("REJECT", m.id, v)
      OBVIOUS
    <2>2. w \in Msg /\ w.op \in QuietOps
      BY <1>2, <1>6, <2>1, QuietMsg DEF QuietOps
    <2>3. QED
      BY <1>1, <1>9, <2>1, <2>2, QuietReply
  <1>10. CASE i # 0 /\ chan' = Reply(e, <<>>) /\ in' = [in EXCEPT ![e][i] = r]
    BY <1>1, <1>3, <1>5, <1>10, OpenStep DEF m
  <1>11. QED
    BY <1>4, <1>7, <1>8, <1>9, <1>10

\* a chunk that is not expected
LEMMA RxChunkDroppedStep ==
  ASSUME IInv, IInv', TInv, NEW e \in Ends, RxChunkDropped(e)
  PROVE  TInv'
  <1> DEFINE i == SlotFind(in[e], Head(chan[e]).id)
  <1>1. /\ chan[e] # <<>> /\ out' = out /\ in' = in /\ rewinds' = rewinds /\ begun' = begun
        /\ i # 0
        /\ chan' = Reply(e, <<>>) \/ chan' = Reply(e, <<Ack(in[e][i])>>)
    BY DEF RxChunkDropped, Heard, history
  <1>2. i # 0 => i \in Slot /\ in[e][i] # Free
    BY SlotFacts
  <1> HIDE DEF i
  <1>3. QED
    BY <1>1, <1>2, AckStep, QuietReply

\* the chunk that is waited for is taken
LEMMA TakeStep ==
  ASSUME IInv, IInv', TInv, NEW e \in Ends, NEW i \in Slot, in[e][i] # Free,
         in[e][i].state = "RECEIVING",
         chan[e] # <<>>, Head(chan[e]).op = "CHUNK", Head(chan[e]).id = in[e][i].id,
         Head(chan[e]).seq = in[e][i].next_seq,
         NEW r, r.id = in[e][i].id, r.state = in[e][i].state,
         r.next_seq = in[e][i].next_seq + 1, in' = [in EXCEPT ![e][i] = r],
         chan' = Reply(e, <<>>) \/ chan' = Reply(e, <<Ack(r)>>),
         out' = out, rewinds' = rewinds, begun' = begun
  PROVE  TInv'
  <1>1. /\ in \in [Ends -> [Slot -> Inbound \cup {Free}]] /\ Peer(e) \in Ends /\ Peer(e) # e
        /\ in[e][i] \in Inbound /\ Only(in[e], i)
    BY TableTypes, PeerFacts
  <1>2. /\ in'[Peer(e)] = in[Peer(e)] /\ in'[e] = [in[e] EXCEPT ![i] = r]
        /\ \A j \in Slot : in'[e][j] = IF j = i THEN r ELSE in[e][j]
    BY <1>1
  <1>3. PICK m : m = Ack(r)
    OBVIOUS
  <1>4. r # Free /\ r \in Inbound
    <2>1. r # Free
      BY FreeFacts
    <2>2. in'[e][i] # Free
      BY <1>2, <2>1
    <2>3. QED
      BY <1>2, <2>1, <2>2, NextTypes
  <1>5. m \in Msg /\ m.op = "ACK"
    BY <1>3, <1>4, StreamTypes, PlainMsg DEF Ack, Op
  <1>6. Only(in'[e], i)
    BY <1>1, <1>2 DEF Only
  <1>7. ASSUME NEW j \in Slot, out[Peer(e)][j] # Free
        PROVE  Stream(out[Peer(e)][j], in'[e], chan'[Peer(e)], chan'[e])
    <2>1. PICK s : s = out[Peer(e)][j]
      OBVIOUS
    <2>2. PICK q, p, n, t : q = chan[Peer(e)] /\ p = chan[e] /\ n = in[e] /\ t = in'[e]
      OBVIOUS
    <2>3. s \in Outbound /\ q \in Seq(Msg) /\ p \in Seq(Msg) /\ Stream(s, n, q, p)
          /\ n \in [Slot -> Inbound \cup {Free}]
      BY <1>7, <2>1, <2>2, PeerStreams
    <2>4. /\ p # <<>> /\ Head(p).op = "CHUNK" /\ Head(p).id = n[i].id /\ Head(p).seq = n[i].next_seq
          /\ n[i] # Free /\ Only(n, i) /\ r.id = n[i].id /\ r.next_seq = n[i].next_seq + 1
          /\ t = [n EXCEPT ![i] = r]
      BY <1>1, <1>2, <2>2
    <2>5. Stream(s, t, q, Tail(p))
      BY <2>3, <2>4, Taken
    <2>6. PICK u : u = Tail(p)
      OBVIOUS
    <2>7. u \in Seq(Msg)
      BY <2>3, <2>4, <2>6, HeadTailProperties
    <2>8. t[i] = r /\ Only(t, i)
      BY <1>2, <1>6, <2>2
    <2>9. Stream(s, t, q \o <<Ack(t[i])>>, u)
      BY <1>4, <2>3, <2>5, <2>6, <2>7, <2>8, AckSent
    <2>10. CASE chan' = Reply(e, <<>>)
      <3>1. chan'[Peer(e)] = q \o <<>> /\ chan'[e] = Tail(p)
        BY <2>2, <2>10, Replies
      <3>2. q \o <<>> = q
        BY <2>3, ConcatEmptySeq
      <3>3. QED
        BY <2>1, <2>2, <2>5, <3>1, <3>2
    <2>11. CASE chan' = Reply(e, <<Ack(r)>>)
      <3>1. chan'[Peer(e)] = q \o <<Ack(t[i])>> /\ chan'[e] = u
        BY <2>2, <2>6, <2>8, <2>11, Replies
      <3>2. QED
        BY <2>1, <2>2, <2>9, <3>1
    <2>12. QED
      BY <2>10, <2>11
  <1>8. \E ms : Moves(e, ms) /\ \A l \in DOMAIN ms : ms[l].op \notin {"OFFER", "CHUNK"}
    <2>1. CASE chan' = Reply(e, <<>>)
      BY <2>1, NoMoves
    <2>2. CASE chan' = Reply(e, <<Ack(r)>>)
      <3>1. Moves(e, <<m>>) /\ DOMAIN <<m>> = {1} /\ <<m>>[1] = m
        BY <1>3, <1>5, <2>2, OneMove
      <3>2. QED
        BY <1>5, <3>1
    <2>3. QED
      BY <2>1, <2>2
  <1>9. \A j \in Slot : in'[e][j] # Free /\ in'[e][j].state = "OFFERED" => in'[e][j].next_seq = 0
    BY <1>2 DEF TInv, Unread
  <1>10. QED
    BY <1>2, <1>7, <1>8, <1>9, ReceiverInv

\* rx_chunk
LEMMA RxChunkStep ==
  ASSUME IInv, IInv', TInv, NEW e \in Ends, RxChunk(e)
  PROVE  TInv'
  <1> DEFINE m == Head(chan[e])
             i == SlotFind(in[e], m.id)
             s == [in[e][i] EXCEPT !.next_seq = @ + 1, !.running = Append(@, m.x)]
  <1>1. /\ chan[e] # <<>> /\ m.op = "CHUNK"
        /\ out' = out /\ rewinds' = rewinds /\ begun' = begun
        /\ i # 0 /\ in[e][i].state = "RECEIVING" /\ m.seq = in[e][i].next_seq
    BY DEF RxChunk, Heard
  <1>2. i \in Slot /\ in[e][i] # Free /\ in[e][i].id = m.id
    BY <1>1, SlotFacts
  <1>3. \/ in' = [in EXCEPT ![e][i] = Free] /\ chan' = Reply(e, <<Op("ABORT", s.id, "CORRUPT")>>)
        \/ in' = [in EXCEPT ![e][i] = Free] /\ chan' = Reply(e, <<Op("DONE", s.id, Verdict(s))>>)
        \/ /\ in' = [in EXCEPT ![e][i] = s]
           /\ chan' = Reply(e, <<>>) \/ chan' = Reply(e, <<Ack(s)>>)
    BY DEF RxChunk
  <1> HIDE DEF i
  <1>4. in[e][i] \in Inbound /\ in[e][i].id \in Ids
    BY <1>2, TableTypes, StreamTypes
  <1>5. /\ s.id = in[e][i].id /\ s.state = in[e][i].state /\ s.next_seq = in[e][i].next_seq + 1
    BY <1>4 DEF Inbound
  <1>6. Verdict(s) \in Result /\ "CORRUPT" \in Result
    BY DEF Verdict, Result
  <1> HIDE DEF m, s
  <1>7. ASSUME NEW w, w = Op("ABORT", s.id, "CORRUPT") \/ w = Op("DONE", s.id, Verdict(s)),
               in' = [in EXCEPT ![e][i] = Free], chan' = Reply(e, <<w>>)
        PROVE  TInv'
    <2>1. w \in Msg /\ w.op \in QuietOps
      BY <1>4, <1>5, <1>6, <1>7, QuietMsg DEF QuietOps
    <2>2. QED
      BY <1>1, <1>2, <1>7, <2>1, QuietEnds
  <1>8. CASE /\ in' = [in EXCEPT ![e][i] = s]
             /\ chan' = Reply(e, <<>>) \/ chan' = Reply(e, <<Ack(s)>>)
    BY <1>1, <1>2, <1>5, <1>8, TakeStep DEF m
  <1>9. QED
    BY <1>3, <1>7, <1>8

-----------------------------------------------------------------------------
(* Steps of the sending side *)

\* one stream moves on, and what is sent is of that stream
LEMMA SenderInv ==
  ASSUME IInv, IInv', TInv, Distinct(out), NEW e \in Ends, NEW i \in Slot, out[e][i] # Free,
         NEW t \in Outbound, out' = [out EXCEPT ![e][i] = t], t.x = out[e][i].x,
         in' = in, begun' = begun, NEW ms, Moves(e, ms),
         \A k \in DOMAIN ms : ms[k].op \in {"OFFER", "CHUNK"} /\ ms[k].id = out[e][i].id,
         Stream(t, in[Peer(e)], chan'[e], chan'[Peer(e)]),
         t.acked <= ChunksFor(t.x), NEW n \in Nat, rewinds' = [rewinds EXCEPT ![t.x] = n],
         Pace(t, n)
  PROVE  TInv'
  <1>1. /\ out \in [Ends -> [Slot -> Outbound \cup {Free}]] /\ Peer(e) \in Ends /\ Peer(e) # e
    BY TableTypes, PeerFacts
  <1>2. /\ out'[Peer(e)] = out[Peer(e)]
        /\ \A j \in Slot : out'[e][j] = IF j = i THEN t ELSE out[e][j]
    BY <1>1
  <1>3. ASSUME NEW j \in Slot, out'[e][j] # Free
        PROVE  Stream(out'[e][j], in[Peer(e)], chan'[e], chan'[Peer(e)])
    <2>1. CASE j = i
      BY <1>2, <2>1
    <2>2. CASE j # i
      <3>1. out'[e][j] = out[e][j] /\ out[e][j] # Free /\ Same(out[e][j], out'[e][j])
        BY <1>2, <1>3, <2>2, SameSelf
      <3>2. out[e][j].id # out[e][i].id
        BY <2>2, <3>1 DEF Distinct
      <3>3. \A k \in DOMAIN ms : ~(ms[k].op \in {"OFFER", "CHUNK"} /\ ms[k].id = out[e][j].id)
        BY <3>2
      <3>4. Tables(in[Peer(e)], in'[Peer(e)], out[e][j].id)
        BY <1>1, TablesSelf
      <3>5. Stream(out'[e][j], in'[Peer(e)], chan'[e], chan'[Peer(e)])
        BY <1>3, <3>1, <3>3, <3>4, OwnStay DEF TInv
      <3>6. QED
        BY <3>5
    <2>3. QED
      BY <2>1, <2>2
  <1>4. Levels'
    BY <1>2, <1>3, SenderStep DEF TInv
  <1>5. Paces'
    BY PacesMove DEF TInv
  <1>6. QED
    BY <1>4, <1>5 DEF TInv, Unread

\* it pushes on from where b says
LEMMA PushStepInv ==
  ASSUME IInv, IInv', TInv, Distinct(out), NEW e \in Ends, NEW i \in Slot, out[e][i] # Free,
         NEW b \in Outbound, b.state # "OFFERING", b.id = out[e][i].id, b.x = out[e][i].x,
         b.acked <= ChunksFor(b.x),
         out' = [out EXCEPT ![e][i] = Pump(b).stream],
         \/ chan' = Say(e, Pump(b).msgs)
         \/ chan[e] # <<>> /\ chan' = Reply(e, Pump(b).msgs),
         in' = in, begun' = begun, NEW n \in Nat, rewinds' = [rewinds EXCEPT ![b.x] = n],
         Pace(b, n), Stream(b, in[Peer(e)], chan'[e], chan[Peer(e)])
  PROVE  TInv'
  <1>1. PICK t, ms : t = Pump(b).stream /\ ms = Pump(b).msgs
    OBVIOUS
  <1>2. /\ t \in Outbound /\ t.id = b.id /\ t.x = b.x /\ t.state # "OFFERING"
        /\ ms \in Seq({m \in Chunks : m.id = b.id /\ m.x = b.x})
    BY <1>1, PumpOK
  <1>3. /\ t.acked = b.acked /\ t.rewound_to = b.rewound_to
        /\ b.next_seq <= ChunksFor(b.x) => t.next_seq <= ChunksFor(b.x)
        /\ \A k \in DOMAIN ms :
             /\ ms[k].op = "CHUNK" /\ ms[k].id = b.id
             /\ ms[k].seq < b.acked + Window /\ ms[k].seq < ChunksFor(b.x)
    BY <1>1, PumpBounds
  <1>4. ms \in Seq(Msg)
    <2>1. {m \in Chunks : m.id = b.id /\ m.x = b.x} \subseteq Msg
      BY DEF Msg
    <2>2. QED
      BY <1>2, <2>1, SeqMonotonic
  <1>5. Pace(t, n)
    BY <1>2, <1>3 DEF Pace
  <1>6. chan'[Peer(e)] = chan[Peer(e)] \o ms
    BY <1>1, Replies
  <1>7. chan[Peer(e)] \in Seq(Msg)
    BY PeerFacts, TableTypes
  <1>8. Stream(t, in[Peer(e)], chan'[e], chan[Peer(e)] \o ms)
    BY <1>2, <1>3, <1>4, <1>7, Pumped
  <1>9. Moves(e, ms)
    BY <1>1, <1>4 DEF Moves
  <1>10. \A k \in DOMAIN ms : ms[k].op \in {"OFFER", "CHUNK"} /\ ms[k].id = out[e][i].id
    BY <1>3
  <1>11. out' = [out EXCEPT ![e][i] = t] /\ rewinds' = [rewinds EXCEPT ![t.x] = n]
         /\ t.x = out[e][i].x /\ t.acked <= ChunksFor(t.x)
    BY <1>1, <1>2, <1>3
  <1>12. Stream(t, in[Peer(e)], chan'[e], chan'[Peer(e)])
    BY <1>6, <1>8
  <1>13. QED
    BY <1>2, <1>5, <1>9, <1>10, <1>11, <1>12, SenderInv

\* the streams of e
LEMMA OwnStreams ==
  ASSUME IInv, TInv, NEW e \in Ends, NEW i \in Slot, out[e][i] # Free
  PROVE  /\ out[e][i] \in Outbound /\ out[e][i].x \in Transfers
         /\ chan[Peer(e)] \in Seq(Msg) /\ chan[e] \in Seq(Msg)
         /\ in[Peer(e)] \in [Slot -> Inbound \cup {Free}]
         /\ Stream(out[e][i], in[Peer(e)], chan[e], chan[Peer(e)])
         /\ out[e][i].state # "OFFERING" => out[e][i].acked <= ChunksFor(out[e][i].x)
         /\ rewinds[out[e][i].x] \in Nat /\ rewinds = [rewinds EXCEPT ![out[e][i].x] = @]
         /\ Pace(out[e][i], rewinds[out[e][i].x])
  <1>1. Peer(e) \in Ends
    BY PeerFacts
  <1>2. Stream(out[e][i], in[Peer(e)], chan[e], chan[Peer(e)])
    BY DEF TInv, Levels
  <1>3. out[e][i] \in Outbound /\ out[e][i].x \in Transfers
    BY TableTypes, StreamTypes
  <1>4. rewinds \in [Transfers -> Nat] /\ Pace(out[e][i], rewinds[out[e][i].x])
    BY DEF TInv, Paces
  <1>5. out[e][i].state # "OFFERING" => out[e][i].acked <= ChunksFor(out[e][i].x)
    BY <1>2 DEF Stream, Started
  <1>6. QED
    BY <1>1, <1>2, <1>3, <1>4, <1>5, TableTypes

\* a timeout: the offer again, or again what is not confirmed
LEMMA RetryStep ==
  ASSUME IInv, IInv', TInv, Distinct(out), NEW e \in Ends, NEW i \in Slot, Retry(e, i)
  PROVE  TInv'
  <1> DEFINE s == [out[e][i] EXCEPT !.retries = @ + 1]
             b == [s EXCEPT !.next_seq = s.acked, !.rewound_to = NoRewind,
                            !.state = "SENDING"]
             m == Op("OFFER", s.id, s.x)
  <1>1. /\ out[e][i] # Free /\ in' = in /\ begun' = begun
        /\ IF s.state = "OFFERING"
           THEN /\ out' = [out EXCEPT ![e][i] = s] /\ chan' = Say(e, <<m>>)
                /\ rewinds' = rewinds
           ELSE /\ out' = [out EXCEPT ![e][i] = Pump(b).stream]
                /\ chan' = Say(e, Pump(b).msgs)
                /\ rewinds' = [rewinds EXCEPT ![s.x] = 0]
    BY DEF Retry
  <1>2. PICK o : o = out[e][i]
    OBVIOUS
  <1>3. o \in Outbound /\ o.x \in Transfers /\ o.id \in Ids /\ o.acked \in Nat /\ ChunksFor(o.x) \in Nat
    BY <1>1, <1>2, OwnStreams, StreamTypes
  <1>4. /\ s \in Outbound /\ s.id = o.id /\ s.x = o.x /\ s.state = o.state /\ s.acked = o.acked
        /\ s.next_seq = o.next_seq /\ s.rewound_to = o.rewound_to
    BY <1>2, <1>3 DEF Outbound
  <1> HIDE DEF s
  <1>5. /\ b \in Outbound /\ b.id = o.id /\ b.x = o.x /\ b.acked = o.acked
        /\ b.state # "OFFERING" /\ b.next_seq = o.acked /\ b.rewound_to = NoRewind
    BY <1>4 DEF Outbound
  <1>6. m \in Msg /\ m.op = "OFFER" /\ m.id = o.id
    BY <1>3, <1>4, PlainMsg DEF Op
  <1> HIDE DEF b, m
  <1>7. /\ Stream(o, in[Peer(e)], chan[e], chan[Peer(e)])
        /\ chan[Peer(e)] \in Seq(Msg) /\ chan[e] \in Seq(Msg)
        /\ o.state # "OFFERING" => o.acked <= ChunksFor(o.x)
        /\ rewinds[o.x] \in Nat /\ rewinds = [rewinds EXCEPT ![o.x] = rewinds[o.x]]
        /\ Pace(o, rewinds[o.x])
    BY <1>1, <1>2, OwnStreams
  <1>8. CASE s.state = "OFFERING"
    <2>1. /\ out' = [out EXCEPT ![e][i] = s] /\ chan' = Say(e, <<m>>) /\ rewinds' = rewinds
      BY <1>1, <1>8
    <2>2. Moves(e, <<m>>) /\ DOMAIN <<m>> = {1} /\ <<m>>[1] = m
      BY <1>6, <2>1, OneMove
    <2>3. Stream(o, in[Peer(e)], chan[e], chan[Peer(e)] \o <<m>>)
      BY <1>3, <1>4, <1>6, <1>7, <1>8, OfferAgain
    <2>4. chan'[e] = chan[e] /\ chan'[Peer(e)] = chan[Peer(e)] \o <<m>>
      BY <2>1, Replies
    <2>5. Stream(s, in[Peer(e)], chan'[e], chan'[Peer(e)])
      <3>1. Offered(o, in[Peer(e)], chan[e], chan[Peer(e)] \o <<m>>)
        BY <1>4, <1>8, <2>3 DEF Stream
      <3>2. Offered(s, in[Peer(e)], chan[e], chan[Peer(e)] \o <<m>>)
        BY <1>4, <3>1 DEF Offered
      <3>3. QED
        BY <1>8, <2>4, <3>2 DEF Stream
    <2>6. Pace(s, rewinds[o.x])
      BY <1>4, <1>7 DEF Pace
    <2>7. s.acked <= ChunksFor(s.x)
      <3>1. o.acked = 0
        BY <1>4, <1>7, <1>8 DEF Stream, Offered
      <3>2. QED
        BY <1>3, <1>4, <3>1
    <2>8. rewinds' = [rewinds EXCEPT ![s.x] = rewinds[o.x]]
      BY <1>4, <1>7, <2>1
    <2>9. \A k \in DOMAIN <<m>> : <<m>>[k].op \in {"OFFER", "CHUNK"} /\ <<m>>[k].id = out[e][i].id
      BY <1>2, <1>6, <2>2
    <2>10. QED
      BY <1>1, <1>2, <1>4, <1>7, <2>1, <2>2, <2>5, <2>6, <2>7, <2>8, <2>9, SenderInv, ZenonT(60)
  <1>9. CASE s.state # "OFFERING"
    <2>1. /\ out' = [out EXCEPT ![e][i] = Pump(b).stream] /\ chan' = Say(e, Pump(b).msgs)
          /\ rewinds' = [rewinds EXCEPT ![b.x] = 0]
      BY <1>1, <1>4, <1>5, <1>9
    <2>2. chan'[e] = chan[e]
      BY <2>1, Replies
    <2>3. Stream(b, in[Peer(e)], chan'[e], chan[Peer(e)])
      <3>1. Started(o, in[Peer(e)], chan[e], chan[Peer(e)])
        BY <1>4, <1>7, <1>9 DEF Stream
      <3>2. Started(b, in[Peer(e)], chan[e], chan[Peer(e)])
        BY <1>5, <3>1 DEF Started
      <3>3. QED
        BY <1>5, <2>2, <3>2 DEF Stream
    <2>4. Pace(b, 0) /\ b.acked <= ChunksFor(b.x)
      <3>1. NoRewind # b.acked
        BY <1>3, <1>5 DEF NoRewind
      <3>2. QED
        BY <1>3, <1>4, <1>5, <1>7, <1>9, <3>1 DEF Pace
    <2>5. 0 \in Nat
      OBVIOUS
    <2>6. QED
      BY <1>1, <1>2, <1>5, <2>1, <2>3, <2>4, <2>5, PushStepInv
  <1>10. QED
    BY <1>8, <1>9

\* the offer is taken, and the first chunks go out
LEMMA RxAcceptStep ==
  ASSUME IInv, IInv', TInv, Distinct(out), NEW e \in Ends, RxAccept(e)
  PROVE  TInv'
  <1> DEFINE i == SlotFind(out[e], Head(chan[e]).id)
             b == [out[e][i] EXCEPT !.state = "SENDING", !.retries = 0]
  <1>1. /\ chan[e] # <<>> /\ Head(chan[e]).op = "ACCEPT" /\ i # 0
        /\ \/ Ignored(e, i)
           \/ /\ out[e][i].state = "OFFERING"
              /\ out' = [out EXCEPT ![e][i] = Pump(b).stream]
              /\ chan' = Reply(e, Pump(b).msgs)
              /\ in' = in /\ rewinds' = rewinds /\ begun' = begun
    BY DEF RxAccept, Heard, history
  <1>2. i \in Slot /\ out[e][i] # Free /\ out[e][i].id = Head(chan[e]).id
    BY <1>1, SlotFacts
  <1> HIDE DEF i
  <1>3. PICK o, q, p, n : o = out[e][i] /\ q = chan[e] /\ p = chan[Peer(e)] /\ n = in[Peer(e)]
    OBVIOUS
  <1>4. /\ o \in Outbound /\ Stream(o, n, q, p) /\ q \in Seq(Msg) /\ p \in Seq(Msg)
        /\ n \in [Slot -> Inbound \cup {Free}]
        /\ rewinds[o.x] \in Nat /\ rewinds = [rewinds EXCEPT ![o.x] = rewinds[o.x]]
        /\ Pace(o, rewinds[o.x]) /\ ChunksFor(o.x) \in Nat
    BY <1>2, <1>3, OwnStreams, StreamTypes
  <1>5. /\ b \in Outbound /\ b.id = o.id /\ b.x = o.x /\ b.acked = o.acked
        /\ b.state # "OFFERING" /\ b.next_seq = o.next_seq /\ b.rewound_to = o.rewound_to
    BY <1>3, <1>4 DEF Outbound
  <1> HIDE DEF b
  <1>6. CASE Ignored(e, i)
    BY <1>1, <1>2, <1>6, IgnoredStep
  <1>7. CASE /\ out[e][i].state = "OFFERING"
             /\ out' = [out EXCEPT ![e][i] = Pump(b).stream]
             /\ chan' = Reply(e, Pump(b).msgs)
             /\ in' = in /\ rewinds' = rewinds /\ begun' = begun
    <2>1. o.acked = 0
      BY <1>3, <1>4, <1>7 DEF Stream, Offered
    <2>2. Stream(b, n, Tail(q), p)
      BY <1>1, <1>2, <1>3, <1>4, <1>5, <1>7, Begins
    <2>3. chan'[e] = Tail(q)
      BY <1>3, <1>7, Replies
    <2>4. Stream(b, in[Peer(e)], chan'[e], chan[Peer(e)])
      BY <1>3, <2>2, <2>3
    <2>5. Pace(b, rewinds[o.x])
      BY <1>3, <1>4, <1>5, <1>7 DEF Pace
    <2>6. b.acked <= ChunksFor(b.x) /\ rewinds' = [rewinds EXCEPT ![b.x] = rewinds[o.x]]
      BY <1>4, <1>5, <1>7, <2>1
    <2>7. QED
      BY <1>1, <1>2, <1>3, <1>4, <1>5, <1>7, <2>4, <2>5, <2>6, PushStepInv
  <1>8. QED
    BY <1>1, <1>6, <1>7

\* What an ack does to a stream whose confirmed position it does not go behind
LEMMA AckedFacts ==
  ASSUME NEW s \in Outbound, NEW a \in 0..SEQ, s.acked <= a, a <= ChunksFor(s.x),
         NEW n \in Nat, Pace(s, n), s.state # "OFFERING"
  PROVE  LET b == Acked(s, a)
         IN  /\ b \in Outbound /\ b.id = s.id /\ b.x = s.x /\ b.state # "OFFERING"
             /\ b.acked = a
             /\ Pace(b, IF b.next_seq < s.next_seq THEN n + 1 ELSE n)
  <1> DEFINE moved == IF a > s.acked
                      THEN [s EXCEPT !.acked = a, !.rewound_to = NoRewind] ELSE s
             back == IF Rewinds(moved, a)
                     THEN [moved EXCEPT !.next_seq = a, !.rewound_to = a] ELSE moved
             b == [back EXCEPT !.state = "SENDING", !.retries = 0]
  <1>1. Acked(s, a) = b
    BY DEF Acked
  <1>2. /\ s.acked \in Nat /\ s.next_seq \in Nat /\ ChunksFor(s.x) \in Nat /\ a \in Nat
        /\ s.acked \in 0..SEQ /\ s.next_seq \in 0..SEQ /\ SEQ \in Nat
        /\ NoRewind \notin Nat
    BY StreamTypes DEF NoRewind, Outbound
  <1>3. /\ moved \in Outbound /\ moved.id = s.id /\ moved.x = s.x /\ moved.state = s.state
        /\ moved.next_seq = s.next_seq /\ moved.acked = a
        /\ moved.rewound_to = IF a > s.acked THEN NoRewind ELSE s.rewound_to
    <2>1. CASE a > s.acked
      BY <1>2, <2>1 DEF Outbound
    <2>2. CASE ~(a > s.acked)
      <3>1. s.acked = a
        BY <1>2, <2>2
      <3>2. QED
        BY <2>2, <3>1
    <2>3. QED
      BY <2>1, <2>2
  <1> HIDE DEF moved
  <1>4. /\ back \in Outbound /\ back.id = s.id /\ back.x = s.x /\ back.state = s.state
        /\ back.acked = a
        /\ back.next_seq = IF Rewinds(moved, a) THEN a ELSE s.next_seq
        /\ back.rewound_to = IF Rewinds(moved, a) THEN a ELSE moved.rewound_to
    BY <1>2, <1>3 DEF Outbound
  <1> HIDE DEF back
  <1>5. /\ b \in Outbound /\ b.id = s.id /\ b.x = s.x /\ b.state = "SENDING"
        /\ b.acked = a /\ b.next_seq = back.next_seq /\ b.rewound_to = back.rewound_to
    BY <1>4 DEF Outbound
  <1> HIDE DEF b
  <1>6. Rewinds(moved, a) <=> a < s.next_seq /\ moved.rewound_to # a
    BY <1>3 DEF Rewinds
  <1>7. Pace(b, IF b.next_seq < s.next_seq THEN n + 1 ELSE n)
    <2>1. CASE Rewinds(moved, a)
      <3>1. b.next_seq = a /\ b.rewound_to = a /\ a < s.next_seq /\ moved.rewound_to # a
        BY <1>4, <1>5, <1>6, <2>1
      <3>2. n <= a
        <4>1. CASE a > s.acked
          <5>1. n <= s.acked + 1
            BY <1>2 DEF Pace
          <5>2. QED
            BY <1>2, <4>1, <5>1
        <4>2. CASE ~(a > s.acked)
          <5>1. s.acked = a /\ s.rewound_to # a
            BY <1>2, <1>3, <3>1, <4>2
          <5>2. QED
            BY <1>2, <5>1 DEF Pace
        <4>3. QED
          BY <4>1, <4>2
      <3>3. a < ChunksFor(s.x)
        BY <1>2, <3>1 DEF Pace
      <3>4. QED
        BY <1>2, <1>5, <3>1, <3>2, <3>3 DEF Pace
    <2>2. CASE ~Rewinds(moved, a)
      <3>1. b.next_seq = s.next_seq /\ b.rewound_to = moved.rewound_to
        BY <1>4, <1>5, <2>2
      <3>2. CASE a > s.acked
        <4>1. b.rewound_to = NoRewind /\ n <= s.acked + 1
          BY <1>2, <1>3, <3>1, <3>2 DEF Pace
        <4>2. n <= a
          BY <1>2, <3>2, <4>1
        <4>3. QED
          BY <1>2, <1>5, <3>1, <4>1, <4>2 DEF Pace
      <3>3. CASE ~(a > s.acked)
        <4>1. s.acked = a /\ b.rewound_to = s.rewound_to
          BY <1>2, <1>3, <3>1, <3>3
        <4>2. QED
          BY <1>2, <1>5, <3>1, <4>1 DEF Pace
      <3>4. QED
        BY <3>2, <3>3
    <2>3. QED
      BY <2>1, <2>2
  <1>8. QED
    BY <1>1, <1>5, <1>7

\* an ack confirms, and may rewind once
LEMMA RxAckStep ==
  ASSUME IInv, IInv', TInv, Distinct(out), NEW e \in Ends, RxAck(e)
  PROVE  TInv'
  <1> DEFINE i == SlotFind(out[e], Head(chan[e]).id)
             b == Acked(out[e][i], Head(chan[e]).arg)
  <1>1. /\ chan[e] # <<>> /\ Head(chan[e]).op = "ACK" /\ i # 0
        /\ \/ Ignored(e, i)
           \/ /\ out[e][i].state # "OFFERING"
              /\ out' = [out EXCEPT ![e][i] = Pump(b).stream]
              /\ chan' = Reply(e, Pump(b).msgs)
              /\ rewinds' = [rewinds EXCEPT ![out[e][i].x] =
                               IF b.next_seq < out[e][i].next_seq THEN @ + 1 ELSE @]
              /\ in' = in /\ begun' = begun
    BY DEF RxAck, Heard, history
  <1>2. i \in Slot /\ out[e][i] # Free /\ out[e][i].id = Head(chan[e]).id
    BY <1>1, SlotFacts
  <1> HIDE DEF i
  <1>3. PICK o, q, p, n, a : /\ o = out[e][i] /\ q = chan[e] /\ p = chan[Peer(e)]
                             /\ n = in[Peer(e)] /\ a = Head(chan[e]).arg
    OBVIOUS
  <1>4. /\ o \in Outbound /\ Stream(o, n, q, p) /\ q \in Seq(Msg) /\ p \in Seq(Msg)
        /\ n \in [Slot -> Inbound \cup {Free}]
        /\ rewinds[o.x] \in Nat /\ Pace(o, rewinds[o.x]) /\ ChunksFor(o.x) \in Nat
    BY <1>2, <1>3, OwnStreams, StreamTypes
  <1>5. a \in 0..SEQ
    BY <1>1, <1>3, TableTypes, StreamTypes
  <1>6. CASE Ignored(e, i)
    BY <1>1, <1>2, <1>6, IgnoredStep
  <1>7. CASE /\ out[e][i].state # "OFFERING"
             /\ out' = [out EXCEPT ![e][i] = Pump(b).stream]
             /\ chan' = Reply(e, Pump(b).msgs)
             /\ rewinds' = [rewinds EXCEPT ![out[e][i].x] =
                              IF b.next_seq < out[e][i].next_seq THEN @ + 1 ELSE @]
             /\ in' = in /\ begun' = begun
    <2>1. /\ q # <<>> /\ Head(q).op = "ACK" /\ Head(q).id = o.id /\ Head(q).arg = a
          /\ o.state # "OFFERING" /\ b = Acked(o, a)
      BY <1>1, <1>2, <1>3, <1>7
    <2>2. o.acked <= a /\ a <= ChunksFor(o.x)
      <3>1. 1 \in Of(q, "ACK", o.id) /\ q[1] = Head(q)
        <4>1. Len(q) \in Nat /\ Len(q) # 0 /\ DOMAIN q = 1..Len(q) /\ q[1] = Head(q)
          BY <1>4, <2>1, LenProperties, HeadTailProperties, EmptySeq
        <4>2. QED
          BY <2>1, <4>1 DEF Of
      <3>2. Started(o, n, q, p)
        BY <1>4, <2>1 DEF Stream
      <3>3. QED
        BY <2>1, <3>1, <3>2 DEF Started
    <2>3. PICK m : m = IF b.next_seq < o.next_seq THEN rewinds[o.x] + 1 ELSE rewinds[o.x]
      OBVIOUS
    <2>4. /\ b \in Outbound /\ b.id = o.id /\ b.x = o.x /\ b.state # "OFFERING"
          /\ b.acked = a /\ Pace(b, m)
      BY <1>4, <1>5, <2>1, <2>2, <2>3, AckedFacts
    <2> HIDE DEF b
    <2>5. m \in Nat /\ rewinds' = [rewinds EXCEPT ![b.x] = m]
      BY <1>3, <1>4, <1>7, <2>3, <2>4
    <2>6. Stream(b, n, Tail(q), p)
      BY <1>4, <2>1, <2>4, Confirms
    <2>7. chan'[e] = Tail(q)
      BY <1>3, <1>7, Replies
    <2>8. Stream(b, in[Peer(e)], chan'[e], chan[Peer(e)])
      BY <1>3, <2>6, <2>7
    <2>9. b.acked <= ChunksFor(b.x) /\ b.id = out[e][i].id /\ b.x = out[e][i].x
      BY <1>3, <2>2, <2>4
    <2>10. QED
      BY <1>1, <1>2, <1>7, <2>4, <2>5, <2>8, <2>9, PushStepInv
  <1>8. QED
    BY <1>1, <1>6, <1>7

\* next_id[e] is free for a new stream, and of an earlier one with that id no
\* accept is on its way after which anything was taken
IdClean(e) == IdFree(e) /\ Untouched(in[Peer(e)], chan[e], next_id[e])

\* dhp_data_send takes ids that are clean
CleanIds == \A e \in Ends, x \in Transfers : Send(e, x) => IdClean(e)

\* a transfer begun under an id that is clean
LEMMA SendStep ==
  ASSUME IInv, IInv', TInv, NEW e \in Ends, NEW x \in Transfers, Send(e, x), IdClean(e)
  PROVE  TInv'
  <1> DEFINE i == SlotFree(out[e])
             s == [state |-> "OFFERING", id |-> next_id[e], x |-> x,
                   next_seq |-> 0, acked |-> 0, rewound_to |-> NoRewind,
                   retries |-> 0]
             m == Op("OFFER", next_id[e], x)
  <1>1. /\ out \in [Ends -> [Slot -> Outbound \cup {Free}]] /\ next_id \in [Ends -> Ids]
        /\ Peer(e) \in Ends /\ Peer(e) # e /\ chan[Peer(e)] \in Seq(Msg) /\ chan[e] \in Seq(Msg)
    BY TableTypes, PeerFacts
  <1>2. /\ i # 0 /\ out' = [out EXCEPT ![e][i] = s] /\ chan' = Say(e, <<m>>) /\ in' = in
        /\ begun' = begun \cup {x} /\ x \notin begun /\ rewinds' = rewinds
    BY DEF Send
  <1>3. i \in Slot /\ out[e][i] = Free
    BY <1>2, SlotFacts
  <1>4. /\ s.state = "OFFERING" /\ s.id = next_id[e] /\ s.x = x /\ s.next_seq = 0 /\ s.acked = 0
        /\ s.rewound_to = NoRewind
    OBVIOUS
  <1>5. m \in Msg /\ m.op = "OFFER" /\ m.id = next_id[e]
    BY <1>1, PlainMsg DEF Op
  <1> HIDE DEF i, s, m
  <1>6. /\ out'[Peer(e)] = out[Peer(e)]
        /\ \A d \in Ends, j \in Slot : out'[d][j] = IF d = e /\ j = i THEN s ELSE out[d][j]
    BY <1>1, <1>2, <1>3
  <1>7. Moves(e, <<m>>) /\ DOMAIN <<m>> = {1} /\ <<m>>[1] = m
    BY <1>2, <1>5, OneMove
  <1>8. chan'[e] = chan[e] /\ chan'[Peer(e)] = chan[Peer(e)] \o <<m>>
    BY <1>2, Replies
  <1>9. Stream(s, in[Peer(e)], chan'[e], chan'[Peer(e)])
    <2>1. PICK u, p, id : u = chan'[Peer(e)] /\ p = chan[Peer(e)] /\ id = next_id[e]
      OBVIOUS
    <2>2. Of(u, "CHUNK", id) = {}
      <3>1. Grown(p, u, m, "CHUNK", id)
        BY <1>1, <1>5, <1>8, <2>1, OfAppend
      <3>2. Of(p, "CHUNK", id) = {}
        <4>1. DOMAIN p = 1..Len(p)
          BY <1>1, <2>1, LenProperties
        <4>2. QED
          BY <2>1, <4>1 DEF IdClean, IdFree, Of
      <3>3. QED
        BY <1>5, <3>1, <3>2 DEF Grown
    <2>3. \A j \in Slot : in[Peer(e)][j] # Free => in[Peer(e)][j].x # x
      <3>1. PICK ids \in [Transfers -> Ids] : Named(ids)
        BY DEF IInv
      <3>2. \A j \in Slot : in[Peer(e)][j] # Free => in[Peer(e)][j].x \in begun
        BY <1>1, <3>1 DEF Named, InOK, InStreamOK
      <3>3. QED
        BY <1>2, <3>2
    <2>4. Untouched(in[Peer(e)], chan'[e], s.id)
      BY <1>4, <1>8 DEF IdClean
    <2>5. Offered(s, in[Peer(e)], chan'[e], chan'[Peer(e)])
      BY <1>4, <2>1, <2>2, <2>3, <2>4 DEF Offered
    <2>6. QED
      BY <1>4, <2>5 DEF Stream
  <1>10. ASSUME NEW j \in Slot, out'[e][j] # Free
         PROVE  Stream(out'[e][j], in[Peer(e)], chan'[e], chan'[Peer(e)])
    <2>1. CASE j = i
      BY <1>6, <1>9, <2>1
    <2>2. CASE j # i
      <3>1. out'[e][j] = out[e][j] /\ out[e][j] # Free /\ Same(out[e][j], out'[e][j])
        BY <1>6, <1>10, <2>2, SameSelf
      <3>2. out[e][j].id # m.id
        BY <1>5, <3>1 DEF IdClean, IdFree
      <3>3. \A k \in DOMAIN <<m>> :
              ~(<<m>>[k].op \in {"OFFER", "CHUNK"} /\ <<m>>[k].id = out[e][j].id)
        BY <1>7, <3>2
      <3>4. Tables(in[Peer(e)], in'[Peer(e)], out[e][j].id)
        BY <1>2, TablesSelf
      <3>5. Stream(out'[e][j], in'[Peer(e)], chan'[e], chan'[Peer(e)])
        BY <1>7, <1>10, <3>1, <3>3, <3>4, OwnStay DEF TInv
      <3>6. QED
        BY <1>2, <3>5
    <2>3. QED
      BY <2>1, <2>2
  <1>11. Levels'
    <2>1. \A k \in DOMAIN <<m>> : <<m>>[k].op \notin {"ACK", "ACCEPT"}
      BY <1>5, <1>7
    <2>2. QED
      BY <1>2, <1>6, <1>7, <1>10, <2>1, SenderStep DEF TInv
  <1>12. Paces'
    <2>1. /\ rewinds \in [Transfers -> Nat] /\ rewinds[x] = 0
          /\ \A y \in Transfers : rewinds[y] <= ChunksFor(y) /\ (y \notin begun => rewinds[y] = 0)
      BY <1>2 DEF TInv, Paces
    <2>2. Pace(s, 0)
      <3>1. ChunksFor(x) \in Nat /\ NoRewind # 0
        BY StreamTypes, ChunksForType DEF NoRewind
      <3>2. QED
        BY <1>4, <3>1 DEF Pace
    <2>3. ASSUME NEW d \in Ends, NEW j \in Slot, out'[d][j] # Free
          PROVE  Pace(out'[d][j], rewinds'[out'[d][j].x])
      <3>1. CASE d = e /\ j = i
        BY <1>2, <1>4, <1>6, <2>1, <2>2, <3>1
      <3>2. CASE ~(d = e /\ j = i)
        BY <1>2, <1>6, <2>3, <3>2 DEF TInv, Paces
      <3>3. QED
        BY <3>1, <3>2
    <2>4. QED
      BY <1>2, <2>1, <2>3 DEF Paces
  <1>13. Unread'
    BY <1>2 DEF TInv, Unread
  <1>14. QED
    BY <1>11, <1>12, <1>13 DEF TInv

\* It holds initially
LEMMA InitTaken == Init => TInv
  <1> SUFFICES ASSUME Init PROVE TInv
    OBVIOUS
  <1>1. /\ \A e \in Ends, i \in Slot : out[e][i] = Free /\ in[e][i] = Free
        /\ rewinds = [x \in Transfers |-> 0]
    BY DEF Init
  <1>2. \A x \in Transfers : ChunksFor(x) \in Nat
    BY StreamTypes, ChunksForType, DataAssumption
  <1>3. QED
    BY <1>1, <1>2 DEF TInv, Levels, Unread, Paces

\* Every step keeps it, when the ids taken are clean
LEMMA TakenStep == IInv /\ IInv' /\ RInv /\ TInv /\ [Next /\ CleanIds]_vars => TInv'
  <1> SUFFICES ASSUME IInv, IInv', RInv, TInv, [Next /\ CleanIds]_vars PROVE TInv'
    OBVIOUS
  <1>0. Distinct(out)
    BY DEF RInv
  <1>1. CASE UNCHANGED vars
    BY <1>1 DEF vars, history, TInv, Levels, Unread, Paces
  <1>2. ASSUME NEW e \in Ends, NEW x \in Transfers, Send(e, x), CleanIds
        PROVE  TInv'
    BY <1>2, SendStep DEF CleanIds
  <1>3. ASSUME NEW e \in Ends, NEW i \in Slot,
               Decide(e, i) \/ Cancel(e, i) \/ Tick(e, i) \/ Idle(e, i)
        PROVE  TInv'
    BY <1>0, <1>3, AcceptStep, RetryStep, EndingActions DEF Decide, Tick
  <1>4. ASSUME NEW e \in Ends, Receive(e) \/ Lose(e) \/ Restart(e)
        PROVE  TInv'
    BY <1>0, <1>4, RxOfferStep, RxAcceptStep, RxAckStep, RxChunkDroppedStep, RxChunkStep,
       EndingFrames, RestartStep DEF Receive
  <1>5. QED
    BY <1>1, <1>2, <1>3, <1>4 DEF Next

\* Where it holds, what is confirmed is taken and rewinds are bounded
LEMMA TakenBounds ==
  ASSUME IInv, TInv
  PROVE  ConfirmedIsTaken /\ RewindsBounded
  <1>1. ASSUME NEW e \in Ends, NEW i \in Slot, NEW j \in Slot,
               out[e][i] # Free, in[Peer(e)][j] # Free,
               out[e][i].id = in[Peer(e)][j].id, out[e][i].x = in[Peer(e)][j].x
        PROVE  /\ out[e][i].acked <= in[Peer(e)][j].next_seq
               /\ in[Peer(e)][j].next_seq <= out[e][i].acked + Window
    <2>1. PICK s, n : s = out[e][i] /\ n = in[Peer(e)]
      OBVIOUS
    <2>2. Stream(s, n, chan[e], chan[Peer(e)])
      BY <1>1, <2>1 DEF TInv, Levels
    <2>3. CASE s.state = "OFFERING"
      <3>1. s.acked = 0 /\ n[j].next_seq = 0
        BY <1>1, <2>1, <2>2, <2>3 DEF Stream, Offered
      <3>2. Window \in Nat
        BY DataAssumption
      <3>3. QED
        BY <2>1, <3>1, <3>2
    <2>4. CASE s.state # "OFFERING"
      BY <1>1, <2>1, <2>2, <2>4 DEF Stream, Started
    <2>5. QED
      BY <2>3, <2>4
  <1>2. ConfirmedIsTaken
    BY <1>1 DEF ConfirmedIsTaken
  <1>3. RewindsBounded
    BY DEF TInv, Paces, RewindsBounded
  <1>4. QED
    BY <1>2, <1>3

\* A sender counts as confirmed only what its receiver has taken and is at
\* most a window ahead of that, and between two timeouts rewinds at most once
\* for each chunk, whatever is lost, repeated or restarted, while ids that
\* come round are clean (dhp_data_send, OP_ACK, pump_sender).
THEOREM AcksAreHonest ==
  Spec /\ [][CleanIds]_vars => [](ConfirmedIsTaken /\ RewindsBounded)
  <1>1. Init => IInv /\ RInv /\ TInv
    BY InitOK, RefineInit, InitTaken
  <1>2. IInv /\ RInv /\ TInv /\ [Next]_vars /\ [CleanIds]_vars => IInv' /\ RInv' /\ TInv'
    <2> SUFFICES ASSUME IInv, RInv, TInv, [Next]_vars, [CleanIds]_vars
                 PROVE  IInv' /\ RInv' /\ TInv'
      OBVIOUS
    <2>1. IInv'
      BY NextOK
    <2>2. [Next /\ CleanIds]_vars /\ [Next /\ FreshIds]_vars
      BY DEF CleanIds, IdClean, FreshIds
    <2>3. QED
      BY <2>1, <2>2, RightStep, TakenStep
  <1>3. IInv /\ TInv => ConfirmedIsTaken /\ RewindsBounded
    BY TakenBounds
  <1>4. QED
    BY <1>1, <1>2, <1>3, PTL DEF Spec

-----------------------------------------------------------------------------
(* When ids are clean *)

\* A step after which an id is as untouched as before, unless the step reads
\* a chunk of it
Clears ==
  \A e \in Ends, id \in Ids :
    /\ Untouched(in[Peer(e)], chan[e], id)
    /\ chan[Peer(e)] # <<>> /\ Head(chan[Peer(e)]).op = "CHUNK"
         => Head(chan[Peer(e)]).id # id
    => Untouched(in'[Peer(e)], chan'[e], id)

\* nothing is accepted or confirmed
LEMMA ClearQuiet ==
  ASSUME IInv, IInv', NEW e \in Ends, NEW ms, Moves(e, ms),
         \A k \in DOMAIN ms : ms[k].op \notin {"ACK", "ACCEPT"},
         \A d \in Ends, i \in Slot : in'[d][i] # Free => in'[d][i] = in[d][i]
  PROVE  Clears
  <1>1. Ends = {e, Peer(e)} /\ Peer(e) \in Ends /\ Peer(Peer(e)) = e
    BY PeerFacts
  <1>2. chan \in [Ends -> Seq(Msg)] /\ chan' \in [Ends -> Seq(Msg)]
    BY TableTypes, NextTypes
  <1>3. ASSUME NEW d \in Ends, NEW id \in Ids, Untouched(in[Peer(d)], chan[d], id)
        PROVE  Untouched(in'[Peer(d)], chan'[d], id)
    <2>1. \A k \in DOMAIN ms : ~(ms[k].op \in {"ACK", "ACCEPT"} /\ ms[k].id = id)
      OBVIOUS
    <2>2. /\ Follows(chan[e], chan'[e], {"ACK", "ACCEPT"}, id)
          /\ Follows(chan[Peer(e)], chan'[Peer(e)], {"ACK", "ACCEPT"}, id)
      BY <1>2, <2>1, MovesFollow
    <2>3. Follows(chan[d], chan'[d], {"ACK", "ACCEPT"}, id)
      BY <1>1, <2>2
    <2>4. Tables(in[Peer(d)], in'[Peer(d)], id)
      <3>1. Peer(d) \in Ends
        BY PeerFacts
      <3>2. QED
        BY <3>1, TablesSelf
    <2>5. QED
      BY <1>2, <1>3, <2>3, <2>4, UntouchedKeeps
  <1>4. QED
    BY <1>3 DEF Clears

\* no frame, or one that ends a stream or offers one
LEMMA ClearEnds ==
  ASSUME IInv, IInv', NEW e \in Ends, NEW j \in Slot,
         \/ chan' = chan
         \/ chan[e] # <<>> /\ chan' = Reply(e, <<>>)
         \/ \E m \in Msg : /\ m.op \notin {"ACK", "ACCEPT"}
                           /\ chan' = Say(e, <<m>>) \/ (chan[e] # <<>> /\ chan' = Reply(e, <<m>>)),
         in' = in \/ in' = [in EXCEPT ![e][j] = Free]
  PROVE  Clears
  <1>1. \A d \in Ends, k \in Slot : in'[d][k] # Free => in'[d][k] = in[d][k]
    BY InEnding
  <1>2. \E ms : Moves(e, ms) /\ \A k \in DOMAIN ms : ms[k].op \notin {"ACK", "ACCEPT"}
    <2>1. CASE chan' = chan \/ (chan[e] # <<>> /\ chan' = Reply(e, <<>>))
      BY <2>1, NoMoves
    <2>2. CASE \E m \in Msg : /\ m.op \notin {"ACK", "ACCEPT"}
                              /\ \/ chan' = Say(e, <<m>>)
                                 \/ chan[e] # <<>> /\ chan' = Reply(e, <<m>>)
      <3>1. PICK m \in Msg : /\ m.op \notin {"ACK", "ACCEPT"}
                             /\ \/ chan' = Say(e, <<m>>)
                                \/ chan[e] # <<>> /\ chan' = Reply(e, <<m>>)
        BY <2>2
      <3>2. /\ Moves(e, <<m>>)
            /\ DOMAIN <<m>> = {1} /\ <<m>>[1] = m
        BY <3>1, OneMove
      <3>3. QED
        BY <3>1, <3>2
    <2>3. QED
      BY <2>1, <2>2
  <1>3. PICK ms : Moves(e, ms) /\ \A k \in DOMAIN ms : ms[k].op \notin {"ACK", "ACCEPT"}
    BY <1>2
  <1>4. QED
    BY <1>1, <1>3, ClearQuiet

\* chunks
LEMMA ClearPush ==
  ASSUME IInv, IInv', NEW e \in Ends, NEW b \in Outbound, in' = in,
         \/ chan' = Say(e, Pump(b).msgs)
         \/ chan[e] # <<>> /\ chan' = Reply(e, Pump(b).msgs)
  PROVE  Clears
  <1>1. PICK ms : ms = Pump(b).msgs
    OBVIOUS
  <1>2. ms \in Seq({m \in Chunks : m.id = b.id /\ m.x = b.x})
    BY <1>1, PumpOK
  <1>3. ms \in Seq(Msg)
    <2>1. {m \in Chunks : m.id = b.id /\ m.x = b.x} \subseteq Msg
      BY DEF Msg
    <2>2. QED
      BY <1>2, <2>1, SeqMonotonic
  <1>4. \A k \in DOMAIN ms : ms[k].op \notin {"ACK", "ACCEPT"}
    BY <1>1, PumpBounds
  <1>5. Moves(e, ms)
    BY <1>1, <1>3 DEF Moves
  <1>6. QED
    BY <1>4, <1>5, ClearQuiet

\* the end that accepts and confirms: of the other's ids only
LEMMA ClearSides ==
  ASSUME IInv, IInv', NEW e \in Ends, in'[Peer(e)] = in[Peer(e)],
         \/ chan'[e] = chan[e]
         \/ chan[e] # <<>> /\ chan'[e] = Tail(chan[e]),
         \A id \in Ids :
           /\ Untouched(in[e], chan[Peer(e)], id)
           /\ chan[e] # <<>> /\ Head(chan[e]).op = "CHUNK" => Head(chan[e]).id # id
           => Untouched(in'[e], chan'[Peer(e)], id)
  PROVE  Clears
  <1>1. Ends = {e, Peer(e)} /\ Peer(e) \in Ends /\ Peer(Peer(e)) = e
    BY PeerFacts
  <1>2. chan[e] \in Seq(Msg) /\ chan'[e] \in Seq(Msg)
    BY TableTypes, NextTypes
  <1>3. ASSUME NEW id \in Ids, Untouched(in[Peer(e)], chan[e], id)
        PROVE  Untouched(in'[Peer(e)], chan'[e], id)
    <2>1. Follows(chan[e], chan'[e], {"ACK", "ACCEPT"}, id)
      BY <1>2, FollowsSelf, FollowsTail
    <2>2. Tables(in[Peer(e)], in'[Peer(e)], id)
      BY TablesSelf
    <2>3. QED
      BY <1>2, <1>3, <2>1, <2>2, UntouchedKeeps
  <1>4. QED
    BY <1>1, <1>3 DEF Clears

\* the accept of a stream of which nothing is taken
LEMMA ClearAccept ==
  ASSUME IInv, IInv', Unread, NEW e \in Ends, NEW i \in Slot, Accept(e, i)
  PROVE  Clears
  <1>1. PICK m : m = Op("ACCEPT", in[e][i].id, Window)
    OBVIOUS
  <1>2. in[e][i] # Free /\ in[e][i].state = "OFFERED"
    BY FreeFacts DEF Accept
  <1>3. PICK r : r = [in[e][i] EXCEPT !.state = "RECEIVING"]
    OBVIOUS
  <1>4. /\ in[e][i] \in Inbound /\ Only(in[e], i) /\ in[e][i].id \in Ids
        /\ in \in [Ends -> [Slot -> Inbound \cup {Free}]]
        /\ chan[Peer(e)] \in Seq(Msg)
    BY <1>2, TableTypes, StreamTypes, PeerFacts
  <1>5. r.id = in[e][i].id /\ r.x = in[e][i].x /\ r.next_seq = in[e][i].next_seq
    BY <1>3, <1>4 DEF Inbound
  <1>6. m \in Msg /\ m.op = "ACCEPT" /\ m.id = in[e][i].id
    BY <1>1, <1>4, PlainMsg DEF Op
  <1>7. chan' = Say(e, <<m>>) /\ in' = [in EXCEPT ![e][i] = r]
    BY <1>1, <1>3 DEF Accept
  <1>8. /\ in'[Peer(e)] = in[Peer(e)]
        /\ \A j \in Slot : in'[e][j] = IF j = i THEN r ELSE in[e][j]
    BY <1>4, <1>7, PeerFacts
  <1>9. in[e][i].next_seq = 0
    BY <1>2 DEF Unread
  <1>10. chan'[e] = chan[e] /\ chan'[Peer(e)] = chan[Peer(e)] \o <<m>>
    BY <1>7, Replies
  <1>11. ASSUME NEW id \in Ids, Untouched(in[e], chan[Peer(e)], id)
         PROVE  Untouched(in'[e], chan'[Peer(e)], id)
    <2>1. Untouched(in[e], chan'[Peer(e)], id)
      BY <1>2, <1>4, <1>6, <1>9, <1>10, <1>11, UntouchedAccept
    <2>2. chan'[Peer(e)] \in Seq(Msg)
      BY PeerFacts, NextTypes
    <2>3. Tables(in[e], in'[e], id)
      BY <1>2, <1>5, <1>8 DEF Tables
    <2>4. Follows(chan'[Peer(e)], chan'[Peer(e)], {"ACK", "ACCEPT"}, id)
      BY <2>2, FollowsSelf
    <2>5. QED
      BY <2>1, <2>2, <2>3, <2>4, UntouchedKeeps
  <1>12. QED
    BY <1>8, <1>10, <1>11, ClearSides

\* an ack of what is taken
LEMMA ClearAck ==
  ASSUME IInv, IInv', NEW e \in Ends, NEW k \in Slot, in[e][k] # Free,
         chan[e] # <<>>, chan' = Reply(e, <<Ack(in[e][k])>>), in' = in
  PROVE  Clears
  <1>1. in[e][k] \in Inbound /\ chan[Peer(e)] \in Seq(Msg)
    BY TableTypes, PeerFacts
  <1>2. chan'[e] = Tail(chan[e]) /\ chan'[Peer(e)] = chan[Peer(e)] \o <<Ack(in[e][k])>>
    BY Replies
  <1>3. ASSUME NEW id \in Ids, Untouched(in[e], chan[Peer(e)], id)
        PROVE  Untouched(in'[e], chan'[Peer(e)], id)
    BY <1>1, <1>2, <1>3, UntouchedAck
  <1>4. QED
    BY <1>2, <1>3, ClearSides

\* a new inbound stream
LEMMA ClearOpen ==
  ASSUME IInv, IInv', NEW e \in Ends, NEW i \in Slot,
         chan[e] # <<>>, chan' = Reply(e, <<>>),
         NEW r, r.next_seq = 0, in' = [in EXCEPT ![e][i] = r]
  PROVE  Clears
  <1>1. /\ in \in [Ends -> [Slot -> Inbound \cup {Free}]] /\ chan[Peer(e)] \in Seq(Msg)
        /\ in[e] \in [Slot -> Inbound \cup {Free}]
    BY TableTypes, PeerFacts
  <1>2. in'[Peer(e)] = in[Peer(e)] /\ in'[e] = [in[e] EXCEPT ![i] = r]
    BY <1>1, PeerFacts
  <1>3. chan'[e] = Tail(chan[e]) /\ chan'[Peer(e)] = chan[Peer(e)]
    BY <1>1, Replies, ConcatEmptySeq
  <1>4. ASSUME NEW id \in Ids, Untouched(in[e], chan[Peer(e)], id)
        PROVE  Untouched(in'[e], chan'[Peer(e)], id)
    BY <1>1, <1>2, <1>3, <1>4, UntouchedOpen
  <1>5. QED
    BY <1>2, <1>3, <1>4, ClearSides

\* a chunk is taken: of its own id
LEMMA ClearTake ==
  ASSUME IInv, IInv', NEW e \in Ends, NEW i \in Slot, in[e][i] # Free,
         chan[e] # <<>>, Head(chan[e]).op = "CHUNK", Head(chan[e]).id = in[e][i].id,
         NEW r, r.id = in[e][i].id, r.state = "RECEIVING", in' = [in EXCEPT ![e][i] = r],
         chan' = Reply(e, <<>>) \/ chan' = Reply(e, <<Ack(r)>>)
  PROVE  Clears
  <1>1. /\ in \in [Ends -> [Slot -> Inbound \cup {Free}]] /\ chan[Peer(e)] \in Seq(Msg)
    BY TableTypes, PeerFacts
  <1>2. /\ in'[Peer(e)] = in[Peer(e)]
        /\ \A j \in Slot : in'[e][j] = IF j = i THEN r ELSE in[e][j]
    BY <1>1, PeerFacts
  <1>3. in'[e][i] = r /\ r # Free /\ r \in Inbound
    <2>1. r # Free
      BY FreeFacts
    <2>2. in'[e][i] # Free /\ in'[e][i] = r
      BY <1>2, <2>1
    <2>3. QED
      BY <2>1, <2>2, NextTypes
  <1>4. ASSUME NEW id \in Ids, Untouched(in[e], chan[Peer(e)], id), Head(chan[e]).id # id
        PROVE  Untouched(in'[e], chan'[Peer(e)], id)
    <2>1. Untouched(in'[e], chan[Peer(e)], id)
      <3>1. Tables(in[e], in'[e], id)
        BY <1>2, <1>4 DEF Tables
      <3>2. Follows(chan[Peer(e)], chan[Peer(e)], {"ACK", "ACCEPT"}, id)
        BY <1>1, FollowsSelf
      <3>3. QED
        BY <1>1, <1>4, <3>1, <3>2, UntouchedKeeps
    <2>2. CASE chan' = Reply(e, <<>>)
      <3>1. chan'[Peer(e)] = chan[Peer(e)]
        BY <1>1, <2>2, Replies, ConcatEmptySeq
      <3>2. QED
        BY <2>1, <3>1
    <2>3. CASE chan' = Reply(e, <<Ack(r)>>)
      <3>1. chan'[Peer(e)] = chan[Peer(e)] \o <<Ack(in'[e][i])>>
        BY <1>3, <2>3, Replies
      <3>2. PICK n : n = in'[e]
        OBVIOUS
      <3>3. Untouched(n, chan[Peer(e)] \o <<Ack(n[i])>>, id)
        BY <1>1, <1>3, <2>1, <3>2, UntouchedAck
      <3>4. QED
        BY <3>1, <3>2, <3>3
    <2>4. QED
      BY <2>2, <2>3
  <1>5. chan'[e] = Tail(chan[e])
    BY Replies
  <1>6. QED
    BY <1>2, <1>4, <1>5, ClearSides

\* the application's calls and the tick
LEMMA ClearCalls ==
  ASSUME IInv, IInv', Unread, NEW e \in Ends, NEW i \in Slot, NEW x,
         \/ x \in Transfers /\ Send(e, x)
         \/ Decide(e, i) \/ Cancel(e, i) \/ Tick(e, i) \/ Idle(e, i)
  PROVE  Clears
  <1>1. /\ next_id \in [Ends -> Ids]
        /\ out[e][i] # Free => out[e][i] \in Outbound /\ out[e][i].id \in Ids
                               /\ out[e][i].x \in Transfers
        /\ in[e][i] # Free => in[e][i].id \in Ids
    BY TableTypes, StreamTypes
  <1>2. {"REFUSED", "TIMEOUT", "CANCELLED"} \subseteq Result
    BY DEF Result
  <1>3. ASSUME NEW m \in Msg, m.op \notin {"ACK", "ACCEPT"}, chan' = Say(e, <<m>>),
               in' = in \/ in' = [in EXCEPT ![e][i] = Free]
        PROVE  Clears
    BY <1>3, ClearEnds
  <1>4. ASSUME NEW id \in Ids, NEW op \in QuietOps, NEW v \in Result,
               chan' = Say(e, <<Op(op, id, v)>>),
               in' = in \/ in' = [in EXCEPT ![e][i] = Free]
        PROVE  Clears
    <2>1. PICK m : m = Op(op, id, v)
      OBVIOUS
    <2>2. m \in Msg /\ m.op \notin {"ACK", "ACCEPT"}
      BY <2>1, QuietMsg DEF QuietOps
    <2>3. QED
      BY <1>3, <1>4, <2>1, <2>2
  <1>5. ASSUME NEW id \in Ids, NEW y \in Transfers, chan' = Say(e, <<Op("OFFER", id, y)>>),
               in' = in
        PROVE  Clears
    <2>1. PICK m : m = Op("OFFER", id, y)
      OBVIOUS
    <2>2. m \in Msg /\ m.op \notin {"ACK", "ACCEPT"}
      BY <2>1, PlainMsg DEF Op
    <2>3. QED
      BY <1>3, <1>5, <2>1, <2>2
  <1>6. CASE x \in Transfers /\ Send(e, x)
    BY <1>1, <1>5, <1>6 DEF Send
  <1>7. CASE Accept(e, i)
    BY <1>7, ClearAccept
  <1>8. CASE Reject(e, i)
    <2>1. in[e][i] # Free
      BY <1>8, FreeFacts DEF Reject
    <2>2. QED
      BY <1>1, <1>2, <1>4, <1>8, <2>1 DEF Reject, QuietOps
  <1>9. CASE Cancel(e, i)
    BY <1>1, <1>2, <1>4, <1>9 DEF Cancel, QuietOps
  <1>10. CASE Retry(e, i)
    <2> DEFINE s == [out[e][i] EXCEPT !.retries = @ + 1]
               b == [s EXCEPT !.next_seq = s.acked, !.rewound_to = NoRewind,
                              !.state = "SENDING"]
    <2>1. /\ out[e][i] # Free /\ in' = in
          /\ chan' = Say(e, <<Op("OFFER", s.id, s.x)>>) \/ chan' = Say(e, Pump(b).msgs)
      BY <1>10 DEF Retry
    <2>2. s \in Outbound /\ s.id \in Ids /\ s.x \in Transfers
      BY <1>1, <2>1 DEF Outbound
    <2> HIDE DEF s
    <2>3. b \in Outbound
      BY <2>2 DEF Outbound
    <2> HIDE DEF b
    <2>4. QED
      BY <1>5, <2>1, <2>2, <2>3, ClearPush
  <1>11. CASE GiveUp(e, i)
    BY <1>1, <1>2, <1>4, <1>11 DEF GiveUp, QuietOps
  <1>12. CASE Idle(e, i)
    BY <1>12, ClearEnds DEF Idle
  <1>13. QED
    BY <1>6, <1>7, <1>8, <1>9, <1>10, <1>11, <1>12 DEF Decide, Tick

\* the frames
LEMMA ClearFrames ==
  ASSUME IInv, IInv', NEW e \in Ends, Receive(e) \/ Lose(e)
  PROVE  Clears
  <1> DEFINE f == Head(chan[e])
             k == SlotFind(in[e], f.id)
             l == SlotFind(out[e], f.id)
             c == SlotFree(in[e])
  <1>1. /\ k # 0 => k \in Slot /\ in[e][k] # Free /\ in[e][k].id = f.id
        /\ l # 0 => l \in Slot /\ out[e][l] # Free
        /\ c # 0 => c \in Slot
    BY SlotFacts
  <1>2. chan[e] # <<>> => f \in Msg /\ f.id \in Ids /\ (f.op = "ACK" => f.arg \in 0..SEQ)
    BY TableTypes, MsgKinds, StreamTypes
  <1>3. PICK j \in Slot : TRUE
    BY DataAssumption DEF Slot
  <1>4. ASSUME NEW id \in Ids, NEW op \in QuietOps, NEW v \in Result, chan[e] # <<>>,
               chan' = Reply(e, <<Op(op, id, v)>>),
               NEW h \in Slot, in' = in \/ in' = [in EXCEPT ![e][h] = Free]
        PROVE  Clears
    <2>1. PICK m : m = Op(op, id, v)
      OBVIOUS
    <2>2. m \in Msg /\ m.op \notin {"ACK", "ACCEPT"}
      BY <2>1, QuietMsg DEF QuietOps
    <2>3. QED
      BY <1>4, <2>1, <2>2, ClearEnds
  <1>5. ASSUME chan[e] # <<>>, chan' = Reply(e, <<>>), in' = in
        PROVE  Clears
    BY <1>3, <1>5, ClearEnds
  <1>6. CASE RxUnknown(e) \/ Lose(e) \/ RxChunkAstray(e)
    BY <1>5, <1>6 DEF RxUnknown, Lose, RxChunkAstray, Heard, Ignored
  <1>7. CASE RxEnd(e)
    <2>1. /\ chan[e] # <<>> /\ chan' = Reply(e, <<>>)
          /\ in' = in \/ (k # 0 /\ in' = [in EXCEPT ![e][k] = Free])
      BY <1>7 DEF RxEnd
    <2> HIDE DEF k
    <2>2. QED
      BY <1>1, <1>5, <2>1, ClearEnds
  <1>8. CASE RxOffer(e)
    <2> DEFINE r == [state |-> "OFFERED", id |-> f.id, x |-> f.arg,
                     next_seq |-> 0, running |-> <<>>]
    <2>1. /\ chan[e] # <<>>
          /\ \/ k # 0 /\ in' = in /\ chan' = Reply(e, <<Ack(in[e][k])>>)
             \/ in' = in /\ chan' = Reply(e, <<>>)
             \/ in' = in /\ chan' = Reply(e, <<Op("REJECT", f.id, "NO_STREAM")>>)
             \/ in' = in /\ chan' = Reply(e, <<Op("REJECT", f.id, "TOO_BIG")>>)
             \/ c # 0 /\ chan' = Reply(e, <<>>) /\ in' = [in EXCEPT ![e][c] = r]
      BY <1>8 DEF RxOffer, Heard
    <2>2. r.next_seq = 0 /\ {"NO_STREAM", "TOO_BIG"} \subseteq Result
      BY DEF Result
    <2> HIDE DEF k, c, r, f
    <2>3. CASE k # 0 /\ in' = in /\ chan' = Reply(e, <<Ack(in[e][k])>>)
      BY <1>1, <2>1, <2>3, ClearAck
    <2>4. CASE in' = in /\ chan' = Reply(e, <<>>)
      BY <1>5, <2>1, <2>4
    <2>5. CASE in' = in /\ chan' = Reply(e, <<Op("REJECT", f.id, "NO_STREAM")>>)
      BY <1>2, <1>3, <1>4, <2>1, <2>2, <2>5 DEF QuietOps
    <2>6. CASE in' = in /\ chan' = Reply(e, <<Op("REJECT", f.id, "TOO_BIG")>>)
      BY <1>2, <1>3, <1>4, <2>1, <2>2, <2>6 DEF QuietOps
    <2>7. CASE c # 0 /\ chan' = Reply(e, <<>>) /\ in' = [in EXCEPT ![e][c] = r]
      BY <1>1, <2>1, <2>2, <2>7, ClearOpen
    <2>8. QED
      BY <2>1, <2>3, <2>4, <2>5, <2>6, <2>7
  <1>9. CASE RxChunkDropped(e)
    <2>1. /\ chan[e] # <<>> /\ in' = in /\ k # 0
          /\ chan' = Reply(e, <<>>) \/ chan' = Reply(e, <<Ack(in[e][k])>>)
      BY <1>9 DEF RxChunkDropped, Heard
    <2> HIDE DEF k
    <2>2. QED
      BY <1>1, <1>5, <2>1, ClearAck
  <1>10. CASE RxChunk(e)
    <2> DEFINE s == [in[e][k] EXCEPT !.next_seq = @ + 1, !.running = Append(@, f.x)]
    <2>1. /\ chan[e] # <<>> /\ f.op = "CHUNK" /\ k # 0 /\ in[e][k].state = "RECEIVING"
          /\ \/ /\ in' = [in EXCEPT ![e][k] = Free]
                /\ chan' = Reply(e, <<Op("ABORT", s.id, "CORRUPT")>>)
             \/ /\ in' = [in EXCEPT ![e][k] = Free]
                /\ chan' = Reply(e, <<Op("DONE", s.id, Verdict(s))>>)
             \/ /\ in' = [in EXCEPT ![e][k] = s]
                /\ chan' = Reply(e, <<>>) \/ chan' = Reply(e, <<Ack(s)>>)
      BY <1>10 DEF RxChunk, Heard
    <2>2. in[e][k] \in Inbound /\ in[e][k].id \in Ids
      BY <1>1, <2>1, TableTypes, StreamTypes
    <2>3. s.id = in[e][k].id /\ s.state = in[e][k].state
      BY <2>2 DEF Inbound
    <2>4. Verdict(s) \in Result /\ "CORRUPT" \in Result
      BY DEF Verdict, Result
    <2> HIDE DEF s, k
    <2>5. CASE /\ in' = [in EXCEPT ![e][k] = Free]
               /\ chan' = Reply(e, <<Op("ABORT", s.id, "CORRUPT")>>)
      BY <1>1, <1>4, <2>1, <2>2, <2>3, <2>4, <2>5 DEF QuietOps
    <2>6. CASE /\ in' = [in EXCEPT ![e][k] = Free]
               /\ chan' = Reply(e, <<Op("DONE", s.id, Verdict(s))>>)
      BY <1>1, <1>4, <2>1, <2>2, <2>3, <2>4, <2>6 DEF QuietOps
    <2>7. CASE /\ in' = [in EXCEPT ![e][k] = s]
               /\ chan' = Reply(e, <<>>) \/ chan' = Reply(e, <<Ack(s)>>)
      BY <1>1, <2>1, <2>2, <2>3, <2>7, ClearTake
    <2>8. QED
      BY <2>1, <2>5, <2>6, <2>7
  <1>11. CASE RxAccept(e) \/ RxAck(e)
    <2> DEFINE a == [out[e][l] EXCEPT !.state = "SENDING", !.retries = 0]
               b == Acked(out[e][l], f.arg)
    <2>1. /\ chan[e] # <<>> /\ in' = in /\ l # 0 /\ f.op \in {"ACCEPT", "ACK"}
          /\ \/ chan' = Reply(e, <<>>)
             \/ chan' = Reply(e, Pump(a).msgs)
             \/ f.op = "ACK" /\ chan' = Reply(e, Pump(b).msgs)
      BY <1>11 DEF RxAccept, RxAck, Ignored, Heard
    <2>2. out[e][l] \in Outbound
      BY <1>1, <2>1, TableTypes
    <2>3. a \in Outbound
      BY <2>2 DEF Outbound
    <2>4. f.op = "ACK" => b \in Outbound
      BY <1>2, <2>1, <2>2, AckedOK
    <2> HIDE DEF a, b
    <2>5. QED
      BY <1>5, <2>1, <2>3, <2>4, ClearPush
  <1>12. QED
    BY <1>6, <1>7, <1>8, <1>9, <1>10, <1>11 DEF Receive

\* Ids that are yet to be given are clean, until they have all been given
UInv ==
  Cardinality(begun) < IDS - 1 =>
    \A e \in Ends, id \in Ids : id >= next_id[e] => Untouched(in[Peer(e)], chan[e], id)

\* and stay so
LEMMA UnusedStep ==
  ASSUME IInv, IInv', Unread, CInv, UInv, FewTransfers, [Next]_vars
  PROVE  UInv'
  <1> SUFFICES ASSUME Cardinality(begun') < IDS - 1, NEW d \in Ends, NEW id \in Ids,
                      id >= next_id'[d]
               PROVE  Untouched(in'[Peer(d)], chan'[d], id)
    BY DEF UInv
  <1>1. /\ IDS \in Nat \ {0, 1} /\ id \in Nat /\ Peer(d) \in Ends /\ Peer(Peer(d)) = d
        /\ next_id \in [Ends -> Ids] /\ \A e \in Ends : next_id[e] \in Nat
        /\ Cardinality(begun) \in Nat /\ IsFiniteSet(begun)
    BY DataAssumption, TableTypes, PeerFacts, FS_CardinalityType DEF CInv, Ids
  <1>2. ASSUME Clears, Cardinality(begun) < IDS - 1, next_id[d] <= next_id'[d]
        PROVE  Untouched(in'[Peer(d)], chan'[d], id)
    <2>1. Cardinality(begun) < IDS - 1 /\ id >= next_id[d]
      <3>1. next_id'[d] \in Nat
        BY <1>1 DEF IInv, Ids
      <3>2. QED
        BY <1>1, <1>2, <3>1
    <2>2. Untouched(in[Peer(d)], chan[d], id)
      BY <2>1 DEF UInv
    <2>3. ASSUME chan[Peer(d)] # <<>>, Head(chan[Peer(d)]).op = "CHUNK"
          PROVE  Head(chan[Peer(d)]).id # id
      <3>1. PICK m : m = Head(chan[Peer(d)])
        OBVIOUS
      <3>2. chan[Peer(d)] \in Seq(Given(Peer(d), next_id))
        BY <1>1, <2>1 DEF CInv
      <3>3. m \in Given(Peer(d), next_id)
        BY <2>3, <3>1, <3>2, HeadTailProperties
      <3>4. m.id < next_id[d]
        BY <1>1, <2>3, <3>1, <3>3 DEF Given
      <3>5. m.id \in Nat
        BY <1>1, <3>3, MsgKinds DEF Given, Ids
      <3>6. QED
        BY <1>1, <2>1, <3>1, <3>4, <3>5
    <2>4. QED
      BY <1>2, <2>2, <2>3 DEF Clears
  <1>3. ASSUME begun' = begun, next_id' = next_id, Clears
        PROVE  Untouched(in'[Peer(d)], chan'[d], id)
    BY <1>1, <1>2, <1>3
  <1>4. CASE UNCHANGED vars
    <2>1. Untouched(in[Peer(d)], chan[d], id)
      BY <1>4 DEF vars, history, UInv
    <2>2. QED
      BY <1>4, <2>1 DEF vars
  <1>5. ASSUME NEW e \in Ends, NEW x \in Transfers, Send(e, x)
        PROVE  Untouched(in'[Peer(d)], chan'[d], id)
    <2>1. /\ begun' = begun \cup {x} /\ x \notin begun
          /\ next_id' = [next_id EXCEPT ![e] = NextId(next_id[e])]
      BY <1>5 DEF Send
    <2>2. Cardinality(begun') = Cardinality(begun) + 1
      BY <1>1, <2>1, FS_AddElement
    <2>3. next_id[e] \in 1..(IDS - 2)
      <3>1. next_id[e] <= Cardinality(begun) + 1 /\ next_id[e] \in 1..(IDS - 1)
        BY <1>1, <2>2 DEF CInv, Ids
      <3>2. QED
        BY <1>1, <2>2, <3>1
    <2>4. NextId(next_id[e]) = next_id[e] + 1
      <3>1. ASSUME NEW k \in 1..(IDS - 2) PROVE k % (IDS - 1) = k
        BY <1>1
      <3>2. QED
        BY <2>3, <3>1 DEF NextId
    <2>5. next_id[d] <= next_id'[d]
      BY <1>1, <2>1, <2>4
    <2>6. Clears
      <3>1. PICK i \in Slot : TRUE
        BY DataAssumption DEF Slot
      <3>2. QED
        BY <1>5, <3>1, ClearCalls
    <2>7. Cardinality(begun) < IDS - 1
      BY <1>1, <2>2
    <2>8. QED
      BY <1>2, <2>5, <2>6, <2>7
  <1>6. ASSUME NEW e \in Ends, NEW i \in Slot,
               Decide(e, i) \/ Cancel(e, i) \/ Tick(e, i) \/ Idle(e, i)
        PROVE  Untouched(in'[Peer(d)], chan'[d], id)
    <2>1. begun' = begun /\ next_id' = next_id
      BY <1>6 DEF Decide, Accept, Reject, Cancel, Tick, Retry, GiveUp, Idle, FinishOut, history
    <2>2. Clears
      BY <1>6, ClearCalls
    <2>3. QED
      BY <1>3, <2>1, <2>2
  <1>7. ASSUME NEW e \in Ends, Receive(e) \/ Lose(e)
        PROVE  Untouched(in'[Peer(d)], chan'[d], id)
    <2>1. begun' = begun /\ next_id' = next_id
      BY <1>7 DEF Receive, RxOffer, RxUnknown, RxAccept, RxAck, RxEnd, RxChunkAstray,
                  RxChunkDropped, RxChunk, Lose, Ignored, FinishOut, history
    <2>2. Clears
      BY <1>7, ClearFrames
    <2>3. QED
      BY <1>3, <2>1, <2>2
  <1>8. ASSUME NEW e \in Ends, Restart(e)
        PROVE  Untouched(in'[Peer(d)], chan'[d], id)
    <2>1. chan'[d] = <<>>
      <3>1. chan \in [Ends -> Seq(Msg)] /\ Ends = {e, Peer(e)} /\ Peer(e) # e
        BY TableTypes, PeerFacts
      <3>2. QED
        BY <1>8, <3>1 DEF Restart
    <2>2. Of(<<>>, "ACCEPT", id) = {}
      BY DEF Of
    <2>3. QED
      BY <2>1, <2>2 DEF Untouched
  <1>9. CASE Next
    BY <1>5, <1>6, <1>7, <1>8, <1>9 DEF Next
  <1>10. QED
    BY <1>4, <1>9

\* As long as no more transfers are begun than there are ids, what a sender
\* counts as confirmed is taken, and its rewinds are bounded, without more ado
\* (dhp_data_send, OP_ACK, pump_sender).
THEOREM FewAreHonest == FewTransfers => (Spec => [](ConfirmedIsTaken /\ RewindsBounded))
  <1> SUFFICES ASSUME FewTransfers PROVE Spec => [](ConfirmedIsTaken /\ RewindsBounded)
    OBVIOUS
  <1>1. Init => IInv /\ CInv /\ RInv /\ TInv /\ UInv
    <2>1. Init => CInv
      BY FS_EmptySet, EmptySeq, DataAssumption DEF Init, CInv
    <2>2. ASSUME Init PROVE UInv
      <3>1. \A e \in Ends : chan[e] = <<>>
        BY <2>2 DEF Init
      <3>2. \A id : Of(<<>>, "ACCEPT", id) = {}
        BY DEF Of
      <3>3. QED
        BY <3>1, <3>2 DEF UInv, Untouched
    <2>3. QED
      BY <2>1, <2>2, InitOK, RefineInit, InitTaken
  <1>2. IInv /\ CInv /\ RInv /\ TInv /\ UInv /\ [Next]_vars =>
          IInv' /\ CInv' /\ RInv' /\ TInv' /\ UInv'
    <2> SUFFICES ASSUME IInv, CInv, RInv, TInv, UInv, [Next]_vars
                 PROVE  IInv' /\ CInv' /\ RInv' /\ TInv' /\ UInv'
      OBVIOUS
    <2>1. IInv'
      BY NextOK
    <2>2. UInv'
      BY <2>1, UnusedStep DEF TInv
    <2>3. CInv'
      <3>1. CASE UNCHANGED vars
        BY <3>1 DEF vars, CInv
      <3>2. CASE Next
        BY <3>2, Shapes, OrdinaryGiven, SendGiven, RestartGiven
      <3>3. QED
        BY <3>1, <3>2
    <2>4. FreshIds /\ CleanIds
      <3>1. ASSUME NEW e \in Ends, NEW x \in Transfers, Send(e, x)
            PROVE  IdFree(e) /\ IdClean(e)
        <4>1. IdFree(e)
          BY <3>1, SendGiven
        <4>2. Cardinality(begun) < IDS - 1
          <5>1. PICK load \in Loads : begun \cup {x} \subseteq load
            BY <3>1 DEF Send
          <5>2. IsFiniteSet(load) /\ IsFiniteSet(begun) /\ x \notin begun
            BY <3>1 DEF FewTransfers, CInv, Send
          <5>3. /\ IsFiniteSet(begun \cup {x})
                /\ Cardinality(begun \cup {x}) = Cardinality(begun) + 1
            BY <5>2, FS_AddElement
          <5>4. /\ Cardinality(begun \cup {x}) <= Cardinality(load)
                /\ Cardinality(load) \in Nat /\ Cardinality(begun) \in Nat
            BY <5>1, <5>2, <5>3, FS_Subset, FS_CardinalityType
          <5>5. QED
            BY <5>1, <5>3, <5>4, DataAssumption DEF FewTransfers
        <4>3. next_id[e] \in Ids /\ next_id[e] >= next_id[e]
          BY TableTypes, DataAssumption DEF Ids
        <4>4. QED
          BY <4>1, <4>2, <4>3 DEF IdClean, UInv
      <3>2. QED
        BY <3>1 DEF FreshIds, CleanIds
    <2>5. [Next /\ CleanIds]_vars /\ [Next /\ FreshIds]_vars
      BY <2>4
    <2>6. QED
      BY <2>1, <2>2, <2>3, <2>5, RightStep, TakenStep
  <1>3. IInv /\ TInv => ConfirmedIsTaken /\ RewindsBounded
    BY TakenBounds
  <1>4. QED
    BY <1>1, <1>2, <1>3, PTL DEF Spec
=============================================================================
