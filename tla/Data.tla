-------------------------------- MODULE Data --------------------------------
(***************************************************************************)
(* Bulk transfer (core/src/data.c): go-back-N between two endpoints, each  *)
(* with a table of outbound and one of inbound streams, over a chain that  *)
(* keeps order but loses frames.  A transfer's bytes are named by the      *)
(* transfer they come from, so the running checksum is the sequence of     *)
(* those names.                                                            *)
(***************************************************************************)
EXTENDS Integers, FiniteSets, Sequences

CONSTANTS
  Ends,          \* the two endpoints
  Transfers,     \* what applications send in the model
  From,          \* From[x]: the endpoint that sends x
  Bytes,         \* Bytes[x]: its length
  ChunkBytes,    \* DHP_DATA_CHUNK_BYTES
  SEQ,           \* 2^16: chunk numbers
  IDS,           \* 2^8: stream ids, of which zero is not used
  Slots,         \* DHP_DATA_MAX_STREAMS, per direction
  Window,        \* d->window
  MaxInbound,    \* d->max_inbound
  OfferRetries,  \* d->offer_retries
  MaxRetries,    \* d->max_retries
  MaxBacklog,    \* bound: frames on their way when a timeout comes
  MaxFaults,     \* bound: frames lost, transfers cancelled, endpoints restarted
  Loads          \* bound: the sets of transfers begun together

ASSUME DataAssumption ==
  /\ \E a, b \in Ends : a # b /\ Ends = {a, b}
  /\ From \in [Transfers -> Ends] /\ Bytes \in [Transfers -> Nat \ {0}]
  /\ ChunkBytes \in Nat \ {0} /\ SEQ \in Nat \ {0} /\ IDS \in Nat \ {0, 1}
  /\ Slots \in Nat \ {0} /\ Window \in Nat \ {0} /\ MaxInbound \in Nat
  /\ OfferRetries \in Nat /\ MaxRetries \in Nat
  /\ MaxBacklog \in Nat /\ MaxFaults \in Nat /\ Loads \subseteq SUBSET Transfers

VARIABLES
  out,       \* out[e][i]: e's outbound stream in slot i
  in,        \* in[e][i]: its inbound stream
  next_id,   \* next_id[e]
  chan,      \* chan[e]: DATA frames on their way to e
  begun, reported,   \* history: transfers begun; what on_sent said of each
  received,  \* history: received[x], the contents handed over with OK
  rewinds,   \* history: rewinds[x], on acks since the last timeout
  faults

vars == <<out, in, next_id, chan, begun, reported, received,
          rewinds, faults>>
history == <<begun, reported, received, rewinds>>

Free == [state |-> "FREE"]
NoRewind == -1
Peer(e) == CHOOSE d \in Ends : d # e
Slot == 1..Slots

Result == {"OK", "REFUSED", "TIMEOUT", "CORRUPT", "TOO_BIG", "CANCELLED",
           "NO_STREAM"}
Outbound == [state : {"OFFERING", "SENDING", "DRAINING"}, id : 1..(IDS - 1),
             x : Transfers, next_seq : 0..SEQ, acked : 0..SEQ,
             rewound_to : {NoRewind} \cup 0..SEQ, retries : Nat]
Inbound == [state : {"OFFERED", "RECEIVING"}, id : 1..(IDS - 1),
            x : Transfers, next_seq : 0..SEQ, running : Seq(Transfers)]

-----------------------------------------------------------------------------
(* Streams *)

ChunksFor(x) == ((Bytes[x] + ChunkBytes - 1) \div ChunkBytes) % SEQ

\* bytes of x in chunk seq
ChunkLen(x, seq) ==
  LET rest == Bytes[x] - seq * ChunkBytes
  IN  IF rest > ChunkBytes THEN ChunkBytes ELSE rest

\* what the checksum in the offer is the checksum of
Content(x) == [i \in 1..((Bytes[x] + ChunkBytes - 1) \div ChunkBytes) |-> x]

SlotFree(table) ==
  LET free == {i \in Slot : table[i] = Free}
  IN  IF free = {} THEN 0 ELSE CHOOSE i \in free : \A j \in free : i <= j

SlotFind(table, id) ==
  LET found == {i \in Slot : table[i] # Free /\ table[i].id = id}
  IN  IF found = {} THEN 0 ELSE CHOOSE i \in found : \A j \in found : i <= j

Op(op, id, arg) == [op |-> op, id |-> id, arg |-> arg]
Chunk(id, x, seq) == [op |-> "CHUNK", id |-> id, x |-> x, seq |-> seq]

\* Mutant of Ack: it confirms the chunk it is waiting for
AckAhead(s) == Op("ACK", s.id, s.next_seq + 1)

Ack(s) == Op("ACK", s.id, s.next_seq)

\* e has read the frame at the head of its channel and sends msgs
Reply(e, msgs) ==
  [chan EXCEPT ![e] = Tail(@), ![Peer(e)] = @ \o msgs]

Say(e, msgs) == [chan EXCEPT ![Peer(e)] = @ \o msgs]

\* finish(): the slot is cleared and the application told
FinishOut(e, i, result) ==
  /\ out' = [out EXCEPT ![e][i] = Free]
  /\ reported' = [reported EXCEPT ![out[e][i].x] = result]

\* pump_sender, for a stream in SENDING: chunks until the window is full or
\* the content runs out.  The difference is unsigned, so a position behind
\* the acknowledged one is a full window.
WindowLimit(s) == IF s.next_seq < s.acked THEN s.next_seq ELSE s.acked + Window

Pump(s) ==
  LET end == ChunksFor(s.x)
      limit == IF WindowLimit(s) < end THEN WindowLimit(s) ELSE end
      to == IF limit > s.next_seq THEN limit ELSE s.next_seq
  IN  [stream |-> [s EXCEPT !.next_seq = to,
                            !.state = IF to >= end THEN "DRAINING"
                                      ELSE "SENDING"],
       msgs |-> [k \in 1..(to - s.next_seq) |->
                   Chunk(s.id, s.x, s.next_seq + k - 1)]]

-----------------------------------------------------------------------------
(* The application's calls *)

\* Mutant of NextId: id zero is not skipped
NextIdPlain(id) == (id + 1) % IDS

NextId(id) == (id % (IDS - 1)) + 1

\* dhp_data_send, when a slot is free
Send(e, x) ==
  LET i == SlotFree(out[e])
  IN  /\ From[x] = e /\ x \notin begun
      /\ \E load \in Loads : begun \cup {x} \subseteq load
      /\ i # 0
      /\ out' = [out EXCEPT ![e][i] =
                   [state |-> "OFFERING", id |-> next_id[e], x |-> x,
                    next_seq |-> 0, acked |-> 0, rewound_to |-> NoRewind,
                    retries |-> 0]]
      /\ next_id' = [next_id EXCEPT ![e] = NextId(@)]
      /\ chan' = Say(e, <<Op("OFFER", next_id[e], x)>>)
      /\ begun' = begun \cup {x}
      /\ UNCHANGED <<in, reported, received, rewinds, faults>>

\* dhp_data_accept, dhp_data_reject: the answer to on_offer
Accept(e, i) ==
  /\ in[e][i].state = "OFFERED"
  /\ in' = [in EXCEPT ![e][i].state = "RECEIVING"]
  /\ chan' = Say(e, <<Op("ACCEPT", in[e][i].id, Window)>>)
  /\ UNCHANGED <<out, next_id, history, faults>>

Reject(e, i) ==
  /\ in[e][i].state = "OFFERED"
  /\ in' = [in EXCEPT ![e][i] = Free]
  /\ chan' = Say(e, <<Op("REJECT", in[e][i].id, "REFUSED")>>)
  /\ UNCHANGED <<out, next_id, history, faults>>

\* dhp_data_cancel, of either kind of stream
Cancel(e, i) ==
  /\ faults < MaxFaults
  /\ faults' = faults + 1
  /\ \/ /\ out[e][i] # Free
        /\ chan' = Say(e, <<Op("ABORT", out[e][i].id, "CANCELLED")>>)
        /\ FinishOut(e, i, "CANCELLED")
        /\ UNCHANGED in
     \/ /\ in[e][i] # Free
        /\ chan' = Say(e, <<Op("ABORT", in[e][i].id, "CANCELLED")>>)
        /\ in' = [in EXCEPT ![e][i] = Free]
        /\ UNCHANGED <<out, reported>>
  /\ UNCHANGED <<next_id, begun, received, rewinds>>

-----------------------------------------------------------------------------
(* dhp_data_rx, one action per opcode *)

Heard(e, op) == chan[e] # <<>> /\ Head(chan[e]).op = op

\* rx_offer: a repeated offer is answered with an ack once accepted; with no
\* slot, or too much to take, it is refused; else on_offer asks
RxOffer(e) ==
  /\ Heard(e, "OFFER")
  /\ LET m == Head(chan[e])
         known == SlotFind(in[e], m.id)
         i == SlotFree(in[e])
     IN  CASE known # 0 ->
                /\ chan' = Reply(e, IF in[e][known].state = "RECEIVING"
                                    THEN <<Ack(in[e][known])>> ELSE <<>>)
                /\ UNCHANGED in
           [] known = 0 /\ i = 0 ->
                /\ chan' = Reply(e, <<Op("REJECT", m.id, "NO_STREAM")>>)
                /\ UNCHANGED in
           [] known = 0 /\ i # 0 /\ Bytes[m.arg] > MaxInbound ->
                /\ chan' = Reply(e, <<Op("REJECT", m.id, "TOO_BIG")>>)
                /\ UNCHANGED in
           [] OTHER ->
                /\ chan' = Reply(e, <<>>)
                /\ in' = [in EXCEPT ![e][i] =
                            [state |-> "OFFERED", id |-> m.id, x |-> m.arg,
                             next_seq |-> 0, running |-> <<>>]]
  /\ UNCHANGED <<out, next_id, history, faults>>

\* a frame for a stream that is not there
RxUnknown(e) ==
  /\ chan[e] # <<>>
  /\ LET m == Head(chan[e])
     IN  /\ m.op # "OFFER"
         /\ SlotFind(out[e], m.id) = 0
         /\ m.op \in {"REJECT", "CHUNK", "ABORT"} => SlotFind(in[e], m.id) = 0
  /\ chan' = Reply(e, <<>>)
  /\ UNCHANGED <<out, in, next_id, history, faults>>

\* a frame that finds an outbound stream which has no use for it still shows
\* that the peer is there: retries start again
Ignored(e, i) ==
  /\ chan' = Reply(e, <<>>)
  /\ out' = [out EXCEPT ![e][i].retries = 0]
  /\ UNCHANGED <<in, next_id, history, faults>>

RxAccept(e) ==
  /\ Heard(e, "ACCEPT")
  /\ LET i == SlotFind(out[e], Head(chan[e]).id)
         p == Pump([out[e][i] EXCEPT !.state = "SENDING", !.retries = 0])
     IN  /\ i # 0
         /\ \/ /\ out[e][i].state # "OFFERING"
               /\ Ignored(e, i)
            \/ /\ out[e][i].state = "OFFERING"
               /\ out' = [out EXCEPT ![e][i] = p.stream]
               /\ chan' = Reply(e, p.msgs)
               /\ UNCHANGED <<in, next_id, history, faults>>

\* Mutant of Rewinds: every ack at the same position rewinds again
RewindsAlways(s, next) == next < s.next_seq

Rewinds(s, next) == next < s.next_seq /\ s.rewound_to # next

\* OP_ACK: confirm, rewind once per position, and push on
Acked(s, next) ==
  LET moved == IF next > s.acked
               THEN [s EXCEPT !.acked = next, !.rewound_to = NoRewind] ELSE s
      back == IF Rewinds(moved, next)
              THEN [moved EXCEPT !.next_seq = next, !.rewound_to = next]
              ELSE moved
  IN  [back EXCEPT !.state = "SENDING", !.retries = 0]

RxAck(e) ==
  /\ Heard(e, "ACK")
  /\ LET m == Head(chan[e])
         i == SlotFind(out[e], m.id)
         s == out[e][i]
         p == Pump(Acked(s, m.arg))
     IN  /\ i # 0
         /\ \/ /\ s.state = "OFFERING"
               /\ Ignored(e, i)
            \/ /\ s.state # "OFFERING"
               /\ out' = [out EXCEPT ![e][i] = p.stream]
               /\ chan' = Reply(e, p.msgs)
               /\ rewinds' = [rewinds EXCEPT ![s.x] =
                                IF Acked(s, m.arg).next_seq < s.next_seq
                                THEN @ + 1 ELSE @]
               /\ UNCHANGED <<in, next_id, begun, reported, received, faults>>

\* Mutant of EndResult: DONE is success, whatever the verdict
EndResultArrived(m) == IF m.op = "DONE" THEN "OK" ELSE m.arg

EndResult(m) == m.arg

\* DONE always answers an outbound stream; REJECT and ABORT are looked up
\* among the inbound streams first
RxEnd(e) ==
  /\ chan[e] # <<>>
  /\ LET m == Head(chan[e])
         i == SlotFind(out[e], m.id)
         j == SlotFind(in[e], m.id)
     IN  /\ m.op \in {"DONE", "REJECT", "ABORT"}
         /\ \/ /\ m.op # "DONE" /\ j # 0
               /\ in' = [in EXCEPT ![e][j] = Free]
               /\ UNCHANGED <<out, reported>>
            \/ /\ m.op = "DONE" \/ j = 0
               /\ i # 0
               /\ FinishOut(e, i, EndResult(m))
               /\ UNCHANGED in
  /\ chan' = Reply(e, <<>>)
  /\ UNCHANGED <<next_id, begun, received, rewinds, faults>>

-----------------------------------------------------------------------------
(* rx_chunk *)

\* a chunk that only an outbound stream answers to
RxChunkAstray(e) ==
  /\ Heard(e, "CHUNK")
  /\ SlotFind(in[e], Head(chan[e]).id) = 0
  /\ SlotFind(out[e], Head(chan[e]).id) # 0
  /\ Ignored(e, SlotFind(out[e], Head(chan[e]).id))

\* not yet accepted, or out of order: nothing is kept.  Resync acks are
\* limited to one per 20 ms, so the model may send or omit one.
RxChunkDropped(e) ==
  /\ Heard(e, "CHUNK")
  /\ LET m == Head(chan[e])
         i == SlotFind(in[e], m.id)
         s == in[e][i]
     IN  /\ i # 0
         /\ \/ chan' = Reply(e, <<>>)
            \/ s.state = "RECEIVING" /\ chan' = Reply(e, <<Ack(s)>>)
         /\ s.state = "OFFERED" \/ m.seq # s.next_seq
  /\ UNCHANGED <<out, in, next_id, history, faults>>

\* Mutant of Verdict: arrival is success
VerdictArrived(s) == "OK"

Verdict(s) == IF s.running = Content(s.x) THEN "OK" ELSE "CORRUPT"

AckDue(seq) == seq % (IF Window \div 2 = 0 THEN 1 ELSE Window \div 2) = 0

\* the expected chunk: past the declared end it ends the stream; the last one
\* brings the verdict, and others an ack twice per window
RxChunk(e) ==
  /\ Heard(e, "CHUNK")
  /\ LET m == Head(chan[e])
         i == SlotFind(in[e], m.id)
         s == [in[e][i] EXCEPT !.next_seq = @ + 1,
                               !.running = Append(@, m.x)]
     IN  /\ i # 0
         /\ in[e][i].state = "RECEIVING" /\ m.seq = in[e][i].next_seq
         /\ CASE m.seq * ChunkBytes + ChunkLen(m.x, m.seq) > Bytes[s.x] ->
                   /\ in' = [in EXCEPT ![e][i] = Free]
                   /\ chan' = Reply(e, <<Op("ABORT", s.id, "CORRUPT")>>)
                   /\ UNCHANGED received
              [] m.seq * ChunkBytes + ChunkLen(m.x, m.seq) <= Bytes[s.x]
                 /\ s.next_seq >= ChunksFor(s.x) ->
                   /\ in' = [in EXCEPT ![e][i] = Free]
                   /\ chan' = Reply(e, <<Op("DONE", s.id, Verdict(s))>>)
                   /\ received' = IF Verdict(s) = "OK"
                                  THEN [received EXCEPT ![s.x] =
                                          Append(@, s.running)]
                                  ELSE received
              [] OTHER ->
                   /\ in' = [in EXCEPT ![e][i] = s]
                   /\ chan' = Reply(e, IF AckDue(s.next_seq) THEN <<Ack(s)>>
                                       ELSE <<>>)
                   /\ UNCHANGED received
  /\ UNCHANGED <<out, next_id, begun, reported, rewinds, faults>>

-----------------------------------------------------------------------------
(* dhp_data_tick *)

Budget(s) == IF s.state = "OFFERING" THEN OfferRetries ELSE MaxRetries

\* Mutant of Retry: the retries are not counted
RetryForever(e, i) ==
  /\ out[e][i] # Free
  /\ Len(chan[Peer(e)]) <= MaxBacklog
  /\ LET s == out[e][i]
         p == Pump([s EXCEPT !.next_seq = s.acked, !.rewound_to = NoRewind,
                             !.state = "SENDING"])
     IN  IF s.state = "OFFERING"
         THEN /\ chan' = Say(e, <<Op("OFFER", s.id, s.x)>>)
              /\ UNCHANGED <<out, rewinds>>
         ELSE /\ out' = [out EXCEPT ![e][i] = p.stream]
              /\ chan' = Say(e, p.msgs)
              /\ rewinds' = [rewinds EXCEPT ![s.x] = 0]
  /\ UNCHANGED <<in, next_id, begun, reported, received, faults>>

\* nothing sent for the stream's patience, which the model lets run out at
\* any time: offer again, or rewind to the last confirmed chunk
Retry(e, i) ==
  /\ out[e][i] # Free
  /\ Len(chan[Peer(e)]) <= MaxBacklog
  /\ out[e][i].retries < Budget(out[e][i])
  /\ LET s == [out[e][i] EXCEPT !.retries = @ + 1]
         p == Pump([s EXCEPT !.next_seq = s.acked, !.rewound_to = NoRewind,
                             !.state = "SENDING"])
     IN  IF s.state = "OFFERING"
         THEN /\ out' = [out EXCEPT ![e][i] = s]
              /\ chan' = Say(e, <<Op("OFFER", s.id, s.x)>>)
              /\ UNCHANGED rewinds
         ELSE /\ out' = [out EXCEPT ![e][i] = p.stream]
              /\ chan' = Say(e, p.msgs)
              /\ rewinds' = [rewinds EXCEPT ![s.x] = 0]
  /\ UNCHANGED <<in, next_id, begun, reported, received, faults>>

\* the budget is spent.  The idle sweep of an outbound stream never comes
\* first: either budget is shorter than it, and what resets one resets both.
GiveUp(e, i) ==
  /\ out[e][i] # Free
  /\ out[e][i].retries >= Budget(out[e][i])
  /\ chan' = Say(e, <<Op("ABORT", out[e][i].id, "TIMEOUT")>>)
  /\ FinishOut(e, i, "TIMEOUT")
  /\ UNCHANGED <<in, next_id, begun, received, rewinds, faults>>

Underway(e, op, id) ==
  \E k \in DOMAIN chan[e] : chan[e][k].op = op /\ chan[e][k].id = id

\* the idle sweep of an inbound stream.  15 s outlast every frame in flight
\* and the retries of a sender that has begun to send, so none is sending to
\* it or about to; a repeated offer does not count as activity.
Idle(e, i) ==
  /\ in[e][i] # Free
  /\ ~Underway(e, "CHUNK", in[e][i].id)
  /\ ~Underway(Peer(e), "ACCEPT", in[e][i].id)
  /\ \A j \in Slot : LET s == out[Peer(e)][j]
                     IN  s # Free /\ s.id = in[e][i].id => s.state = "OFFERING"
  /\ in' = [in EXCEPT ![e][i] = Free]
  /\ UNCHANGED <<out, next_id, chan, history, faults>>

-----------------------------------------------------------------------------
(* The environment *)

Lose(e) ==
  /\ chan[e] # <<>>
  /\ faults < MaxFaults
  /\ faults' = faults + 1
  /\ chan' = Reply(e, <<>>)
  /\ UNCHANGED <<out, in, next_id, history>>

\* dhp_data_init in a program started again: its streams are gone and ids
\* start over.  A restart outlasts the frames in flight.
Restart(e) ==
  /\ faults < MaxFaults
  /\ faults' = faults + 1
  /\ chan[Peer(e)] = <<>>
  /\ chan' = [chan EXCEPT ![e] = <<>>]
  /\ out' = [out EXCEPT ![e] = [i \in Slot |-> Free]]
  /\ in' = [in EXCEPT ![e] = [i \in Slot |-> Free]]
  /\ next_id' = [next_id EXCEPT ![e] = 1]
  /\ reported' = [x \in Transfers |->
       IF From[x] = e /\ x \in begun /\ reported[x] = "NONE" THEN "CRASHED"
       ELSE reported[x]]
  /\ UNCHANGED <<begun, received, rewinds>>

-----------------------------------------------------------------------------
Init ==
  /\ out = [e \in Ends |-> [i \in Slot |-> Free]]
  /\ in = [e \in Ends |-> [i \in Slot |-> Free]]
  /\ next_id = [e \in Ends |-> 1]
  /\ chan = [e \in Ends |-> <<>>]
  /\ begun = {}
  /\ reported = [x \in Transfers |-> "NONE"]
  /\ received = [x \in Transfers |-> <<>>]
  /\ rewinds = [x \in Transfers |-> 0]
  /\ faults = 0

Receive(e) ==
  \/ RxOffer(e) \/ RxUnknown(e) \/ RxAccept(e) \/ RxAck(e) \/ RxEnd(e)
  \/ RxChunkAstray(e) \/ RxChunkDropped(e) \/ RxChunk(e)

Decide(e, i) == Accept(e, i) \/ Reject(e, i)

Tick(e, i) == Retry(e, i) \/ GiveUp(e, i)

Next ==
  \E e \in Ends :
    \/ \E x \in Transfers : Send(e, x)
    \/ \E i \in Slot : Decide(e, i) \/ Cancel(e, i) \/ Tick(e, i) \/ Idle(e, i)
    \/ Receive(e)
    \/ Lose(e)
    \/ Restart(e)

Spec == Init /\ [][Next]_vars

\* Loops run and applications answer.  The idle sweep is a clock's: it comes
\* however often the stream's channel is in use in between.
Fairness ==
  \A e \in Ends :
    /\ WF_vars(Receive(e))
    /\ \A i \in Slot : /\ WF_vars(Decide(e, i))
                       /\ WF_vars(Tick(e, i))
                       /\ SF_vars(Idle(e, i))

LiveSpec == Spec /\ Fairness

-----------------------------------------------------------------------------
TypeOK ==
  /\ out \in [Ends -> [Slot -> Outbound \cup {Free}]]
  /\ in \in [Ends -> [Slot -> Inbound \cup {Free}]]
  /\ next_id \in [Ends -> 1..(IDS - 1)]
  /\ begun \subseteq Transfers
  /\ reported \in [Transfers -> Result \cup {"NONE", "CRASHED"}]

(* What an application is told it has received whole is what the sender     *)
(* sent, once: whatever frames were lost, however timeouts raced answers,   *)
(* even when a restarted sender reuses the id of a stream the receiver      *)
(* still holds, or the chunk count does not fit its 16 bits (on_chunk's     *)
(* "in order, exactly once"; the verdict of rx_chunk).                      *)
Intact ==
  \A x \in Transfers : received[x] \in {<<>>, <<Content(x)>>}

(* A sender never counts as confirmed a chunk its receiver has not taken,   *)
(* and never has more than a window beyond it (OP_ACK, pump_sender).        *)
ConfirmedIsTaken ==
  \A e \in Ends : \A i, j \in Slot :
    LET s == out[e][i]
        r == in[Peer(e)][j]
    IN  s # Free /\ r # Free /\ s.id = r.id /\ s.x = r.x =>
          s.acked <= r.next_seq /\ r.next_seq <= s.acked + Window

(* Duplicate acks do not become a storm: between two timeouts a sender      *)
(* rewinds at most once per position (rewound_to).                          *)
RewindsBounded == \A x \in Transfers : rewinds[x] <= ChunksFor(x)

(* Bulk transfer implements its abstract specification: one report for      *)
(* each transfer, success only for what was handed over, and nothing whole  *)
(* handed over that was not begun, or twice.                                *)
Abstract ==
  INSTANCE Transfer WITH
    delivered <- {x \in Transfers : received[x] # <<>>},
    reported <- [x \in Transfers |->
                   IF reported[x] \in {"NONE", "OK"} THEN reported[x]
                   ELSE "FAILED"]

Implements == Abstract!Spec

(* Every transfer that was begun is reported on: the retry budgets and the  *)
(* idle sweep of dhp_data_tick bound each wait.                             *)
AllReported == \A x \in begun : reported[x] # "NONE"

EveryTransferEnds == <>[]AllReported

(* While only one end sends, no accept, ack, verdict or retry is waited for *)
(* for ever, whatever was lost: the budget runs out, or the sweep frees the *)
(* slot whose accept was lost and the repeated offer opens another.         *)
EndsOneWay ==
  <>[](AllReported \/ \E x, y \in begun : From[x] # From[y])
=============================================================================
