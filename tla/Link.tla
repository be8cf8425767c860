-------------------------------- MODULE Link --------------------------------
(***************************************************************************)
(* The chain link (core/src/link.c): boards with an UP and a DOWN port     *)
(* that relay what is not for them alone, a replay window per source, a    *)
(* hop limit, and the chain key without which a board neither sends nor    *)
(* listens.  The frame's bytes (stuffing, CRC, MAC) are left to the framer *)
(* below; the receiver's map of the chain (rel_pos, core/src/router.c) is  *)
(* kept here because it is read off the hop limit.                         *)
(***************************************************************************)
EXTENDS Integers, FiniteSets, Sequences

CONSTANTS
  N,           \* number of boards
  Wirings,     \* whether the ends may be wired together by mistake
  Broadcast,   \* DHP_ADDR_BROADCAST
  TTL,         \* DHP_TTL_DEFAULT
  MaxSeen,     \* DHP_MAX_BOARDS: slots of the replay table
  SEQ,         \* 2^16: sequence numbers before the counter wraps
  JUMP,        \* 1024: a step back beyond this is taken for a restart
  Senders,     \* the boards that originate traffic in the model
  Types,       \* the types of frame they send: PAIR and OTHER
  Dsts,        \* and the addresses they send to
  MaxSend,     \* bound: frames a board sends
  MaxFaults,   \* bound: frames lost, restarts, changes of pairing on a line
  MaxRingFaults \* bound: and on a ring

ASSUME LinkAssumption ==
  /\ N \in Nat \ {0} /\ Wirings \subseteq BOOLEAN
  /\ Broadcast \notin 1..N
  /\ TTL \in Nat \ {0} /\ MaxSeen \in Nat
  /\ JUMP \in Nat \ {0} /\ SEQ \in Nat /\ SEQ % 2 = 0 /\ 2 * JUMP < SEQ
  /\ Senders \subseteq 1..N /\ Types \subseteq {"PAIR", "OTHER"}
  /\ Dsts \subseteq (1..N) \cup {Broadcast}
  /\ MaxSend \in Nat /\ MaxFaults \in Nat /\ MaxRingFaults \in 0..MaxFaults

Boards == 1..N
Port == {"UP", "DOWN"}

VARIABLES
  ring,     \* the ends are wired together
  tx_seq,   \* tx_seq[b]: the next sequence number
  seen,     \* seen[b][s]: b's replay window for source s
  keyed,    \* the boards holding the chain key
  rel_pos,  \* rel_pos[b][s]: where b believes s sits, 0 when unheard of
  wire,     \* wire[b][p]: frames on their way to port p of b
  sent,     \* history: how many frames b has sent
  owed,     \* history: owed[b][s], how many more frames s has sent to b than
            \* were handed to b's main loop
  last,     \* history: last[b][s], the last frame of s that b listened to
  missed,   \* history: missed[b][s], the frames b refused as stale since s
            \* last restarted or was listened to
  faults

vars == <<ring, tx_seq, seen, keyed, rel_pos, wire, sent, owed, last,
          missed, faults>>

Frame == [type : {"PAIR", "OTHER"}, src : Boards, dst : Boards \cup {Broadcast},
          seq : 0..(SEQ - 1), ttl : 1..TTL, id : 1..MaxSend]

-----------------------------------------------------------------------------
(* Wiring *)

Opposite(p) == IF p = "UP" THEN "DOWN" ELSE "UP"

\* the board on the other end of b's port p; 0 or N + 1 if there is none
Neighbour(b, p) ==
  LET d == IF p = "UP" THEN b - 1 ELSE b + 1
  IN  IF ring /\ d = 0 THEN N ELSE IF ring /\ d = N + 1 THEN 1 ELSE d

Transmit(b, ps, f, w) ==
  LET into(p, q) == IF p \in ps /\ Neighbour(b, p) \in Boards
                    THEN [q EXCEPT ![Neighbour(b, p)][Opposite(p)] =
                            Append(@, f)]
                    ELSE q
  IN  into("UP", into("DOWN", w))

\* the frames of b that are still somewhere on the chain
OnWire(b) ==
  UNION {{wire[d][p][i].id : i \in {j \in DOMAIN wire[d][p] :
                                     wire[d][p][j].src = b}}
           : d \in Boards, p \in Port}

-----------------------------------------------------------------------------
(* Replay window *)

Unseen == [used |-> FALSE, high_seq |-> 0]

\* the difference of two counters as the int16_t the code casts it to
Signed(d) == ((d + SEQ + SEQ \div 2) % SEQ) - SEQ \div 2

\* seen_get: an entry, or a free slot
SeenGet(b, s) ==
  \/ seen[b][s].used
  \/ Cardinality({t \in Boards : seen[b][t].used}) < MaxSeen

\* Mutants of SeqIsFresh: a first frame is measured against a window that
\* starts at zero; no step back is taken for a restart; the copy of the frame
\* last accepted passes
SeqIsFreshUnprimed(b, s, seq) ==
  LET delta == Signed(seq - seen[b][s].high_seq)
  IN  ~SeenGet(b, s) \/ delta > 0 \/ delta < -JUMP

SeqIsFreshNoRestart(b, s, seq) ==
  \/ ~SeenGet(b, s)
  \/ ~seen[b][s].used
  \/ Signed(seq - seen[b][s].high_seq) > 0

SeqIsFreshAtMark(b, s, seq) ==
  LET delta == Signed(seq - seen[b][s].high_seq)
  IN  ~SeenGet(b, s) \/ ~seen[b][s].used \/ delta >= 0 \/ delta < -JUMP

SeqIsFresh(b, s, seq) ==
  LET delta == Signed(seq - seen[b][s].high_seq)
  IN  \/ ~SeenGet(b, s)
      \/ ~seen[b][s].used
      \/ delta > 0
      \/ delta < -JUMP

Accepted(b, s, seq) ==
  IF SeenGet(b, s)
  THEN [seen EXCEPT ![b][s] = [used |-> TRUE, high_seq |-> seq]]
  ELSE seen

-----------------------------------------------------------------------------
(* Steps of a board *)

\* Mutant of Send: the counter does not wrap
SendWide(b, type, dst) ==
  /\ sent[b] < MaxSend
  /\ \A id \in OnWire(b) : sent[b] + 1 - id <= JUMP
  /\ tx_seq' = [tx_seq EXCEPT ![b] = @ + 1]
  /\ sent' = [sent EXCEPT ![b] = @ + 1]
  /\ owed' = [d \in Boards |-> [s \in Boards |->
                IF s = b /\ d # b /\ dst \in {d, Broadcast}
                THEN owed[d][s] + 1 ELSE owed[d][s]]]
  /\ wire' = IF b \notin keyed THEN wire
             ELSE Transmit(b, Port,
                    [type |-> type, src |-> b, dst |-> dst, seq |-> tx_seq[b],
                     ttl |-> TTL, id |-> sent[b] + 1], wire)
  /\ UNCHANGED <<ring, seen, keyed, rel_pos, last, missed, faults>>

\* dhp_link_send: one sequence number for the copies on both ports, spent
\* even when a board without the key puts nothing on the wire.  A frame
\* does not stay on the chain while its sender emits more than JUMP others:
\* a chain holds microseconds of traffic, JUMP frames are seconds of it.
Send(b, type, dst) ==
  /\ sent[b] < MaxSend
  /\ \A id \in OnWire(b) : sent[b] + 1 - id <= JUMP
  /\ tx_seq' = [tx_seq EXCEPT ![b] = (@ + 1) % SEQ]
  /\ sent' = [sent EXCEPT ![b] = @ + 1]
  /\ owed' = [d \in Boards |-> [s \in Boards |->
                IF s = b /\ d # b /\ dst \in {d, Broadcast}
                THEN owed[d][s] + 1 ELSE owed[d][s]]]
  /\ wire' = IF b \notin keyed THEN wire
             ELSE Transmit(b, Port,
                    [type |-> type, src |-> b, dst |-> dst, seq |-> tx_seq[b],
                     ttl |-> TTL, id |-> sent[b] + 1], wire)
  /\ UNCHANGED <<ring, seen, keyed, rel_pos, last, missed, faults>>

\* Mutants of Relay: the hop limit stays as it was; the frame leaves by both
\* ports
RelayKeepsTtl(b, p, f, w) ==
  IF f.dst = b \/ f.ttl = 1 THEN w ELSE Transmit(b, {Opposite(p)}, f, w)

RelayBothWays(b, p, f, w) ==
  IF f.dst = b \/ f.ttl = 1 THEN w
  ELSE Transmit(b, Port, [f EXCEPT !.ttl = @ - 1], w)

\* dhp_frame_forward_prepare: the hop limit goes down, and at zero the frame
\* goes nowhere
Relay(b, p, f, w) ==
  IF f.dst = b \/ f.ttl = 1 THEN w
  ELSE Transmit(b, {Opposite(p)}, [f EXCEPT !.ttl = @ - 1], w)

\* rel_pos_from_frame
RelPosFromFrame(f, p) ==
  LET distance == TTL - f.ttl + 1
  IN  IF p = "UP" THEN -distance ELSE distance

Hears(b, f) == (b \in keyed \/ f.type = "PAIR") /\ f.src # b

\* dhp_link_rx_byte, for the byte that completes a frame: the frame is
\* refused unheard,
Refuse(b, p) ==
  /\ wire[b][p] # <<>>
  /\ ~Hears(b, Head(wire[b][p]))
  /\ wire' = [wire EXCEPT ![b][p] = Tail(@)]
  /\ UNCHANGED <<ring, tx_seq, seen, keyed, rel_pos, sent, owed, last, missed, faults>>

\* refused as a replay,
Replayed(b, p) ==
  /\ wire[b][p] # <<>>
  /\ LET f == Head(wire[b][p])
     IN  /\ Hears(b, f)
         /\ ~SeqIsFresh(b, f.src, f.seq)
         /\ missed' = [missed EXCEPT ![b][f.src] = Append(@, f.id)]
  /\ wire' = [wire EXCEPT ![b][p] = Tail(@)]
  /\ UNCHANGED <<ring, tx_seq, seen, keyed, rel_pos, sent, owed, last, faults>>

\* or relayed, and handed to the main loop if it is for this board.  The loop
\* gives PAIR to the pairing and the rest to the router, which notes where the
\* sender sits.
Accept(b, p) ==
  /\ wire[b][p] # <<>>
  /\ LET f == Head(wire[b][p])
         forUs == f.dst \in {b, Broadcast}
     IN  /\ Hears(b, f)
         /\ SeqIsFresh(b, f.src, f.seq)
         /\ seen' = Accepted(b, f.src, f.seq)
         /\ last' = [last EXCEPT ![b][f.src] = f.id]
         /\ missed' = [missed EXCEPT ![b][f.src] = <<>>]
         /\ wire' = Relay(b, p, f, [wire EXCEPT ![b][p] = Tail(@)])
         /\ owed' = IF forUs THEN [owed EXCEPT ![b][f.src] = @ - 1] ELSE owed
         /\ rel_pos' = IF forUs /\ f.type # "PAIR"
                       THEN [rel_pos EXCEPT ![b][f.src] = RelPosFromFrame(f, p)]
                       ELSE rel_pos
  /\ UNCHANGED <<ring, tx_seq, keyed, sent, faults>>

-----------------------------------------------------------------------------
(* The environment *)

Budget == IF ring THEN MaxRingFaults ELSE MaxFaults

Lose(b, p) ==
  /\ wire[b][p] # <<>>
  /\ faults < Budget
  /\ faults' = faults + 1
  /\ wire' = [wire EXCEPT ![b][p] = Tail(@)]
  /\ UNCHANGED <<ring, tx_seq, seen, keyed, rel_pos, sent, owed, last, missed>>

\* The key is in flash; the counter, the windows and the map are not.  A boot
\* outlasts the microseconds its last frames spend on the wire.
Reboot(b) ==
  /\ faults < Budget
  /\ OnWire(b) = {}
  /\ faults' = faults + 1
  /\ tx_seq' = [tx_seq EXCEPT ![b] = 0]
  /\ seen' = [seen EXCEPT ![b] = [s \in Boards |-> Unseen]]
  /\ rel_pos' = [rel_pos EXCEPT ![b] = [s \in Boards |-> 0]]
  /\ wire' = [wire EXCEPT ![b] = [p \in Port |-> <<>>]]
  /\ last' = [last EXCEPT ![b] = [s \in Boards |-> 0]]
  /\ missed' = [d \in Boards |-> [s \in Boards |->
                  IF d = b \/ s = b THEN <<>> ELSE missed[d][s]]]
  /\ UNCHANGED <<ring, keyed, sent, owed>>

\* dhp_link_set_key, dhp_link_clear_key
Rekey(b) ==
  /\ faults < Budget
  /\ faults' = faults + 1
  /\ keyed' = IF b \in keyed THEN keyed \ {b} ELSE keyed \cup {b}
  /\ UNCHANGED <<ring, tx_seq, seen, rel_pos, wire, sent, owed, last, missed>>

-----------------------------------------------------------------------------
Init ==
  /\ ring \in Wirings
  /\ tx_seq = [b \in Boards |-> 0]
  /\ seen = [b \in Boards |-> [s \in Boards |-> Unseen]]
  /\ keyed = Boards
  /\ rel_pos = [b \in Boards |-> [s \in Boards |-> 0]]
  /\ wire = [b \in Boards |-> [p \in Port |-> <<>>]]
  /\ sent = [b \in Boards |-> 0]
  /\ owed = [b \in Boards |-> [s \in Boards |-> 0]]
  /\ last = [b \in Boards |-> [s \in Boards |-> 0]]
  /\ missed = [b \in Boards |-> [s \in Boards |-> <<>>]]
  /\ faults = 0

Receive(b, p) == Refuse(b, p) \/ Replayed(b, p) \/ Accept(b, p)

Next ==
  \E b \in Boards :
    \/ \E type \in Types, dst \in Dsts \ {b} :
         /\ b \in Senders
         /\ type = "PAIR" => dst = Broadcast   \* pairing only broadcasts
         /\ Send(b, type, dst)
    \/ \E p \in Port : Receive(b, p) \/ Lose(b, p)
    \/ Reboot(b)
    \/ Rekey(b)

Spec == Init /\ [][Next]_vars

-----------------------------------------------------------------------------
TypeOK ==
  /\ ring \in BOOLEAN
  /\ tx_seq \in [Boards -> 0..(SEQ - 1)]
  /\ seen \in [Boards -> [Boards -> [used : BOOLEAN, high_seq : 0..(SEQ - 1)]]]
  /\ keyed \subseteq Boards
  /\ rel_pos \in [Boards -> [Boards -> -TTL..TTL]]
  /\ wire \in [Boards -> [Port -> Seq(Frame)]]
  /\ sent \in [Boards -> 0..MaxSend]
  /\ owed \in [Boards -> [Boards -> Int]]
  /\ last \in [Boards -> [Boards -> 0..MaxSend]]
  /\ missed \in [Boards -> [Boards -> Seq(1..MaxSend)]]
  /\ faults \in 0..MaxFaults

(* No frame is handed up twice, or behind a later one of the same source   *)
(* that the board listened to: the replay window drops the copy that comes *)
(* the other way round a miswired chain, through counter wrap, losses and  *)
(* restarts.                                                               *)
DeliveredOnceInOrder ==
  [][\A b, s \in Boards : owed'[b][s] < owed[b][s]
                            => last'[b][s] > last[b][s]]_vars

(* On a line, what a board reads off the hop limit and the arrival port is *)
(* where the source really sits (rel_pos_from_frame), however many boards  *)
(* relayed the frame.                                                      *)
MapIsTrue ==
  ~ring => \A b, s \in Boards : rel_pos[b][s] # 0 => rel_pos[b][s] = s - b

(* A board that restarts its counter is not ignored for ever: on a line at *)
(* most JUMP + 1 frames of it are refused before one gets through          *)
(* (seq_is_fresh's resynchronisation).                                     *)
DeafnessBounded ==
  ~ring => \A b, s \in Boards : Len(missed[b][s]) <= JUMP + 1

(* Without losses, restarts or unpaired boards every frame reaches every   *)
(* board it is for, however long the chain, once it has left the wires:    *)
(* no relay drops it for want of a known neighbour or of hops.             *)
EveryFrameArrives ==
  ~ring /\ faults = 0 =>
    \A s \in Senders : OnWire(s) = {} =>
      \A d \in Boards : owed[d][s] = 0

(* A miswired ring does not storm: a frame has at most the two copies its *)
(* sender put on the two ports, whoever relays them, and they are never    *)
(* multiplied on the way.                                                  *)
Copies(s, id) ==
  UNION {{<<d, p, i>> : i \in {j \in DOMAIN wire[d][p] :
                                 /\ wire[d][p][j].src = s
                                 /\ wire[d][p][j].id = id}}
           : d \in Boards, p \in Port}

NoStorm ==
  \A s \in Senders : \A id \in OnWire(s) : Cardinality(Copies(s, id)) <= 2
=============================================================================
