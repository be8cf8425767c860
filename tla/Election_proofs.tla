-------------------------- MODULE Election_proofs --------------------------
(***************************************************************************)
(* Invariants of the election on a chain of any length, with any number of *)
(* faults and losses and any timing.  The lemmas on a single board's       *)
(* record are in Uhrp_proofs.                                              *)
(***************************************************************************)
EXTENDS Election, Uhrp_proofs, SequenceTheorems

\* wires carry frames, and only away from their senders
WireOK(q) ==
  /\ q \in [Boards -> [Port -> Seq(Frame)]]
  /\ \A b \in Boards, p \in Port : q[b][p] \in Seq(Inbound(b, p))

RecordsOK ==
  \A b \in Boards : Sound(node[b], b) /\ Follows(node[b], b)

\* everything in TypeOK but the records and the wires
EnvOK ==
  /\ cut \in 0..(N - 1)
  /\ ticked \subseteq Boards
  /\ faults \in 0..MaxFaults
  /\ losses \in 0..MaxLoss
  /\ calm \in 0..Settle
  /\ owed \subseteq Boards \X Boards

\* The inductive invariant
IInv ==
  /\ node \in [Boards -> Node]
  /\ RecordsOK
  /\ WireOK(wire)
  /\ EnvOK

-----------------------------------------------------------------------------
\* The settling time is a number
LEMMA SettleNat == Settle \in Nat
  <1>1. MaxLoss * HELLO \in Nat
    BY TimingAssumption, ChainAssumption
  <1>2. QED
    BY <1>1, TimingAssumption, ChainAssumption DEF Settle

\* A frame may be put on the wire to port p of d
LEMMA TransmitOK ==
  ASSUME NEW b \in Boards, NEW ps \in SUBSET Port, NEW ms, NEW q, WireOK(q),
         \A d \in Boards, p \in Port :
           Opposite(p) \in ps /\ d \in Neighbour(b, Opposite(p))
             => ms \in Seq(Frame) /\ ms \in Seq(Inbound(d, p))
  PROVE  WireOK(Transmit(b, ps, ms, q))
  <1> DEFINE t == Transmit(b, ps, ms, q)
  <1>1. ASSUME NEW d \in Boards, NEW p \in Port
        PROVE  t[d][p] \in Seq(Frame) /\ t[d][p] \in Seq(Inbound(d, p))
    <2>1. q[d][p] \in Seq(Frame) /\ q[d][p] \in Seq(Inbound(d, p))
      BY DEF WireOK
    <2>2. CASE Opposite(p) \in ps /\ d \in Neighbour(b, Opposite(p))
      <3>1. t[d][p] = q[d][p] \o ms
        BY <2>2, Zenon DEF Transmit
      <3>2. QED
        BY <2>1, <2>2, <3>1, ConcatProperties
    <2>3. CASE ~(Opposite(p) \in ps /\ d \in Neighbour(b, Opposite(p)))
      <3>1. t[d][p] = q[d][p]
        BY <2>3, Zenon DEF Transmit
      <3>2. QED
        BY <2>1, <3>1
    <2>4. QED
      BY <2>2, <2>3
  <1>2. t \in [Boards -> [Port -> Seq(Frame)]]
    BY <1>1, Zenon DEF Transmit
  <1>3. QED
    BY <1>1, <1>2 DEF WireOK

\* What a board sends reaches the facing port of the board next to it
LEMMA NeighbourSide ==
  ASSUME NEW b \in Boards, NEW d \in Boards, NEW p \in Port,
         d \in Neighbour(b, Opposite(p))
  PROVE  IF p = "UP" THEN d = b + 1 ELSE d = b - 1
  BY ChainAssumption DEF Neighbour, Opposite, Port

\* The frames a board makes are well formed and carry its address
LEMMA OwnFrames ==
  ASSUME NEW b \in Boards, NEW u \in Node, u.addr = b
  PROVE  /\ Hello(u) \in Frame /\ Hello(u).src = b
         /\ Resign(b) \in Frame /\ Resign(b).src = b
         /\ Release(b) \in Frame /\ Release(b).src = b
  <1>1. u.caps \in SUBSET Caps /\ u.state \in State
    BY DEF Node
  <1>2. "INIT" \in State /\ {} \in SUBSET Caps
    BY DEF State
  <1>3. QED
    BY <1>1, <1>2 DEF Hello, Resign, Release, Frame

\* A board's own frame moves away from it
LEMMA SentFromHere ==
  ASSUME NEW b \in Boards, NEW d \in Boards, NEW p \in Port,
         d \in Neighbour(b, Opposite(p)), NEW f \in Frame, f.src = b
  PROVE  f \in Inbound(d, p)
  BY NeighbourSide, ChainAssumption DEF Inbound

\* An optional frame is a sequence
LEMMA IfSeq ==
  ASSUME NEW c, NEW S, NEW m \in S
  PROVE  If(c, m) \in Seq(S)
  BY DEF If

\* What drain_uhrp sends, frame by frame
LEMMA FramesOK ==
  ASSUME NEW b \in Boards, NEW u \in Node, u.addr = b, NEW S,
         Hello(u) \in S, Resign(b) \in S, Release(b) \in S
  PROVE  Frames(u) \in Seq(S)
  <1>1. /\ If("broadcast_release" \in u.ev, Release(b)) \in Seq(S)
        /\ If("send_resign" \in u.ev, Resign(b)) \in Seq(S)
        /\ If("send_hello" \in u.ev, Hello(u)) \in Seq(S)
    BY IfSeq
  <1>2. QED
    BY <1>1, ConcatProperties DEF Frames

\* An entry point that leaves a sound record keeps the invariant
LEMMA DrainOK ==
  ASSUME NEW b \in Boards, NEW u, NEW q, WireOK(q), IInv,
         Sound(u, b), Follows(u, b), Drain(b, u, q)
  PROVE  /\ node' \in [Boards -> Node]
         /\ RecordsOK'
         /\ WireOK(wire')
         /\ owed' \subseteq Boards \X Boards
  <1>1. u \in Node /\ u.addr = b
    BY DEF Sound
  <1>2. /\ node' \in [Boards -> Node]
        /\ RecordsOK'
    <2>1. Sound(TakeEvents(u), b) /\ Follows(TakeEvents(u), b)
      BY TakeEventsSound
    <2>2. node' = [node EXCEPT ![b] = TakeEvents(u)]
      BY DEF Drain
    <2>3. TakeEvents(u) \in Node
      BY <2>1 DEF Sound
    <2>4. node' \in [Boards -> Node]
      BY <2>2, <2>3 DEF IInv
    <2>5. QED
      BY <2>1, <2>2, <2>4 DEF IInv, RecordsOK
  <1>3. WireOK(wire')
    <2>1. ASSUME NEW d \in Boards, NEW p \in Port,
                 d \in Neighbour(b, Opposite(p))
          PROVE  Frames(u) \in Seq(Frame) /\ Frames(u) \in Seq(Inbound(d, p))
      BY <1>1, <2>1, OwnFrames, SentFromHere, FramesOK
    <2>2. wire' = Transmit(b, Port, Frames(u), q)
      BY DEF Drain
    <2>3. QED
      BY <2>1, <2>2, TransmitOK
  <1>4. owed' \subseteq Boards \X Boards
    BY DEF Drain, IInv, EnvOK
  <1>5. QED
    BY <1>2, <1>3, <1>4

\* Taking a frame off a wire
LEMMA PopOK ==
  ASSUME NEW b \in Boards, NEW p \in Port, WireOK(wire), wire[b][p] # <<>>
  PROVE  /\ WireOK([wire EXCEPT ![b][p] = Tail(@)])
         /\ Head(wire[b][p]) \in Frame
         /\ Head(wire[b][p]) \in Inbound(b, p)
  <1>1. wire[b][p] \in Seq(Frame) /\ wire[b][p] \in Seq(Inbound(b, p))
    BY DEF WireOK
  <1>2. /\ Tail(wire[b][p]) \in Seq(Frame)
        /\ Tail(wire[b][p]) \in Seq(Inbound(b, p))
        /\ Head(wire[b][p]) \in Frame
        /\ Head(wire[b][p]) \in Inbound(b, p)
    BY <1>1, HeadTailProperties
  <1>3. QED
    BY <1>2 DEF WireOK

\* Relaying out of the other port keeps a frame moving away from its sender
LEMMA RelayOK ==
  ASSUME NEW b \in Boards, NEW p \in Port, WireOK(wire), wire[b][p] # <<>>
  PROVE  WireOK(Relay(b, p))
  <1> DEFINE f == Head(wire[b][p])
             q == [wire EXCEPT ![b][p] = Tail(@)]
  <1>1. WireOK(q) /\ f \in Frame /\ f \in Inbound(b, p)
    BY PopOK
  <1>2. ASSUME NEW d \in Boards, NEW r \in Port, Opposite(r) = Opposite(p),
               d \in Neighbour(b, Opposite(r))
        PROVE  f \in Inbound(d, r)
    <2>1. r = p
      BY <1>2 DEF Port, Opposite
    <2>2. IF r = "UP" THEN d = b + 1 ELSE d = b - 1
      BY <1>2, NeighbourSide
    <2> HIDE DEF f
    <2>3. f.src \in Boards
      BY <1>1 DEF Frame
    <2>4. QED
      BY <1>1, <2>1, <2>2, <2>3, ChainAssumption DEF Inbound
  <1>3. Relay(b, p) = Transmit(b, {Opposite(p)}, <<f>>, q)
    BY Zenon DEF Relay
  <1>4. {Opposite(p)} \in SUBSET Port
    BY DEF Port, Opposite
  <1> HIDE DEF f, q
  <1>5. \A d \in Boards, r \in Port :
          Opposite(r) \in {Opposite(p)} /\ d \in Neighbour(b, Opposite(r))
            => <<f>> \in Seq(Frame) /\ <<f>> \in Seq(Inbound(d, r))
    BY <1>1, <1>2
  <1>6. QED
    BY <1>1, <1>3, <1>4, <1>5, TransmitOK

-----------------------------------------------------------------------------
\* The invariant holds initially, and below is kept by each action
LEMMA InitOK == Init => IInv
  <1> SUFFICES ASSUME Init PROVE IInv
    OBVIOUS
  <1>1. ASSUME NEW b \in Boards
        PROVE  Sound(Boot(b, {}), b) /\ Follows(Boot(b, {}), b)
    BY BootSound
  <1>2. node \in [Boards -> Node] /\ RecordsOK
    <2>1. node = [b \in Boards |-> Boot(b, {})]
      BY DEF Init
    <2>2. \A b \in Boards : Boot(b, {}) \in Node
      BY <1>1 DEF Sound
    <2>3. QED
      BY <1>1, <2>1, <2>2 DEF RecordsOK
  <1>3. WireOK(wire)
    BY EmptySeq DEF Init, WireOK
  <1>4. EnvOK
    BY SettleNat, ChainAssumption DEF Init, EnvOK
  <1>5. QED
    BY <1>2, <1>3, <1>4 DEF IInv

\* Dhp_router_start keeps the invariant
LEMMA PowerOnOK ==
  ASSUME IInv, NEW b \in Boards, PowerOn(b)
  PROVE  IInv'
  <1>1. PICK caps \in CapsOf[b] : Drain(b, Start(Boot(b, caps)), wire)
    BY DEF PowerOn
  <1>2. caps \in SUBSET Caps
    BY ChainAssumption
  <1>3. /\ Sound(Boot(b, caps), b) /\ Follows(Boot(b, caps), b)
        /\ Boot(b, caps).state = "INIT"
    BY <1>2, BootSound DEF Boot
  <1>4. Sound(Start(Boot(b, caps)), b) /\ Follows(Start(Boot(b, caps)), b)
    BY <1>3, StartSound
  <1>5. /\ node' \in [Boards -> Node] /\ RecordsOK' /\ WireOK(wire')
        /\ owed' \subseteq Boards \X Boards
    BY <1>1, <1>4, DrainOK DEF IInv
  <1>6. QED
    BY <1>5, SettleNat DEF PowerOn, IInv, EnvOK, WireOK

\* A pass of the main loop keeps the invariant
LEMMA TickStepOK ==
  ASSUME IInv, NEW b \in Boards, TickStep(b)
  PROVE  IInv'
  <1>1. PICK u \in Tick(node[b]) : Drain(b, u, wire)
    BY DEF TickStep
  <1>2. Sound(u, b) /\ Follows(u, b)
    BY TickSound DEF TickStep, Up, IInv, RecordsOK
  <1>3. /\ node' \in [Boards -> Node] /\ RecordsOK' /\ WireOK(wire')
        /\ owed' \subseteq Boards \X Boards
    BY <1>1, <1>2, DrainOK DEF IInv
  <1>4. QED
    BY <1>3 DEF TickStep, IInv, EnvOK, WireOK

\* A HELLO received keeps the invariant
LEMMA RecvHelloOK ==
  ASSUME IInv, NEW b \in Boards, NEW p \in Port, RecvHello(b, p)
  PROVE  IInv'
  <1> DEFINE f == Head(wire[b][p])
  <1>1. PICK u \in RxHello(node[b], f.src, f) : Drain(b, u, Relay(b, p))
    BY DEF RecvHello
  <1>2. wire[b][p] # <<>>
    BY DEF RecvHello, Arrives
  <1>3. f \in Frame
    BY <1>2, PopOK DEF IInv
  <1> HIDE DEF f
  <1>4. f.src \in Boards /\ f.state \in State /\ f.caps \in SUBSET Caps
    BY <1>3 DEF Frame
  <1>5. Sound(u, b) /\ Follows(u, b)
    BY <1>1, <1>4, RxHelloSound DEF RecvHello, Arrives, Up, IInv, RecordsOK
  <1>6. /\ node' \in [Boards -> Node] /\ RecordsOK' /\ WireOK(wire')
        /\ owed' \subseteq Boards \X Boards
    BY <1>1, <1>2, <1>5, RelayOK, DrainOK DEF IInv
  <1>7. QED
    BY <1>6 DEF RecvHello, IInv, EnvOK, WireOK

\* A RESIGN received keeps the invariant: it is another board's (WireOK)
LEMMA RecvResignOK ==
  ASSUME IInv, NEW b \in Boards, NEW p \in Port, RecvResign(b, p)
  PROVE  IInv'
  <1> DEFINE f == Head(wire[b][p])
  <1>1. PICK u \in RxResign(node[b], f.src) : Drain(b, u, Relay(b, p))
    BY DEF RecvResign
  <1>2. wire[b][p] # <<>>
    BY DEF RecvResign, Arrives
  <1>3. f \in Frame /\ f \in Inbound(b, p)
    BY <1>2, PopOK DEF IInv
  <1> HIDE DEF f
  <1>4. f.src \in Boards \ {b}
    <2>1. f.src \in Boards
      BY <1>3 DEF Frame
    <2>2. f.src # b
      BY <1>3, <2>1, ChainAssumption DEF Inbound
    <2>3. QED
      BY <2>1, <2>2
  <1>5. Sound(u, b) /\ Follows(u, b)
    BY <1>1, <1>4, RxResignSound DEF RecvResign, Arrives, Up, IInv, RecordsOK
  <1>6. /\ node' \in [Boards -> Node] /\ RecordsOK' /\ WireOK(wire')
        /\ owed' \subseteq Boards \X Boards
    BY <1>1, <1>2, <1>5, RelayOK, DrainOK DEF IInv
  <1>7. QED
    BY <1>6 DEF RecvResign, IInv, EnvOK, WireOK

\* A RELEASE received keeps the invariant
LEMMA RecvReleaseOK ==
  ASSUME IInv, NEW b \in Boards, NEW p \in Port, RecvRelease(b, p)
  PROVE  IInv'
  <1>1. WireOK(wire')
    BY RelayOK DEF RecvRelease, Arrives, IInv
  <1>2. QED
    BY <1>1 DEF RecvRelease, IInv, EnvOK, RecordsOK, WireOK

\* one record replaced by another that is as good
LEMMA RecordOK ==
  ASSUME IInv, NEW b \in Boards, NEW u, Sound(u, b), Follows(u, b),
         node' = [node EXCEPT ![b] = u]
  PROVE  node' \in [Boards -> Node] /\ RecordsOK'
  <1>1. u \in Node
    BY DEF Sound
  <1>2. node' \in [Boards -> Node]
    BY <1>1 DEF IInv
  <1>3. QED
    BY <1>2 DEF IInv, RecordsOK

\* A key pressed or let go keeps the invariant
LEMMA KeysChangeOK ==
  ASSUME IInv, NEW b \in Boards, KeysChange(b)
  PROVE  IInv'
  <1> DEFINE u == SetKeysHeld(node[b], ~node[b].keys_held)
  <1>1. node' = [node EXCEPT ![b] = u]
    BY DEF KeysChange
  <1>2. Sound(u, b) /\ Follows(u, b)
    BY SetKeysHeldSound DEF IInv, RecordsOK
  <1>3. node' \in [Boards -> Node] /\ RecordsOK'
    BY <1>1, <1>2, RecordOK
  <1>4. QED
    BY <1>3 DEF KeysChange, IInv, EnvOK, WireOK

\* The wires of a board that lost power are empty
LEMMA ClearedOK ==
  ASSUME NEW q, WireOK(q), NEW b \in Boards
  PROVE  WireOK([q EXCEPT ![b] = [p \in Port |-> <<>>]])
  BY EmptySeq DEF WireOK

\* The record of a board that lost power
LEMMA PowerOffOK ==
  ASSUME IInv, NEW b \in Boards, PowerOff(b)
  PROVE  node' \in [Boards -> Node] /\ RecordsOK' /\ ticked' \subseteq Boards
  BY BootSound, RecordOK DEF PowerOff, IInv, EnvOK

\* A crash keeps the invariant
LEMMA CrashOK ==
  ASSUME IInv, NEW b \in Boards, Crash(b)
  PROVE  IInv'
  <1>1. node' \in [Boards -> Node] /\ RecordsOK' /\ ticked' \subseteq Boards
    BY PowerOffOK DEF Crash
  <1>2. WireOK(wire')
    BY ClearedOK DEF Crash, IInv
  <1>3. owed' \subseteq Boards \X Boards
    BY DEF Crash, IInv, EnvOK, Up
  <1>4. faults' \in 0..MaxFaults /\ calm' \in 0..Settle
    BY SettleNat, ChainAssumption DEF Crash, Fault, IInv, EnvOK
  <1>5. QED
    BY <1>1, <1>2, <1>3, <1>4 DEF Crash, IInv, EnvOK, WireOK

\* A coordinator's exit keeps the invariant
LEMMA ShutdownOK ==
  ASSUME IInv, NEW b \in Boards, Shutdown(b)
  PROVE  IInv'
  <1> DEFINE ms == If(node[b].state = "ACTIVE", Resign(b))
  <1>1. node' \in [Boards -> Node] /\ RecordsOK' /\ ticked' \subseteq Boards
    BY PowerOffOK DEF Shutdown
  <1>2. ASSUME NEW d \in Boards, NEW p \in Port, d \in Neighbour(b, Opposite(p))
        PROVE  ms \in Seq(Frame) /\ ms \in Seq(Inbound(d, p))
    <2>1. Resign(b) \in Frame /\ Resign(b).src = b
      BY OwnFrames DEF IInv, RecordsOK, Sound
    <2>2. Resign(b) \in Inbound(d, p)
      BY <1>2, <2>1, SentFromHere
    <2>3. QED
      BY <2>1, <2>2, IfSeq
  <1>3. WireOK(Transmit(b, Port, ms, wire))
    BY <1>2, TransmitOK DEF IInv
  <1>4. WireOK(wire')
    BY <1>3, ClearedOK DEF Shutdown
  <1>5. owed' \subseteq Boards \X Boards
    BY DEF Shutdown, IInv, EnvOK
  <1>6. faults' \in 0..MaxFaults /\ calm' \in 0..Settle
    BY SettleNat, ChainAssumption DEF Shutdown, Fault, IInv, EnvOK
  <1>7. QED
    BY <1>1, <1>4, <1>5, <1>6 DEF Shutdown, IInv, EnvOK, WireOK

\* A change of capabilities keeps the invariant
LEMMA PlugKeyboardOK ==
  ASSUME IInv, NEW b \in Boards, PlugKeyboard(b)
  PROVE  IInv'
  <1> DEFINE old == node[b].caps
             caps == IF "HID_IN" \in old THEN old \ {"HID_IN"}
                     ELSE old \cup {"HID_IN"}
             u == [node[b] EXCEPT !.caps = caps]
  <1>1. caps \in SUBSET Caps
    BY DEF IInv, Node, Caps
  <1>2. node' = [node EXCEPT ![b] = u]
    BY Zenon DEF PlugKeyboard
  <1>3. Sound(u, b) /\ Follows(u, b)
    BY <1>1, NewCapsSound DEF IInv, RecordsOK
  <1>4. node' \in [Boards -> Node] /\ RecordsOK'
    BY <1>2, <1>3, RecordOK
  <1>5. faults' \in 0..MaxFaults /\ calm' \in 0..Settle
    BY SettleNat, ChainAssumption DEF PlugKeyboard, Fault, IInv, EnvOK
  <1>6. QED
    BY <1>4, <1>5 DEF PlugKeyboard, IInv, EnvOK, WireOK

\* Pulling and mending a cable keep the invariant
LEMMA CableOK ==
  ASSUME IInv, PullCable \/ MendCable
  PROVE  IInv'
  <1>1. /\ cut' \in 0..(N - 1) /\ faults' \in 0..MaxFaults
        /\ calm' \in 0..Settle
    <2>1. CASE PullCable
      BY <2>1, SettleNat, ChainAssumption DEF PullCable, Fault, IInv, EnvOK
    <2>2. CASE MendCable
      BY <2>2, SettleNat, ChainAssumption DEF MendCable, IInv, EnvOK
    <2>3. QED
      BY <2>1, <2>2
  <1>2. QED
    BY <1>1 DEF PullCable, MendCable, IInv, EnvOK, RecordsOK, WireOK

\* A lost frame keeps the invariant
LEMMA LoseOK ==
  ASSUME IInv, NEW b \in Boards, NEW p \in Port, Lose(b, p)
  PROVE  IInv'
  <1>1. WireOK(wire')
    BY PopOK DEF Lose, IInv
  <1>2. losses' \in 0..MaxLoss
    BY ChainAssumption DEF Lose, IInv, EnvOK
  <1>3. QED
    BY <1>1, <1>2 DEF Lose, IInv, EnvOK, RecordsOK, WireOK

\* A unit of time keeps the invariant
LEMMA TimePassesOK ==
  ASSUME IInv, TimePasses
  PROVE  IInv'
  <1>1. ASSUME NEW b \in Boards
        PROVE  /\ node'[b] \in Node
               /\ Sound(node'[b], b) /\ Follows(node'[b], b)
    <2>1. Sound(node[b], b) /\ Follows(node[b], b)
      BY DEF IInv, RecordsOK
    <2>2. node'[b] = Elapse(node[b]) \/ node'[b] = node[b]
      BY Zenon DEF TimePasses
    <2>3. Sound(node'[b], b) /\ Follows(node'[b], b)
      BY <2>1, <2>2, ElapseSound
    <2>4. QED
      BY <2>3 DEF Sound
  <1>2. node' \in [Boards -> Node] /\ RecordsOK'
    <2>1. node' = [b \in Boards |-> node'[b]]
      BY Zenon DEF TimePasses
    <2>2. QED
      BY <1>1, <2>1 DEF RecordsOK
  <1>3. calm' \in 0..Settle /\ ticked' \subseteq Boards
    BY SettleNat DEF TimePasses, IInv, EnvOK
  <1>4. QED
    BY <1>2, <1>3 DEF TimePasses, IInv, EnvOK, WireOK

\* Stuttering keeps the invariant
LEMMA StutterOK == IInv /\ UNCHANGED vars => IInv'
  BY DEF vars, IInv, EnvOK, RecordsOK, WireOK

\* Every step keeps the invariant
LEMMA NextOK == IInv /\ [Next]_vars => IInv'
  <1> SUFFICES ASSUME IInv, Next PROVE IInv'
    BY StutterOK
  <1>1. ASSUME NEW b \in Boards,
               \/ PowerOn(b) \/ TickStep(b) \/ KeysChange(b)
               \/ Crash(b) \/ Shutdown(b) \/ PlugKeyboard(b)
        PROVE  IInv'
    BY <1>1, PowerOnOK, TickStepOK, KeysChangeOK, CrashOK, ShutdownOK,
       PlugKeyboardOK
  <1>2. ASSUME NEW b \in Boards, NEW p \in Port,
               \/ RecvHello(b, p) \/ RecvResign(b, p)
               \/ RecvRelease(b, p) \/ Lose(b, p)
        PROVE  IInv'
    BY <1>2, RecvHelloOK, RecvResignOK, RecvReleaseOK, LoseOK
  <1>3. QED
    BY <1>1, <1>2, CableOK, TimePassesOK DEF Next

(***************************************************************************)
(* The inductive invariant holds of every behaviour.                       *)
(***************************************************************************)
THEOREM Inductive == Spec => []IInv
  BY InitOK, NextOK, PTL DEF Spec

(***************************************************************************)
(* Type correctness: no entry point of uhrp.c, however the frames of a     *)
(* chain interleave, leaves a record outside its type.                     *)
(***************************************************************************)
THEOREM TypeCorrect == Spec => []TypeOK
  <1>1. IInv => TypeOK
    BY DEF IInv, EnvOK, WireOK, TypeOK
  <1>2. QED
    BY <1>1, Inductive, PTL

(***************************************************************************)
(* On a line relay() never carries a frame back to its sender, so          *)
(* dhp_uhrp_rx_resign never sees the board's own address.                  *)
(***************************************************************************)
THEOREM NeverEchoed == Spec => []NoEcho
  <1>1. IInv => NoEcho
    BY DEF IInv, WireOK, NoEcho
  <1>2. QED
    BY <1>1, Inductive, PTL

(***************************************************************************)
(* A board names itself the active speaker exactly when it is, only then   *)
(* has a resignation pending, and otherwise follows a live ACTIVE peer or  *)
(* nobody: on a chain of any length, with any timing and any faults.       *)
(***************************************************************************)
THEOREM RoleCorrect == Spec => []RoleInv
  <1>1. IInv => RoleInv
    BY DEF IInv, RecordsOK, Sound, Follows, RoleInv
  <1>2. QED
    BY <1>1, Inductive, PTL

-----------------------------------------------------------------------------
(* What an entry point's events put on the wires *)

\* The first element of a concatenation
LEMMA ConcatHead ==
  ASSUME NEW S, NEW s \in Seq(S), NEW t \in Seq(S), Len(s) >= 1
  PROVE  s \o t \in Seq(S) /\ Len(s \o t) >= 1 /\ (s \o t)[1] = s[1]
  <1>1. Len(s) \in Nat /\ Len(t) \in Nat
    BY LenProperties
  <1>2. s \o t \in Seq(S) /\ Len(s \o t) = Len(s) + Len(t)
    BY ConcatProperties
  <1>3. \A i \in 1 .. Len(s) + Len(t) :
          (s \o t)[i] = IF i <= Len(s) THEN s[i] ELSE t[i - Len(s)]
    BY ConcatProperties
  <1>4. 1 \in 1 .. Len(s) + Len(t) /\ 1 <= Len(s)
    BY <1>1
  <1>5. QED
    BY <1>1, <1>2, <1>3, <1>4

\* The RELEASE is the first frame drain_uhrp sends
LEMMA FramesRelease ==
  ASSUME NEW b \in Boards, NEW u \in Node, u.addr = b,
         "broadcast_release" \in u.ev
  PROVE  /\ Frames(u) \in Seq(Frame) /\ Len(Frames(u)) >= 1
         /\ Frames(u)[1] = Release(b)
  <1> DEFINE s1 == <<Release(b)>>
             s2 == If("send_resign" \in u.ev, Resign(b))
             s3 == If("send_hello" \in u.ev, Hello(u))
  <1>1. Hello(u) \in Frame /\ Resign(b) \in Frame /\ Release(b) \in Frame
    BY OwnFrames
  <1>2. s1 \in Seq(Frame) /\ Len(s1) >= 1 /\ s1[1] = Release(b)
    BY <1>1
  <1>3. s2 \in Seq(Frame) /\ s3 \in Seq(Frame)
    BY <1>1, IfSeq
  <1>4. Frames(u) = (s1 \o s2) \o s3
    BY Zenon DEF Frames, If
  <1> HIDE DEF s1, s2, s3
  <1>5. /\ s1 \o s2 \in Seq(Frame) /\ Len(s1 \o s2) >= 1
        /\ (s1 \o s2)[1] = Release(b)
    BY <1>2, <1>3, ConcatHead
  <1>6. /\ (s1 \o s2) \o s3 \in Seq(Frame) /\ Len((s1 \o s2) \o s3) >= 1
        /\ ((s1 \o s2) \o s3)[1] = Release(b)
    BY <1>3, <1>5, ConcatHead
  <1>7. QED
    BY <1>4, <1>6

\* A release event leaves the board towards every neighbour
LEMMA DrainReleases ==
  ASSUME NEW b \in Boards, NEW u, NEW q, IInv, WireOK(q), Sound(u, b),
         Drain(b, u, q), "broadcast_release" \in u.ev,
         \A d \in Boards, p \in Port :
           d # b => Len(q[d][p]) >= Len(wire[d][p])
  PROVE  Sent(b, "RELEASE")
  <1> SUFFICES ASSUME NEW p \in Port, NEW d \in Neighbour(b, p)
               PROVE  \E i \in (Len(wire[d][Opposite(p)]) + 1)
                                 .. Len(wire'[d][Opposite(p)]) :
                        /\ wire'[d][Opposite(p)][i].type = "RELEASE"
                        /\ wire'[d][Opposite(p)][i].src = b
    BY DEF Sent
  <1> DEFINE o == Opposite(p)
             i == Len(q[d][o]) + 1
  <1>1. o \in Port /\ Opposite(o) = p /\ d \in Boards
    BY DEF Opposite, Port, Neighbour, Up
  <1> HIDE DEF o
  <1>2. d # b
    BY <1>1, NeighbourSide, ChainAssumption
  <1>3. wire'[d][o] = q[d][o] \o Frames(u)
    <2>1. /\ wire' = Transmit(b, Port, Frames(u), q)
          /\ Opposite(o) \in Port /\ d \in Neighbour(b, Opposite(o))
      BY <1>1 DEF Drain
    <2>2. Transmit(b, Port, Frames(u), q)[d][o] = q[d][o] \o Frames(u)
      BY <1>1, <2>1, Zenon DEF Transmit
    <2>3. QED
      BY <2>1, <2>2, Zenon
  <1>4. /\ Frames(u) \in Seq(Frame) /\ Len(Frames(u)) >= 1
        /\ Frames(u)[1] = Release(b)
    BY FramesRelease DEF Sound
  <1>5. /\ q[d][o] \in Seq(Frame) /\ Len(q[d][o]) \in Nat
        /\ wire[d][o] \in Seq(Frame) /\ Len(wire[d][o]) \in Nat
        /\ Len(Frames(u)) \in Nat
    BY <1>1, <1>4, LenProperties DEF WireOK, IInv
  <1>6. /\ Len(wire'[d][o]) = Len(q[d][o]) + Len(Frames(u))
        /\ wire'[d][o][i] = Frames(u)[1]
    BY <1>3, <1>4, <1>5, ConcatProperties
  <1>7. i \in (Len(wire[d][o]) + 1) .. Len(wire'[d][o])
    BY <1>1, <1>2, <1>4, <1>5, <1>6
  <1>8. Release(b).type = "RELEASE" /\ Release(b).src = b
    BY DEF Release
  <1>9. QED
    BY <1>4, <1>6, <1>7, <1>8 DEF o

\* Relaying never shortens another board's wires
LEMMA RelayGrows ==
  ASSUME NEW b \in Boards, NEW p \in Port, WireOK(wire), wire[b][p] # <<>>,
         NEW d \in Boards, NEW r \in Port, d # b
  PROVE  Len(Relay(b, p)[d][r]) >= Len(wire[d][r])
  <1> DEFINE f == Head(wire[b][p])
             q == [wire EXCEPT ![b][p] = Tail(@)]
  <1>1. q[d][r] = wire[d][r]
    BY DEF WireOK
  <1>2. \/ Relay(b, p)[d][r] = q[d][r] \o <<f>>
        \/ Relay(b, p)[d][r] = q[d][r]
    BY Zenon DEF Relay, Transmit
  <1>3. wire[d][r] \in Seq(Frame) /\ f \in Frame
    BY PopOK DEF WireOK
  <1> HIDE DEF f, q
  <1>4. <<f>> \in Seq(Frame) /\ Len(<<f>>) = 1 /\ Len(wire[d][r]) \in Nat
    BY <1>3, LenProperties
  <1>5. Len(wire[d][r] \o <<f>>) = Len(wire[d][r]) + 1
    BY <1>3, <1>4, ConcatProperties
  <1>6. QED
    BY <1>1, <1>2, <1>4, <1>5

\* Each step that runs the election of b, as one Drain
LEMMA ElectionSteps ==
  ASSUME IInv, NEW b \in Boards, Next, node'[b] # node[b]
  PROVE  \/ PowerOn(b) \/ TickStep(b) \/ KeysChange(b)
         \/ Crash(b) \/ Shutdown(b) \/ PlugKeyboard(b) \/ TimePasses
         \/ \E p \in Port : RecvHello(b, p) \/ RecvResign(b, p)
  <1>1. ASSUME NEW c \in Boards, c # b, NEW u, node' = [node EXCEPT ![c] = u]
        PROVE  FALSE
    BY <1>1 DEF IInv
  <1>2. ASSUME NEW c \in Boards, c # b, NEW u, NEW q, Drain(c, u, q)
        PROVE  FALSE
    BY <1>1, <1>2 DEF Drain
  <1>3. ASSUME NEW c \in Boards, c # b,
               PowerOn(c) \/ TickStep(c) \/ KeysChange(c)
        PROVE  FALSE
    BY <1>1, <1>2, <1>3 DEF PowerOn, TickStep, KeysChange
  <1>4. ASSUME NEW c \in Boards, c # b,
               Crash(c) \/ Shutdown(c) \/ PlugKeyboard(c)
        PROVE  FALSE
    <2>1. CASE Crash(c) \/ Shutdown(c)
      BY <1>1, <1>4, <2>1 DEF Crash, Shutdown, PowerOff
    <2>2. CASE PlugKeyboard(c)
      BY <1>4, <2>2 DEF PlugKeyboard, IInv
    <2>3. QED
      BY <1>4, <2>1, <2>2
  <1>5. ASSUME NEW c \in Boards, c # b, NEW p \in Port,
               RecvHello(c, p) \/ RecvResign(c, p)
        PROVE  FALSE
    BY <1>2, <1>5 DEF RecvHello, RecvResign
  <1>6. ASSUME NEW c \in Boards, NEW p \in Port, RecvRelease(c, p) \/ Lose(c, p)
        PROVE  FALSE
    BY <1>6 DEF RecvRelease, Lose
  <1>7. ~(PullCable \/ MendCable)
    BY DEF PullCable, MendCable
  <1>8. QED
    BY <1>3, <1>4, <1>5, <1>6, <1>7 DEF Next

\* Taking the events leaves the state alone
LEMMA DrainState ==
  ASSUME IInv, NEW b \in Boards, NEW u \in Node, NEW q, Drain(b, u, q)
  PROVE  /\ node'[b].state = u.state /\ node'[b].started = u.started
         /\ node'[b].defer = u.defer
  <1>1. node'[b] = TakeEvents(u)
    BY DEF Drain, IInv
  <1>2. /\ TakeEvents(u).state = u.state /\ TakeEvents(u).started = u.started
        /\ TakeEvents(u).defer = u.defer
    BY Zenon DEF TakeEvents, Node
  <1>3. QED
    BY <1>1, <1>2

\* Steps that are no entry point of the election leave the role alone, but
\* for those that start or stop the board
LEMMA RoleKept ==
  ASSUME IInv, NEW b \in Boards,
         KeysChange(b) \/ PlugKeyboard(b) \/ TimePasses
  PROVE  node'[b].state = node[b].state
  <1>1. node[b] \in Node
    BY DEF IInv
  <1>2. CASE KeysChange(b)
    <2>1. node'[b] = SetKeysHeld(node[b], ~node[b].keys_held)
      BY <1>2 DEF KeysChange, IInv
    <2>2. QED
      BY <1>1, <2>1, Zenon DEF SetKeysHeld, Node
  <1>3. CASE PlugKeyboard(b)
    <2>1. PICK caps : node' = [node EXCEPT ![b].caps = caps]
      BY <1>3, Zenon DEF PlugKeyboard
    <2>2. node'[b] = [node[b] EXCEPT !.caps = caps]
      BY <2>1, Zenon DEF IInv
    <2>3. QED
      BY <1>1, <2>2, Zenon DEF Node
  <1>4. CASE TimePasses
    <2>1. node'[b] = Elapse(node[b]) \/ node'[b] = node[b]
      BY <1>4, Zenon DEF TimePasses
    <2>2. Elapse(node[b]).state = node[b].state
      BY <1>1, Zenon DEF Elapse, Node
    <2>3. QED
      BY <2>1, <2>2
  <1>5. QED
    BY <1>2, <1>3, <1>4

\* Rule 1 for every step of the chain
LEMMA StandsDownReleases ==
  ASSUME IInv, Next, NEW b \in Boards, StandsDown(b), node[b].keys_held
  PROVE  Overdue(node[b]) /\ Sent(b, "RELEASE")
  <1>1. /\ node[b].state = "ACTIVE" /\ node'[b].state # "ACTIVE"
        /\ node'[b].started
    BY DEF StandsDown
  <1>2. Sound(node[b], b) /\ Follows(node[b], b) /\ node[b].started
    BY <1>1 DEF IInv, RecordsOK, Sound
  <1>3. CASE PowerOn(b)
    BY <1>2, <1>3 DEF PowerOn, Up
  <1>4. CASE TickStep(b)
    <2>1. PICK u \in Tick(node[b]) : Drain(b, u, wire)
      BY <1>4 DEF TickStep
    <2>2. Sound(u, b)
      BY <1>2, TickSound
    <2>3. u.state # "ACTIVE"
      BY <1>1, <2>1, <2>2, DrainState DEF Sound
    <2>4. Overdue(node[b]) /\ "broadcast_release" \in u.ev
      BY <1>1, <1>2, <2>3, TickReleases
    <2>5. \A d \in Boards, p \in Port : Len(wire[d][p]) >= Len(wire[d][p])
      BY LenProperties DEF IInv, WireOK
    <2>6. WireOK(wire)
      BY DEF IInv
    <2>7. Sent(b, "RELEASE")
      BY <2>1, <2>2, <2>4, <2>5, <2>6, DrainReleases
    <2>8. QED
      BY <2>4, <2>7
  <1>5. ASSUME NEW p \in Port, RecvHello(b, p)
        PROVE  Overdue(node[b]) /\ Sent(b, "RELEASE")
    <2> DEFINE f == Head(wire[b][p])
    <2>1. PICK u \in RxHello(node[b], f.src, f) : Drain(b, u, Relay(b, p))
      BY <1>5 DEF RecvHello
    <2>2. wire[b][p] # <<>> /\ WireOK(wire)
      BY <1>5 DEF RecvHello, Arrives, IInv
    <2>3. f \in Frame
      BY <2>2, PopOK
    <2> HIDE DEF f
    <2>4. f.src \in Boards /\ f.state \in State /\ f.caps \in SUBSET Caps
      BY <2>3 DEF Frame
    <2>5. Sound(u, b)
      BY <1>2, <2>4, RxHelloSound
    <2>6. u.state # "ACTIVE"
      BY <1>1, <2>1, <2>5, DrainState DEF Sound
    <2>7. Overdue(node[b]) /\ "broadcast_release" \in u.ev
      BY <1>1, <1>2, <2>4, <2>6, RxHelloReleases
    <2>8. Sent(b, "RELEASE")
      BY <2>1, <2>2, <2>5, <2>7, RelayOK, RelayGrows, DrainReleases
    <2>9. QED
      BY <2>7, <2>8
  <1>6. ASSUME NEW p \in Port, RecvResign(b, p)
        PROVE  Overdue(node[b]) /\ Sent(b, "RELEASE")
    <2> DEFINE f == Head(wire[b][p])
    <2>1. PICK u \in RxResign(node[b], f.src) : Drain(b, u, Relay(b, p))
      BY <1>6 DEF RecvResign
    <2>2. wire[b][p] # <<>> /\ WireOK(wire)
      BY <1>6 DEF RecvResign, Arrives, IInv
    <2>3. f \in Frame /\ f \in Inbound(b, p)
      BY <2>2, PopOK
    <2> HIDE DEF f
    <2>4. f.src \in Boards \ {b}
      BY <2>3, ChainAssumption DEF Frame, Inbound
    <2>5. Sound(u, b)
      BY <1>2, <2>4, RxResignSound
    <2>6. u.state # "ACTIVE"
      BY <1>1, <2>1, <2>5, DrainState DEF Sound
    <2>7. Overdue(node[b]) /\ "broadcast_release" \in u.ev
      BY <1>1, <1>2, <2>4, <2>6, RxResignReleases
    <2>8. Sent(b, "RELEASE")
      BY <2>1, <2>2, <2>5, <2>7, RelayOK, RelayGrows, DrainReleases
    <2>9. QED
      BY <2>7, <2>8
  <1>7. CASE Crash(b) \/ Shutdown(b)
    <2>1. node'[b] = Boot(b, {})
      BY <1>7 DEF Crash, Shutdown, PowerOff, IInv
    <2>2. QED
      BY <1>1, <2>1 DEF Boot
  <1>8. CASE KeysChange(b) \/ PlugKeyboard(b) \/ TimePasses
    BY <1>1, <1>8, RoleKept
  <1>9. QED
    BY <1>1, <1>3, <1>4, <1>5, <1>6, <1>7, <1>8, ElectionSteps

\* A board joins ticked by its own tick
LEMMA OnlyTickTicks ==
  ASSUME IInv, NEW b \in Boards, Next, b \in ticked' \ ticked
  PROVE  TickStep(b)
  <1>1. ASSUME NEW c \in Boards,
               \/ PowerOn(c) \/ KeysChange(c) \/ Crash(c) \/ Shutdown(c)
               \/ PlugKeyboard(c)
        PROVE  FALSE
    BY <1>1 DEF PowerOn, KeysChange, Crash, Shutdown, PlugKeyboard, PowerOff
  <1>2. ASSUME NEW c \in Boards, NEW p \in Port,
               \/ RecvHello(c, p) \/ RecvResign(c, p)
               \/ RecvRelease(c, p) \/ Lose(c, p)
        PROVE  FALSE
    BY <1>2 DEF RecvHello, RecvResign, RecvRelease, Lose
  <1>3. ~(PullCable \/ MendCable \/ TimePasses)
    BY DEF PullCable, MendCable, TimePasses
  <1>4. ASSUME NEW c \in Boards, TickStep(c)
        PROVE  c = b
    BY <1>4 DEF TickStep
  <1>5. QED
    BY <1>1, <1>2, <1>3, <1>4 DEF Next

\* Past the deadline a board's own tick ends its role
LEMMA OverdueStandsDown ==
  ASSUME IInv, Next, NEW b \in Boards, node[b].resign_pending,
         node[b].defer = 0, b \in ticked' \ ticked
  PROVE  StandsDown(b)
  <1>1. Sound(node[b], b) /\ Follows(node[b], b)
    BY DEF IInv, RecordsOK
  <1>2. TickStep(b)
    BY OnlyTickTicks
  <1>3. node[b].state = "ACTIVE" /\ node[b].started
    BY <1>1, <1>2 DEF Sound, Follows, TickStep, Up
  <1>4. PICK u \in Tick(node[b]) : Drain(b, u, wire)
    BY <1>2 DEF TickStep
  <1>5. Sound(u, b) /\ u.state = "LISTEN"
    BY <1>1, <1>3, <1>4, TickSound, TickResigns
  <1>6. node'[b].state = "LISTEN" /\ node'[b].started
    BY <1>4, <1>5, DrainState DEF Sound
  <1>7. QED
    BY <1>3, <1>6 DEF StandsDown

\* Steps that are no entry point of the election do not put the deadline off
LEMMA DeadlineKept ==
  ASSUME IInv, NEW b \in Boards,
         KeysChange(b) \/ PlugKeyboard(b) \/ TimePasses
  PROVE  node'[b].defer <= node[b].defer
  <1>1. node[b] \in Node /\ node[b].defer \in 0..DEFER /\ DEFER \in Nat
    BY TimingAssumption DEF IInv, Node
  <1>2. CASE KeysChange(b)
    <2>1. node'[b] = SetKeysHeld(node[b], ~node[b].keys_held)
      BY <1>2 DEF KeysChange, IInv
    <2>2. node'[b].defer = node[b].defer
      BY <1>1, <2>1, Zenon DEF SetKeysHeld, Node
    <2>3. QED
      BY <1>1, <2>2
  <1>3. CASE PlugKeyboard(b)
    <2>1. PICK caps : node' = [node EXCEPT ![b].caps = caps]
      BY <1>3, Zenon DEF PlugKeyboard
    <2>2. node'[b] = [node[b] EXCEPT !.caps = caps]
      BY <2>1, Zenon DEF IInv
    <2>3. node'[b].defer = node[b].defer
      BY <1>1, <2>2, Zenon DEF Node
    <2>4. QED
      BY <1>1, <2>3
  <1>4. CASE TimePasses
    <2>1. node'[b] = Elapse(node[b]) \/ node'[b] = node[b]
      BY <1>4, Zenon DEF TimePasses
    <2>2. Elapse(node[b]).defer
            = IF node[b].defer > 0 THEN node[b].defer - 1 ELSE node[b].defer
      BY <1>1, Zenon DEF Elapse, Node
    <2>3. QED
      BY <1>1, <2>1, <2>2
  <1>5. QED
    BY <1>2, <1>3, <1>4

\* No step moves the deadline of a pending resignation
LEMMA DeadlineStands ==
  ASSUME IInv, Next, NEW b \in Boards, node[b].resign_pending,
         node'[b].resign_pending
  PROVE  node'[b].defer <= node[b].defer
  <1>1. /\ Sound(node[b], b) /\ Follows(node[b], b)
        /\ node[b].defer \in 0..DEFER /\ DEFER \in Nat
    BY TimingAssumption DEF IInv, RecordsOK, Sound, Node
  <1>2. node[b].started
    BY <1>1 DEF Sound
  <1>3. CASE node'[b] = node[b]
    BY <1>1, <1>3
  <1>4. CASE PowerOn(b)
    BY <1>2, <1>4 DEF PowerOn, Up
  <1>5. CASE TickStep(b)
    <2>1. PICK u \in Tick(node[b]) : Drain(b, u, wire)
      BY <1>5 DEF TickStep
    <2>2. Sound(u, b) /\ u.defer = node[b].defer
      BY <1>1, <1>2, <2>1, TickSound, TickResigns
    <2>3. node'[b].defer = u.defer
      BY <2>1, <2>2, DrainState DEF Sound
    <2>4. QED
      BY <1>1, <2>2, <2>3
  <1>6. ASSUME NEW p \in Port, RecvHello(b, p)
        PROVE  node'[b].defer <= node[b].defer
    <2> DEFINE f == Head(wire[b][p])
    <2>1. PICK u \in RxHello(node[b], f.src, f) : Drain(b, u, Relay(b, p))
      BY <1>6 DEF RecvHello
    <2>2. wire[b][p] # <<>> /\ WireOK(wire)
      BY <1>6 DEF RecvHello, Arrives, IInv
    <2>3. f \in Frame
      BY <2>2, PopOK
    <2> HIDE DEF f
    <2>4. f.src \in Boards /\ f.state \in State /\ f.caps \in SUBSET Caps
      BY <2>3 DEF Frame
    <2>5. Sound(u, b)
      BY <1>1, <1>2, <2>4, RxHelloSound
    <2>6. u.defer = node[b].defer
      BY <1>1, <1>2, <2>4, RxHelloKeepsDeadline
    <2>7. node'[b].defer = u.defer
      BY <2>1, <2>5, DrainState DEF Sound
    <2>8. QED
      BY <1>1, <2>6, <2>7
  <1>7. ASSUME NEW p \in Port, RecvResign(b, p)
        PROVE  node'[b].defer <= node[b].defer
    <2> DEFINE f == Head(wire[b][p])
    <2>1. PICK u \in RxResign(node[b], f.src) : Drain(b, u, Relay(b, p))
      BY <1>7 DEF RecvResign
    <2>2. wire[b][p] # <<>> /\ WireOK(wire)
      BY <1>7 DEF RecvResign, Arrives, IInv
    <2>3. f \in Frame /\ f \in Inbound(b, p)
      BY <2>2, PopOK
    <2> HIDE DEF f
    <2>4. f.src \in Boards \ {b}
      BY <2>3, ChainAssumption DEF Frame, Inbound
    <2>5. Sound(u, b) /\ u.defer = node[b].defer
      BY <1>1, <1>2, <2>4, RxResignSound, RxResignKeepsDeadline
    <2>6. node'[b].defer = u.defer
      BY <2>1, <2>5, DrainState DEF Sound
    <2>7. QED
      BY <1>1, <2>5, <2>6
  <1>8. CASE Crash(b) \/ Shutdown(b)
    <2>1. node'[b] = Boot(b, {})
      BY <1>8 DEF Crash, Shutdown, PowerOff, IInv
    <2>2. QED
      BY <2>1 DEF Boot
  <1>9. CASE KeysChange(b) \/ PlugKeyboard(b) \/ TimePasses
    BY <1>9, DeadlineKept
  <1>10. QED
    BY <1>3, <1>4, <1>5, <1>6, <1>7, <1>8, <1>9, ElectionSteps

(***************************************************************************)
(* Rule 1 (uhrp.h:14-21), for every chain and every deadline: the holder   *)
(* of the role stands down with a key held only past the deadline of a     *)
(* resignation that was pending already, and the release leaves towards    *)
(* every neighbour in the same step; no challenge in the meantime moves    *)
(* that deadline, and the first tick past it stands down.                  *)
(***************************************************************************)
THEOREM RuleOne == Spec => StandsDownCleanly
  <1> DEFINE A(b) ==
        /\ StandsDown(b) /\ node[b].keys_held
             => Overdue(node[b]) /\ Sent(b, "RELEASE")
        /\ node[b].resign_pending =>
             /\ node'[b].resign_pending => node'[b].defer <= node[b].defer
             /\ node[b].defer = 0 /\ b \in ticked' \ ticked => StandsDown(b)
  <1>1. ASSUME IInv, Next, NEW b \in Boards
        PROVE  A(b)
    BY <1>1, StandsDownReleases, OverdueStandsDown, DeadlineStands
  <1>2. IInv /\ [Next]_vars => [\A b \in Boards : A(b)]_vars
    BY <1>1
  <1>3. QED
    BY <1>2, Inductive, PTL DEF Spec, StandsDownCleanly

\* Rule 2 for a takeover by tick
LEMMA TakeoverOnTick ==
  ASSUME IInv, Next, NEW b \in Boards, Promoted(b), node[b].active # NoAddr,
         b \in ticked' \ ticked
  PROVE  Sent(b, "RELEASE")
  <1>1. node[b].state # "ACTIVE" /\ node'[b].state = "ACTIVE"
    BY DEF Promoted
  <1>2. TickStep(b)
    BY OnlyTickTicks
  <1>3. Sound(node[b], b) /\ Follows(node[b], b) /\ node[b].started
    BY <1>2 DEF IInv, RecordsOK, TickStep, Up
  <1>4. PICK u \in Tick(node[b]) : Drain(b, u, wire)
    BY <1>2 DEF TickStep
  <1>5. Sound(u, b)
    BY <1>3, TickSound
  <1>6. u.state = "ACTIVE"
    BY <1>1, <1>4, <1>5, DrainState DEF Sound
  <1>7. "broadcast_release" \in u.ev
    BY <1>1, <1>3, <1>6, TickTakeover
  <1>8. \A d \in Boards, p \in Port : Len(wire[d][p]) >= Len(wire[d][p])
    BY LenProperties DEF IInv, WireOK
  <1>9. WireOK(wire)
    BY DEF IInv
  <1>10. QED
    BY <1>4, <1>5, <1>7, <1>8, <1>9, DrainReleases

(***************************************************************************)
(* The half of rule 2 (uhrp.h:23-28) that dhp_uhrp_tick is responsible     *)
(* for: a takeover decided by a board's own tick, from a speaker it was    *)
(* following, always broadcasts a release.  The other half, a takeover     *)
(* decided while a frame is received, is refuted by a run.                 *)
(***************************************************************************)
THEOREM RuleTwoOnTick == Spec => TickTakeoverReleases
  <1>1. IInv /\ [Next]_vars =>
          [\A b \in Boards :
             Promoted(b) /\ node[b].active # NoAddr /\ b \in ticked' \ ticked
               => Sent(b, "RELEASE")]_vars
    BY TakeoverOnTick
  <1>2. QED
    BY <1>1, Inductive, PTL DEF Spec, TickTakeoverReleases
=============================================================================
