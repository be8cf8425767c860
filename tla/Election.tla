------------------------------ MODULE Election ------------------------------
(***************************************************************************)
(* The boards of a chain electing their active speaker.  Boards sit at     *)
(* positions 1..N of a daisy chain; each runs the election of Uhrp and     *)
(* drains its events onto the chain after every entry point, as            *)
(* drain_uhrp() and the main loops do.  Boards are powered on and off,     *)
(* cables are pulled, frames are lost, keyboards are plugged in.           *)
(*                                                                         *)
(* A unit of time is the hello interval: within it every running board     *)
(* ticks once and every frame sent is delivered or lost, in any order.     *)
(***************************************************************************)
EXTENDS Uhrp, Sequences

CONSTANTS
  N,          \* length of the chain
  CapsOf,     \* CapsOf[b]: the sets of capabilities b may have at boot
  Keyboard,   \* boards a keyboard can be plugged into while running
  Mortal,     \* boards that can crash or be shut down
  Cables,     \* c \in Cables: the cable between c and c + 1 can be pulled
  MaxFaults,  \* bound: crashes, cables pulled, capability changes
  MaxLoss,    \* bound: frames lost
  MaxFlight   \* bound: ports with a frame on the wire when a loop runs or
              \* an external event happens

ASSUME ChainAssumption ==
  /\ N \in Nat \ {0}
  /\ Boards = 1..N
  /\ CapsOf \in [Boards -> SUBSET (SUBSET Caps)]
  /\ Keyboard \subseteq Boards /\ Mortal \subseteq Boards
  /\ Cables \subseteq 1..(N - 1)
  /\ MaxFaults \in Nat /\ MaxLoss \in Nat
  /\ MaxFlight \in Nat

VARIABLES
  node,     \* node[b]: the election record of board b
  wire,     \* wire[b][p]: frames on their way to port p of board b
  cut,      \* the pulled cable, between cut and cut + 1; 0 if none
  ticked,   \* the boards whose loop has run in this unit of time
  faults,   \* faults and losses so far
  losses,
  calm,     \* history: units of time since the last fault
  owed      \* history: <<b, a>> when b followed the active speaker a as it
            \* died mid-chord, until a release is broadcast

vars == <<node, wire, cut, ticked, faults, losses, calm, owed>>

-----------------------------------------------------------------------------
(* The chain: port UP of a board faces the board before it, DOWN the next. *)

Port == {"UP", "DOWN"}

Up == {b \in Boards : node[b].started}

\* the neighbours of b that a frame sent on port p of b reaches, 0 or 1
Neighbour(b, p) ==
  {d \in Up : \/ p = "UP" /\ d = b - 1 /\ cut # d
              \/ p = "DOWN" /\ d = b + 1 /\ cut # b}

Opposite(p) == IF p = "UP" THEN "DOWN" ELSE "UP"

\* frames ms leave board b through the ports of ps
Transmit(b, ps, ms, q) ==
  [d \in Boards |-> [p \in Port |->
     IF Opposite(p) \in ps /\ d \in Neighbour(b, Opposite(p))
     THEN q[d][p] \o ms ELSE q[d][p]]]

Frame == [type : {"HELLO", "RESIGN", "RELEASE"}, src : Boards, state : State,
          caps : SUBSET Caps]

Hello(u) == [type |-> "HELLO", src |-> u.addr, state |-> u.state,
             caps |-> u.caps]
Resign(b) == [type |-> "RESIGN", src |-> b, state |-> "INIT", caps |-> {}]
Release(b) == [type |-> "RELEASE", src |-> b, state |-> "INIT", caps |-> {}]

If(c, m) == IF c THEN <<m>> ELSE <<>>

\* drain_uhrp: the frames an entry point's events put on the chain
Frames(u) ==
  If("broadcast_release" \in u.ev, Release(u.addr))
    \o If("send_resign" \in u.ev, Resign(u.addr))
    \o If("send_hello" \in u.ev, Hello(u))

\* board b ends an entry point with record u
Drain(b, u, q) ==
  /\ node' = [node EXCEPT ![b] = TakeEvents(u)]
  /\ wire' = Transmit(b, Port, Frames(u), q)
  /\ owed' = IF "broadcast_release" \in u.ev THEN {} ELSE owed

\* Mutant of Relay: the frame leaves by both ports
RelayBothWays(b, p) ==
  Transmit(b, Port, <<Head(wire[b][p])>>, [wire EXCEPT ![b][p] = Tail(@)])

\* the first frame for port p of b is received, and relayed out of the other
Relay(b, p) ==
  Transmit(b, {Opposite(p)}, <<Head(wire[b][p])>>,
           [wire EXCEPT ![b][p] = Tail(@)])

InFlight == {w \in Boards \X Port : wire[w[1]][w[2]] # <<>>}

Quiet == Cardinality(InFlight) <= MaxFlight

-----------------------------------------------------------------------------
(* Board steps *)

PowerOn(b) ==
  /\ b \notin Up
  /\ Quiet
  /\ \E caps \in CapsOf[b] : Drain(b, Start(Boot(b, caps)), wire)
  /\ ticked' = ticked \ {b}
  /\ calm' = 0
  /\ UNCHANGED <<cut, faults, losses>>

TickStep(b) ==
  /\ b \in Up \ ticked
  /\ Quiet
  /\ \E u \in Tick(node[b]) : Drain(b, u, wire)
  /\ ticked' = ticked \cup {b}
  /\ UNCHANGED <<cut, faults, losses, calm>>

Arrives(b, p, type) ==
  b \in Up /\ wire[b][p] # <<>> /\ Head(wire[b][p]).type = type

RecvHello(b, p) ==
  /\ Arrives(b, p, "HELLO")
  /\ LET f == Head(wire[b][p])
     IN  \E u \in RxHello(node[b], f.src, f) : Drain(b, u, Relay(b, p))
  /\ UNCHANGED <<cut, ticked, faults, losses, calm>>

RecvResign(b, p) ==
  /\ Arrives(b, p, "RESIGN")
  /\ \E u \in RxResign(node[b], Head(wire[b][p]).src) :
       Drain(b, u, Relay(b, p))
  /\ UNCHANGED <<cut, ticked, faults, losses, calm>>

\* the election takes no part in a RELEASE
RecvRelease(b, p) ==
  /\ Arrives(b, p, "RELEASE")
  /\ wire' = Relay(b, p)
  /\ UNCHANGED <<node, cut, ticked, faults, losses, calm, owed>>

\* dhp_router_local_kbd on the active board: the count of held keys changes
KeysChange(b) ==
  /\ node[b].state = "ACTIVE"
  /\ Quiet
  /\ node' = [node EXCEPT ![b] = SetKeysHeld(@, ~@.keys_held)]
  /\ UNCHANGED <<wire, cut, ticked, faults, losses, calm, owed>>

-----------------------------------------------------------------------------
(* The environment *)

\* A learn window, a hold time and a deferred handover, one more interval for
\* each frame that may be lost on the way: what a chain needs to settle.
Settle == LEARN + HOLD + DEFER + MaxLoss * HELLO

Fault == Quiet /\ faults < MaxFaults /\ faults' = faults + 1 /\ calm' = 0

\* what the board was about to receive is gone with it
PowerOff(b) ==
  /\ node' = [node EXCEPT ![b] = Boot(b, {})]
  /\ ticked' = ticked \ {b}

Crash(b) ==
  /\ b \in Up \cap Mortal
  /\ Fault
  /\ PowerOff(b)
  /\ wire' = [wire EXCEPT ![b] = [p \in Port |-> <<>>]]
  /\ owed' = {w \in owed : w[1] # b} \cup
               {<<d, b>> : d \in {e \in Up \ {b} : /\ node[e].active = b
                                                   /\ node[b].state = "ACTIVE"
                                                   /\ node[b].keys_held}}
  /\ UNCHANGED <<cut, losses>>

\* The coordinator's exit: RESIGN, outside the election, then silence
Shutdown(b) ==
  /\ b \in Up \cap Mortal /\ "COORD" \in node[b].caps
  /\ Fault
  /\ PowerOff(b)
  /\ wire' = [Transmit(b, Port, If(node[b].state = "ACTIVE", Resign(b)), wire)
                EXCEPT ![b] = [p \in Port |-> <<>>]]
  /\ owed' = {w \in owed : w[1] # b}
  /\ UNCHANGED <<cut, losses>>

\* dhp_router_set_caps: a keyboard is plugged in or out
PlugKeyboard(b) ==
  /\ b \in Up \cap Keyboard
  /\ Fault
  /\ LET caps == node[b].caps
     IN  node' = [node EXCEPT ![b].caps = IF "HID_IN" \in caps
                                          THEN caps \ {"HID_IN"}
                                          ELSE caps \cup {"HID_IN"}]
  /\ UNCHANGED <<wire, cut, ticked, losses, owed>>

PullCable ==
  /\ cut = 0
  /\ cut' \in Cables
  /\ Fault
  /\ UNCHANGED <<node, wire, ticked, losses, owed>>

MendCable ==
  /\ cut # 0
  /\ Quiet
  /\ cut' = 0
  /\ calm' = 0
  /\ UNCHANGED <<node, wire, ticked, faults, losses, owed>>

Lose(b, p) ==
  /\ wire[b][p] # <<>>
  /\ losses < MaxLoss
  /\ losses' = losses + 1
  /\ wire' = [wire EXCEPT ![b][p] = Tail(@)]
  /\ UNCHANGED <<node, cut, ticked, faults, calm, owed>>

\* the next unit, once every loop has run and every frame has arrived
TimePasses ==
  /\ Up \subseteq ticked
  /\ InFlight = {}
  /\ node' = [b \in Boards |-> IF b \in Up THEN Elapse(node[b]) ELSE node[b]]
  /\ ticked' = {}
  /\ calm' = IF calm < Settle THEN calm + 1 ELSE calm
  /\ UNCHANGED <<wire, cut, faults, losses, owed>>

-----------------------------------------------------------------------------
Init ==
  /\ node = [b \in Boards |-> Boot(b, {})]
  /\ wire = [b \in Boards |-> [p \in Port |-> <<>>]]
  /\ cut = 0
  /\ ticked = {}
  /\ faults = 0
  /\ losses = 0
  /\ calm = 0
  /\ owed = {}

Next ==
  \/ \E b \in Boards :
       \/ PowerOn(b) \/ TickStep(b) \/ KeysChange(b)
       \/ Crash(b) \/ Shutdown(b) \/ PlugKeyboard(b)
       \/ \E p \in Port : \/ RecvHello(b, p) \/ RecvResign(b, p)
                          \/ RecvRelease(b, p) \/ Lose(b, p)
  \/ PullCable \/ MendCable \/ TimePasses

Spec == Init /\ [][Next]_vars

(***************************************************************************)
(* Every running board's loop keeps running, what is on a wire arrives or  *)
(* is lost, and time goes on.                                              *)
(***************************************************************************)
Fairness ==
  /\ \A b \in Boards :
       /\ WF_vars(TickStep(b))
       /\ \A p \in Port :
            WF_vars(RecvHello(b, p) \/ RecvResign(b, p) \/ RecvRelease(b, p))
  /\ WF_vars(TimePasses)

FairSpec == Spec /\ Fairness

-----------------------------------------------------------------------------
TypeOK ==
  /\ node \in [Boards -> Node]
  /\ wire \in [Boards -> [Port -> Seq(Frame)]]
  /\ cut \in 0..(N - 1)
  /\ ticked \subseteq Boards
  /\ faults \in 0..MaxFaults
  /\ losses \in 0..MaxLoss
  /\ calm \in 0..Settle
  /\ owed \subseteq Boards \X Boards

(* A relayed frame only ever moves away from the board that sent it, so no *)
(* board acts on a RESIGN of its own.                                      *)
Inbound(b, p) == {f \in Frame : IF p = "UP" THEN f.src < b ELSE f.src > b}

NoEcho == \A b \in Boards, p \in Port : wire[b][p] \in Seq(Inbound(b, p))

Actives == {b \in Up : node[b].state = "ACTIVE"}

Between(s, d) == {k \in Boards : (s < k /\ k < d) \/ (d < k /\ k < s)}

Connected(s, d) ==
  /\ Between(s, d) \subseteq Up
  /\ ~(cut # 0 /\ ((s <= cut /\ d > cut) \/ (d <= cut /\ s > cut)))

Reach(b) == {d \in Up \ {b} : Connected(b, d)}

Component(b) == {b} \cup Reach(b)

Agree(b, a) ==
  /\ Actives \cap Component(b) = {a}
  /\ \A c \in Component(b) : node[c].active = a

(* Within Settle units of the last fault every set of connected boards has *)
(* exactly one ACTIVE board, all of them know it, and it is not a board    *)
(* that a stronger coordinator should have replaced.                       *)
Converged ==
  calm = Settle =>
    \A b \in Up : \E a \in Component(b) :
      /\ Agree(b, a)
      /\ \A c \in Preempt \cap Component(b) :
           ~Better(PriorityFromCaps(node[c].caps), Uid[c],
                   PriorityFromCaps(node[a].caps), Uid[a])

(* Fewer lost frames than fit in a hold time cause no role change on a     *)
(* settled chain.                                                          *)
RoleStable == [][calm = Settle /\ calm' = Settle => Actives' = Actives]_vars

(* Once faults stop, the chain agrees for good.                            *)
EventuallyAgreed == <>[](\A b \in Up : \E a \in Component(b) : Agree(b, a))

(* A board forwards input to itself, or believes it holds the role, only   *)
(* when it does (forward_input sends to u->active); a resignation is       *)
(* pending only on the holder; and a follower follows a board it still     *)
(* counts as live and ACTIVE.                                              *)
RoleInv ==
  \A b \in Boards :
    LET u == node[b]
    IN  /\ u.active = b <=> u.state = "ACTIVE"
        /\ u.resign_pending => u.state = "ACTIVE"
        /\ u.active \in Boards \ {b} =>
             /\ u.peers[u.active].used
             /\ u.peers[u.active].state = "ACTIVE"

Promoted(b) == node[b].state # "ACTIVE" /\ node'[b].state = "ACTIVE"

StandsDown(b) ==
  node[b].state = "ACTIVE" /\ node'[b].state # "ACTIVE" /\ node'[b].started

\* a frame of this type left b in this step, towards every neighbour
Sent(b, type) ==
  \A p \in Port : \A d \in Neighbour(b, p) :
    \E i \in (Len(wire[d][Opposite(p)]) + 1) .. Len(wire'[d][Opposite(p)]) :
      /\ wire'[d][Opposite(p)][i].type = type
      /\ wire'[d][Opposite(p)][i].src = b

(* Rule 1: a challenged board with a key held does not stand down before   *)
(* the deadline of the resignation that was pending already, and has then  *)
(* broadcast a release; no challenge in the meantime moves the deadline,   *)
(* and past it the board's next tick stands down.                          *)
StandsDownCleanly ==
  [][\A b \in Boards :
       /\ StandsDown(b) /\ node[b].keys_held
            => Overdue(node[b]) /\ Sent(b, "RELEASE")
       /\ node[b].resign_pending =>
            /\ node'[b].resign_pending => node'[b].defer <= node[b].defer
            /\ node[b].defer = 0 /\ b \in ticked' \ ticked => StandsDown(b)]_vars

(* The half of rule 2 that lives in dhp_uhrp_tick: a board whose own tick  *)
(* finds the speaker it follows silent for a hold time, and takes over,    *)
(* has broadcast a release.                                                *)
TickTakeoverReleases ==
  [][\A b \in Boards :
       Promoted(b) /\ node[b].active # NoAddr /\ b \in ticked' \ ticked
         => Sent(b, "RELEASE")]_vars

(* Rule 2: a board that followed an active speaker which died mid-chord    *)
(* and is still gone broadcasts a release when it takes over.              *)
TakeoverReleases ==
  [][\A w \in owed :
       w[2] \notin Up /\ Promoted(w[1]) => Sent(w[1], "RELEASE")]_vars

=============================================================================
