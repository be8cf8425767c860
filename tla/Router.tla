------------------------------- MODULE Router -------------------------------
(***************************************************************************)
(* Input routing on a chain (core/src/router.c with hid.c and pointer.c):  *)
(* the board with the keyboard captures reports, the active speaker sends  *)
(* them to the machine in focus and moves the focus, every machine acts on *)
(* what reaches its board.  Boards sit at positions 1..N of a line and     *)
(* hand frames on in order (Link).  The election is reduced to what Uhrp   *)
(* does on a connected chain: who is followed, pending resignations, and   *)
(* whether a vacancy is clean; its timers become choices.                  *)
(*                                                                         *)
(* What a machine holds is a set of classes: "key" for any key or modifier *)
(* of the keyboard report, "btn" for any mouse button.                     *)
(***************************************************************************)
EXTENDS Integers, Sequences, FiniteSets

CONSTANTS
  N,            \* length of the chain
  Machines,     \* boards that are a keyboard to a machine: DHP_CAP_HID_OUT
  Keyboard,     \* the board the real keyboard and mouse are plugged into
  Coordinators, \* boards that preempt; no machine of their own
  NoAddr,       \* DHP_ADDR_NONE
  SPAN, PUSH, GUARD, \* pointer.cfg: span, push_threshold, reentry_guard
  MaxHeld,      \* bound: classes the user holds down at once
  MaxFaults,    \* bound: crashes, exits, unplugged keyboards, dropped reports
  MaxFlight     \* bound: busy wires, and frames on each, when a key changes

Boards == 1..N

ASSUME RoutingAssumption ==
  /\ N \in Nat \ {0}
  /\ Machines \subseteq Boards /\ Coordinators \subseteq Boards \ Machines
  /\ Keyboard \in Machines
  /\ NoAddr \notin Boards
  /\ {SPAN, PUSH} \subseteq Nat \ {0} /\ GUARD \in 0..SPAN
  /\ {MaxHeld, MaxFaults, MaxFlight} \subseteq Nat

VARIABLES
  router,   \* router[b]: dhp_router_t of b, the part of its election that
            \* routing sees, and what its machine holds
  wire,     \* wire[b][p]: frames on their way to port p of b
  phys,     \* what the user is really holding down
  faults

vars == <<router, wire, phys, faults>>

Class == {"key", "btn"}

Up == {b \in Boards : router[b].up}

\* the chain table: an entry is the capabilities its board announced, and
\* "used" from the first frame it was heard by
Known(r) == {d \in Boards : "used" \in r.chain[d]}

IsActive(r) == r.active = r.self

-----------------------------------------------------------------------------
(* Pointer: travel saturates at the edges, and only pushing on while pinned *)
(* there counts towards a crossing.  Horizontal axis, the one enabled.      *)

Clamp(v, lo, hi) == IF v < lo THEN lo ELSE IF v > hi THEN hi ELSE v

\* bleed: what push_decay_per_ms has eaten since the last report
Decay(p, bleed) ==
  [p EXCEPT !.push = IF @ > 0 THEN (IF @ > bleed THEN @ - bleed ELSE 0)
                     ELSE IF -@ > bleed THEN @ + bleed ELSE 0]

\* Mutants of AxisFeed: travel runs on past the edge; moving away from the edge keeps the push
AxisFeedUnclamped(p, d) ==
  [travel |-> p.travel + d,
   push |-> IF (p.travel >= SPAN /\ d > 0) \/ (p.travel <= -SPAN /\ d < 0)
            THEN p.push + d ELSE p.push]

AxisFeedKeeps(p, d) ==
  [travel |-> Clamp(p.travel + d, -SPAN, SPAN),
   push |-> IF (p.travel >= SPAN /\ d > 0) \/ (p.travel <= -SPAN /\ d < 0)
            THEN p.push + d ELSE p.push]

AxisFeed(p, d) ==
  [travel |-> Clamp(p.travel + d, -SPAN, SPAN),
   push |-> IF (p.travel >= SPAN /\ d > 0) \/ (p.travel <= -SPAN /\ d < 0)
            THEN p.push + d
            ELSE IF (p.push > 0 /\ d < 0) \/ (p.push < 0 /\ d > 0)
            THEN 0 ELSE p.push]

Crossing(p) == IF p.push >= PUSH THEN 1 ELSE IF p.push <= -PUSH THEN -1 ELSE 0

\* having left by the edge in direction e, the pointer enters at the other
Arrive(e) == [travel |-> e * (GUARD - SPAN), push |-> 0]

-----------------------------------------------------------------------------
(* Sending.  A handler works on the record of its board: r.out collects the *)
(* frames it sends, r.held is what its own machine holds; r.ready and       *)
(* r.bleed are what the step finds of the USB endpoint and of the clock.    *)

Everyone == 0

\* arg: a report's state, a focus target, or the sender's view of itself
Send(r, type, dst, arg) ==
  [r EXCEPT !.out = Append(@, [type |-> type, src |-> r.self, dst |-> dst,
                               arg |-> arg])]

Pressed(S, c, down) == IF down THEN S \cup {c} ELSE S \ {c}

\* hid_bridge_send_*: an endpoint the host has not collected from yet drops
\* the report, and r.lost remembers what the machine goes on holding
Deliver(r, c, down) ==
  IF ~r.ready THEN [r EXCEPT !.lost = @ \cup ({c} \cap r.held),
                             !.dropped = TRUE]
  ELSE [r EXCEPT !.held = Pressed(@, c, down), !.lost = @ \ {c}]

\* the tracker entry for a board: an unknown one shares our own
SlotOf(r, addr) == IF addr \in Known(r) THEN addr ELSE r.self

AnyHeld(r) == \E m \in Boards : r.hid[m] # {}

TypeOf(c) == IF c = "key" THEN "KBD" ELSE "MOUSE"

\* a frame for DHP_ADDR_NONE is taken by nobody
Pass(r, dst, c, down) ==
  IF dst = r.self THEN Deliver(r, c, down)
  ELSE IF dst = NoAddr THEN r
  ELSE Send(r, TypeOf(c), dst, down)

\* send_kbd_to, send_mouse_to
SendTo(r, dst, c, down) ==
  Pass([r EXCEPT !.hid[SlotOf(r, dst)] = Pressed(@, c, down)], dst, c, down)

\* Mutant of ReleaseMachine: the tracker is cleared, the machine not told
ReleaseMachineSilent(r, addr) == [r EXCEPT !.hid[SlotOf(r, addr)] = {}]

ReleaseMachine(r, addr) ==
  IF r.hid[SlotOf(r, addr)] = {} THEN r
  ELSE Pass(Pass([r EXCEPT !.hid[SlotOf(r, addr)] = {}],
                 addr, "key", FALSE), addr, "btn", FALSE)

ApplyFocus(r, target, edge) ==
  IF target \in {NoAddr, r.focus} THEN r
  ELSE Send([ReleaseMachine(r, r.focus) EXCEPT !.focus = target,
                                               !.pointer = Arrive(edge)],
            "FOCUS", Everyone, target)

-----------------------------------------------------------------------------
(* Where focus can go.  rel_pos is the true distance (Link).                *)

Pos(r, addr) == addr - r.self

Screens(r) == {d \in Known(r) : "HID_OUT" \in r.chain[d]}

Nearest(S, from) ==
  IF S = {} THEN NoAddr
  ELSE CHOOSE d \in S : \A e \in S : (d - from) * (d - from)
                                       <= (e - from) * (e - from)

\* the speaker counts as a screen itself, coordinator or not
NeighbourOf(r, from, dir) ==
  IF from \notin Known(r) THEN NoAddr
  ELSE Nearest({d \in Screens(r) \cup {r.self} : (d - from) * dir > 0}, from)

ButtonTarget(r) ==
  LET cur  == IF r.focus \in Known(r) THEN r.focus ELSE r.self
      next == {d \in Screens(r) : d > cur}
  IN  IF next # {} THEN Nearest(next, cur) ELSE Nearest(Screens(r), 1)

\* two boards at the same distance: the one in the earlier table slot, either
PickDefaultFocus(r) ==
  IF "HID_OUT" \in r.caps THEN {r.self}
  ELSE LET others == Screens(r) \ {r.self}
           dist(d) == (d - r.self) * (d - r.self)
       IN  IF others = {} THEN {NoAddr}
           ELSE {d \in others : \A e \in others : dist(d) <= dist(e)}

-----------------------------------------------------------------------------
(* The election, as far as routing takes part in it                         *)

SendHello(r) ==
  Send(r, "HELLO", Everyone, [caps |-> r.caps, active |-> IsActive(r)])

Outranks(b, bcaps, d, dcaps) ==
  LET rank(a, caps) == IF "COORD" \in caps THEN 2 * N + a
                       ELSE IF "HID_IN" \in caps THEN N + a ELSE a
  IN  rank(b, bcaps) > rank(d, dcaps)

LetGo(r) == Deliver(Deliver(r, "key", FALSE), "btn", FALSE)

BroadcastReleaseAll(r) ==
  LetGo([Send(r, "RELEASE", Everyone, 0) EXCEPT
           !.hid = [m \in Boards |-> {}]])

\* Rule 1, at every evaluation: resign when no key is held, or at the deadline
ServiceResign(r, deadline) ==
  IF ~r.resign_pending \/ (r.keys_held /\ ~deadline) THEN r
  ELSE LET s == IF r.keys_held THEN BroadcastReleaseAll(r) ELSE r
       IN  [Send(s, "RESIGN", Everyone, 0) EXCEPT
              !.resign_pending = FALSE, !.active = NoAddr]

\* become_active: a speaker that vanished may have left keys held
BecomeActive(r) ==
  [(IF r.active_valid /\ ~r.vacancy_clean THEN BroadcastReleaseAll(r) ELSE r)
     EXCEPT !.active = r.self, !.active_valid = TRUE, !.resign_pending = FALSE]

\* Mutant of Announce: the focus is adopted and nobody is told
AnnounceQuiet(r, f) == IF f = NoAddr THEN r ELSE [r EXCEPT !.focus = f]

\* a focus is adopted without touching the pointer or the tracker
Announce(r, f) ==
  IF f = NoAddr THEN r
  ELSE Send([r EXCEPT !.focus = f], "FOCUS", Everyone, f)

Promote(r) ==
  {Announce(SendHello(BecomeActive(r)), f) :
     f \in IF r.focus \in Known(r) THEN {r.focus} ELSE PickDefaultFocus(r)}

\* HELLO: the chain table and the election learn from it
RxHello(r, src, h) ==
  LET s == [r EXCEPT !.chain[src] = h.caps \cup {"used"}]
  IN  IF IsActive(r)
      THEN ServiceResign(
             [s EXCEPT !.resign_pending =
                @ \/ (/\ src \in Coordinators \/ h.active
                      /\ Outranks(src, h.caps, r.self, r.caps))], FALSE)
      ELSE IF h.active
      THEN [s EXCEPT !.active = src, !.active_valid = TRUE,
                     !.vacancy_clean = @ \/ r.active # src]
      ELSE s

\* a planned vacancy; an active board evaluates its own resignation
RxResign(r, src) ==
  IF IsActive(r) THEN ServiceResign(r, FALSE)
  ELSE IF r.active = src
  THEN [r EXCEPT !.active = NoAddr, !.vacancy_clean = TRUE] ELSE r

-----------------------------------------------------------------------------
(* Input *)

\* what follows a routed report: set_keys_held feeds rule 1
Noted(r) == [r EXCEPT !.keys_held = AnyHeld(r)]

Forward(r, input) ==
  IF "HID_IN" \notin r.caps \/ r.active = NoAddr THEN r
  ELSE Send(r, "INPUT", r.active, input)

\* Mutant of LocalKbd: the held keys are counted before the report is noted
LocalKbdEarly(r, i) ==
  IF ~IsActive(r) THEN Forward(r, i)
  ELSE SendTo(Noted(r), r.focus, "key", i.down)

LocalKbd(r, i) ==
  IF ~IsActive(r) THEN Forward(r, i)
  ELSE Noted(SendTo(r, r.focus, "key", i.down))

\* A report that crosses an edge is dropped, keys_held left as it was
LocalMouse(r, i) ==
  IF ~IsActive(r) THEN Forward(r, i)
  ELSE LET p == AxisFeed(Decay(r.pointer, r.bleed), i.dx)
           e == Crossing(p)
           s == [r EXCEPT !.pointer = IF e = 0 THEN p ELSE Arrive(e)]
           t == IF e = 0 THEN NoAddr ELSE NeighbourOf(r, r.focus, e)
       IN  IF t # NoAddr THEN ApplyFocus(s, t, e)
           ELSE Noted(SendTo(s, r.focus, "btn", i.down))

LocalInput(r, i) == IF i.kind = "KBD" THEN LocalKbd(r, i) ELSE LocalMouse(r, i)

\* input handed to the speaker, from a board known to have an input device
RxInput(r, src, i) ==
  IF IsActive(r) /\ "HID_IN" \in r.chain[src] THEN LocalInput(r, i) ELSE r

RxFocus(r, target) ==
  IF IsActive(r) THEN r
  ELSE LET s == [r EXCEPT !.focus = target]
       IN  IF r.focus = r.self /\ target # r.self
           THEN ReleaseMachine(s, r.self) ELSE s

\* dhp_router_rx, for a frame to us or to everybody
Rx(r, f) ==
  LET s == [r EXCEPT !.chain[f.src] = @ \cup {"used"}]
  IN  CASE f.type = "HELLO"   -> RxHello(s, f.src, f.arg)
        [] f.type = "RESIGN"  -> RxResign(s, f.src)
        [] f.type = "KBD"     -> Deliver(s, "key", f.arg)
        [] f.type = "MOUSE"   -> Deliver(s, "btn", f.arg)
        [] f.type = "FOCUS"   -> RxFocus(s, f.arg)
        [] f.type = "INPUT"   -> RxInput(s, f.src, f.arg)
        [] f.type = "RELEASE" -> LetGo([s EXCEPT !.hid[r.self] = {}])

-----------------------------------------------------------------------------
(* The chain *)

Port == {"UP", "DOWN"}

Opposite(p) == IF p = "UP" THEN "DOWN" ELSE "UP"

\* frames ms leave b through the ports of ps
Transmit(b, ps, ms, q) ==
  LET to(p) == IF p = "UP" THEN b - 1 ELSE b + 1
      into(p, w) == IF p \in ps /\ to(p) \in Up
                    THEN [w EXCEPT ![to(p)][Opposite(p)] = @ \o ms] ELSE w
  IN  IF ms = <<>> THEN q ELSE into("UP", into("DOWN", q))

Quiet == \A b \in Boards, p \in Port : wire[b][p] = <<>>

\* Keys change while frames are in flight (a bound: before the first fault);
\* the other events, rare against a frame's way down the chain, in between
Room ==
  LET busy == {w \in Boards \X Port : wire[w[1]][w[2]] # <<>>}
  IN  /\ Cardinality(busy) <= MaxFlight /\ (faults = 0 \/ busy = {})
      /\ \A w \in busy : Len(wire[w[1]][w[2]]) <= MaxFlight

\* while faults remain the USB endpoint may be busy
Ready == IF faults = MaxFaults THEN {TRUE} ELSE BOOLEAN

\* b's record as a step finds it: time has eaten away some push, or not
Found(b, y, e) == [router[b] EXCEPT !.ready = y, !.bleed = e]

Prepared(b) ==
  {Found(b, y, e) :
     y \in Ready, e \in IF router[b].pointer.push = 0 THEN {0} ELSE {0, 1}}

\* b ends a step with record r
Step(b, r, q) ==
  /\ router' = [router EXCEPT ![b] = [r EXCEPT !.out = <<>>, !.bleed = 0,
                                               !.ready = TRUE,
                                               !.dropped = FALSE]]
  /\ wire' = Transmit(b, Port, r.out, q)
  /\ faults' = IF r.dropped THEN faults + 1 ELSE faults

Receive(b, p) ==
  /\ b \in Up /\ wire[b][p] # <<>>
  /\ LET f == Head(wire[b][p])
         q == [wire EXCEPT ![b][p] = Tail(@)]
         relayed == IF f.dst = b THEN q ELSE Transmit(b, {Opposite(p)}, <<f>>, q)
     IN  \E r \in Prepared(b) :
           Step(b, IF f.dst \in {b, Everyone} THEN Rx(r, f) ELSE r, relayed)
  /\ UNCHANGED phys

Key ==
  /\ Keyboard \in Up /\ "HID_IN" \in router[Keyboard].caps /\ Room
  /\ LET down == "key" \notin phys
     IN  /\ phys' = Pressed(phys, "key", down)
         /\ Cardinality(phys') <= MaxHeld
         /\ \E r \in Prepared(Keyboard) :
              Step(Keyboard,
                   LocalInput(r, [kind |-> "KBD", down |-> down, dx |-> 0]),
                   wire)

\* a mouse report: a button changes, or the mouse moves
Mouse(down, dx) ==
  /\ Keyboard \in Up /\ "HID_IN" \in router[Keyboard].caps /\ Quiet
  /\ (dx = 0) <=> (down # ("btn" \in phys))
  /\ phys' = Pressed(phys, "btn", down)
  /\ Cardinality(phys') <= MaxHeld
  /\ \E r \in Prepared(Keyboard) :
       Step(Keyboard,
            LocalInput(r, [kind |-> "MOUSE", down |-> down, dx |-> dx]), wire)

\* the switch button of a board; only the speaker's does anything
Button(b) ==
  /\ b \in Up \cap Machines /\ Quiet /\ IsActive(router[b])
  /\ \E r \in Prepared(b) : Step(b, ApplyFocus(r, ButtonTarget(r), 0), wire)
  /\ UNCHANGED phys

\* deskhop-ctl focus <addr>, with an address that its status command lists
CtlFocus(b, target) ==
  /\ b \in Up \cap Coordinators /\ Quiet /\ IsActive(router[b])
  /\ target \in Known(router[b])
  /\ Step(b, ApplyFocus(router[b], target, 0), wire)
  /\ UNCHANGED phys

\* dhp_router_tick with a resignation pending, deadline reached or not
Tick(b) ==
  /\ b \in Up /\ Quiet /\ router[b].resign_pending
  /\ \E deadline \in BOOLEAN, r \in Prepared(b) :
       Step(b, ServiceResign(r, deadline), wire)
  /\ UNCHANGED phys

\* The periodic HELLO, when it tells somebody something new
Advertise(b) ==
  /\ b \in Up /\ Quiet
  /\ \E d \in Up \ {b} :
       \/ router[d].chain[b] # router[b].caps \cup {"used"}
       \/ IsActive(router[b]) /\ router[d].active # b
  /\ Step(b, SendHello(router[b]), wire)
  /\ UNCHANGED phys

-----------------------------------------------------------------------------
(* Vacancies and faults *)

CapsOf(b) == (IF b \in Machines THEN {"HID_OUT"} ELSE {})
               \cup (IF b = Keyboard THEN {"HID_IN"} ELSE {})
               \cup (IF b \in Coordinators THEN {"COORD"} ELSE {})

\* dhp_router_init; a board that is off has the record it will boot with
Boot(b) ==
  [self |-> b, up |-> FALSE, caps |-> CapsOf(b),
   chain |-> [d \in Boards |-> IF d = b THEN CapsOf(b) \cup {"used"} ELSE {}],
   focus |-> NoAddr, hid |-> [m \in Boards |-> {}], keys_held |-> FALSE,
   active |-> NoAddr, active_valid |-> FALSE, vacancy_clean |-> TRUE,
   resign_pending |-> FALSE, pointer |-> Arrive(0),
   held |-> {}, lost |-> {}, out |-> <<>>, ready |-> TRUE,
   dropped |-> FALSE, bleed |-> 0]

\* what every machine holds now is beyond the reach of any release
Orphaned(rs) ==
  [b \in Boards |-> [rs[b] EXCEPT !.lost = @ \cup rs[b].held]]

Fault == faults < MaxFaults /\ faults' = faults + 1

\* The running boards stay connected: a chain in pieces is two chains, and
\* how they split and merge is the subject of Election
Unbroken(S) == \A a, c \in S : a..c \subseteq S

\* dhp_router_start, and the HELLO that is due at once.
\* Booting and the learn window outlast a takeover: a board does not join
\* while the others are still replacing a speaker
PowerOn(b) ==
  /\ b \notin Up /\ Quiet /\ Unbroken(Up \cup {b})
  /\ (\E d \in Up : router[d].active_valid) => \E s \in Up : IsActive(router[s])
  /\ Step(b, SendHello([Boot(b) EXCEPT !.up = TRUE]), wire)
  /\ UNCHANGED phys

\* the best of the boards it knows, once it has heard a HELLO of every
\* running one (the learn window is several intervals) and nobody holds the
\* role
Candidate(b) ==
  /\ b \in Up /\ Quiet
  /\ \A d \in Up \ {b} :
       /\ ~IsActive(router[d])
       /\ router[b].chain[d] \notin {{}, {"used"}}
       /\ Outranks(b, router[b].caps, d, router[b].chain[d])

Takeover(b) ==
  /\ Candidate(b)
  /\ router[b].active = NoAddr
  /\ \E r0 \in Prepared(b) : \E r \in Promote(r0) : Step(b, r, wire)
  /\ UNCHANGED phys

\* the speaker b follows has been silent for a hold time
Vanished(b) == Quiet /\ b \in Up /\ router[b].active \in Boards \ Up

\* dhp_uhrp_tick finds it out
Expire(b) ==
  /\ Vanished(b)
  /\ Step(b, [router[b] EXCEPT !.active = NoAddr, !.vacancy_clean = FALSE],
          wire)
  /\ UNCHANGED phys

\* a HELLO of a third board does, and the vacancy passes for clean
ExpireUnnoticed(b) ==
  /\ Vanished(b) /\ Candidate(b) /\ Up # {b}
  /\ \E r \in Promote([Orphaned(router)[b] EXCEPT !.active = NoAddr]) :
       /\ router' = [Orphaned(router) EXCEPT ![b] = [r EXCEPT !.out = <<>>]]
       /\ wire' = Transmit(b, Port, r.out, wire)
  /\ UNCHANGED <<phys, faults>>

PowerOff(b, rs) == [rs EXCEPT ![b] = Boot(b)]

Unplugged(b, q) == [q EXCEPT ![b] = [p \in Port |-> <<>>]]

\* the keyboard loses power with its board
Crash(b) ==
  /\ b \in Up /\ Quiet /\ Fault /\ Unbroken(Up \ {b})
  /\ wire' = Unplugged(b, wire)
  /\ \/ /\ b # Keyboard
        /\ router' = PowerOff(b, router) /\ UNCHANGED phys
     \/ /\ b = Keyboard
        /\ router' = PowerOff(b, Orphaned(router)) /\ phys' = {}

\* the coordinator resigns on exit and lifts no keys
Exit(b) ==
  /\ b \in Up \cap Coordinators /\ IsActive(router[b]) /\ Quiet
  /\ Fault /\ Unbroken(Up \ {b})
  /\ router' = PowerOff(b, Orphaned(router))
  /\ wire' = Transmit(b, Port, Send(router[b], "RESIGN", Everyone, 0).out, wire)
  /\ UNCHANGED phys

\* dhp_router_set_caps: the keyboard is pulled out or plugged in again
Unplug ==
  /\ Keyboard \in Up /\ Quiet /\ Fault
  /\ "HID_IN" \in router[Keyboard].caps
  /\ router' = [Orphaned(router) EXCEPT
                  ![Keyboard].caps = @ \ {"HID_IN"},
                  ![Keyboard].chain[Keyboard] = @ \ {"HID_IN"}]
  /\ phys' = {}
  /\ UNCHANGED wire

Plug ==
  /\ Keyboard \in Up /\ Quiet
  /\ "HID_IN" \notin router[Keyboard].caps
  /\ router' = [router EXCEPT
                  ![Keyboard].caps = @ \cup {"HID_IN"},
                  ![Keyboard].chain[Keyboard] = @ \cup {"HID_IN"}]
  /\ UNCHANGED <<wire, phys, faults>>

-----------------------------------------------------------------------------
Init ==
  /\ router = [b \in Boards |-> Boot(b)]
  /\ wire = [b \in Boards |-> [p \in Port |-> <<>>]]
  /\ phys = {}
  /\ faults = 0

Next ==
  \/ \E b \in Boards :
       \/ \E p \in Port : Receive(b, p)
       \/ Button(b) \/ \E t \in Boards : CtlFocus(b, t)
       \/ Tick(b) \/ Advertise(b) \/ PowerOn(b)
       \/ Takeover(b) \/ Expire(b) \/ ExpireUnnoticed(b)
       \/ Crash(b) \/ Exit(b)
  \/ Key \/ \E down \in BOOLEAN, dx \in {-1, 0, 1} : Mouse(down, dx)
  \/ Unplug \/ Plug

Spec == Init /\ [][Next]_vars

-----------------------------------------------------------------------------
Caps == {"HID_OUT", "HID_IN", "COORD"}

Addr == Boards \cup {NoAddr}

RouterState ==
  [self : Boards, up : BOOLEAN, caps : SUBSET Caps,
   chain : [Boards -> SUBSET (Caps \cup {"used"})], focus : Addr,
   hid : [Boards -> SUBSET Class], keys_held : BOOLEAN, active : Addr,
   active_valid : BOOLEAN, vacancy_clean : BOOLEAN, resign_pending : BOOLEAN,
   pointer : [travel : -SPAN..SPAN, push : (1 - PUSH)..(PUSH - 1)],
   held : SUBSET Class, lost : SUBSET Class, out : {<<>>}, ready : {TRUE},
   dropped : {FALSE}, bleed : {0}]

TypeOK ==
  /\ router \in [Boards -> RouterState]
  /\ \A b \in Boards, p \in Port : \A i \in 1..Len(wire[b][p]) :
       wire[b][p][i].src # b
  /\ phys \subseteq Class
  /\ faults \in 0..MaxFaults

\* all running boards know s as the speaker
Settled(s) == \A b \in Up : router[b].active = s

(* No machine is left holding a key: once the chain is quiet and agrees on *)
(* its speaker, a machine holds a key only if it has the focus and the     *)
(* user is really holding it, unless its USB endpoint dropped the release, *)
(* or the key was orphaned by a coordinator's exit, a pulled-out keyboard  *)
(* or a takeover that took the vacancy for clean.                          *)
NoStuckKeys ==
  Quiet => \A s \in Up : Settled(s) =>
    \A m \in Up : \A c \in router[m].held \ router[m].lost :
      m = router[s].focus /\ c \in phys

(* The speaker's idea of what it holds down, which lets a planned handover *)
(* go ahead, never falls short: while a tracked machine has a key down,    *)
(* keys_held is set, whatever focus switches happened in between.          *)
HandoverWaitsForKeys ==
  \A b \in Up : IsActive(router[b]) /\ ~router[b].keys_held
                  => ~AnyHeld(router[b])

(* Every board that has heard of a focus shows the speaker's.              *)
FocusAgrees ==
  Quiet => \A s \in Up : Settled(s) =>
    \A b \in Up : router[b].focus \in {NoAddr, router[s].focus}

(* Push only builds up while the pointer is pinned to the edge it pushes   *)
(* against.                                                                *)
PushMeansPinned ==
  \A b \in Boards : LET p == router[b].pointer
                     IN  /\ p.push > 0 => p.travel = SPAN
                         /\ p.push < 0 => p.travel = -SPAN

(* A planned handover leaves the user where they are: a new speaker starts *)
(* with the focus the others know.                                         *)
HandoverKeepsFocus ==
  [][\A b \in Up :
       ~IsActive(router[b]) /\ IsActive(router'[b]) =>
         \A d \in Up : router[d].focus \in {NoAddr, router'[b].focus}]_vars
=============================================================================
