-------------------------------- MODULE Uhrp --------------------------------
(***************************************************************************)
(* The role election of one board (core/src/uhrp.c), as operators that     *)
(* take the board's election record u and return the next one.  Time is    *)
(* kept as elapsed units: the age of a peer's last HELLO, the time spent   *)
(* in the current state, the time left to the next HELLO and to the        *)
(* resignation deadline.  Elapse(u) is one unit of the board's clock.      *)
(***************************************************************************)
EXTENDS Integers, FiniteSets

CONSTANTS
  Boards,     \* the addresses boards may have
  NoAddr,     \* DHP_ADDR_NONE
  Uid,        \* Uid[b]: the unique id in b's flash, the tie breaker
  Preempt,    \* the boards configured to take the role from a weaker holder
  MaxPeers,   \* DHP_MAX_BOARDS: slots of the peer table
  HELLO,      \* timing.hello_ms
  HOLD,       \* timing.hold_ms
  LEARN,      \* timing.learn_ms
  DEFER       \* timing.handover_defer_max_ms

(***************************************************************************)
(* uint16_t and a count of slots: what dhp_uhrp_config_t can hold.         *)
(***************************************************************************)
ASSUME TimingAssumption ==
  /\ HELLO \in Nat \ {0}
  /\ HOLD \in Nat \ {0}
  /\ LEARN \in Nat
  /\ DEFER \in Nat
  /\ MaxPeers \in Nat

ASSUME BoardsAssumption ==
  /\ NoAddr \notin Boards
  /\ Uid \in [Boards -> Nat]
  /\ Preempt \subseteq Boards

Caps == {"HID_OUT", "HID_IN", "DISPLAY", "CONFIG", "CLIPBOARD", "FILES",
         "IMAGES", "SHARE", "COORD"}

State == {"INIT", "LEARN", "LISTEN", "SPEAK", "STANDBY", "ACTIVE"}

-----------------------------------------------------------------------------
(* Ordering: the most capable wins, ties break on the uid. *)

Better(pa, ua, pb, ub) ==
  IF pa # pb THEN pa > pb ELSE ua > ub

PriorityFromCaps(caps) ==
  LET p == 50 + (IF "COORD"   \in caps THEN 100 ELSE 0)
              + (IF "HID_IN"  \in caps THEN 40  ELSE 0)
              + (IF "DISPLAY" \in caps THEN 10  ELSE 0)
              + (IF "CONFIG"  \in caps THEN 5   ELSE 0)
  IN  IF p > 255 THEN 255 ELSE p

-----------------------------------------------------------------------------
(* The peer table, by address. *)

BlankPeer == [used |-> FALSE, state |-> "INIT", caps |-> {}, age |-> 0]

Peer == [used : BOOLEAN, state : State, caps : SUBSET Caps, age : 0..HOLD]

Live(u) == {p \in Boards : u.peers[p].used}

\* peer_get: an existing entry, or a free slot for a newcomer
PeerGet(u, src) == u.peers[src].used \/ Cardinality(Live(u)) < MaxPeers

\* Mutants of PeerAge: entries are never dropped, or one interval too soon
PeerAgeNever(u) == u

PeerAgeEarly(u) ==
  [u EXCEPT !.peers =
     [p \in Boards |-> IF u.peers[p].used /\ u.peers[p].age + 1 >= HOLD
                       THEN BlankPeer ELSE u.peers[p]]]

PeerAge(u) ==
  [u EXCEPT !.peers =
     [p \in Boards |-> IF u.peers[p].used /\ u.peers[p].age >= HOLD
                       THEN BlankPeer ELSE u.peers[p]]]

\* The first ACTIVE entry in slot order.  Slots are filled in order of
\* arrival, so with several any of them may be first.
FindActivePeer(u) ==
  LET actives == {p \in Live(u) : u.peers[p].state = "ACTIVE"}
  IN  IF actives = {} THEN {NoAddr} ELSE actives

\* peer p of u ranks above board u itself
OutranksSelf(u, p) ==
  Better(PriorityFromCaps(u.peers[p].caps), Uid[p],
         PriorityFromCaps(u.caps), Uid[u.addr])

BestIsSelf(u) == \A p \in Live(u) : ~OutranksSelf(u, p)

\* p is the best of u's live peers, and better than u
BestPeer(u, p) ==
  /\ p \in Live(u)
  /\ OutranksSelf(u, p)
  /\ \A q \in Live(u) \ {p} :
       Better(PriorityFromCaps(u.peers[p].caps), Uid[p],
              PriorityFromCaps(u.peers[q].caps), Uid[q])

BackupIsSelf(u) ==
  /\ u.state # "ACTIVE"
  /\ \A p \in Live(u) : u.peers[p].state # "ACTIVE" => ~OutranksSelf(u, p)

-----------------------------------------------------------------------------
(* State entry *)

Event == {"send_hello", "send_resign", "broadcast_release", "state_changed"}

When(c, e) == IF c THEN {e} ELSE {}

EnterState(u, s) ==
  IF u.state = s THEN u
  ELSE [u EXCEPT !.state = s, !.since = 0, !.ev = @ \cup {"state_changed"}]

BecomeActive(u, clean) ==
  [EnterState(u, "ACTIVE") EXCEPT
     !.active = u.addr,
     !.active_valid = TRUE,
     !.resign_pending = FALSE,
     !.next_hello = HELLO,
     !.ev = @ \cup {"send_hello"}
              \cup When(u.active_valid /\ ~clean, "broadcast_release")]

\* Mutant of ScheduleResign: the deadline is set anew on every evaluation,
\* one unit too far out
ScheduleResignAgain(u) ==
  [u EXCEPT !.resign_pending = TRUE, !.defer = DEFER + 1]

ScheduleResign(u) ==
  IF u.resign_pending THEN u
  ELSE [u EXCEPT !.resign_pending = TRUE, !.defer = DEFER]

\* what may not be put off any longer, keys held or not
Overdue(u) == u.defer = 0 /\ (DEFER > 0 => u.resign_pending)

\* Mutants of ServiceResign: a held key does not put it off, but is released;
\* at the deadline the held keys are not released;
\* the resigning board goes on naming itself the active speaker
ServiceResignAtOnce(u) ==
  IF ~u.resign_pending THEN u
  ELSE EnterState([u EXCEPT !.ev = @ \cup {"send_resign"}
                              \cup When(u.keys_held, "broadcast_release"),
                            !.resign_pending = FALSE,
                            !.active = NoAddr], "LISTEN")

ServiceResignSilent(u) ==
  IF ~u.resign_pending \/ (u.keys_held /\ u.defer > 0) THEN u
  ELSE EnterState([u EXCEPT !.ev = @ \cup {"send_resign"},
                            !.resign_pending = FALSE,
                            !.active = NoAddr], "LISTEN")

ServiceResignNamed(u) ==
  IF ~u.resign_pending \/ (u.keys_held /\ u.defer > 0) THEN u
  ELSE EnterState([u EXCEPT !.ev = @ \cup {"send_resign"}
                              \cup When(u.keys_held, "broadcast_release"),
                            !.resign_pending = FALSE], "LISTEN")

\* Rule 1: wait for the chord to finish, up to the deadline
ServiceResign(u) ==
  IF ~u.resign_pending \/ (u.keys_held /\ u.defer > 0) THEN u
  ELSE EnterState([u EXCEPT !.ev = @ \cup {"send_resign"}
                              \cup When(u.keys_held, "broadcast_release"),
                            !.resign_pending = FALSE,
                            !.active = NoAddr], "LISTEN")

-----------------------------------------------------------------------------
(* reevaluate(): every entry point ends here.  u's peers are already aged  *)
(* and act is what find_active_peer returned.                              *)

FollowerState(u) == IF BackupIsSelf(u) THEN "STANDBY" ELSE "LISTEN"

Follow(u, act) ==
  EnterState([u EXCEPT !.active = act, !.active_valid = TRUE],
             FollowerState(u))

\* Mutant of EvalLearn: a board waits in LEARN until somebody else is active
EvalLearnWaits(u, act) ==
  IF act # NoAddr THEN Follow(u, act) ELSE u

EvalLearn(u, act) ==
  IF act # NoAddr THEN Follow(u, act)
  ELSE IF u.since < LEARN THEN u
  ELSE IF BestIsSelf(u) THEN BecomeActive(u, TRUE)
  ELSE EnterState(u, FollowerState(u))

\* Mutant of EvalActive: only a rival that already holds the role is heeded
EvalActiveRivalOnly(u, act) ==
  ServiceResign(IF act # NoAddr /\ OutranksSelf(u, act)
                THEN ScheduleResign(u) ELSE u)

EvalActive(u, act) ==
  LET splitBrain == act # NoAddr /\ OutranksSelf(u, act)
      challenged == \E p \in Preempt : BestPeer(u, p)
  IN  ServiceResign(IF splitBrain \/ challenged THEN ScheduleResign(u) ELSE u)

EvalVacant(u) ==
  LET v == [u EXCEPT !.active = NoAddr]
  IN  IF ~BestIsSelf(u) THEN EnterState(v, FollowerState(u))
      ELSE IF u.state = "STANDBY" THEN BecomeActive(v, u.vacancy_clean)
      ELSE IF u.state # "SPEAK" THEN EnterState(v, "SPEAK")
      ELSE IF u.since >= HOLD THEN BecomeActive(v, u.vacancy_clean)
      ELSE v

Reevaluate(u, act) ==
  CASE u.state = "LEARN"  -> EvalLearn(u, act)
    [] u.state = "ACTIVE" -> EvalActive(u, act)
    [] OTHER -> IF act # NoAddr THEN Follow(u, act) ELSE EvalVacant(u)

-----------------------------------------------------------------------------
(* Entry points.  Each yields the set of records it may leave.  *)

Evaluations(u) ==
  LET aged == PeerAge(u)
  IN  {Reevaluate(aged, act) : act \in FindActivePeer(aged)}

Boot(b, caps) ==
  [addr |-> b, caps |-> caps, started |-> FALSE, state |-> "INIT",
   since |-> 0, active |-> NoAddr, active_valid |-> FALSE,
   vacancy_clean |-> FALSE, resign_pending |-> FALSE, defer |-> 0,
   keys_held |-> FALSE, next_hello |-> 0,
   peers |-> [p \in Boards |-> BlankPeer], ev |-> {}]

Start(u) ==
  [EnterState(u, "LEARN") EXCEPT !.started = TRUE, !.vacancy_clean = TRUE,
                                 !.since = 0, !.next_hello = 0]

RxHello(u, src, h) ==
  IF src = u.addr \/ ~PeerGet(u, src) THEN {u}
  ELSE Evaluations(
         [u EXCEPT
            !.vacancy_clean = @ \/ (h.state = "ACTIVE" /\ u.active # src),
            !.peers[src] = [used |-> TRUE, state |-> h.state,
                            caps |-> h.caps, age |-> 0]])

RxResign(u, src) ==
  Evaluations(
    [u EXCEPT
       !.peers[src] = IF @.used THEN [@ EXCEPT !.state = "LISTEN", !.age = 0]
                      ELSE @,
       !.vacancy_clean = @ \/ src = u.active,
       !.active = IF @ = src THEN NoAddr ELSE @])

ActiveVanished(u) ==
  /\ u.state # "ACTIVE"
  /\ u.active # NoAddr
  /\ ~u.peers[u.active].used \/ u.peers[u.active].age >= HOLD

AdvertiseIfDue(u) ==
  IF u.next_hello = 0
  THEN [u EXCEPT !.ev = @ \cup {"send_hello"}, !.next_hello = HELLO]
  ELSE u

\* Mutant of Tick: a vacancy is clean although the speaker vanished
TickTrusting(u) == {AdvertiseIfDue(v) : v \in Evaluations(u)}

Tick(u) ==
  {AdvertiseIfDue(v) :
     v \in Evaluations([u EXCEPT !.vacancy_clean = @ /\ ~ActiveVanished(u)])}

SetKeysHeld(u, held) == [u EXCEPT !.keys_held = held]

TakeEvents(u) == [u EXCEPT !.ev = {}]

-----------------------------------------------------------------------------
(* One unit of time, with every timer stopped at the value past which the  *)
(* code no longer tells instants apart.                                    *)

SinceMax == IF HOLD > LEARN THEN HOLD ELSE LEARN

Elapse(u) ==
  [u EXCEPT
     !.since = IF @ < SinceMax THEN @ + 1 ELSE @,
     !.defer = IF @ > 0 THEN @ - 1 ELSE @,
     !.next_hello = IF @ > 0 THEN @ - 1 ELSE @,
     !.peers = [p \in Boards |->
                  IF u.peers[p].used /\ u.peers[p].age < HOLD
                  THEN [u.peers[p] EXCEPT !.age = @ + 1] ELSE u.peers[p]]]

Node == [addr : Boards, caps : SUBSET Caps, started : BOOLEAN, state : State,
         since : 0..SinceMax, active : Boards \cup {NoAddr},
         active_valid : BOOLEAN, vacancy_clean : BOOLEAN,
         resign_pending : BOOLEAN, defer : 0..DEFER, keys_held : BOOLEAN,
         next_hello : 0..HELLO, peers : [Boards -> Peer], ev : SUBSET Event]
=============================================================================
