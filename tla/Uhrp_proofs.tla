---------------------------- MODULE Uhrp_proofs ----------------------------
(***************************************************************************)
(* What each operator of the election keeps true of a board's record.      *)
(***************************************************************************)
EXTENDS Uhrp, TLAPS

\* What holds of the record of board b even in the middle of an entry point:
\* only the holder of the role names itself, only it has a resignation
\* pending, a board is no peer of itself, it follows nobody before its learn
\* window has closed, and remembers for good that it once had an active
\* speaker.
Sound(u, b) ==
  /\ u \in Node
  /\ u.addr = b
  /\ u.active = b <=> u.state = "ACTIVE"
  /\ u.resign_pending => u.state = "ACTIVE"
  /\ ~u.peers[b].used
  /\ u.state \in {"INIT", "LEARN"} => u.active = NoAddr
  /\ u.active # NoAddr => u.active_valid
  /\ u.state # "INIT" => u.started

\* What reevaluate() restores: the board followed is a live ACTIVE peer
Follows(u, b) ==
  u.active \in Boards \ {b} =>
    u.peers[u.active].used /\ u.peers[u.active].state = "ACTIVE"

-----------------------------------------------------------------------------
\* The cap on a state's age covers both timers it is compared with
LEMMA SinceMaxNat == SinceMax \in Nat /\ SinceMax >= HOLD /\ SinceMax >= LEARN
  BY TimingAssumption DEF SinceMax

\* Enter_state changes the state, its age and its event, and nothing else
LEMMA EnterStateSound ==
  ASSUME NEW u \in Node, NEW s \in State
  PROVE  /\ EnterState(u, s) \in Node
         /\ EnterState(u, s).state = s
         /\ EnterState(u, s).addr = u.addr
         /\ EnterState(u, s).active = u.active
         /\ EnterState(u, s).resign_pending = u.resign_pending
         /\ EnterState(u, s).peers = u.peers
         /\ EnterState(u, s).active_valid = u.active_valid
         /\ EnterState(u, s).started = u.started
  <1>1. 0 \in 0..SinceMax
    BY SinceMaxNat
  <1>2. u.ev \cup {"state_changed"} \in SUBSET Event
    BY DEF Node, Event
  <1>3. CASE u.state = s
    BY <1>3 DEF EnterState
  <1>4. CASE u.state # s
    <2>1. EnterState(u, s) = [u EXCEPT !.state = s, !.since = 0,
                                       !.ev = u.ev \cup {"state_changed"}]
      BY <1>4, Zenon DEF EnterState
    <2>2. EnterState(u, s) \in Node
      BY <1>1, <1>2, <2>1, Zenon DEF Node
    <2>3. QED
      BY <2>1, <2>2, Zenon DEF Node
  <1>5. QED
    BY <1>3, <1>4

\* Become_active: ACTIVE, naming itself, nothing pending
LEMMA BecomeActiveSound ==
  ASSUME NEW u \in Node, NEW clean \in BOOLEAN
  PROVE  /\ BecomeActive(u, clean) \in Node
         /\ BecomeActive(u, clean).state = "ACTIVE"
         /\ BecomeActive(u, clean).addr = u.addr
         /\ BecomeActive(u, clean).active = u.addr
         /\ BecomeActive(u, clean).peers = u.peers
         /\ BecomeActive(u, clean).active_valid = TRUE
         /\ BecomeActive(u, clean).started = u.started
  <1> DEFINE v == EnterState(u, "ACTIVE")
             e == v.ev \cup {"send_hello"}
                    \cup When(u.active_valid /\ ~clean, "broadcast_release")
  <1>1. /\ v \in Node /\ v.state = "ACTIVE" /\ v.addr = u.addr
        /\ v.peers = u.peers /\ v.started = u.started
    BY EnterStateSound DEF State
  <1>2. BecomeActive(u, clean) =
          [v EXCEPT !.active = u.addr, !.active_valid = TRUE,
                    !.resign_pending = FALSE, !.next_hello = HELLO, !.ev = e]
    BY Zenon DEF BecomeActive
  <1> HIDE DEF v
  <1>3. HELLO \in 0..HELLO
    BY TimingAssumption
  <1>4. e \in SUBSET Event
    BY <1>1 DEF Node, Event, When
  <1>5. u.addr \in Boards \cup {NoAddr}
    BY DEF Node
  <1> HIDE DEF e
  <1>6. QED
    BY <1>1, <1>2, <1>3, <1>4, <1>5, ZenonT(30) DEF Node

\* Service_resign either waits or leaves the role with nobody named
LEMMA ServiceResignSound ==
  ASSUME NEW b \in Boards, NEW u, Sound(u, b), u.state = "ACTIVE"
  PROVE  Sound(ServiceResign(u), b) /\ Follows(ServiceResign(u), b)
  <1>1. CASE ~u.resign_pending \/ (u.keys_held /\ u.defer > 0)
    BY <1>1 DEF ServiceResign, Sound, Follows
  <1>2. CASE ~(~u.resign_pending \/ (u.keys_held /\ u.defer > 0))
    <2> DEFINE e == u.ev \cup {"send_resign"}
                      \cup When(u.keys_held, "broadcast_release")
               v == [u EXCEPT !.ev = e, !.resign_pending = FALSE,
                              !.active = NoAddr]
    <2>1. ServiceResign(u) = EnterState(v, "LISTEN")
      BY <1>2, Zenon DEF ServiceResign
    <2>2. e \in SUBSET Event
      BY DEF Sound, Node, Event, When
    <2> HIDE DEF e
    <2>3. /\ v \in Node /\ v.addr = b /\ v.active = NoAddr
          /\ v.resign_pending = FALSE /\ v.peers = u.peers
          /\ v.started = u.started
      BY <2>2, Zenon DEF Sound, Node
    <2> HIDE DEF v
    <2>4. QED
      BY <2>1, <2>3, EnterStateSound, BoardsAssumption DEF Sound, Follows, State
  <1>3. QED
    BY <1>1, <1>2

\* Schedule_resign only arms the deadline
LEMMA ScheduleResignSound ==
  ASSUME NEW b \in Boards, NEW u, Sound(u, b), u.state = "ACTIVE"
  PROVE  Sound(ScheduleResign(u), b) /\ ScheduleResign(u).state = "ACTIVE"
  <1>1. CASE u.resign_pending
    BY <1>1 DEF ScheduleResign
  <1>2. CASE ~u.resign_pending
    <2>1. DEFER \in 0..DEFER
      BY TimingAssumption
    <2>2. ScheduleResign(u) = [u EXCEPT !.resign_pending = TRUE, !.defer = DEFER]
      BY <1>2, Zenon DEF ScheduleResign
    <2>3. /\ ScheduleResign(u) \in Node
          /\ ScheduleResign(u).addr = u.addr
          /\ ScheduleResign(u).active = u.active
          /\ ScheduleResign(u).state = u.state
          /\ ScheduleResign(u).peers = u.peers
          /\ ScheduleResign(u).active_valid = u.active_valid
          /\ ScheduleResign(u).started = u.started
      BY <2>1, <2>2, Zenon DEF Sound, Node
    <2>4. QED
      BY <2>3 DEF Sound
  <1>3. QED
    BY <1>1, <1>2

\* Reevaluate on the holder of the role
LEMMA EvalActiveSound ==
  ASSUME NEW b \in Boards, NEW u, NEW act, Sound(u, b), u.state = "ACTIVE"
  PROVE  Sound(EvalActive(u, act), b) /\ Follows(EvalActive(u, act), b)
  <1>1. \/ EvalActive(u, act) = ServiceResign(u)
        \/ EvalActive(u, act) = ServiceResign(ScheduleResign(u))
    BY Zenon DEF EvalActive
  <1>2. QED
    BY <1>1, ServiceResignSound, ScheduleResignSound, Zenon

\* A follower stands by or listens
LEMMA FollowerStateType == ASSUME NEW u PROVE FollowerState(u) \in {"STANDBY", "LISTEN"}
  BY DEF FollowerState

\* Following the peer find_active_peer returned
LEMMA FollowSound ==
  ASSUME NEW b \in Boards, NEW u, Sound(u, b), u.started, u.state # "ACTIVE",
         NEW act \in FindActivePeer(u), act # NoAddr
  PROVE  Sound(Follow(u, act), b) /\ Follows(Follow(u, act), b)
  <1> DEFINE v == [u EXCEPT !.active = act, !.active_valid = TRUE]
  <1>1. act \in Boards /\ u.peers[act].used /\ u.peers[act].state = "ACTIVE"
    BY DEF FindActivePeer, Live
  <1>2. act # b
    BY <1>1 DEF Sound
  <1>3. /\ v \in Node /\ v.addr = u.addr /\ v.active = act
        /\ v.resign_pending = u.resign_pending /\ v.peers = u.peers
        /\ v.active_valid = TRUE /\ v.started = u.started
    BY <1>1, Zenon DEF Sound, Node
  <1>4. Follow(u, act) = EnterState(v, FollowerState(u))
    BY Zenon DEF Follow
  <1> HIDE DEF v
  <1>5. /\ FollowerState(u) \in State /\ FollowerState(u) # "ACTIVE"
        /\ FollowerState(u) \notin {"INIT", "LEARN"}
    BY FollowerStateType DEF State
  <1> DEFINE w == EnterState(v, FollowerState(u))
  <1>6. /\ w \in Node /\ w.addr = v.addr /\ w.active = v.active
        /\ w.peers = v.peers /\ w.state = FollowerState(u)
        /\ w.resign_pending = v.resign_pending
        /\ w.active_valid = v.active_valid /\ w.started = v.started
    BY <1>3, <1>5, EnterStateSound, Zenon
  <1> HIDE DEF w
  <1>7. /\ w.addr = u.addr /\ w.active = act /\ w.peers = u.peers
        /\ w.resign_pending = u.resign_pending /\ w.active_valid /\ w.started
    BY <1>3, <1>6, Zenon
  <1>8. Sound(w, b) /\ Follows(w, b)
    BY <1>1, <1>2, <1>5, <1>6, <1>7 DEF Sound, Follows
  <1>9. QED
    BY <1>4, <1>8 DEF w

\* Taking the role leaves a sound record
LEMMA BecomeActiveRole ==
  ASSUME NEW b \in Boards, NEW u \in Node, u.addr = b, u.started,
         ~u.peers[b].used, NEW clean \in BOOLEAN
  PROVE  Sound(BecomeActive(u, clean), b) /\ Follows(BecomeActive(u, clean), b)
  BY BecomeActiveSound DEF Sound, Follows

\* Waiting while nobody holds the role leaves a sound record
LEMMA VacantSound ==
  ASSUME NEW b \in Boards, NEW u \in Node, u.addr = b, u.active = NoAddr,
         u.started, ~u.resign_pending, ~u.peers[b].used,
         NEW s \in {"LISTEN", "SPEAK", "STANDBY"}
  PROVE  Sound(EnterState(u, s), b) /\ Follows(EnterState(u, s), b)
  <1>1. s \in State /\ s \notin {"INIT", "LEARN", "ACTIVE"}
    BY DEF State
  <1> DEFINE w == EnterState(u, s)
  <1>2. /\ w \in Node /\ w.addr = b /\ w.active = NoAddr /\ w.peers = u.peers
        /\ w.state = s /\ w.resign_pending = u.resign_pending
        /\ w.started = u.started
    BY <1>1, EnterStateSound
  <1> HIDE DEF w
  <1>3. QED
    BY <1>1, <1>2, BoardsAssumption DEF Sound, Follows, w

\* Reevaluate in LEARN
LEMMA EvalLearnSound ==
  ASSUME NEW b \in Boards, NEW u, Sound(u, b), u.started, u.state = "LEARN",
         NEW act \in FindActivePeer(u)
  PROVE  Sound(EvalLearn(u, act), b) /\ Follows(EvalLearn(u, act), b)
  <1>1. CASE act # NoAddr
    BY <1>1, FollowSound DEF EvalLearn
  <1>2. CASE act = NoAddr /\ u.since < LEARN
    BY <1>2, BoardsAssumption DEF EvalLearn, Sound, Follows
  <1>3. CASE act = NoAddr /\ ~(u.since < LEARN) /\ BestIsSelf(u)
    BY <1>3, BecomeActiveRole DEF EvalLearn, Sound
  <1>4. CASE act = NoAddr /\ ~(u.since < LEARN) /\ ~BestIsSelf(u)
    <2>1. EvalLearn(u, act) = EnterState(u, FollowerState(u))
      BY <1>4 DEF EvalLearn
    <2>2. u \in Node /\ u.addr = b /\ u.active = NoAddr
          /\ ~u.resign_pending /\ ~u.peers[b].used /\ u.started
      BY DEF Sound
    <2>3. QED
      BY <2>1, <2>2, VacantSound, FollowerStateType
  <1>5. QED
    BY <1>1, <1>2, <1>3, <1>4

\* Reevaluate when nobody holds the role
LEMMA EvalVacantSound ==
  ASSUME NEW b \in Boards, NEW u, Sound(u, b), u.started,
         u.state \notin {"LEARN", "ACTIVE"}
  PROVE  Sound(EvalVacant(u), b) /\ Follows(EvalVacant(u), b)
  <1> DEFINE v == [u EXCEPT !.active = NoAddr]
  <1>1. /\ v \in Node /\ v.addr = b /\ v.active = NoAddr
        /\ v.resign_pending = u.resign_pending /\ v.peers = u.peers
        /\ v.state = u.state /\ v.started = u.started
    BY Zenon DEF Sound, Node
  <1>2. ~v.resign_pending /\ ~v.peers[b].used
    BY <1>1 DEF Sound
  <1>3. u.vacancy_clean \in BOOLEAN
    BY DEF Sound, Node
  <1> HIDE DEF v
  <1>4. \/ EvalVacant(u) = EnterState(v, FollowerState(u))
        \/ EvalVacant(u) = BecomeActive(v, u.vacancy_clean)
        \/ EvalVacant(u) = EnterState(v, "SPEAK")
        \/ EvalVacant(u) = v /\ u.state = "SPEAK"
    BY Zenon DEF EvalVacant, v
  <1>5. u.state = "SPEAK" => Sound(v, b) /\ Follows(v, b)
    BY <1>1, <1>2, BoardsAssumption DEF Sound, Follows
  <1>6. QED
    BY <1>1, <1>2, <1>3, <1>4, <1>5, BecomeActiveRole, VacantSound,
       FollowerStateType

\* Reevaluate restores Follows, whatever entry point called it
LEMMA ReevaluateSound ==
  ASSUME NEW b \in Boards, NEW u, Sound(u, b), u.started,
         NEW act \in FindActivePeer(u)
  PROVE  Sound(Reevaluate(u, act), b) /\ Follows(Reevaluate(u, act), b)
  <1>1. CASE u.state = "LEARN"
    BY <1>1, EvalLearnSound DEF Reevaluate
  <1>2. CASE u.state = "ACTIVE"
    BY <1>2, EvalActiveSound DEF Reevaluate
  <1>3. CASE u.state \notin {"LEARN", "ACTIVE"} /\ act # NoAddr
    BY <1>3, FollowSound DEF Reevaluate
  <1>4. CASE u.state \notin {"LEARN", "ACTIVE"} /\ act = NoAddr
    BY <1>4, EvalVacantSound DEF Reevaluate
  <1>5. QED
    BY <1>1, <1>2, <1>3, <1>4

-----------------------------------------------------------------------------
\* An unused slot
LEMMA BlankPeerType == BlankPeer \in Peer /\ ~BlankPeer.used
  <1>1. 0 \in 0..HOLD /\ "INIT" \in State /\ {} \in SUBSET Caps
    BY TimingAssumption DEF State
  <1>2. QED
    BY <1>1, Zenon DEF BlankPeer, Peer

\* Peer_age drops entries and touches nothing else; it may break Follows
LEMMA PeerAgeSound ==
  ASSUME NEW b \in Boards, NEW u, Sound(u, b)
  PROVE  Sound(PeerAge(u), b) /\ PeerAge(u).started = u.started
  <1> DEFINE ps == [p \in Boards |-> IF u.peers[p].used /\ u.peers[p].age >= HOLD
                                     THEN BlankPeer ELSE u.peers[p]]
  <1>1. ps \in [Boards -> Peer]
    BY BlankPeerType DEF Sound, Node
  <1>2. ~ps[b].used
    BY BlankPeerType DEF Sound
  <1>3. PeerAge(u) = [u EXCEPT !.peers = ps]
    BY Zenon DEF PeerAge
  <1> HIDE DEF ps
  <1>4. /\ PeerAge(u) \in Node
        /\ PeerAge(u).addr = u.addr
        /\ PeerAge(u).active = u.active
        /\ PeerAge(u).state = u.state
        /\ PeerAge(u).resign_pending = u.resign_pending
        /\ PeerAge(u).peers = ps
        /\ PeerAge(u).active_valid = u.active_valid
        /\ PeerAge(u).started = u.started
    BY <1>1, <1>3, Zenon DEF Sound, Node
  <1>5. QED
    BY <1>2, <1>4 DEF Sound

\* Peer_age and then reevaluate
LEMMA EvaluationsSound ==
  ASSUME NEW b \in Boards, NEW u, Sound(u, b), u.started,
         NEW v \in Evaluations(u)
  PROVE  Sound(v, b) /\ Follows(v, b)
  BY PeerAgeSound, ReevaluateSound DEF Evaluations

\* Dhp_uhrp_init
LEMMA BootSound ==
  ASSUME NEW b \in Boards, NEW caps \in SUBSET Caps
  PROVE  Sound(Boot(b, caps), b) /\ Follows(Boot(b, caps), b)
  <1> DEFINE ps == [p \in Boards |-> BlankPeer]
  <1>1. /\ 0 \in 0..SinceMax /\ 0 \in 0..DEFER /\ 0 \in 0..HELLO
        /\ "INIT" \in State /\ {} \in SUBSET Event
    BY SinceMaxNat, TimingAssumption DEF State
  <1>2. ps \in [Boards -> Peer] /\ ~ps[b].used
    BY BlankPeerType
  <1>3. Boot(b, caps) =
          [addr |-> b, caps |-> caps, started |-> FALSE, state |-> "INIT",
           since |-> 0, active |-> NoAddr, active_valid |-> FALSE,
           vacancy_clean |-> FALSE, resign_pending |-> FALSE, defer |-> 0,
           keys_held |-> FALSE, next_hello |-> 0, peers |-> ps, ev |-> {}]
    BY Zenon DEF Boot
  <1> HIDE DEF ps
  <1>4. Boot(b, caps) \in Node
    BY <1>1, <1>2, Zenon DEF Boot, Node, ps
  <1>5. /\ Boot(b, caps).addr = b /\ Boot(b, caps).active = NoAddr
        /\ Boot(b, caps).state = "INIT" /\ ~Boot(b, caps).resign_pending
        /\ Boot(b, caps).peers = ps
    BY <1>3
  <1>6. QED
    BY <1>2, <1>4, <1>5, BoardsAssumption DEF Sound, Follows

\* Dhp_uhrp_start
LEMMA StartSound ==
  ASSUME NEW b \in Boards, NEW u, Sound(u, b), Follows(u, b), u.state = "INIT"
  PROVE  Sound(Start(u), b) /\ Follows(Start(u), b)
  <1> DEFINE v == EnterState(u, "LEARN")
  <1>1. /\ v \in Node /\ v.state = "LEARN" /\ v.addr = b /\ v.active = NoAddr
        /\ v.resign_pending = u.resign_pending /\ v.peers = u.peers
    BY EnterStateSound DEF Sound, State
  <1>2. Start(u) = [v EXCEPT !.started = TRUE, !.vacancy_clean = TRUE,
                             !.since = 0, !.next_hello = 0]
    BY Zenon DEF Start
  <1>3. 0 \in 0..SinceMax /\ 0 \in 0..HELLO
    BY SinceMaxNat, TimingAssumption
  <1> HIDE DEF v
  <1>4. /\ Start(u) \in Node /\ Start(u).addr = v.addr
        /\ Start(u).state = v.state /\ Start(u).active = v.active
        /\ Start(u).resign_pending = v.resign_pending
        /\ Start(u).peers = v.peers /\ Start(u).started = TRUE
    BY <1>1, <1>2, <1>3, Zenon DEF Node
  <1>5. QED
    BY <1>1, <1>4, BoardsAssumption DEF Sound, Follows

\* the record each entry point hands to reevaluate()
HelloPrepared(u, src, h) ==
  [u EXCEPT
     !.vacancy_clean = u.vacancy_clean \/ (h.state = "ACTIVE" /\ u.active # src),
     !.peers = [u.peers EXCEPT ![src] = [used |-> TRUE, state |-> h.state,
                                         caps |-> h.caps, age |-> 0]]]

ResignPrepared(u, src) ==
  [u EXCEPT
     !.peers = [u.peers EXCEPT ![src] =
                  IF u.peers[src].used
                  THEN [u.peers[src] EXCEPT !.state = "LISTEN", !.age = 0]
                  ELSE u.peers[src]],
     !.vacancy_clean = u.vacancy_clean \/ src = u.active,
     !.active = IF u.active = src THEN NoAddr ELSE u.active]

TickPrepared(u) ==
  [u EXCEPT !.vacancy_clean = u.vacancy_clean /\ ~ActiveVanished(u)]

\* What dhp_uhrp_rx_hello writes before it evaluates
LEMMA HelloPreparedSound ==
  ASSUME NEW b \in Boards, NEW u, Sound(u, b),
         NEW src \in Boards, src # b,
         NEW h, h.state \in State, h.caps \in SUBSET Caps
  PROVE  /\ Sound(HelloPrepared(u, src, h), b)
         /\ HelloPrepared(u, src, h).started = u.started
  <1> DEFINE n == [used |-> TRUE, state |-> h.state, caps |-> h.caps,
                   age |-> 0]
             ps == [u.peers EXCEPT ![src] = n]
             vc == u.vacancy_clean \/ (h.state = "ACTIVE" /\ u.active # src)
             w == [u EXCEPT !.vacancy_clean = vc, !.peers = ps]
  <1>1. n \in Peer
    <2>1. 0 \in 0..HOLD
      BY TimingAssumption
    <2>2. QED
      BY <2>1, Zenon DEF Peer
  <1>2. ps \in [Boards -> Peer] /\ ~ps[b].used
    <2> HIDE DEF n
    <2>1. QED
      BY <1>1 DEF Sound, Node
  <1>3. HelloPrepared(u, src, h) = w
    BY Zenon DEF HelloPrepared
  <1>4. vc \in BOOLEAN
    BY DEF Sound, Node
  <1> HIDE DEF ps, vc
  <1>5. /\ w \in Node /\ w.addr = u.addr /\ w.active = u.active
        /\ w.state = u.state /\ w.resign_pending = u.resign_pending
        /\ w.peers = ps
        /\ w.active_valid = u.active_valid /\ w.started = u.started
    BY <1>2, <1>4, Zenon DEF Sound, Node
  <1> HIDE DEF w
  <1>6. Sound(w, b)
    BY <1>2, <1>5 DEF Sound
  <1>7. QED
    BY <1>3, <1>5, <1>6, Zenon

\* Dhp_uhrp_rx_hello
LEMMA RxHelloSound ==
  ASSUME NEW b \in Boards, NEW u, Sound(u, b), Follows(u, b), u.started,
         NEW src \in Boards, NEW h, h.state \in State, h.caps \in SUBSET Caps,
         NEW v \in RxHello(u, src, h)
  PROVE  Sound(v, b) /\ Follows(v, b)
  <1>1. CASE src = u.addr \/ ~PeerGet(u, src)
    BY <1>1 DEF RxHello
  <1>2. CASE ~(src = u.addr \/ ~PeerGet(u, src))
    <2>1. v \in Evaluations(HelloPrepared(u, src, h))
      BY <1>2, Zenon DEF RxHello, HelloPrepared
    <2>2. src # b
      BY <1>2 DEF Sound
    <2>3. QED
      BY <2>1, <2>2, HelloPreparedSound, EvaluationsSound
  <1>3. QED
    BY <1>1, <1>2

\* What dhp_uhrp_rx_resign writes before it evaluates; src # b is needed
\* here, a board hearing its own RESIGN would no longer name itself
LEMMA ResignPreparedSound ==
  ASSUME NEW b \in Boards, NEW u, Sound(u, b), NEW src \in Boards \ {b}
  PROVE  /\ Sound(ResignPrepared(u, src), b)
         /\ ResignPrepared(u, src).started = u.started
  <1> DEFINE e == u.peers[src]
             n == IF e.used THEN [e EXCEPT !.state = "LISTEN", !.age = 0] ELSE e
             ps == [u.peers EXCEPT ![src] = n]
             vc == u.vacancy_clean \/ src = u.active
             a == IF u.active = src THEN NoAddr ELSE u.active
             w == [u EXCEPT !.peers = ps, !.vacancy_clean = vc, !.active = a]
  <1>1. n \in Peer
    <2>1. e \in Peer
      BY DEF Sound, Node
    <2>2. 0 \in 0..HOLD /\ "LISTEN" \in State
      BY TimingAssumption DEF State
    <2> HIDE DEF e
    <2>3. [e EXCEPT !.state = "LISTEN", !.age = 0] \in Peer
      BY <2>1, <2>2, Zenon DEF Peer
    <2>4. QED
      BY <2>1, <2>3, Zenon
  <1>2. ps \in [Boards -> Peer] /\ ~ps[b].used
    <2> HIDE DEF n
    <2>1. QED
      BY <1>1 DEF Sound, Node
  <1>3. ResignPrepared(u, src) = w
    BY Zenon DEF ResignPrepared
  <1>4. /\ a \in Boards \cup {NoAddr}
        /\ a = b <=> u.active = b
        /\ u.active = NoAddr => a = NoAddr
    BY BoardsAssumption DEF Sound, Node
  <1>5. vc \in BOOLEAN
    BY DEF Sound, Node
  <1> HIDE DEF ps, vc, a
  <1>6. /\ w \in Node /\ w.addr = u.addr /\ w.active = a
        /\ w.state = u.state /\ w.resign_pending = u.resign_pending
        /\ w.peers = ps
        /\ w.active_valid = u.active_valid /\ w.started = u.started
    BY <1>2, <1>4, <1>5, Zenon DEF Sound, Node
  <1> HIDE DEF w
  <1>7. Sound(w, b)
    BY <1>2, <1>4, <1>6 DEF Sound
  <1>8. QED
    BY <1>3, <1>6, <1>7, Zenon

\* Dhp_uhrp_rx_resign
LEMMA RxResignSound ==
  ASSUME NEW b \in Boards, NEW u, Sound(u, b), u.started,
         NEW src \in Boards \ {b}, NEW v \in RxResign(u, src)
  PROVE  Sound(v, b) /\ Follows(v, b)
  <1>1. v \in Evaluations(ResignPrepared(u, src))
    BY Zenon DEF RxResign, ResignPrepared
  <1>2. QED
    BY <1>1, ResignPreparedSound, EvaluationsSound

\* The HELLO timer at the end of dhp_uhrp_tick
LEMMA AdvertiseSound ==
  ASSUME NEW b \in Boards, NEW u, Sound(u, b), Follows(u, b)
  PROVE  Sound(AdvertiseIfDue(u), b) /\ Follows(AdvertiseIfDue(u), b)
  <1> DEFINE e == u.ev \cup {"send_hello"}
             w == [u EXCEPT !.ev = e, !.next_hello = HELLO]
  <1>1. e \in SUBSET Event /\ HELLO \in 0..HELLO
    BY TimingAssumption DEF Sound, Node, Event
  <1>2. AdvertiseIfDue(u) = w \/ AdvertiseIfDue(u) = u
    BY Zenon DEF AdvertiseIfDue
  <1> HIDE DEF e
  <1>3. /\ w \in Node /\ w.addr = u.addr /\ w.active = u.active
        /\ w.state = u.state /\ w.resign_pending = u.resign_pending
        /\ w.peers = u.peers
        /\ w.active_valid = u.active_valid /\ w.started = u.started
    BY <1>1, Zenon DEF Sound, Node
  <1> HIDE DEF w
  <1>4. QED
    BY <1>2, <1>3 DEF Sound, Follows

\* What dhp_uhrp_tick writes before it evaluates
LEMMA TickPreparedSound ==
  ASSUME NEW b \in Boards, NEW u, Sound(u, b)
  PROVE  Sound(TickPrepared(u), b) /\ TickPrepared(u).started = u.started
  <1> DEFINE vc == u.vacancy_clean /\ ~ActiveVanished(u)
             w == [u EXCEPT !.vacancy_clean = vc]
  <1>1. vc \in BOOLEAN
    BY DEF Sound, Node
  <1>2. TickPrepared(u) = w
    BY Zenon DEF TickPrepared
  <1> HIDE DEF vc
  <1>3. /\ w \in Node /\ w.addr = u.addr /\ w.active = u.active
        /\ w.state = u.state /\ w.resign_pending = u.resign_pending
        /\ w.peers = u.peers
        /\ w.active_valid = u.active_valid /\ w.started = u.started
    BY <1>1, Zenon DEF Sound, Node
  <1> HIDE DEF w
  <1>4. Sound(w, b)
    BY <1>3 DEF Sound
  <1>5. QED
    BY <1>2, <1>3, <1>4, Zenon

\* Dhp_uhrp_tick
LEMMA TickSound ==
  ASSUME NEW b \in Boards, NEW u, Sound(u, b), u.started, NEW v \in Tick(u)
  PROVE  Sound(v, b) /\ Follows(v, b)
  <1>1. PICK x \in Evaluations(TickPrepared(u)) : v = AdvertiseIfDue(x)
    BY Zenon DEF Tick, TickPrepared
  <1>2. QED
    BY <1>1, TickPreparedSound, EvaluationsSound, AdvertiseSound

\* Dhp_uhrp_take_events
LEMMA TakeEventsSound ==
  ASSUME NEW b \in Boards, NEW u, Sound(u, b), Follows(u, b)
  PROVE  Sound(TakeEvents(u), b) /\ Follows(TakeEvents(u), b)
  <1> DEFINE w == [u EXCEPT !.ev = {}]
  <1>1. {} \in SUBSET Event
    OBVIOUS
  <1>2. /\ w \in Node /\ w.addr = u.addr /\ w.active = u.active
        /\ w.state = u.state /\ w.resign_pending = u.resign_pending
        /\ w.peers = u.peers
        /\ w.active_valid = u.active_valid /\ w.started = u.started
    BY <1>1, Zenon DEF Sound, Node
  <1>3. TakeEvents(u) = w
    BY Zenon DEF TakeEvents
  <1> HIDE DEF w
  <1>4. QED
    BY <1>2, <1>3 DEF Sound, Follows

\* Dhp_uhrp_set_keys_held
LEMMA SetKeysHeldSound ==
  ASSUME NEW b \in Boards, NEW u, Sound(u, b), Follows(u, b),
         NEW held \in BOOLEAN
  PROVE  Sound(SetKeysHeld(u, held), b) /\ Follows(SetKeysHeld(u, held), b)
  <1> DEFINE w == [u EXCEPT !.keys_held = held]
  <1>1. /\ w \in Node /\ w.addr = u.addr /\ w.active = u.active
        /\ w.state = u.state /\ w.resign_pending = u.resign_pending
        /\ w.peers = u.peers
        /\ w.active_valid = u.active_valid /\ w.started = u.started
    BY Zenon DEF Sound, Node
  <1>2. SetKeysHeld(u, held) = w
    BY Zenon DEF SetKeysHeld
  <1> HIDE DEF w
  <1>3. QED
    BY <1>1, <1>2 DEF Sound, Follows

\* Dhp_router_set_caps
LEMMA NewCapsSound ==
  ASSUME NEW b \in Boards, NEW u, Sound(u, b), Follows(u, b),
         NEW caps \in SUBSET Caps
  PROVE  LET w == [u EXCEPT !.caps = caps] IN Sound(w, b) /\ Follows(w, b)
  <1> DEFINE w == [u EXCEPT !.caps = caps]
  <1>1. /\ w \in Node /\ w.addr = u.addr /\ w.active = u.active
        /\ w.state = u.state /\ w.resign_pending = u.resign_pending
        /\ w.peers = u.peers
        /\ w.active_valid = u.active_valid /\ w.started = u.started
    BY Zenon DEF Sound, Node
  <1> HIDE DEF w
  <1>2. Sound(w, b) /\ Follows(w, b)
    BY <1>1 DEF Sound, Follows
  <1>3. QED
    BY <1>2 DEF w

\* A unit of time keeps every timer in its range
LEMMA ElapseSound ==
  ASSUME NEW b \in Boards, NEW u, Sound(u, b), Follows(u, b)
  PROVE  Sound(Elapse(u), b) /\ Follows(Elapse(u), b)
  <1> DEFINE Older(e) == IF e.used /\ e.age < HOLD
                         THEN [e EXCEPT !.age = @ + 1] ELSE e
             ps == [p \in Boards |-> Older(u.peers[p])]
             s == IF u.since < SinceMax THEN u.since + 1 ELSE u.since
             d == IF u.defer > 0 THEN u.defer - 1 ELSE u.defer
             n == IF u.next_hello > 0 THEN u.next_hello - 1 ELSE u.next_hello
             w == [u EXCEPT !.since = s, !.defer = d, !.next_hello = n,
                            !.peers = ps]
  <1>1. ASSUME NEW e \in Peer
        PROVE  /\ Older(e) \in Peer
               /\ Older(e).used = e.used /\ Older(e).state = e.state
    <2> DEFINE k == e.age + 1
               o == [e EXCEPT !.age = k]
    <2>1. e.age < HOLD => k \in 0..HOLD
      BY TimingAssumption DEF Peer
    <2>2. Older(e) = e \/ (e.age < HOLD /\ Older(e) = o)
      BY Zenon
    <2> HIDE DEF k, Older
    <2>3. e.age < HOLD => o \in Peer /\ o.used = e.used /\ o.state = e.state
      BY <2>1, Zenon DEF Peer
    <2> HIDE DEF o
    <2>4. QED
      BY <2>2, <2>3, Zenon
  <1>2. /\ u.since \in 0..SinceMax /\ u.defer \in 0..DEFER
        /\ u.next_hello \in 0..HELLO /\ u.peers \in [Boards -> Peer]
    BY DEF Sound, Node
  <1>3. /\ s \in 0..SinceMax /\ d \in 0..DEFER /\ n \in 0..HELLO
    BY <1>2, SinceMaxNat, TimingAssumption
  <1> HIDE DEF Older
  <1>4. /\ ps \in [Boards -> Peer]
        /\ \A p \in Boards : /\ ps[p].used = u.peers[p].used
                             /\ ps[p].state = u.peers[p].state
    BY <1>1, <1>2, Zenon
  <1>5. Elapse(u) = w
    BY Zenon DEF Elapse, Older
  <1> HIDE DEF ps, s, d, n
  <1>6. /\ w \in Node /\ w.addr = u.addr /\ w.active = u.active
        /\ w.state = u.state /\ w.resign_pending = u.resign_pending
        /\ w.peers = ps
        /\ w.active_valid = u.active_valid /\ w.started = u.started
    BY <1>3, <1>4, Zenon DEF Sound, Node
  <1> HIDE DEF w
  <1>7. QED
    BY <1>4, <1>5, <1>6 DEF Sound, Follows

-----------------------------------------------------------------------------
(* Rule 1: standing down with a key held takes the deadline and a release. *)

\* Enter_state loses no event
LEMMA EnterStateEvents ==
  ASSUME NEW u \in Node, NEW s \in State, NEW e \in u.ev
  PROVE  e \in EnterState(u, s).ev
  BY DEF EnterState, Node

\* Rule 1 in service_resign
LEMMA ServiceResignReleases ==
  ASSUME NEW b \in Boards, NEW u, Sound(u, b), u.state = "ACTIVE",
         u.keys_held, ServiceResign(u).state # "ACTIVE"
  PROVE  Overdue(u) /\ "broadcast_release" \in ServiceResign(u).ev
  <1>1. ~(~u.resign_pending \/ (u.keys_held /\ u.defer > 0))
    BY DEF ServiceResign
  <1>2. u.defer \in 0..DEFER
    BY DEF Sound, Node
  <1>3. u.defer = 0
    BY <1>1, <1>2, TimingAssumption
  <1> DEFINE e == u.ev \cup {"send_resign"}
                    \cup When(u.keys_held, "broadcast_release")
             v == [u EXCEPT !.ev = e, !.resign_pending = FALSE,
                            !.active = NoAddr]
  <1>4. ServiceResign(u) = EnterState(v, "LISTEN")
    BY <1>1, Zenon DEF ServiceResign
  <1>5. e \in SUBSET Event /\ "broadcast_release" \in e
    BY DEF Sound, Node, Event, When
  <1> HIDE DEF e
  <1>6. v \in Node /\ v.ev = e
    BY <1>5, Zenon DEF Sound, Node
  <1> HIDE DEF v
  <1>7. Overdue(u)
    BY <1>1, <1>3, Zenon DEF Overdue
  <1>8. QED
    BY <1>4, <1>5, <1>6, <1>7, EnterStateEvents DEF State

\* Rule 1 in reevaluate
LEMMA EvalActiveReleases ==
  ASSUME NEW b \in Boards, NEW u, NEW act, Sound(u, b), u.state = "ACTIVE",
         u.keys_held, EvalActive(u, act).state # "ACTIVE"
  PROVE  Overdue(u) /\ "broadcast_release" \in EvalActive(u, act).ev
  <1> DEFINE x == ScheduleResign(u)
  <1>1. CASE EvalActive(u, act) = ServiceResign(u)
    BY <1>1, ServiceResignReleases
  <1>2. CASE EvalActive(u, act) = ServiceResign(x)
    <2>1. Sound(x, b) /\ x.state = "ACTIVE"
      BY ScheduleResignSound
    <2>2. u.defer \in 0..DEFER
      BY DEF Sound, Node
    <2>3. x.keys_held /\ (x = u \/ x.defer = DEFER)
      BY Zenon DEF ScheduleResign, Sound, Node
    <2> HIDE DEF x
    <2>4. Overdue(x) /\ "broadcast_release" \in EvalActive(u, act).ev
      BY <1>2, <2>1, <2>3, ServiceResignReleases
    <2>5. CASE x = u
      BY <2>4, <2>5
    <2>6. CASE x.defer = DEFER
      <3>1. DEFER = 0
        BY <2>4, <2>6 DEF Overdue
      <3>2. QED
        BY <2>2, <2>4, <3>1 DEF Overdue
    <2>7. QED
      BY <2>3, <2>5, <2>6
  <1>3. QED
    BY <1>1, <1>2, Zenon DEF EvalActive

\* Rule 1 through peer_age and reevaluate
LEMMA EvaluationsRelease ==
  ASSUME NEW b \in Boards, NEW u, Sound(u, b), u.state = "ACTIVE",
         u.keys_held, NEW v \in Evaluations(u), v.state # "ACTIVE"
  PROVE  Overdue(u) /\ "broadcast_release" \in v.ev
  <1> DEFINE w == PeerAge(u)
  <1>1. PICK act \in FindActivePeer(w) : v = Reevaluate(w, act)
    BY Zenon DEF Evaluations
  <1>2. Sound(w, b)
    BY PeerAgeSound
  <1>3. /\ w.state = u.state /\ w.keys_held = u.keys_held
        /\ w.defer = u.defer /\ w.resign_pending = u.resign_pending
    BY Zenon DEF PeerAge, Sound, Node
  <1> HIDE DEF w
  <1>4. w.state = "ACTIVE" /\ w.keys_held
    BY <1>3, Zenon
  <1>5. v = EvalActive(w, act)
    BY <1>1, <1>4 DEF Reevaluate
  <1>6. QED
    BY <1>2, <1>3, <1>4, <1>5, EvalActiveReleases DEF Overdue

\* The HELLO timer loses no event
LEMMA AdvertiseKeeps ==
  ASSUME NEW u \in Node
  PROVE  /\ AdvertiseIfDue(u).state = u.state
         /\ \A e \in u.ev : e \in AdvertiseIfDue(u).ev
  <1> DEFINE w == [u EXCEPT !.ev = u.ev \cup {"send_hello"},
                            !.next_hello = HELLO]
  <1>1. AdvertiseIfDue(u) = w \/ AdvertiseIfDue(u) = u
    BY Zenon DEF AdvertiseIfDue
  <1>2. w.state = u.state /\ w.ev = u.ev \cup {"send_hello"}
    BY Zenon DEF Node
  <1> HIDE DEF w
  <1>3. QED
    BY <1>1, <1>2

\* Rule 1 in dhp_uhrp_tick
LEMMA TickReleases ==
  ASSUME NEW b \in Boards, NEW u, Sound(u, b), u.started, u.state = "ACTIVE",
         u.keys_held, NEW v \in Tick(u), v.state # "ACTIVE"
  PROVE  Overdue(u) /\ "broadcast_release" \in v.ev
  <1> DEFINE w == TickPrepared(u)
  <1>1. PICK x \in Evaluations(w) : v = AdvertiseIfDue(x)
    BY Zenon DEF Tick, TickPrepared
  <1>2. Sound(w, b) /\ w.started
    BY TickPreparedSound
  <1>3. /\ w.state = u.state /\ w.keys_held = u.keys_held
        /\ w.defer = u.defer /\ w.resign_pending = u.resign_pending
    BY Zenon DEF TickPrepared, Sound, Node
  <1> HIDE DEF w
  <1>4. w.state = "ACTIVE" /\ w.keys_held
    BY <1>3, Zenon
  <1>5. x \in Node
    BY <1>1, <1>2, EvaluationsSound DEF Sound
  <1>6. x.state # "ACTIVE"
    BY <1>1, <1>5, AdvertiseKeeps
  <1>7. Overdue(w) /\ "broadcast_release" \in x.ev
    BY <1>1, <1>2, <1>4, <1>6, EvaluationsRelease
  <1>8. QED
    BY <1>1, <1>3, <1>5, <1>7, AdvertiseKeeps DEF Overdue

\* Rule 1 in dhp_uhrp_rx_hello
LEMMA RxHelloReleases ==
  ASSUME NEW b \in Boards, NEW u, Sound(u, b), u.started, u.state = "ACTIVE",
         u.keys_held,
         NEW src \in Boards, NEW h, h.state \in State, h.caps \in SUBSET Caps,
         NEW v \in RxHello(u, src, h), v.state # "ACTIVE"
  PROVE  Overdue(u) /\ "broadcast_release" \in v.ev
  <1> DEFINE w == HelloPrepared(u, src, h)
  <1>1. ~(src = u.addr \/ ~PeerGet(u, src))
    BY DEF RxHello
  <1>2. v \in Evaluations(w)
    BY <1>1, Zenon DEF RxHello, HelloPrepared
  <1>3. src # b
    BY <1>1 DEF Sound
  <1>4. Sound(w, b)
    BY <1>3, HelloPreparedSound
  <1>5. /\ w.state = u.state /\ w.keys_held = u.keys_held
        /\ w.defer = u.defer /\ w.resign_pending = u.resign_pending
    BY Zenon DEF HelloPrepared, Sound, Node
  <1> HIDE DEF w
  <1>6. w.state = "ACTIVE" /\ w.keys_held
    BY <1>5, Zenon
  <1>7. QED
    BY <1>2, <1>4, <1>5, <1>6, EvaluationsRelease DEF Overdue

\* Rule 1 in dhp_uhrp_rx_resign
LEMMA RxResignReleases ==
  ASSUME NEW b \in Boards, NEW u, Sound(u, b), u.started, u.state = "ACTIVE",
         u.keys_held, NEW src \in Boards \ {b},
         NEW v \in RxResign(u, src), v.state # "ACTIVE"
  PROVE  Overdue(u) /\ "broadcast_release" \in v.ev
  <1> DEFINE w == ResignPrepared(u, src)
  <1>1. v \in Evaluations(w)
    BY Zenon DEF RxResign, ResignPrepared
  <1>2. Sound(w, b)
    BY ResignPreparedSound
  <1>3. /\ w.state = u.state /\ w.keys_held = u.keys_held
        /\ w.defer = u.defer /\ w.resign_pending = u.resign_pending
    BY Zenon DEF ResignPrepared, Sound, Node
  <1> HIDE DEF w
  <1>4. w.state = "ACTIVE" /\ w.keys_held
    BY <1>3, Zenon
  <1>5. QED
    BY <1>1, <1>2, <1>3, <1>4, EvaluationsRelease DEF Overdue

\* State entry leaves the deadline alone
LEMMA EnterStateDefer ==
  ASSUME NEW u \in Node, NEW s \in State
  PROVE  EnterState(u, s).defer = u.defer
  BY Zenon DEF EnterState, Node

\* A pending resignation keeps its deadline through peer_age and reevaluate,
\* and past it the board stands down
LEMMA EvaluationsResign ==
  ASSUME NEW b \in Boards, NEW u, Sound(u, b), u.resign_pending,
         NEW x \in Evaluations(u)
  PROVE  x.defer = u.defer /\ (u.defer = 0 => x.state = "LISTEN")
  <1> DEFINE a == PeerAge(u)
  <1>1. PICK act \in FindActivePeer(a) : x = Reevaluate(a, act)
    BY Zenon DEF Evaluations
  <1>2. Sound(a, b)
    BY PeerAgeSound
  <1>3. /\ a.state = u.state /\ a.defer = u.defer
        /\ a.resign_pending = u.resign_pending
    BY Zenon DEF PeerAge, Sound, Node
  <1> HIDE DEF a
  <1>4. a.state = "ACTIVE" /\ a.resign_pending
    BY <1>3 DEF Sound
  <1>5. x = ServiceResign(a)
    <2>1. x = EvalActive(a, act)
      BY <1>1, <1>4 DEF Reevaluate
    <2>2. ScheduleResign(a) = a
      BY <1>4, Zenon DEF ScheduleResign
    <2>3. QED
      BY <2>1, <2>2, Zenon DEF EvalActive
  <1>6. CASE a.keys_held /\ a.defer > 0
    <2>1. x = a
      BY <1>5, <1>6, Zenon DEF ServiceResign
    <2>2. QED
      BY <1>3, <1>6, <2>1
  <1>7. CASE ~(a.keys_held /\ a.defer > 0)
    <2> DEFINE e == a.ev \cup {"send_resign"}
                      \cup When(a.keys_held, "broadcast_release")
               r == [a EXCEPT !.ev = e, !.resign_pending = FALSE,
                              !.active = NoAddr]
    <2>1. x = EnterState(r, "LISTEN")
      BY <1>4, <1>5, <1>7, Zenon DEF ServiceResign
    <2>2. e \in SUBSET Event
      BY <1>2 DEF Sound, Node, Event, When
    <2> HIDE DEF e
    <2>3. r \in Node /\ r.defer = a.defer
      BY <1>2, <2>2, Zenon DEF Sound, Node
    <2> HIDE DEF r
    <2>4. QED
      BY <1>3, <2>1, <2>3, EnterStateSound, EnterStateDefer DEF State
  <1>8. QED
    BY <1>6, <1>7

\* So it does in dhp_uhrp_tick
LEMMA TickResigns ==
  ASSUME NEW b \in Boards, NEW u, Sound(u, b), u.started, u.resign_pending,
         NEW v \in Tick(u)
  PROVE  v.defer = u.defer /\ (u.defer = 0 => v.state = "LISTEN")
  <1> DEFINE w == TickPrepared(u)
  <1>1. PICK x \in Evaluations(w) : v = AdvertiseIfDue(x)
    BY Zenon DEF Tick, TickPrepared
  <1>2. Sound(w, b) /\ w.started
    BY TickPreparedSound
  <1>3. w.defer = u.defer /\ w.resign_pending = u.resign_pending
    BY Zenon DEF TickPrepared, Sound, Node
  <1> HIDE DEF w
  <1>4. x \in Node
    BY <1>1, <1>2, EvaluationsSound DEF Sound
  <1>5. v.state = x.state /\ v.defer = x.defer
    BY <1>1, <1>4, Zenon DEF AdvertiseIfDue, Node
  <1>6. x.defer = w.defer /\ (w.defer = 0 => x.state = "LISTEN")
    BY <1>1, <1>2, <1>3, EvaluationsResign
  <1>7. QED
    BY <1>3, <1>5, <1>6

\* It keeps its deadline in dhp_uhrp_rx_hello
LEMMA RxHelloKeepsDeadline ==
  ASSUME NEW b \in Boards, NEW u, Sound(u, b), u.started, u.resign_pending,
         NEW src \in Boards, NEW h, h.state \in State, h.caps \in SUBSET Caps,
         NEW v \in RxHello(u, src, h)
  PROVE  v.defer = u.defer
  <1> DEFINE w == HelloPrepared(u, src, h)
  <1>1. CASE src = u.addr \/ ~PeerGet(u, src)
    BY <1>1 DEF RxHello
  <1>2. CASE ~(src = u.addr \/ ~PeerGet(u, src))
    <2>1. v \in Evaluations(w)
      BY <1>2, Zenon DEF RxHello, HelloPrepared
    <2>2. src # b
      BY <1>2 DEF Sound
    <2>3. Sound(w, b)
      BY <2>2, HelloPreparedSound
    <2>4. w.defer = u.defer /\ w.resign_pending = u.resign_pending
      BY Zenon DEF HelloPrepared, Sound, Node
    <2> HIDE DEF w
    <2>5. QED
      BY <2>1, <2>3, <2>4, EvaluationsResign
  <1>3. QED
    BY <1>1, <1>2

\* And in dhp_uhrp_rx_resign
LEMMA RxResignKeepsDeadline ==
  ASSUME NEW b \in Boards, NEW u, Sound(u, b), u.started, u.resign_pending,
         NEW src \in Boards \ {b}, NEW v \in RxResign(u, src)
  PROVE  v.defer = u.defer
  <1> DEFINE w == ResignPrepared(u, src)
  <1>1. v \in Evaluations(w)
    BY Zenon DEF RxResign, ResignPrepared
  <1>2. Sound(w, b)
    BY ResignPreparedSound
  <1>3. w.defer = u.defer /\ w.resign_pending = u.resign_pending
    BY Zenon DEF ResignPrepared, Sound, Node
  <1> HIDE DEF w
  <1>4. QED
    BY <1>1, <1>2, <1>3, EvaluationsResign

-----------------------------------------------------------------------------
(* Rule 2, on the tick path: a takeover from a silent speaker releases.    *)

\* Rule 2 in become_active: an unclean succession broadcasts a release
LEMMA BecomeActiveReleases ==
  ASSUME NEW u \in Node, u.active_valid
  PROVE  "broadcast_release" \in BecomeActive(u, FALSE).ev
  <1> DEFINE v == EnterState(u, "ACTIVE")
             e == v.ev \cup {"send_hello"}
                    \cup When(u.active_valid /\ ~FALSE, "broadcast_release")
  <1>1. v \in Node
    BY EnterStateSound DEF State
  <1>2. BecomeActive(u, FALSE) =
          [v EXCEPT !.active = u.addr, !.active_valid = TRUE,
                    !.resign_pending = FALSE, !.next_hello = HELLO, !.ev = e]
    BY Zenon DEF BecomeActive
  <1>3. "broadcast_release" \in e
    BY DEF When
  <1> HIDE DEF v, e
  <1>4. BecomeActive(u, FALSE).ev = e
    BY <1>1, <1>2, Zenon DEF Node
  <1>5. QED
    BY <1>3, <1>4

\* Rule 2 in reevaluate, once the vacancy is known to be unclean
LEMMA EvalVacantReleases ==
  ASSUME NEW b \in Boards, NEW u, Sound(u, b), u.state # "ACTIVE",
         u.active_valid, ~u.vacancy_clean, EvalVacant(u).state = "ACTIVE"
  PROVE  "broadcast_release" \in EvalVacant(u).ev
  <1> DEFINE v == [u EXCEPT !.active = NoAddr]
  <1>1. v \in Node /\ v.active_valid = u.active_valid /\ v.state = u.state
    BY Zenon DEF Sound, Node
  <1>2. v.active_valid
    BY <1>1, Zenon
  <1>3. u.vacancy_clean = FALSE
    BY Zenon DEF Sound, Node
  <1> HIDE DEF v
  <1>4. \/ EvalVacant(u) = EnterState(v, FollowerState(u))
        \/ EvalVacant(u) = BecomeActive(v, FALSE)
        \/ EvalVacant(u) = EnterState(v, "SPEAK")
        \/ EvalVacant(u) = v
    BY <1>3, Zenon DEF EvalVacant, v
  <1>5. /\ EnterState(v, FollowerState(u)).state # "ACTIVE"
        /\ EnterState(v, "SPEAK").state # "ACTIVE"
    BY <1>1, EnterStateSound, FollowerStateType DEF State
  <1>6. EvalVacant(u) = BecomeActive(v, FALSE)
    BY <1>1, <1>4, <1>5
  <1>7. QED
    BY <1>1, <1>2, <1>6, BecomeActiveReleases

\* Rule 2 in dhp_uhrp_tick: the speaker followed is live and ACTIVE (Follows),
\* so only its silence can make this tick promote the board
LEMMA TickTakeover ==
  ASSUME NEW b \in Boards, NEW u, Sound(u, b), Follows(u, b), u.started,
         u.state # "ACTIVE", u.active # NoAddr,
         NEW v \in Tick(u), v.state = "ACTIVE"
  PROVE  "broadcast_release" \in v.ev
  <1> DEFINE w == TickPrepared(u)
             z == PeerAge(w)
             a == u.active
  <1>1. PICK x \in Evaluations(w) : v = AdvertiseIfDue(x)
    BY Zenon DEF Tick, TickPrepared
  <1>2. PICK act \in FindActivePeer(z) : x = Reevaluate(z, act)
    BY <1>1, Zenon DEF Evaluations
  <1>3. Sound(w, b) /\ Sound(z, b) /\ z.started
    BY TickPreparedSound, PeerAgeSound
  <1>4. x \in Node
    BY <1>1, <1>3, TickPreparedSound, EvaluationsSound DEF Sound
  <1>5. x.state = "ACTIVE"
    BY <1>1, <1>4, AdvertiseKeeps
  <1>6. /\ w.peers = u.peers
        /\ w.vacancy_clean = (u.vacancy_clean /\ ~ActiveVanished(u))
        /\ w.state = u.state /\ w.active_valid = u.active_valid
    BY Zenon DEF TickPrepared, Sound, Node
  <1>7. /\ z.vacancy_clean = w.vacancy_clean /\ z.state = w.state
        /\ z.active_valid = w.active_valid
        /\ z.peers = [p \in Boards |->
                        IF w.peers[p].used /\ w.peers[p].age >= HOLD
                        THEN BlankPeer ELSE w.peers[p]]
    BY <1>3, Zenon DEF PeerAge, Sound, Node
  <1>8. /\ a \in Boards \ {b}
        /\ u.peers[a].used /\ u.peers[a].state = "ACTIVE"
        /\ u.state \notin {"INIT", "LEARN"}
    BY DEF Sound, Follows, Node
  <1>9. u.active_valid
    BY DEF Sound
  <1> HIDE DEF w, z
  <1>10. CASE act # NoAddr
    <2>1. x = Follow(z, act)
      BY <1>2, <1>6, <1>7, <1>8, <1>10 DEF Reevaluate
    <2>2. Sound(x, b) /\ x.active = act /\ act \in Boards
      <3>1. act \in Boards
        BY <1>2, <1>10 DEF FindActivePeer, Live
      <3>2. Sound(x, b)
        BY <1>2, <1>3, <1>6, <1>7, <1>10, <2>1, FollowSound
      <3> DEFINE y == [z EXCEPT !.active = act, !.active_valid = TRUE]
      <3>3. y \in Node /\ y.active = act
        BY <1>3, <3>1, Zenon DEF Sound, Node
      <3>4. x = EnterState(y, FollowerState(z))
        BY <2>1, Zenon DEF Follow
      <3> HIDE DEF y
      <3>5. QED
        BY <3>1, <3>2, <3>3, <3>4, EnterStateSound, FollowerStateType DEF State
    <2>3. act # b
      BY <1>2, <1>3, <1>10 DEF FindActivePeer, Live, Sound
    <2>4. QED
      BY <1>5, <2>2, <2>3 DEF Sound
  <1>11. CASE act = NoAddr
    <2>1. x = EvalVacant(z)
      BY <1>2, <1>6, <1>7, <1>8, <1>11 DEF Reevaluate
    <2>2. ~(z.peers[a].used /\ z.peers[a].state = "ACTIVE")
      BY <1>2, <1>8, <1>11, BoardsAssumption DEF FindActivePeer, Live
    <2>3. u.peers[a].age >= HOLD
      <3>1. z.peers[a] = IF w.peers[a].used /\ w.peers[a].age >= HOLD
                         THEN BlankPeer ELSE w.peers[a]
        BY <1>7, <1>8
      <3>2. QED
        BY <1>6, <1>8, <2>2, <3>1
    <2>4. ActiveVanished(u)
      BY <1>8, <2>3 DEF ActiveVanished
    <2>5. ~z.vacancy_clean /\ z.active_valid
      BY <1>6, <1>7, <1>9, <2>4, Zenon
    <2>6. z.state # "ACTIVE"
      BY <1>6, <1>7
    <2>7. "broadcast_release" \in x.ev
      BY <1>3, <1>5, <2>1, <2>5, <2>6, EvalVacantReleases
    <2>8. QED
      BY <1>1, <1>4, <2>7, AdvertiseKeeps
  <1>12. QED
    BY <1>10, <1>11
=============================================================================
