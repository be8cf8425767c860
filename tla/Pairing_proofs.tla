--------------------------- MODULE Pairing_proofs ---------------------------
(***************************************************************************)
(* Pairing on a chain of any length, with any number of buttons held,      *)
(* frames lost, restarts, late windows and failed saves: a key in use was  *)
(* derived by two boards, and a board that heard two peers trusts neither. *)
(***************************************************************************)
EXTENDS Pairing, FiniteSetTheorems, SequenceTheorems, TLAPS

Confirms == (SUBSET Offers) \X Offers

Frame == [sub : {"OFFER", "CONFIRM", "ABORT"}, from : Boards,
          arg : Offers \cup {NoOffer} \cup Confirms, mac : Keys]

\* What a frame says is true of its sender: the offer is its own, and a key
\* it confirms is one that it has derived, dv being the keys derived
Genuine(f, dv) ==
  /\ f.sub = "OFFER" => f.arg \in Offers /\ f.arg[1] = f.from
  /\ f.sub = "CONFIRM" => /\ f.arg \in Confirms
                          /\ f.arg[1] # {} => f.arg[1] \in dv[f.from]

\* what b may find on its wire from d: frames moving away from their sender
Inbound(b, d, dv) ==
  {f \in Frame : /\ d \in Neighbours(b)
                 /\ d < b => f.from < b
                 /\ d > b => f.from > b
                 /\ Genuine(f, dv)}

WireOK(q, dv) ==
  /\ q \in [Boards -> [Boards -> Seq(Frame)]]
  /\ \A b, d \in Boards : q[b][d] \in Seq(Inbound(b, d, dv))

\* a key that two boards have derived, one of them b
Shared(K, b, dv) == K \in dv[b] /\ \E d \in Boards \ {b} : K \in dv[d]

\* A pairing of b's: the peer is another board, the key with it has been
\* derived here, and once done there too
PairOK(p, b, dv) ==
  /\ p \in Pair
  /\ p.state # "IDLE" => p.self \in Offers /\ p.self[1] = b
  /\ p.state = "IDLE" => p.ev = {} /\ p.peer = NoOffer
  /\ p.state = "WAITING" => p.peer = NoOffer
  /\ p.state \in {"CONFIRM_WAIT", "DONE"} => p.peer # NoOffer
  /\ p.peer # NoOffer => p.peer[1] # b /\ ChainKey(p) \in dv[b]
  /\ p.state = "DONE" => Shared(ChainKey(p), b, dv)

\* Whose offers b has heard while it still trusts somebody
HeardOK(p, isOpen, h) ==
  isOpen /\ p.state # "ABORTED" =>
    h \subseteq (IF p.peer = NoOffer THEN {} ELSE {p.peer[1]})

KeyOK(K, b, dv) == K \in Keys /\ (K \in {NoKey, OldKey} \/ Shared(K, b, dv))

\* The inductive invariant
IInv ==
  /\ derived \in [Boards -> SUBSET Keys]
  /\ pair \in [Boards -> Pair]
  /\ \A b \in Boards : PairOK(pair[b], b, derived)
  /\ open \in [Boards -> BOOLEAN]
  /\ link_key \in [Boards -> Keys] /\ saved \in [Boards -> Keys]
  /\ \A b \in Boards : KeyOK(link_key[b], b, derived) /\ KeyOK(saved[b], b, derived)
  /\ WireOK(wire, derived)
  /\ events \in 0..MaxEvents
  /\ begun \in [Boards -> 0..events]
  /\ heard \in [Boards -> SUBSET Boards]
  /\ \A b \in Boards : HeardOK(pair[b], open[b], heard[b])

-----------------------------------------------------------------------------
(* What the operations of dhp_pair_t make of a sound pairing *)

\* the keys derived once p has become r
Derive(b, p, r, dv) ==
  IF r.peer # p.peer THEN [dv EXCEPT ![b] = @ \cup {ChainKey(r)}] ELSE dv

DerivedType == [Boards -> SUBSET Keys]

\* Nothing is ever forgotten
Grows(dv, dw) == \A b \in Boards : dv[b] \subseteq dw[b]

\* The all-zero offer of a cleared record is nobody's
LEMMA NoOfferFact == NoOffer \notin Offers
  BY PairingAssumption DEF NoOffer, Offers, Boards

\* The key of two offers is a key
LEMMA ChainKeyType ==
  ASSUME NEW p, p.self \in Offers, p.peer \in Offers
  PROVE  ChainKey(p) \in Keys /\ ChainKey(p) # {} /\ ChainKey(p) \in SUBSET Offers
  <1>1. ChainKey(p) \in {{o, q} : o, q \in Offers}
    BY DEF ChainKey
  <1>2. QED
    BY <1>1 DEF Keys, ChainKey

\* More keys derived do not make a pairing unsound
LEMMA PairGrows ==
  ASSUME NEW b \in Boards, NEW p, NEW dv, NEW dw, Grows(dv, dw), PairOK(p, b, dv)
  PROVE  PairOK(p, b, dw)
  BY DEF Grows, PairOK, Shared

\* nor a key in use
LEMMA KeyGrows ==
  ASSUME NEW b \in Boards, NEW K, NEW dv, NEW dw, Grows(dv, dw), KeyOK(K, b, dv)
  PROVE  KeyOK(K, b, dw)
  BY DEF Grows, KeyOK, Shared

\* nor what is on the wires
LEMMA WireGrows ==
  ASSUME NEW q, NEW dv, NEW dw, Grows(dv, dw), WireOK(q, dv)
  PROVE  WireOK(q, dw)
  <1>1. ASSUME NEW b \in Boards, NEW d \in Boards
        PROVE  Inbound(b, d, dv) \subseteq Inbound(b, d, dw)
    <2>1. ASSUME NEW f \in Inbound(b, d, dv)
          PROVE  f \in Inbound(b, d, dw)
      <3>1. f \in Frame /\ Genuine(f, dv)
        BY DEF Inbound
      <3>2. f.from \in Boards
        BY <3>1 DEF Frame
      <3>3. Genuine(f, dw)
        BY <3>1, <3>2 DEF Genuine, Grows
      <3>4. QED
        BY <3>1, <3>3 DEF Inbound
    <2>2. QED
      BY <2>1
  <1>2. ASSUME NEW b \in Boards, NEW d \in Boards
        PROVE  q[b][d] \in Seq(Inbound(b, d, dw))
    <2>1. q[b][d] \in Seq(Inbound(b, d, dv))
      BY DEF WireOK
    <2>2. QED
      BY <1>1, <2>1, SeqMonotonic
  <1>3. QED
    BY <1>2 DEF WireOK

\* dhp_pair_init
LEMMA IdleOK ==
  ASSUME NEW b \in Boards, NEW dv
  PROVE  PairOK(Idle, b, dv)
  BY DEF PairOK, Idle, Pair

\* dhp_pair_begin
LEMMA BeginOK ==
  ASSUME NEW b \in Boards, NEW dv, NEW p, PairOK(p, b, dv), NEW o \in Offers,
         o[1] = b
  PROVE  PairOK(Begin(p, o), b, dv)
  BY DEF PairOK, Begin, Pair, Events

\* abort_with
LEMMA AbortOK ==
  ASSUME NEW b \in Boards, NEW dv, NEW p, PairOK(p, b, dv), p.state # "IDLE"
  PROVE  /\ PairOK(AbortWith(p), b, dv)
         /\ AbortWith(p).state = "ABORTED" /\ AbortWith(p).peer = p.peer
  BY DEF PairOK, AbortWith, Pair, Events, ChainKey

\* dhp_pair_tick
LEMMA TickOK ==
  ASSUME NEW b \in Boards, NEW dv, NEW p, PairOK(p, b, dv),
         NEW isOpen \in BOOLEAN, NEW h, HeardOK(p, isOpen, h)
  PROVE  PairOK(Tick(p, isOpen), b, dv) /\ HeardOK(Tick(p, isOpen), isOpen, h)
  BY AbortOK DEF Tick, HeardOK

\* the events taken by pairing_drain
LEMMA DrainedOK ==
  ASSUME NEW b \in Boards, NEW dv, NEW p, PairOK(p, b, dv)
  PROVE  PairOK([p EXCEPT !.ev = {}], b, dv)
  BY DEF PairOK, Pair, Shared, ChainKey

\* Rx_offer: a first offer derives the key, a second peer's aborts
LEMMA RxOfferOK ==
  ASSUME NEW b \in Boards, NEW dv \in DerivedType, NEW p, PairOK(p, b, dv),
         p.state \in {"WAITING", "CONFIRM_WAIT"}, NEW o \in Offers, o[1] # b
  PROVE  LET r == RxOffer(p, o) IN
         /\ PairOK(r, b, Derive(b, p, r, dv))
         /\ Derive(b, p, r, dv) \in DerivedType
         /\ Grows(dv, Derive(b, p, r, dv))
         /\ r.state # "ABORTED" => /\ r.peer[1] = o[1] /\ r.peer # NoOffer
                                   /\ r.peer = p.peer \/ p.peer = NoOffer
  <1> DEFINE r == RxOffer(p, o)
             dw == Derive(b, p, r, dv)
  <1>1. p \in Pair /\ p.self \in Offers /\ p.self[1] = b
    BY DEF PairOK
  <1>2. CASE p.peer # NoOffer /\ o[1] = p.peer[1]
    <2>1. CASE p.state = "CONFIRM_WAIT"
      <3>1. r = [p EXCEPT !.ev = @ \cup {"send_confirm"}]
        BY <1>2, <2>1 DEF RxOffer
      <3>2. r.peer = p.peer /\ r.self = p.self /\ r.state = p.state /\ r \in Pair
        BY <1>1, <3>1 DEF Pair, Events
      <3>3. dw = dv
        BY <3>2 DEF Derive
      <3>4. PairOK(r, b, dv)
        BY <2>1, <3>2 DEF PairOK, Shared, ChainKey
      <3>5. QED
        BY <1>2, <3>2, <3>3, <3>4 DEF Grows
    <2>2. CASE p.state # "CONFIRM_WAIT"
      <3>1. r = p
        BY <1>2, <2>2 DEF RxOffer
      <3>2. QED
        BY <1>2, <3>1 DEF Derive, Grows
    <2>3. QED
      BY <2>1, <2>2
  <1>3. CASE p.peer # NoOffer /\ o[1] # p.peer[1]
    <2>1. r = AbortWith(p)
      BY <1>3 DEF RxOffer
    <2>2. PairOK(r, b, dv) /\ r.state = "ABORTED" /\ r.peer = p.peer
      BY <2>1, AbortOK
    <2>3. QED
      BY <2>2 DEF Derive, Grows
  <1>4. CASE p.peer = NoOffer
    <2>1. r = [p EXCEPT !.peer = o, !.state = "CONFIRM_WAIT",
                        !.ev = @ \cup {"send_confirm", "send_offer"}]
      BY <1>4 DEF RxOffer
    <2>2. /\ r.peer = o /\ r.self = p.self /\ r.state = "CONFIRM_WAIT"
          /\ r \in Pair
      BY <1>1, <2>1, ZenonT(30) DEF Pair, Events
    <2>3. o # NoOffer
      BY NoOfferFact
    <2>4. dw = [dv EXCEPT ![b] = @ \cup {ChainKey(r)}]
      BY <1>4, <2>2, <2>3 DEF Derive
    <2>5. ChainKey(r) \in Keys
      BY <1>1, <2>2, ChainKeyType
    <2> HIDE DEF r, dw
    <2>6. dw \in DerivedType /\ Grows(dv, dw) /\ ChainKey(r) \in dw[b]
      BY <2>4, <2>5 DEF DerivedType, Grows
    <2>7. PairOK(r, b, dw)
      BY <1>1, <2>2, <2>3, <2>6 DEF PairOK
    <2>8. QED
      BY <1>4, <2>2, <2>3, <2>6, <2>7 DEF r, dw
  <1>5. QED
    BY <1>2, <1>3, <1>4

\* Rx_confirm: what the peer confirms, it has derived
LEMMA RxConfirmOK ==
  ASSUME NEW b \in Boards, NEW dv, NEW p, PairOK(p, b, dv), p.state # "IDLE",
         NEW f \in Frame, f.sub = "CONFIRM", f.from # b, Genuine(f, dv)
  PROVE  LET r == RxConfirm(p, f.from, f.arg) IN
         /\ PairOK(r, b, dv) /\ r.peer = p.peer
         /\ r.state # "ABORTED" => p.state # "ABORTED"
  <1> DEFINE r == RxConfirm(p, f.from, f.arg)
  <1>1. CASE p.peer = NoOffer \/ f.from # p.peer[1]
    BY <1>1 DEF RxConfirm
  <1>2. CASE p.peer # NoOffer /\ f.from = p.peer[1] /\ f.arg # ExpectConfirm(p)
    <2>1. r = AbortWith(p)
      BY <1>2 DEF RxConfirm
    <2>2. QED
      BY <2>1, AbortOK
  <1>3. CASE p.peer # NoOffer /\ f.from = p.peer[1] /\ f.arg = ExpectConfirm(p)
    <2>1. CASE p.state = "CONFIRM_WAIT"
      <3>1. r = [p EXCEPT !.state = "DONE", !.ev = @ \cup {"completed"}]
        BY <1>3, <2>1 DEF RxConfirm
      <3>2. /\ r.peer = p.peer /\ r.self = p.self /\ r.state = "DONE"
            /\ r \in Pair
        <4>1. p \in Pair
          BY DEF PairOK
        <4>2. p.ev \cup {"completed"} \in SUBSET Events
          BY <4>1 DEF Pair, Events
        <4>3. QED
          BY <3>1, <4>1, <4>2 DEF Pair
      <3>3. f.arg[1] = ChainKey(p) /\ ChainKey(p) # {}
        BY <1>3 DEF ExpectConfirm, ChainKey
      <3>4. ChainKey(p) \in dv[f.from] /\ f.from \in Boards \ {b}
        BY <3>3 DEF Genuine, Frame
      <3>5. Shared(ChainKey(p), b, dv)
        BY <1>3, <3>4 DEF Shared, PairOK
      <3>6. QED
        BY <1>3, <2>1, <3>2, <3>5 DEF PairOK, ChainKey
    <2>2. CASE p.state # "CONFIRM_WAIT"
      BY <1>3, <2>2 DEF RxConfirm
    <2>3. QED
      BY <2>1, <2>2
  <1>4. QED
    BY <1>1, <1>2, <1>3

\* Dhp_pair_rx, with what it leaves derived and heard
LEMMA RxOK ==
  ASSUME NEW b \in Boards, NEW dv \in DerivedType, NEW p, PairOK(p, b, dv),
         NEW isOpen \in BOOLEAN, NEW h, HeardOK(p, isOpen, h),
         NEW f \in Frame, f.from # b, Genuine(f, dv)
  PROVE  LET r == Rx(p, f, isOpen)
             dw == Derive(b, p, r, dv)
             hw == IF f.sub = "OFFER" /\ p.state \notin {"IDLE", "ABORTED"}
                   THEN h \cup {f.from} ELSE h
         IN  /\ PairOK(r, b, dw) /\ dw \in DerivedType /\ Grows(dv, dw)
             /\ HeardOK(r, isOpen, hw)
  <1> DEFINE r == Rx(p, f, isOpen)
             dw == Derive(b, p, r, dv)
             hw == IF f.sub = "OFFER" /\ p.state \notin {"IDLE", "ABORTED"}
                   THEN h \cup {f.from} ELSE h
  <1>1. f.sub \in {"OFFER", "CONFIRM", "ABORT"} /\ p \in Pair
    BY DEF Frame, PairOK
  <1>2. p.state \in {"IDLE", "WAITING", "CONFIRM_WAIT", "DONE", "ABORTED"}
    BY <1>1 DEF Pair
  <1>3. ASSUME PairOK(r, b, dv), r.peer = p.peer
        PROVE  PairOK(r, b, dw) /\ dw \in DerivedType /\ Grows(dv, dw)
    <2>1. dw = dv
      BY <1>3 DEF Derive
    <2>2. QED
      BY <1>3, <2>1 DEF Grows
  <1>4. CASE p.state \in {"IDLE", "ABORTED"}
    <2>1. r = p
      BY <1>4, Zenon DEF Rx
    <2>2. hw = h
      BY <1>4
    <2>3. QED
      BY <1>3, <2>1, <2>2
  <1>5. CASE p.state = "DONE" /\ f.sub = "OFFER"
    <2>1. p.state \notin {"IDLE", "ABORTED"}
      BY <1>5
    <2>2. r = RxLate(p, f.from, isOpen)
      BY <1>5, <2>1 DEF Rx
    <2>3. CASE isOpen /\ f.from # p.peer[1]
      <3>1. r = AbortWith(p)
        BY <2>2, <2>3 DEF RxLate
      <3>2. PairOK(r, b, dv) /\ r.state = "ABORTED" /\ r.peer = p.peer
        BY <2>1, <3>1, AbortOK
      <3>3. HeardOK(r, isOpen, hw)
        BY <3>2 DEF HeardOK
      <3>4. QED
        BY <1>3, <3>2, <3>3
    <2>4. CASE ~(isOpen /\ f.from # p.peer[1])
      <3>1. r = p
        BY <2>2, <2>4 DEF RxLate
      <3>2. p.peer # NoOffer
        BY <1>5 DEF PairOK
      <3>3. HeardOK(p, isOpen, h \cup {f.from})
        BY <2>4, <3>2 DEF HeardOK
      <3>4. QED
        BY <1>3, <1>5, <3>1, <3>3
    <2>5. QED
      BY <2>3, <2>4
  <1>6. CASE p.state \in {"WAITING", "CONFIRM_WAIT"} /\ f.sub = "OFFER"
    <2>1. p.state \notin {"IDLE", "ABORTED"} /\ p.state # "DONE"
      BY <1>6
    <2>2. r = RxOffer(p, f.arg)
      BY <1>6, <2>1 DEF Rx
    <2>3. f.arg \in Offers /\ f.arg[1] = f.from
      BY <1>6 DEF Genuine
    <2>4. /\ PairOK(r, b, dw) /\ dw \in DerivedType /\ Grows(dv, dw)
          /\ r.state # "ABORTED" => /\ r.peer[1] = f.from /\ r.peer # NoOffer
                                    /\ r.peer = p.peer \/ p.peer = NoOffer
      BY <1>6, <2>2, <2>3, RxOfferOK
    <2>5. hw = h \cup {f.from}
      BY <1>6, <2>1
    <2>6. HeardOK(r, isOpen, hw)
      BY <2>1, <2>4, <2>5 DEF HeardOK
    <2>7. QED
      BY <2>4, <2>6
  <1>7. CASE p.state \notin {"IDLE", "ABORTED"} /\ f.sub = "CONFIRM"
    <2>1. f.sub # "OFFER"
      BY <1>7
    <2>2. r = RxConfirm(p, f.from, f.arg)
      BY <1>7, <2>1 DEF Rx
    <2>3. p.state # "IDLE"
      BY <1>7
    <2>4. PairOK(r, b, dv) /\ r.peer = p.peer
      BY <1>7, <2>2, <2>3, RxConfirmOK
    <2>5. HeardOK(r, isOpen, hw)
      BY <1>7, <2>1, <2>4 DEF HeardOK
    <2>6. QED
      BY <1>3, <2>4, <2>5
  <1>8. CASE p.state \notin {"IDLE", "ABORTED"} /\ f.sub = "ABORT"
    <2>1. f.sub # "OFFER" /\ f.sub # "CONFIRM"
      BY <1>8
    <2>2. r = AbortWith(p)
      BY <1>8, <2>1 DEF Rx
    <2>3. PairOK(r, b, dv) /\ r.state = "ABORTED" /\ r.peer = p.peer
      BY <1>8, <2>2, AbortOK
    <2>4. HeardOK(r, isOpen, hw)
      BY <2>3 DEF HeardOK
    <2>5. QED
      BY <1>3, <2>3, <2>4
  <1>9. QED
    BY <1>1, <1>2, <1>4, <1>5, <1>6, <1>7, <1>8

-----------------------------------------------------------------------------
(* Wires *)

\* Frames that may be found on them may be put there
LEMMA TransmitOK ==
  ASSUME NEW b \in Boards, NEW to \in SUBSET Boards, NEW ms, NEW q, NEW dv,
         WireOK(q, dv),
         \A d \in to : ms \in Seq(Frame) /\ ms \in Seq(Inbound(d, b, dv))
  PROVE  WireOK(Transmit(q, b, to, ms), dv)
  <1> DEFINE t == Transmit(q, b, to, ms)
  <1>1. ASSUME NEW d \in Boards, NEW c \in Boards
        PROVE  t[d][c] \in Seq(Frame) /\ t[d][c] \in Seq(Inbound(d, c, dv))
    <2>1. q[d][c] \in Seq(Frame) /\ q[d][c] \in Seq(Inbound(d, c, dv))
      BY DEF WireOK
    <2>2. CASE c = b /\ d \in to
      <3>1. t[d][c] = q[d][c] \o ms
        BY <2>2, Zenon DEF Transmit
      <3>2. QED
        BY <2>1, <2>2, <3>1, ConcatProperties
    <2>3. CASE ~(c = b /\ d \in to)
      <3>1. t[d][c] = q[d][c]
        BY <2>3, Zenon DEF Transmit
      <3>2. QED
        BY <2>1, <3>1
    <2>4. QED
      BY <2>2, <2>3
  <1>2. t \in [Boards -> [Boards -> Seq(Frame)]]
    BY <1>1, Zenon DEF Transmit
  <1>3. QED
    BY <1>1, <1>2 DEF WireOK

\* Taking a frame off a wire
LEMMA PopOK ==
  ASSUME NEW b \in Boards, NEW d \in Boards, NEW q, NEW dv, WireOK(q, dv),
         q[b][d] # <<>>
  PROVE  /\ WireOK([q EXCEPT ![b][d] = Tail(@)], dv)
         /\ Head(q[b][d]) \in Frame
         /\ Head(q[b][d]) \in Inbound(b, d, dv)
  <1>1. q[b][d] \in Seq(Frame) /\ q[b][d] \in Seq(Inbound(b, d, dv))
    BY DEF WireOK
  <1>2. /\ Tail(q[b][d]) \in Seq(Frame)
        /\ Tail(q[b][d]) \in Seq(Inbound(b, d, dv))
        /\ Head(q[b][d]) \in Frame
        /\ Head(q[b][d]) \in Inbound(b, d, dv)
    BY <1>1, HeadTailProperties
  <1>3. QED
    BY <1>2 DEF WireOK

\* A frame passed on keeps moving away from its sender
LEMMA RelayOK ==
  ASSUME NEW b \in Boards, NEW d \in Boards, NEW dv, NEW q, WireOK(q, dv),
         NEW f \in Inbound(b, d, dv)
  PROVE  WireOK(Transmit(q, b, Neighbours(b) \ {d}, <<f>>), dv) /\ f.from # b
  <1>1. f \in Frame /\ f.from \in Boards
    BY DEF Inbound, Frame
  <1>2. f.from # b
    BY <1>1, PairingAssumption DEF Inbound, Boards, Neighbours
  <1>3. ASSUME NEW c \in Neighbours(b) \ {d}
        PROVE  f \in Inbound(c, b, dv)
    <2>1. c \in Boards /\ (c = b - 1 \/ c = b + 1) /\ c # d
      BY DEF Neighbours
    <2>2. b \in Neighbours(c) /\ Genuine(f, dv)
      BY <2>1, PairingAssumption DEF Neighbours, Boards, Inbound
    <2>3. /\ d \in Neighbours(b)
          /\ d < b => f.from < b
          /\ d > b => f.from > b
      BY DEF Inbound
    <2>4. /\ b < c => f.from < c
          /\ b > c => f.from > c
      BY <1>1, <2>1, <2>3, PairingAssumption DEF Neighbours, Boards
    <2>5. QED
      BY <1>1, <2>2, <2>4 DEF Inbound
  <1>4. QED
    <2>1. \A c \in Neighbours(b) \ {d} :
            <<f>> \in Seq(Frame) /\ <<f>> \in Seq(Inbound(c, b, dv))
      BY <1>1, <1>3
    <2>2. Neighbours(b) \ {d} \in SUBSET Boards
      BY DEF Neighbours
    <2>3. QED
      BY <1>2, <2>1, <2>2, TransmitOK

\* what pairing_drain of b's may hand to the link
Said(b, dv) ==
  {e \in [sub : {"OFFER", "CONFIRM", "ABORT"},
          arg : Offers \cup {NoOffer} \cup Confirms] :
     /\ e.sub = "OFFER" => e.arg \in Offers /\ e.arg[1] = b
     /\ e.sub = "CONFIRM" => /\ e.arg \in Confirms
                             /\ e.arg[1] # {} => e.arg[1] \in dv[b]}

\* What the events ask for is true
LEMMA FramesOK ==
  ASSUME NEW b \in Boards, NEW dv, NEW p, PairOK(p, b, dv)
  PROVE  Frames(p) \in Seq(Said(b, dv))
  <1> DEFINE S == Said(b, dv)
             o == IF "send_offer" \in p.ev
                  THEN <<[sub |-> "OFFER", arg |-> p.self]>> ELSE <<>>
             c == IF "send_confirm" \in p.ev /\ p.peer # NoOffer
                  THEN <<[sub |-> "CONFIRM", arg |-> OwnConfirm(p)]>> ELSE <<>>
             a == IF "send_abort" \in p.ev
                  THEN <<[sub |-> "ABORT", arg |-> NoOffer]>> ELSE <<>>
  <1>0. p \in Pair
    BY DEF PairOK
  <1>1. o \in Seq(S)
    <2>1. CASE "send_offer" \in p.ev
      <3>1. p.self \in Offers /\ p.self[1] = b
        BY <2>1 DEF PairOK
      <3>2. [sub |-> "OFFER", arg |-> p.self] \in S
        BY <3>1 DEF Said
      <3>3. QED
        BY <2>1, <3>2
    <2>2. QED
      BY <2>1, EmptySeq
  <1>2. c \in Seq(S)
    <2>1. CASE "send_confirm" \in p.ev /\ p.peer # NoOffer
      <3>1. p.self \in Offers /\ p.peer \in Offers /\ ChainKey(p) \in dv[b]
        BY <1>0, <2>1 DEF PairOK, Pair
      <3>2. ChainKey(p) \in SUBSET Offers
        BY <3>1, ChainKeyType
      <3>3. OwnConfirm(p) \in Confirms
        BY <3>1, <3>2 DEF OwnConfirm, Confirms
      <3>4. OwnConfirm(p)[1] # {} => OwnConfirm(p)[1] \in dv[b]
        BY <3>1 DEF OwnConfirm
      <3>5. [sub |-> "CONFIRM", arg |-> OwnConfirm(p)] \in S
        BY <3>3, <3>4 DEF Said
      <3>6. QED
        BY <2>1, <3>5
    <2>2. QED
      BY <2>1, EmptySeq
  <1>3. a \in Seq(S)
    <2>1. [sub |-> "ABORT", arg |-> NoOffer] \in S
      BY DEF Said
    <2>2. QED
      BY <2>1, EmptySeq
  <1>4. Frames(p) = o \o c \o a
    BY DEF Frames
  <1> HIDE DEF o, c, a, S
  <1>5. o \o c \o a \in Seq(S)
    BY <1>1, <1>2, <1>3, ConcatProperties
  <1>6. QED
    BY <1>4, <1>5 DEF S

\* Dhp_link_send puts it on the wires to both neighbours
LEMMA EmitOK ==
  ASSUME NEW b \in Boards, NEW dv, WireOK(wire, dv), NEW K \in Keys,
         NEW ms \in Seq(Said(b, dv))
  PROVE  WireOK(Emit(b, K, ms), dv)
  <1> DEFINE Tagged(e) == [sub |-> e.sub, from |-> b, arg |-> e.arg, mac |-> K]
             fs == [i \in DOMAIN ms |-> Tagged(ms[i])]
  <1>1. ASSUME NEW e \in Said(b, dv)
        PROVE  /\ Tagged(e) \in Frame
               /\ \A d \in Neighbours(b) : Tagged(e) \in Inbound(d, b, dv)
    <2>1. Tagged(e) \in Frame
      BY DEF Said, Frame
    <2>2. Genuine(Tagged(e), dv)
      BY DEF Said, Genuine
    <2>3. ASSUME NEW d \in Neighbours(b)
          PROVE  Tagged(e) \in Inbound(d, b, dv)
      <3>1. d \in Boards /\ (d = b - 1 \/ d = b + 1)
        BY DEF Neighbours
      <3>2. b \in Neighbours(d)
        BY <3>1, PairingAssumption DEF Neighbours, Boards
      <3>3. (b < d => Tagged(e).from < d) /\ (b > d => Tagged(e).from > d)
        BY <3>1
      <3> HIDE DEF Tagged
      <3>4. QED
        BY <2>1, <2>2, <3>2, <3>3 DEF Inbound
    <2>4. QED
      BY <2>1, <2>3
  <1> HIDE DEF Tagged
  <1>2. /\ fs \in Seq(Frame)
        /\ \A d \in Neighbours(b) : fs \in Seq(Inbound(d, b, dv))
    <2>1. \A i \in DOMAIN ms : ms[i] \in Said(b, dv)
      BY ElementOfSeq, LenProperties
    <2>2. Len(ms) \in Nat /\ DOMAIN ms = 1..Len(ms)
      BY LenProperties
    <2>3. \A i \in 1..Len(ms) :
            /\ Tagged(ms[i]) \in Frame
            /\ \A d \in Neighbours(b) : Tagged(ms[i]) \in Inbound(d, b, dv)
      BY <1>1, <2>1, <2>2
    <2>4. fs = [i \in 1..Len(ms) |-> Tagged(ms[i])]
      BY <2>2
    <2>5. QED
      BY <2>2, <2>3, <2>4
  <1>3. CASE K = NoKey
    BY <1>3 DEF Emit
  <1>4. CASE K # NoKey
    <2>1. Emit(b, K, ms) = Transmit(wire, b, Neighbours(b), fs)
      BY <1>4, Zenon DEF Emit, Tagged
    <2>2. Neighbours(b) \in SUBSET Boards
      BY DEF Neighbours
    <2> HIDE DEF fs
    <2>3. QED
      BY <1>2, <2>1, <2>2, TransmitOK
  <1>5. QED
    BY <1>3, <1>4

-----------------------------------------------------------------------------
(* The actions *)

\* the conjuncts of the invariant that pairing_drain may disturb
Drained ==
  /\ derived' = derived
  /\ pair' \in [Boards -> Pair]
  /\ \A b \in Boards : PairOK(pair[b], b, derived)'
  /\ link_key' \in [Boards -> Keys] /\ saved' \in [Boards -> Keys]
  /\ \A b \in Boards :
       KeyOK(link_key[b], b, derived)' /\ KeyOK(saved[b], b, derived)'
  /\ WireOK(wire, derived)'

\* A pairing that is done may install its key
LEMMA InstallOK ==
  ASSUME NEW b \in Boards, NEW dv, NEW p, PairOK(p, b, dv), Installs(p)
  PROVE  KeyOK(ChainKey(p), b, dv)
  <1>1. p.self \in Offers /\ p.peer \in Offers /\ Shared(ChainKey(p), b, dv)
    BY DEF PairOK, Pair, Installs
  <1>2. QED
    BY <1>1, ChainKeyType DEF KeyOK

\* One board's key replaced by another that is as good
LEMMA ReplaceKey ==
  ASSUME NEW b \in Boards, NEW f \in [Boards -> Keys], NEW K, NEW dv,
         KeyOK(K, b, dv), \A d \in Boards : KeyOK(f[d], d, dv)
  PROVE  LET g == [f EXCEPT ![b] = K]
         IN  g \in [Boards -> Keys] /\ \A d \in Boards : KeyOK(g[d], d, dv)
  <1>1. K \in Keys
    BY DEF KeyOK
  <1>2. QED
    BY <1>1

\* one board's pairing replaced by another that is as sound
LEMMA ReplacePair ==
  ASSUME NEW b \in Boards, NEW f \in [Boards -> Pair], NEW p, NEW dv,
         PairOK(p, b, dv), \A d \in Boards : PairOK(f[d], d, dv)
  PROVE  LET g == [f EXCEPT ![b] = p]
         IN  g \in [Boards -> Pair] /\ \A d \in Boards : PairOK(g[d], d, dv)
  <1>1. p \in Pair
    BY DEF PairOK
  <1>2. QED
    BY <1>1

\* Pairing_drain
LEMMA PairingDrainOK ==
  ASSUME IInv, NEW b \in Boards, NEW p, PairOK(p, b, derived), NEW K, NEW s,
         KeyOK(K, b, derived), KeyOK(s, b, derived), PairingDrain(b, p, K, s)
  PROVE  Drained
  <1>1. derived' = derived
    BY DEF PairingDrain
  <1>2. pair' \in [Boards -> Pair] /\ \A d \in Boards : PairOK(pair'[d], d, derived)
    BY DrainedOK, ReplacePair DEF PairingDrain, IInv
  <1>3. /\ link_key' \in [Boards -> Keys]
        /\ \A d \in Boards : KeyOK(link_key'[d], d, derived)
    BY InstallOK, ReplaceKey DEF PairingDrain, IInv
  <1>4. /\ saved' \in [Boards -> Keys]
        /\ \A d \in Boards : KeyOK(saved'[d], d, derived)
    BY InstallOK, ReplaceKey DEF PairingDrain, IInv
  <1>5. WireOK(wire', derived)
    <2>1. K \in Keys /\ Frames(p) \in Seq(Said(b, derived))
      BY FramesOK DEF KeyOK
    <2>2. QED
      BY <2>1, EmitOK DEF PairingDrain, IInv
  <1>6. QED
    BY <1>1, <1>2, <1>3, <1>4, <1>5 DEF Drained

\* The invariant holds initially, and below is kept by each action
LEMMA InitOK == Init => IInv
  <1> SUFFICES ASSUME Init PROVE IInv
    OBVIOUS
  <1>1. derived \in [Boards -> SUBSET Keys] /\ heard \in [Boards -> SUBSET Boards]
    BY DEF Init
  <1>2. pair \in [Boards -> Pair] /\ \A b \in Boards : PairOK(pair[b], b, derived)
    <2>1. Idle \in Pair
      BY DEF Idle, Pair
    <2>2. QED
      BY <2>1, IdleOK DEF Init
  <1>3. /\ link_key \in [Boards -> Keys] /\ saved \in [Boards -> Keys]
        /\ \A b \in Boards : /\ KeyOK(link_key[b], b, derived)
                             /\ KeyOK(saved[b], b, derived)
    <2>1. NoKey \in Keys /\ OldKey \in Keys
      BY DEF Keys
    <2>2. QED
      BY <2>1 DEF Init, KeyOK
  <1>4. WireOK(wire, derived)
    BY EmptySeq DEF Init, WireOK
  <1>5. open \in [Boards -> BOOLEAN]
    BY DEF Init
  <1>6. events \in 0..MaxEvents /\ begun \in [Boards -> 0..events]
    BY PairingAssumption DEF Init
  <1>7. \A b \in Boards : HeardOK(pair[b], open[b], heard[b])
    BY DEF Init, HeardOK
  <1>8. QED
    BY <1>1, <1>2, <1>3, <1>4, <1>5, <1>6, <1>7 DEF IInv

\* A frame read keeps the invariant
LEMMA ReadOK ==
  ASSUME IInv, NEW b \in Boards, NEW d \in Boards, Read(b, d)
  PROVE  IInv'
  <1> DEFINE f == Head(wire[b][d])
             rest == [wire EXCEPT ![b][d] = Tail(@)]
             r == Rx(pair[b], f, open[b])
             dw == Derive(b, pair[b], r, derived)
  <1>1. /\ wire[b][d] # <<>>
        /\ UNCHANGED <<open, link_key, saved, begun, events>>
    BY DEF Read
  <1>2. WireOK(rest, derived) /\ f \in Frame /\ f \in Inbound(b, d, derived)
    BY <1>1, PopOK DEF IInv
  <1>3. CASE ~Authentic(b, f)
    <2>1. wire' = rest /\ UNCHANGED <<pair, heard, derived>>
      BY <1>3 DEF Read
    <2> HIDE DEF rest
    <2>2. WireOK(wire, derived)'
      BY <1>2, <2>1
    <2>3. QED
      BY <1>1, <2>1, <2>2 DEF IInv
  <1>4. CASE Authentic(b, f)
    <2> DEFINE hw == IF f.sub = "OFFER" /\ pair[b].state \notin {"IDLE", "ABORTED"}
                     THEN heard[b] \cup {f.from} ELSE heard[b]
    <2>1. /\ wire' = Transmit(rest, b, Neighbours(b) \ {d}, <<f>>)
          /\ pair' = [pair EXCEPT ![b] = r]
          /\ heard' = IF f.sub = "OFFER"
                         /\ pair[b].state \notin {"IDLE", "ABORTED"}
                      THEN [heard EXCEPT ![b] = @ \cup {f.from}] ELSE heard
          /\ derived' = IF pair'[b].peer # pair[b].peer
                        THEN [derived EXCEPT ![b] = @ \cup {ChainKey(pair'[b])}]
                        ELSE derived
      BY <1>4 DEF Read
    <2>2. pair'[b] = r
      BY <2>1 DEF IInv
    <2>3. derived' = dw
      BY <2>1, <2>2 DEF Derive
    <2>4. heard' = [heard EXCEPT ![b] = hw]
      BY <2>1 DEF IInv
    <2> HIDE DEF rest, f
    <2>5. WireOK(wire', derived) /\ f.from # b
      BY <1>2, <2>1, RelayOK
    <2>6. /\ PairOK(r, b, dw) /\ dw \in DerivedType /\ Grows(derived, dw)
          /\ HeardOK(r, open[b], hw)
      <3>1. /\ derived \in DerivedType /\ PairOK(pair[b], b, derived)
            /\ open[b] \in BOOLEAN /\ HeardOK(pair[b], open[b], heard[b])
        BY DEF IInv, DerivedType
      <3>2. Genuine(f, derived)
        BY <1>2 DEF Inbound
      <3>3. QED
        BY <1>2, <2>5, <3>1, <3>2, RxOK
    <2>7. f.from \in Boards
      BY <1>2 DEF Frame
    <2> HIDE DEF r, dw
    <2>8. WireOK(wire, derived)'
      BY <2>3, <2>5, <2>6, WireGrows
    <2>9. pair' \in [Boards -> Pair] /\ \A c \in Boards : PairOK(pair'[c], c, derived')
      <3>1. \A c \in Boards : PairOK(pair[c], c, dw)
        BY <2>6, PairGrows DEF IInv
      <3>2. pair \in [Boards -> Pair] /\ PairOK(r, b, dw)
        BY <2>6 DEF IInv
      <3>3. /\ pair' \in [Boards -> Pair]
            /\ \A c \in Boards : PairOK(pair'[c], c, dw)
        BY <2>1, <3>1, <3>2, ReplacePair
      <3>4. QED
        BY <2>3, <3>3
    <2>10. \A c \in Boards :
             KeyOK(link_key[c], c, derived)' /\ KeyOK(saved[c], c, derived)'
      BY <1>1, <2>3, <2>6, KeyGrows DEF IInv
    <2>11. heard' \in [Boards -> SUBSET Boards]
      BY <2>4, <2>7 DEF IInv
    <2>12. \A c \in Boards : HeardOK(pair[c], open[c], heard[c])'
      <3> HIDE DEF hw
      <3>1. QED
        BY <1>1, <2>1, <2>4, <2>6 DEF IInv
    <2>13. QED
      BY <1>1, <2>3, <2>6, <2>8, <2>9, <2>10, <2>11, <2>12 DEF IInv, DerivedType
  <1>5. QED
    BY <1>3, <1>4

\* A pass of the main loop keeps the invariant
LEMMA TurnOK ==
  ASSUME IInv, NEW b \in Boards, Turn(b)
  PROVE  IInv'
  <1> DEFINE p == Tick(pair[b], open[b])
  <1>1. PairingDrain(b, p, link_key[b], saved[b])
        /\ UNCHANGED <<open, begun, heard, events>>
    BY DEF Turn
  <1>2. PairOK(p, b, derived) /\ HeardOK(p, open[b], heard[b])
    BY TickOK DEF IInv
  <1> HIDE DEF p
  <1>3. Drained
    BY <1>1, <1>2, PairingDrainOK DEF IInv
  <1>4. HeardOK([p EXCEPT !.ev = {}], open[b], heard[b])
    BY <1>2 DEF HeardOK, PairOK, Pair
  <1>5. \A c \in Boards : HeardOK(pair[c], open[c], heard[c])'
    BY <1>1, <1>4 DEF PairingDrain, IInv
  <1>6. QED
    BY <1>1, <1>3, <1>5 DEF IInv, Drained

\* One more event
LEMMA EventOK ==
  ASSUME IInv, events < MaxEvents, events' = events + 1
  PROVE  events' \in 0..MaxEvents /\ begun \in [Boards -> 0..events']
  <1>1. events \in 0..MaxEvents /\ begun \in [Boards -> 0..events]
    BY DEF IInv
  <1>2. 0..events \subseteq 0..(events + 1)
    BY <1>1
  <1>3. QED
    BY <1>1, <1>2, PairingAssumption

\* so does a pass in which the key cannot be saved
LEMMA TurnSaveFailsOK ==
  ASSUME IInv, NEW b \in Boards, TurnSaveFails(b)
  PROVE  IInv'
  <1> DEFINE p == pair[b]
  <1>1. /\ Installs(p) /\ events < MaxEvents /\ events' = events + 1
        /\ wire' = Emit(b, link_key[b], Frames(p))
        /\ pair' = [pair EXCEPT ![b] = [p EXCEPT !.ev = {}]]
        /\ link_key' = [link_key EXCEPT ![b] = ChainKey(p)]
        /\ UNCHANGED <<open, saved, begun, heard, derived>>
    BY DEF TurnSaveFails
  <1>2. PairOK(p, b, derived) /\ p \in Pair
    BY DEF IInv
  <1>3. pair' \in [Boards -> Pair] /\ \A d \in Boards : PairOK(pair'[d], d, derived)
    BY <1>1, <1>2, DrainedOK, ReplacePair DEF IInv
  <1>4. /\ link_key' \in [Boards -> Keys]
        /\ \A d \in Boards : KeyOK(link_key'[d], d, derived)
    BY <1>1, <1>2, InstallOK, ReplaceKey DEF IInv
  <1>5. WireOK(wire', derived)
    BY <1>1, <1>2, FramesOK, EmitOK DEF IInv
  <1>6. HeardOK([p EXCEPT !.ev = {}], open[b], heard[b])
    BY <1>2 DEF HeardOK, Pair, IInv
  <1>7. \A c \in Boards : HeardOK(pair[c], open[c], heard[c])'
    BY <1>1, <1>6 DEF IInv
  <1>8. events' \in 0..MaxEvents /\ begun' \in [Boards -> 0..events']
    BY <1>1, EventOK
  <1>9. QED
    BY <1>1, <1>3, <1>4, <1>5, <1>7, <1>8 DEF IInv

\* The pair button keeps the invariant
LEMMA PairButtonOK ==
  ASSUME IInv, NEW b \in Boards, PairButton(b)
  PROVE  IInv'
  <1> DEFINE p == Begin(pair[b], <<b, begun'[b]>>)
  <1>1. /\ events < MaxEvents /\ events' = events + 1
        /\ begun' = [begun EXCEPT ![b] = @ + 1]
        /\ open' = [open EXCEPT ![b] = TRUE]
        /\ heard' = [heard EXCEPT ![b] = {}]
        /\ PairingDrain(b, p, link_key[b], saved[b])
    BY DEF PairButton
  <1>2. begun' \in [Boards -> 0..events'] /\ begun'[b] \in 1..MaxEvents
        /\ events' \in 0..MaxEvents
    <2>1. begun \in [Boards -> 0..events] /\ events \in 0..MaxEvents
      BY DEF IInv
    <2>2. events' \in 0..MaxEvents /\ begun \in [Boards -> 0..events']
      BY <1>1, EventOK
    <2>3. begun[b] \in 0..events /\ begun'[b] = begun[b] + 1
      BY <1>1, <2>1
    <2>4. begun[b] + 1 \in 0..events' /\ begun[b] + 1 \in 1..MaxEvents
      BY <1>1, <2>1, <2>3, PairingAssumption
    <2>5. QED
      BY <1>1, <2>2, <2>3, <2>4
  <1>3. PairOK(p, b, derived)
    <2>1. <<b, begun'[b]>> \in Offers
      BY <1>2 DEF Offers
    <2>2. QED
      BY <2>1, BeginOK DEF IInv
  <1> HIDE DEF p
  <1>4. Drained
    BY <1>1, <1>3, PairingDrainOK DEF IInv
  <1>5. \A c \in Boards : HeardOK(pair[c], open[c], heard[c])'
    BY <1>1 DEF PairingDrain, IInv, HeardOK
  <1>6. open' \in [Boards -> BOOLEAN] /\ heard' \in [Boards -> SUBSET Boards]
    BY <1>1 DEF IInv
  <1>7. QED
    BY <1>2, <1>4, <1>5, <1>6 DEF IInv, Drained

\* so does the unpair button
LEMMA UnpairButtonOK ==
  ASSUME IInv, NEW b \in Boards, UnpairButton(b)
  PROVE  IInv'
  <1>1. /\ events < MaxEvents /\ events' = events + 1
        /\ open' = [open EXCEPT ![b] = FALSE]
        /\ heard' = [heard EXCEPT ![b] = {}]
        /\ PairingDrain(b, Idle, NoKey, NoKey)
        /\ begun' = begun
    BY DEF UnpairButton
  <1>2. KeyOK(NoKey, b, derived)
    BY DEF KeyOK, Keys
  <1>3. Drained
    BY <1>1, <1>2, IdleOK, PairingDrainOK
  <1>4. \A c \in Boards : HeardOK(pair[c], open[c], heard[c])'
    BY <1>1 DEF PairingDrain, IInv, HeardOK
  <1>5. open' \in [Boards -> BOOLEAN] /\ heard' \in [Boards -> SUBSET Boards]
    BY <1>1 DEF IInv
  <1>6. QED
    BY <1>1, <1>3, <1>4, <1>5, EventOK DEF IInv, Drained

\* a window that closes
LEMMA CloseOK ==
  ASSUME IInv, NEW b \in Boards, Close(b)
  PROVE  IInv'
  <1>1. events' \in 0..MaxEvents /\ begun \in [Boards -> 0..events']
    BY EventOK DEF Close, IInv
  <1>2. open' \in [Boards -> BOOLEAN]
    BY DEF Close, IInv
  <1>3. \A c \in Boards : HeardOK(pair[c], open[c], heard[c])'
    BY DEF Close, IInv, HeardOK
  <1>4. QED
    BY <1>1, <1>2, <1>3 DEF Close, IInv

\* a frame lost
LEMMA LoseOK ==
  ASSUME IInv, NEW b \in Boards, NEW d \in Boards, Lose(b, d)
  PROVE  IInv'
  <1>1. events' \in 0..MaxEvents /\ begun \in [Boards -> 0..events']
    BY EventOK DEF Lose
  <1>2. WireOK(wire', derived)
    BY PopOK DEF Lose, IInv
  <1>3. QED
    BY <1>1, <1>2 DEF Lose, IInv

\* and a restart, in the middle of a save or not
LEMMA RestartOK ==
  ASSUME IInv, NEW b \in Boards, Restart(b)
  PROVE  IInv'
  <1>1. /\ events < MaxEvents /\ events' = events + 1
        /\ pair' = [pair EXCEPT ![b] = Idle]
        /\ open' = [open EXCEPT ![b] = FALSE]
        /\ link_key' = [link_key EXCEPT ![b] = saved'[b]]
        /\ wire' = [wire EXCEPT ![b] = [d \in Boards |-> <<>>]]
        /\ heard' = [heard EXCEPT ![b] = {}]
        /\ begun' = begun /\ derived' = derived
    BY DEF Restart
  <1>2. saved' = saved \/ saved' = [saved EXCEPT ![b] = NoKey]
    BY DEF Restart, TornSave
  <1>3. KeyOK(NoKey, b, derived)
    BY DEF KeyOK, Keys
  <1>4. /\ saved' \in [Boards -> Keys]
        /\ \A d \in Boards : KeyOK(saved'[d], d, derived)
    <2>1. /\ saved \in [Boards -> Keys]
          /\ \A d \in Boards : KeyOK(saved[d], d, derived)
      BY DEF IInv
    <2>2. CASE saved' = saved
      BY <2>1, <2>2
    <2>3. CASE saved' = [saved EXCEPT ![b] = NoKey]
      BY <1>3, <2>1, <2>3, ReplaceKey
    <2>4. QED
      BY <1>2, <2>2, <2>3
  <1>5. /\ link_key' \in [Boards -> Keys]
        /\ \A d \in Boards : KeyOK(link_key'[d], d, derived)
    BY <1>1, <1>4, ReplaceKey DEF IInv
  <1>6. pair' \in [Boards -> Pair] /\ \A d \in Boards : PairOK(pair'[d], d, derived)
    BY <1>1, IdleOK, ReplacePair DEF IInv
  <1>7. WireOK(wire', derived)
    BY <1>1, EmptySeq DEF IInv, WireOK
  <1>8. \A c \in Boards : HeardOK(pair[c], open[c], heard[c])'
    BY <1>1 DEF IInv, HeardOK
  <1>9. open' \in [Boards -> BOOLEAN] /\ heard' \in [Boards -> SUBSET Boards]
    BY <1>1 DEF IInv
  <1>10. QED
    BY <1>1, <1>4, <1>5, <1>6, <1>7, <1>8, <1>9, EventOK DEF IInv

\* The invariant is inductive
LEMMA NextOK ==
  ASSUME IInv, [Next]_vars
  PROVE  IInv'
  <1>1. CASE Next
    BY <1>1, ReadOK, LoseOK, TurnOK, TurnSaveFailsOK, PairButtonOK,
       UnpairButtonOK, CloseOK, RestartOK DEF Next
  <1>2. CASE UNCHANGED vars
    BY <1>2 DEF vars, IInv, HeardOK, PairOK, KeyOK, WireOK
  <1>3. QED
    BY <1>1, <1>2

\* The invariant of every behaviour
LEMMA Invariance == Spec => []IInv
  BY InitOK, NextOK, PTL DEF Spec

(* Every record, key and counter keeps its type, and the states and the      *)
(* peer of a dhp_pair_t keep step: waiting without a peer, confirming and    *)
(* done with one.                                                            *)
THEOREM TypeCorrect == Spec => []TypeOK
  <1>1. IInv => TypeOK
    <2> SUFFICES ASSUME IInv PROVE TypeOK
      OBVIOUS
    <2>1. begun \in [Boards -> 0..MaxEvents]
      <3>1. events \in 0..MaxEvents /\ begun \in [Boards -> 0..events]
        BY DEF IInv
      <3>2. 0..events \subseteq 0..MaxEvents
        BY <3>1, PairingAssumption
      <3>3. QED
        BY <3>1, <3>2
    <2>2. QED
      BY <2>1 DEF IInv, TypeOK, PairOK
  <1>2. QED
    BY <1>1, Invariance, PTL

(* A key in use has been derived by two boards: what rx_confirm accepts was  *)
(* sent by a board that holds the key, and pairing_drain installs only what  *)
(* was accepted, whatever is lost, restarted or begun again.                 *)
THEOREM SharedKeys == Spec => []KeysAreShared
  <1>1. IInv => KeysAreShared
    BY DEF IInv, KeysAreShared, KeyOK, Shared
  <1>2. QED
    BY <1>1, Invariance, PTL

(* A board that has heard two peers in one window trusts neither.            *)
THEOREM TwoPeersAbort == Spec => []ThirdPartyAborts
  <1>1. IInv => ThirdPartyAborts
    <2> SUFFICES ASSUME IInv, NEW b \in Boards, open[b],
                        Cardinality(heard[b]) > 1, pair[b].state # "ABORTED"
                 PROVE  FALSE
      BY DEF ThirdPartyAborts
    <2>1. PICK x : heard[b] \subseteq {x}
      BY DEF IInv, HeardOK
    <2>2. IsFiniteSet({x}) /\ Cardinality({x}) = 1
      BY FS_Singleton
    <2>3. Cardinality(heard[b]) <= 1 /\ Cardinality(heard[b]) \in Nat
      BY <2>1, <2>2, FS_Subset, FS_CardinalityType
    <2>4. QED
      BY <2>3
  <1>2. QED
    BY <1>1, Invariance, PTL
-----------------------------------------------------------------------------
(* Two buttons.  The boards x and y that begin are followed from one side  *)
(* to the other: what each still waits for is on its way, or the other is  *)
(* about to send it.                                                       *)

\* All boards share the chain key: without one nothing is sent (emit_frame)
AllShare == Sharing = Boards

\* What y says to x, before either has a new key
Opening(y) == [sub |-> "OFFER", from |-> y, arg |-> <<y, 1>>, mac |-> OldKey]
NewKey(x, y) == {<<x, 1>>, <<y, 1>>}
Closing(x, y) == [sub |-> "CONFIRM", from |-> y,
                  arg |-> <<NewKey(x, y), <<y, 1>>>>, mac |-> OldKey]

\* The boards that frames of y's for x have still to reach, and where the
\* wires that take them there come from
Way(y, x) == IF y < x THEN (y + 1)..x ELSE x..(y - 1)
Before(y, x, c) == IF y < x THEN c - 1 ELSE c + 1
Nearer(y, x, a, c) == IF y < x THEN a > c ELSE a < c
Road(w, y, x, c) == w[c][Before(y, x, c)]

\* f is on its way from y to x
Coming(w, y, x, f) ==
  \E c \in Way(y, x) : \E i \in DOMAIN Road(w, y, x, c) : Road(w, y, x, c)[i] = f

\* y's offer is ahead of each of its confirmations
Led(w, y, x) ==
  \A c \in Way(y, x) : \A i \in DOMAIN Road(w, y, x, c) :
    Road(w, y, x, c)[i] = Closing(x, y) =>
      \E a \in Way(y, x) : \E j \in DOMAIN Road(w, y, x, a) :
        /\ Road(w, y, x, a)[j] = Opening(y)
        /\ Nearer(y, x, a, c) \/ (a = c /\ j < i)

\* A pairing of x's with y, the link's key k and the one saved, s
Half(p, k, s, x, y) ==
  /\ p.state \in {"WAITING", "CONFIRM_WAIT", "DONE"}
  /\ p.self = <<x, 1>>
  /\ p.peer = IF p.state = "WAITING" THEN NoOffer ELSE <<y, 1>>
  /\ "send_abort" \notin p.ev
  /\ p.state = "WAITING" => p.ev = {}
  /\ "completed" \in p.ev => p.state = "DONE"
  /\ IF p.state = "DONE" /\ "completed" \notin p.ev
     THEN p.ev = {} /\ k = NewKey(x, y) /\ s = NewKey(x, y)
     ELSE k = OldKey

\* What x waits for, p its pairing and q that of y
Owed(w, x, y, p, q) ==
  /\ p.state = "WAITING" =>
       /\ Led(w, y, x)
       /\ \/ Coming(w, y, x, Opening(y))
          \/ "send_offer" \in q.ev
          \/ q.state = "WAITING" /\ Coming(w, x, y, Opening(x))
  /\ p.state # "DONE" =>
       \/ q.state = "WAITING"
       \/ "send_confirm" \in q.ev
       \/ Coming(w, y, x, Closing(x, y))

\* The other boards have the old key and no part in it
Aside(b) == pair[b].state = "IDLE" /\ link_key[b] = OldKey

\* the wires carry nothing but frames of a set
Only(w, S) == \A b, d \in Boards : \A i \in DOMAIN w[b][d] : w[b][d][i] \in S

\* Before, between and after the two buttons
Nobody ==
  events = 0 => /\ \A b \in Boards : Aside(b) /\ begun[b] = 0
                /\ Only(wire, {})

One(b) ==
  events = 1 /\ begun[b] = 1 =>
    /\ \A c \in Boards \ {b} : Aside(c) /\ begun[c] = 0
    /\ open[b] => /\ pair[b].state = "WAITING" /\ pair[b].self = <<b, 1>>
                  /\ pair[b].ev = {} /\ link_key[b] = OldKey
                  /\ Only(wire, {Opening(b)})

Both(b, d) ==
  b # d /\ events = 2 /\ begun[b] = 1 /\ begun[d] = 1 /\ open[b] /\ open[d]

Two(b, d) ==
  Both(b, d) =>
    /\ \A c \in Boards \ {b, d} : Aside(c)
    /\ Half(pair[b], link_key[b], saved[b], b, d)
    /\ Half(pair[d], link_key[d], saved[d], d, b)
    /\ Only(wire, {Opening(b), Opening(d), Closing(b, d), Closing(d, b)})
    /\ Owed(wire, b, d, pair[b], pair[d])
    /\ Owed(wire, d, b, pair[d], pair[b])

PInv == Nobody /\ \A b, d \in Boards : One(b) /\ Two(b, d)

\* the next board on the way
After(y, x, c) == IF y < x THEN c + 1 ELSE c - 1

Wires == [Boards -> [Boards -> Seq(Frame)]]

\* The way is one board after the other
LEMMA WayIs ==
  ASSUME NEW y \in Boards, NEW x \in Boards, x # y
  PROVE  /\ x \in Way(y, x) /\ y \notin Way(y, x)
         /\ \A c \in Way(y, x) :
              /\ c \in Boards /\ Before(y, x, c) \in Neighbours(c)
              /\ Before(y, x, c) = y \/ Before(y, x, c) \in Way(y, x)
              /\ c = After(y, x, Before(y, x, c))
              /\ c # x => /\ After(y, x, c) \in Way(y, x)
                          /\ Before(y, x, After(y, x, c)) = c
              /\ \A d \in Neighbours(c) : d = Before(y, x, c) \/ d = After(y, x, c)
         /\ After(y, x, y) \in Way(y, x) /\ Before(y, x, After(y, x, y)) = y
  <1>1. N \in Nat /\ x \in 1..N /\ y \in 1..N
    BY PairingAssumption DEF Boards
  <1>2. CASE y < x
    BY <1>1, <1>2 DEF Way, Before, After, Boards, Neighbours
  <1>3. CASE ~(y < x)
    BY <1>1, <1>3 DEF Way, Before, After, Boards, Neighbours
  <1>4. QED
    BY <1>2, <1>3

\* The wires of the way are wires
LEMMA RoadType ==
  ASSUME NEW w \in Wires, NEW y \in Boards, NEW x \in Boards, x # y, NEW c \in Way(y, x)
  PROVE  /\ Road(w, y, x, c) \in Seq(Frame)
         /\ Len(Road(w, y, x, c)) \in Nat
         /\ DOMAIN Road(w, y, x, c) = 1..Len(Road(w, y, x, c))
  <1>1. c \in Boards /\ Before(y, x, c) \in Boards
    BY WayIs DEF Neighbours
  <1>2. Road(w, y, x, c) \in Seq(Frame)
    BY <1>1 DEF Road, Wires
  <1>3. QED
    BY <1>2, LenProperties

\* Frames added to the wires of the way leave what is coming, and its order
Longer(w, v, y, x, S) ==
  \A c \in Way(y, x) :
    \/ Road(v, y, x, c) = Road(w, y, x, c)
    \/ \E ms \in Seq(Frame) : /\ Road(v, y, x, c) = Road(w, y, x, c) \o ms
                              /\ \A i \in DOMAIN ms : ms[i] \in S

\* What was on the way is where it was, and what is new is of S
Kept(w, v, y, x) ==
  \A c \in Way(y, x) : \A i \in DOMAIN Road(w, y, x, c) :
    /\ i \in DOMAIN Road(v, y, x, c)
    /\ Road(v, y, x, c)[i] = Road(w, y, x, c)[i]

Adds(w, v, y, x, S) ==
  \A c \in Way(y, x) : \A i \in DOMAIN Road(v, y, x, c) :
    i \in DOMAIN Road(w, y, x, c) \/ Road(v, y, x, c)[i] \in S

\* (when frames of S are added)
LEMMA LongerIs ==
  ASSUME NEW w \in Wires, NEW v, NEW y \in Boards, NEW x \in Boards, x # y, NEW S,
         Longer(w, v, y, x, S)
  PROVE  Kept(w, v, y, x) /\ Adds(w, v, y, x, S)
  <1> SUFFICES ASSUME NEW c \in Way(y, x)
               PROVE  /\ \A i \in DOMAIN Road(w, y, x, c) :
                          /\ i \in DOMAIN Road(v, y, x, c)
                          /\ Road(v, y, x, c)[i] = Road(w, y, x, c)[i]
                      /\ \A i \in DOMAIN Road(v, y, x, c) :
                           i \in DOMAIN Road(w, y, x, c) \/ Road(v, y, x, c)[i] \in S
  BY DEF Kept, Adds
  <1> DEFINE r == Road(w, y, x, c)
             s == Road(v, y, x, c)
  <1>1. r \in Seq(Frame) /\ Len(r) \in Nat /\ DOMAIN r = 1..Len(r)
    BY RoadType
  <1>2. s = r \/ \E ms \in Seq(Frame) : s = r \o ms /\ \A i \in DOMAIN ms : ms[i] \in S
    BY DEF Longer
  <1> HIDE DEF r, s
  <1>3. CASE s = r
    BY <1>3 DEF r, s
  <1>4. ASSUME NEW ms \in Seq(Frame), s = r \o ms, \A i \in DOMAIN ms : ms[i] \in S
        PROVE  /\ \A i \in DOMAIN r : i \in DOMAIN s /\ s[i] = r[i]
               /\ \A i \in DOMAIN s : i \in DOMAIN r \/ s[i] \in S
    <2>1. Len(ms) \in Nat /\ DOMAIN ms = 1..Len(ms)
      BY LenProperties
    <2>2. /\ s \in Seq(Frame) /\ Len(s) = Len(r) + Len(ms)
          /\ \A i \in 1..(Len(r) + Len(ms)) :
               s[i] = IF i <= Len(r) THEN r[i] ELSE ms[i - Len(r)]
      BY <1>1, <1>4, ConcatProperties
    <2>3. DOMAIN s = 1..(Len(r) + Len(ms))
      BY <2>2, LenProperties
    <2>4. ASSUME NEW i \in DOMAIN s, i \notin DOMAIN r
          PROVE  s[i] \in S
      <3>1. i - Len(r) \in DOMAIN ms /\ s[i] = ms[i - Len(r)]
        BY <1>1, <2>1, <2>2, <2>3, <2>4
      <3>2. QED
        BY <1>4, <3>1
    <2>5. ASSUME NEW i \in DOMAIN r
          PROVE  i \in DOMAIN s /\ s[i] = r[i]
      BY <1>1, <2>1, <2>2, <2>3
    <2>6. QED
      BY <2>4, <2>5
  <1>5. QED
    BY <1>2, <1>3, <1>4 DEF r, s

\* so it is still coming,
LEMMA LongerComing ==
  ASSUME NEW w \in Wires, NEW v, NEW y \in Boards, NEW x \in Boards, x # y, NEW S,
         Longer(w, v, y, x, S), NEW g, Coming(w, y, x, g)
  PROVE  Coming(v, y, x, g)
  <1>1. Kept(w, v, y, x)
    BY LongerIs
  <1>2. QED
    BY <1>1, Zenon DEF Coming, Kept

\* and as before led by an offer
LEMMA LongerLed ==
  ASSUME NEW w \in Wires, NEW v, NEW y \in Boards, NEW x \in Boards, x # y, NEW S,
         Longer(w, v, y, x, S), Closing(x, y) \notin S, Led(w, y, x)
  PROVE  Led(v, y, x)
  <1>1. Kept(w, v, y, x) /\ Adds(w, v, y, x, S)
    BY LongerIs
  <1> SUFFICES ASSUME NEW c \in Way(y, x), NEW i \in DOMAIN Road(v, y, x, c),
                      Road(v, y, x, c)[i] = Closing(x, y)
               PROVE  \E a \in Way(y, x) : \E j \in DOMAIN Road(v, y, x, a) :
                        /\ Road(v, y, x, a)[j] = Opening(y)
                        /\ Nearer(y, x, a, c) \/ (a = c /\ j < i)
    BY DEF Led
  <1>2. i \in DOMAIN Road(w, y, x, c)
    BY <1>1, Zenon DEF Adds
  <1>3. Road(w, y, x, c)[i] = Closing(x, y)
    BY <1>1, <1>2, Zenon DEF Kept
  <1>4. PICK a \in Way(y, x) : \E j \in DOMAIN Road(w, y, x, a) :
                /\ Road(w, y, x, a)[j] = Opening(y)
                /\ Nearer(y, x, a, c) \/ (a = c /\ j < i)
    BY <1>2, <1>3, Zenon DEF Led
  <1>5. QED
    BY <1>1, <1>4, Zenon DEF Kept

\* A frame f read by b from d: taken off its wire, and passed on or not
Taken(w, v, b, d, f, on) ==
  /\ w[b][d] # <<>> /\ f = Head(w[b][d])
  /\ \A c, e \in Boards :
       v[c][e] = IF c = b /\ e = d THEN Tail(w[c][e])
                 ELSE IF on /\ e = b /\ c \in Neighbours(b) \ {d}
                 THEN w[c][e] \o <<f>> ELSE w[c][e]

\* Off the way nothing is taken, and added is at most what was read
LEMMA OffRoad ==
  ASSUME NEW w \in Wires, NEW v, NEW b \in Boards, NEW d \in Neighbours(b), NEW f, NEW on,
         Taken(w, v, b, d, f, on), NEW y \in Boards, NEW x \in Boards, x # y,
         b \notin Way(y, x) \/ d # Before(y, x, b)
  PROVE  Longer(w, v, y, x, IF b = y THEN {f} ELSE {})
  <1> DEFINE S == IF b = y THEN {f} ELSE {}
  <1> SUFFICES ASSUME NEW c \in Way(y, x), Road(v, y, x, c) # Road(w, y, x, c)
               PROVE  \E ms \in Seq(Frame) :
                        /\ Road(v, y, x, c) = Road(w, y, x, c) \o ms
                        /\ \A i \in DOMAIN ms : ms[i] \in S
    BY DEF Longer
  <1>1. PICK e : e = Before(y, x, c)
    OBVIOUS
  <1>2. c \in Boards /\ e \in Neighbours(c) /\ e \in Boards /\ c = After(y, x, e)
        /\ (e = y \/ e \in Way(y, x))
    BY <1>1, WayIs DEF Neighbours
  <1>3. v[c][e] # w[c][e]
    BY <1>1 DEF Road
  <1>4. ~(c = b /\ e = d)
    BY <1>1
  <1>5. on /\ e = b /\ c \in Neighbours(b) \ {d} /\ v[c][e] = w[c][e] \o <<f>>
    <2>1. v[c][e] = IF c = b /\ e = d THEN Tail(w[c][e])
                    ELSE IF on /\ e = b /\ c \in Neighbours(b) \ {d}
                    THEN w[c][e] \o <<f>> ELSE w[c][e]
      BY <1>2, Zenon DEF Taken
    <2>2. QED
      BY <1>3, <1>4, <2>1, Zenon
  <1>6. e = y
    <2>1. ASSUME e \in Way(y, x)
          PROVE  FALSE
      <3>1. d = Before(y, x, b) \/ d = After(y, x, b)
        BY <1>5, <2>1, WayIs
      <3>2. QED
        BY <1>2, <1>5, <2>1, <3>1
    <2>2. QED
      BY <1>2, <2>1
  <1>7. f \in Frame
    <2>1. w[b][d] \in Seq(Frame) /\ w[b][d] # <<>> /\ f = Head(w[b][d])
      BY DEF Wires, Taken, Neighbours
    <2>2. QED
      BY <2>1, HeadTailProperties
  <1>8. <<f>> \in Seq(Frame) /\ DOMAIN <<f>> = {1} /\ <<f>>[1] = f
    BY <1>7
  <1>9. \A i \in DOMAIN <<f>> : <<f>>[i] \in S
    BY <1>5, <1>6, <1>8
  <1>10. QED
    BY <1>1, <1>5, <1>8, <1>9 DEF Road

\* The frame a on wire i of the way is then the c-th of wire k
Moved(w, y, x, b, a, i, c, k) ==
  \/ a # b /\ c = a /\ k = i
  \/ a = b /\ i > 1 /\ c = b /\ k = i - 1
  \/ a = b /\ i = 1 /\ b # x /\ c = After(y, x, b) /\ k = Len(Road(w, y, x, c)) + 1

\* On the way every frame but the one read moves on
LEMMA OnRoad ==
  ASSUME NEW w \in Wires, NEW v, NEW b \in Boards, NEW d \in Boards, NEW f, NEW on,
         Taken(w, v, b, d, f, on), NEW y \in Boards, NEW x \in Boards, x # y,
         b \in Way(y, x), d = Before(y, x, b), b # x => on
  PROVE  /\ \A a \in Way(y, x) : \A i \in DOMAIN Road(w, y, x, a) :
              \/ a = b /\ i = 1 /\ b = x /\ Road(w, y, x, a)[i] = f
              \/ \E c \in Way(y, x) : \E k \in DOMAIN Road(v, y, x, c) :
                   /\ Moved(w, y, x, b, a, i, c, k)
                   /\ Road(v, y, x, c)[k] = Road(w, y, x, a)[i]
         /\ \A c \in Way(y, x) : \A k \in DOMAIN Road(v, y, x, c) :
              \E a \in Way(y, x) : \E i \in DOMAIN Road(w, y, x, a) :
                   /\ Moved(w, y, x, b, a, i, c, k)
                   /\ Road(v, y, x, c)[k] = Road(w, y, x, a)[i]
  <1> DEFINE W(c) == Road(w, y, x, c)
             V(c) == Road(v, y, x, c)
             n == After(y, x, b)
  <1>1. /\ b \in Boards /\ d \in Neighbours(b) /\ d # n
        /\ \A c \in Way(y, x) : /\ c \in Boards /\ Before(y, x, c) \in Boards
                                /\ (Before(y, x, c) = b => c = n /\ c # b)
        /\ b # x => n \in Way(y, x) /\ Before(y, x, n) = b /\ n \in Neighbours(b) /\ n # b
    <2>1. /\ b \in Boards /\ d \in Neighbours(b)
          /\ \A c \in Way(y, x) : /\ c \in Boards /\ Before(y, x, c) \in Neighbours(c)
                                  /\ c = After(y, x, Before(y, x, c))
      BY WayIs
    <2>2. b # n /\ d # n /\ \A c \in Boards : c # After(y, x, c) /\ Neighbours(c) \subseteq Boards
      BY <2>1, PairingAssumption DEF Boards, Before, After, Neighbours
    <2>3. ASSUME b # x
          PROVE  n \in Way(y, x) /\ Before(y, x, n) = b
      BY <2>3, WayIs
    <2>4. ASSUME b # x
          PROVE  n \in Neighbours(b)
      <3>1. n \in Boards
        BY <2>1, <2>3, <2>4
      <3>2. n = b - 1 \/ n = b + 1
        BY DEF After
      <3>3. QED
        BY <3>1, <3>2 DEF Neighbours
    <2>5. QED
      BY <2>1, <2>2, <2>3, <2>4
  <1>2. /\ W(b) # <<>> /\ f = Head(W(b)) /\ V(b) = Tail(W(b))
    BY <1>1 DEF Taken, Road, Neighbours
  <1>3. \A c \in Way(y, x) : c # b /\ c # n => V(c) = W(c)
    BY <1>1 DEF Taken, Road
  <1>4. b # x => V(n) = W(n) \o <<f>>
    BY <1>1 DEF Taken, Road
  <1>5. \A c \in Way(y, x) : W(c) \in Seq(Frame) /\ Len(W(c)) \in Nat /\ DOMAIN W(c) = 1..Len(W(c))
    BY RoadType
  <1>6. b = x => n \notin Way(y, x)
    BY PairingAssumption DEF Boards, Way, After
  <1> HIDE DEF W, V, n
  <1>7. /\ f = W(b)[1] /\ DOMAIN V(b) = 1..(Len(W(b)) - 1) /\ Len(W(b)) \in Nat \ {0}
        /\ \A k \in 1..(Len(W(b)) - 1) : V(b)[k] = W(b)[k + 1]
    <2>1. W(b) \in Seq(Frame)
      BY <1>5
    <2>2. /\ Tail(W(b)) \in Seq(Frame) /\ Len(Tail(W(b))) = Len(W(b)) - 1
          /\ \A k \in 1..Len(Tail(W(b))) : Tail(W(b))[k] = W(b)[k + 1]
          /\ f = W(b)[1]
      BY <1>2, <2>1, HeadTailProperties
    <2>3. DOMAIN V(b) = 1..Len(V(b)) /\ Len(W(b)) \in Nat
      BY <1>2, <2>1, <2>2, LenProperties
    <2>4. Len(W(b)) # 0
      BY <1>2, <2>1, EmptySeq
    <2>5. QED
      BY <1>2, <2>2, <2>3, <2>4
  <1>8. ASSUME b # x
        PROVE  /\ DOMAIN V(n) = 1..(Len(W(n)) + 1)
               /\ V(n)[Len(W(n)) + 1] = f
               /\ \A k \in 1..Len(W(n)) : V(n)[k] = W(n)[k]
    <2>1. W(n) \in Seq(Frame) /\ f \in Frame /\ Len(W(n)) \in Nat
      <3>1. W(b)[1] \in Frame
        BY <1>5, <1>7, ElementOfSeq
      <3>2. QED
        BY <1>1, <1>5, <1>7, <1>8, <3>1
    <2>2. /\ <<f>> \in Seq(Frame) /\ Len(<<f>>) = 1 /\ <<f>>[1] = f
      BY <2>1
    <2>3. /\ W(n) \o <<f>> \in Seq(Frame) /\ Len(W(n) \o <<f>>) = Len(W(n)) + 1
          /\ \A k \in 1..(Len(W(n)) + 1) :
               (W(n) \o <<f>>)[k] = IF k <= Len(W(n)) THEN W(n)[k] ELSE <<f>>[k - Len(W(n))]
      BY <2>1, <2>2, ConcatProperties
    <2>4. DOMAIN (W(n) \o <<f>>) = 1..(Len(W(n)) + 1)
      BY <2>3, LenProperties
    <2>5. QED
      BY <1>4, <1>8, <2>1, <2>2, <2>3, <2>4
  <1>9. ASSUME NEW a \in Way(y, x), NEW i \in DOMAIN W(a), ~(a = b /\ i = 1 /\ b = x)
        PROVE  \E c \in Way(y, x) : \E k \in DOMAIN V(c) :
                 Moved(w, y, x, b, a, i, c, k) /\ V(c)[k] = W(a)[i]
    <2>0. i \in 1..Len(W(a)) /\ Len(W(a)) \in Nat
      BY <1>5
    <2>1. CASE a # b /\ a # n
      BY <1>3, <2>1 DEF Moved
    <2>2. CASE a # b /\ a = n
      <3>1. b # x
        BY <1>6, <2>2
      <3>2. i \in DOMAIN V(n) /\ V(n)[i] = W(n)[i]
        BY <1>8, <2>0, <2>2, <3>1
      <3>3. QED
        BY <2>2, <3>2 DEF Moved
    <2>3. CASE a = b /\ i > 1
      <3>1. i - 1 \in DOMAIN V(b) /\ V(b)[i - 1] = W(b)[i]
        BY <1>7, <2>0, <2>3
      <3>2. QED
        BY <2>3, <3>1 DEF Moved
    <2>4. CASE a = b /\ ~(i > 1)
      <3>1. i = 1 /\ b # x
        BY <1>9, <2>0, <2>4
      <3>2. n \in Way(y, x) /\ Len(W(n)) + 1 \in DOMAIN V(n) /\ V(n)[Len(W(n)) + 1] = W(b)[1]
        BY <1>1, <1>5, <1>7, <1>8, <3>1
      <3>3. Moved(w, y, x, b, a, i, n, Len(W(n)) + 1)
        BY <2>4, <3>1 DEF Moved, W, n
      <3>4. QED
        BY <2>4, <3>1, <3>2, <3>3
    <2>5. QED
      BY <2>1, <2>2, <2>3, <2>4
  <1>10. ASSUME NEW c \in Way(y, x), NEW k \in DOMAIN V(c)
         PROVE  \E a \in Way(y, x) : \E i \in DOMAIN W(a) :
                  Moved(w, y, x, b, a, i, c, k) /\ V(c)[k] = W(a)[i]
    <2>1. CASE c # b /\ c # n
      BY <1>3, <2>1 DEF Moved
    <2>2. CASE c = b
      <3>1. k + 1 \in DOMAIN W(b) /\ V(b)[k] = W(b)[k + 1] /\ k + 1 > 1 /\ k = (k + 1) - 1
        BY <1>5, <1>7, <2>2
      <3>2. QED
        BY <2>2, <3>1 DEF Moved
    <2>3. CASE c = n /\ c # b
      <3>1. b # x /\ k \in 1..(Len(W(n)) + 1) /\ Len(W(n)) \in Nat
        BY <1>5, <1>6, <1>8, <2>3
      <3>2. CASE k <= Len(W(n))
        <4>1. k \in DOMAIN W(n) /\ V(n)[k] = W(n)[k]
          BY <1>5, <1>8, <2>3, <3>1, <3>2
        <4>2. QED
          BY <2>3, <4>1 DEF Moved
      <3>3. CASE ~(k <= Len(W(n)))
        <4>1. k = Len(W(n)) + 1 /\ V(n)[k] = W(b)[1] /\ 1 \in DOMAIN W(b)
          BY <1>5, <1>7, <1>8, <3>1, <3>3
        <4>2. Moved(w, y, x, b, b, 1, c, k)
          BY <2>3, <3>1, <4>1 DEF Moved, W, n
        <4>3. QED
          BY <2>3, <4>1, <4>2
      <3>4. QED
        BY <3>2, <3>3
    <2>4. QED
      BY <2>1, <2>2, <2>3
  <1>11. QED
    BY <1>2, <1>7, <1>9, <1>10 DEF W, V

\* What comes to x is still coming, or x has read it
LEMMA TakenComing ==
  ASSUME NEW w \in Wires, NEW v, NEW b \in Boards, NEW d \in Neighbours(b), NEW f, NEW on,
         Taken(w, v, b, d, f, on), NEW y \in Boards, NEW x \in Boards, x # y,
         b \in Way(y, x) /\ b # x => on, NEW g, Coming(w, y, x, g)
  PROVE  Coming(v, y, x, g) \/ (b = x /\ f = g)
  <1>0. d \in Boards
    BY DEF Neighbours
  <1>1. CASE b \in Way(y, x) /\ d = Before(y, x, b)
    <2>1. PICK a \in Way(y, x) : \E i \in DOMAIN Road(w, y, x, a) : Road(w, y, x, a)[i] = g
      BY DEF Coming
    <2>2. PICK i \in DOMAIN Road(w, y, x, a) : Road(w, y, x, a)[i] = g
      BY <2>1
    <2>3. \/ a = b /\ i = 1 /\ b = x /\ Road(w, y, x, a)[i] = f
          \/ \E c \in Way(y, x) : \E k \in DOMAIN Road(v, y, x, c) :
               /\ Moved(w, y, x, b, a, i, c, k)
               /\ Road(v, y, x, c)[k] = Road(w, y, x, a)[i]
      BY <1>0, <1>1, OnRoad
    <2>4. QED
      BY <2>2, <2>3, Zenon DEF Coming
  <1>2. CASE ~(b \in Way(y, x) /\ d = Before(y, x, b))
    <2>1. Longer(w, v, y, x, IF b = y THEN {f} ELSE {})
      BY <1>2, OffRoad
    <2>2. QED
      BY <2>1, LongerComing
  <1>3. QED
    BY <1>1, <1>2

\* and led as before, unless x has read the offer that led
LEMMA TakenLed ==
  ASSUME NEW w \in Wires, NEW v, NEW b \in Boards, NEW d \in Neighbours(b), NEW f, NEW on,
         Taken(w, v, b, d, f, on), NEW y \in Boards, NEW x \in Boards, x # y,
         b \in Way(y, x) /\ b # x => on, Led(w, y, x),
         ~(b = x /\ f = Opening(y)), b = y => f # Closing(x, y)
  PROVE  Led(v, y, x)
  <1>0. d \in Boards
    BY DEF Neighbours
  <1>1. CASE b \in Way(y, x) /\ d = Before(y, x, b)
    <2> SUFFICES ASSUME NEW c \in Way(y, x), NEW k \in DOMAIN Road(v, y, x, c),
                        Road(v, y, x, c)[k] = Closing(x, y)
                 PROVE  \E e \in Way(y, x) : \E l \in DOMAIN Road(v, y, x, e) :
                          /\ Road(v, y, x, e)[l] = Opening(y)
                          /\ Nearer(y, x, e, c) \/ (e = c /\ l < k)
      BY DEF Led
    <2>1. PICK a \in Way(y, x) : \E i \in DOMAIN Road(w, y, x, a) :
                   /\ Moved(w, y, x, b, a, i, c, k)
                   /\ Road(v, y, x, c)[k] = Road(w, y, x, a)[i]
      BY <1>0, <1>1, OnRoad
    <2>2. PICK i \in DOMAIN Road(w, y, x, a) :
                   /\ Moved(w, y, x, b, a, i, c, k)
                   /\ Road(w, y, x, a)[i] = Closing(x, y)
      BY <2>1
    <2>3. PICK m \in Way(y, x) : \E j \in DOMAIN Road(w, y, x, m) :
                   /\ Road(w, y, x, m)[j] = Opening(y)
                   /\ Nearer(y, x, m, a) \/ (m = a /\ j < i)
      BY <2>2, Zenon DEF Led
    <2>4. PICK j \in DOMAIN Road(w, y, x, m) :
                   /\ Road(w, y, x, m)[j] = Opening(y)
                   /\ Nearer(y, x, m, a) \/ (m = a /\ j < i)
      BY <2>3
    <2>5. \/ m = b /\ j = 1 /\ b = x /\ Road(w, y, x, m)[j] = f
          \/ \E e \in Way(y, x) : \E l \in DOMAIN Road(v, y, x, e) :
               /\ Moved(w, y, x, b, m, j, e, l)
               /\ Road(v, y, x, e)[l] = Road(w, y, x, m)[j]
      BY <1>0, <1>1, OnRoad
    <2>6. PICK e \in Way(y, x) : \E l \in DOMAIN Road(v, y, x, e) :
               /\ Moved(w, y, x, b, m, j, e, l)
               /\ Road(v, y, x, e)[l] = Opening(y)
      BY <2>4, <2>5, Zenon
    <2>7. PICK l \in DOMAIN Road(v, y, x, e) :
               /\ Moved(w, y, x, b, m, j, e, l)
               /\ Road(v, y, x, e)[l] = Opening(y)
      BY <2>6
    <2>8. /\ \A z \in Way(y, x) : z \in Nat
          /\ b \in Nat /\ x \in Nat /\ y \in Nat
      <3>1. \A z \in Way(y, x) : z \in Boards
        BY WayIs
      <3>2. \A z \in Boards : z \in Nat
        BY PairingAssumption DEF Boards
      <3>3. QED
        BY <3>1, <3>2
    <2>9. /\ i \in Nat \ {0} /\ j \in Nat \ {0} /\ j \in 1..Len(Road(w, y, x, m))
          /\ k \in Nat /\ l \in Nat
          /\ \A z \in Way(y, x) : Len(Road(w, y, x, z)) \in Nat
      <3>1. \A z \in Way(y, x) : /\ Len(Road(w, y, x, z)) \in Nat
                                 /\ DOMAIN Road(w, y, x, z) = 1..Len(Road(w, y, x, z))
        BY RoadType
      <3>2. i \in Nat \ {0} /\ j \in Nat \ {0} /\ j \in 1..Len(Road(w, y, x, m))
        BY <3>1
      <3>3. k \in Nat /\ l \in Nat
        BY <2>2, <2>7, <3>1, <3>2, WayIs DEF Moved
      <3>4. QED
        BY <3>1, <3>2, <3>3
    <2>10. PICK n \in Nat : n = Len(Road(w, y, x, After(y, x, b)))
                            \/ After(y, x, b) \notin Way(y, x)
      BY <2>9
    <2>11. \/ a # b /\ c = a /\ k = i
           \/ a = b /\ i > 1 /\ c = b /\ k = i - 1
           \/ a = b /\ i = 1 /\ c = After(y, x, b) /\ k = n + 1
      BY <2>2, <2>10 DEF Moved
    <2>12. \/ m # b /\ e = m /\ l = j
           \/ m = b /\ j > 1 /\ e = b /\ l = j - 1
           \/ m = b /\ j = 1 /\ e = After(y, x, b) /\ l = n + 1
      BY <2>7, <2>10 DEF Moved
    <2>13. m = After(y, x, b) => j <= n
      BY <2>9, <2>10
    <2>14. Nearer(y, x, e, c) \/ (e = c /\ l < k)
      <3>1. PICK q : q = After(y, x, b)
        OBVIOUS
      <3>2. /\ a \in Nat /\ b \in Nat /\ c \in Nat /\ e \in Nat /\ m \in Nat
            /\ i \in Nat \ {0} /\ j \in Nat \ {0} /\ k \in Nat /\ l \in Nat
        BY <2>8, <2>9
      <3>3. m = q => j <= n
        BY <2>13, <3>1
      <3>4. CASE y < x
        <4>1. q = b + 1 /\ (m > a \/ (m = a /\ j < i))
          BY <2>4, <3>1, <3>4 DEF After, Nearer
        <4>2. e > c \/ (e = c /\ l < k)
          BY <2>11, <2>12, <3>1, <3>2, <3>3, <4>1
        <4>3. QED
          BY <3>4, <4>2 DEF Nearer
      <3>5. CASE ~(y < x)
        <4>1. q = b - 1 /\ (m < a \/ (m = a /\ j < i))
          BY <2>4, <3>1, <3>5 DEF After, Nearer
        <4>2. e < c \/ (e = c /\ l < k)
          BY <2>11, <2>12, <3>1, <3>2, <3>3, <4>1
        <4>3. QED
          BY <3>5, <4>2 DEF Nearer
      <3>6. QED
        BY <3>4, <3>5
    <2>15. QED
      BY <2>7, <2>14
  <1>2. CASE ~(b \in Way(y, x) /\ d = Before(y, x, b))
    <2>1. Longer(w, v, y, x, IF b = y THEN {f} ELSE {})
      BY <1>2, OffRoad
    <2>2. QED
      BY <2>1, LongerLed
  <1>3. QED
    BY <1>1, <1>2

\* Dhp_link_rx_byte takes a frame off a wire and passes it on if it is authentic
LEMMA ReadTakes ==
  ASSUME IInv, NEW b \in Boards, NEW d \in Boards, Read(b, d)
  PROVE  /\ d \in Neighbours(b) /\ wire \in Wires
         /\ Head(wire[b][d]) \in Inbound(b, d, derived)
         /\ \E i \in DOMAIN wire[b][d] : wire[b][d][i] = Head(wire[b][d])
         /\ Taken(wire, wire', b, d, Head(wire[b][d]), Authentic(b, Head(wire[b][d])))
  <1> DEFINE f == Head(wire[b][d])
             rest == [wire EXCEPT ![b][d] = Tail(@)]
  <1>1. wire[b][d] # <<>> /\ WireOK(wire, derived) /\ wire \in Wires
    BY DEF Read, IInv, WireOK, Wires
  <1>2. f \in Inbound(b, d, derived) /\ WireOK(rest, derived)
    BY <1>1, PopOK
  <1>3. d \in Neighbours(b)
    BY <1>2 DEF Inbound
  <1>4. \E i \in DOMAIN wire[b][d] : wire[b][d][i] = f
    <2>1. wire[b][d] \in Seq(Frame) /\ wire[b][d] # <<>>
      BY <1>1 DEF Wires
    <2>2. Len(wire[b][d]) \in Nat \ {0} /\ DOMAIN wire[b][d] = 1..Len(wire[b][d])
          /\ f = wire[b][d][1]
      BY <2>1, EmptySeq, LenProperties, HeadTailProperties
    <2>3. QED
      BY <2>2
  <1>5. \A c, e \in Boards : rest[c][e] = IF c = b /\ e = d THEN Tail(wire[c][e]) ELSE wire[c][e]
    BY <1>1 DEF Wires
  <1>6. CASE ~Authentic(b, f)
    <2>1. wire' = rest
      BY <1>6 DEF Read
    <2> HIDE DEF rest, f
    <2>2. QED
      BY <1>1, <1>2, <1>3, <1>4, <1>5, <1>6, <2>1 DEF Taken, f
  <1>7. CASE Authentic(b, f)
    <2>1. wire' = Transmit(rest, b, Neighbours(b) \ {d}, <<f>>)
      BY <1>7 DEF Read
    <2> HIDE DEF rest, f
    <2>2. \A c, e \in Boards :
            wire'[c][e] = IF e = b /\ c \in Neighbours(b) \ {d}
                          THEN rest[c][e] \o <<f>> ELSE rest[c][e]
      BY <2>1, Zenon DEF Transmit
    <2>3. b \notin Neighbours(b)
      BY PairingAssumption DEF Neighbours, Boards
    <2>4. Taken(wire, wire', b, d, f, Authentic(b, f))
      BY <1>1, <1>3, <1>5, <1>7, <2>2, <2>3 DEF Taken, f
    <2>5. QED
      BY <1>1, <1>2, <1>3, <1>4, <2>4 DEF f
  <1>8. QED
    BY <1>6, <1>7

\* what pairing_drain of x's says to y, as long as it has the old key
Says(p, x, y) ==
  (IF "send_offer" \in p.ev THEN <<Opening(x)>> ELSE <<>>)
  \o (IF "send_confirm" \in p.ev THEN <<Closing(y, x)>> ELSE <<>>)

\* Those are frames,
LEMMA SaysType ==
  ASSUME NEW x \in Boards, NEW y \in Boards, 1 \in 1..MaxEvents
  PROVE  /\ Opening(x) \in Frame /\ Closing(y, x) \in Frame
         /\ Opening(x) # Closing(y, x) /\ NoOffer # <<x, 1>>
  <1>1. <<x, 1>> \in Offers /\ <<y, 1>> \in Offers
    BY DEF Offers
  <1>2. NewKey(y, x) \in SUBSET Offers
    BY <1>1 DEF NewKey
  <1>3. Opening(x) \in Frame
    BY <1>1 DEF Opening, Frame, Keys
  <1>4. <<NewKey(y, x), <<x, 1>>>> \in Confirms
    BY <1>1, <1>2 DEF Confirms
  <1> HIDE DEF NewKey
  <1>5. Closing(y, x) \in Frame
    BY <1>4 DEF Closing, Frame, Keys
  <1>6. Opening(x).sub = "OFFER" /\ Closing(y, x).sub = "CONFIRM"
    BY DEF Opening, Closing
  <1>7. NoOffer # <<x, 1>>
    BY <1>1, NoOfferFact
  <1>8. QED
    BY <1>3, <1>5, <1>6, <1>7

\* (one sequence after another)
LEMMA Joined ==
  ASSUME NEW S, NEW o \in S, NEW c \in S
  PROVE  /\ <<o>> \o <<c>> = <<o, c>> /\ <<o>> \o <<>> = <<o>>
         /\ <<>> \o <<c>> = <<c>> /\ <<>> \o <<>> = <<>>
         /\ <<o, c>> \o <<>> = <<o, c>>
  <1>1. <<o>> \in Seq(S) /\ <<c>> \in Seq(S) /\ <<o, c>> \in Seq(S) /\ <<>> \in Seq(S)
    OBVIOUS
  <1>2. /\ <<o>> \o <<>> = <<o>> /\ <<>> \o <<c>> = <<c>> /\ <<>> \o <<>> = <<>>
        /\ <<o, c>> \o <<>> = <<o, c>>
    BY <1>1, ConcatEmptySeq
  <1>3. <<o>> \o <<c>> = <<o, c>>
    <2>1. /\ Len(<<o>>) = 1 /\ Len(<<c>>) = 1 /\ Len(<<o, c>>) = 2
          /\ <<o>>[1] = o /\ <<c>>[1] = c /\ <<o, c>>[1] = o /\ <<o, c>>[2] = c
      OBVIOUS
    <2>2. /\ <<o>> \o <<c>> \in Seq(S) /\ Len(<<o>> \o <<c>>) = 2
          /\ (<<o>> \o <<c>>)[1] = o /\ (<<o>> \o <<c>>)[2] = c
      BY <1>1, <2>1, ConcatProperties
    <2>3. \A i \in 1..Len(<<o>> \o <<c>>) : (<<o>> \o <<c>>)[i] = <<o, c>>[i]
      BY <2>1, <2>2
    <2>4. QED
      BY <1>1, <2>1, <2>2, <2>3, SeqEqual
  <1>4. QED
    BY <1>2, <1>3

\* in one of four ways,
LEMMA SaysCases ==
  ASSUME NEW x \in Boards, NEW y \in Boards, 1 \in 1..MaxEvents, NEW p
  PROVE  /\ Says(p, x, y) \in Seq(Frame)
         /\ Says(p, x, y) =
              CASE "send_offer" \in p.ev /\ "send_confirm" \in p.ev
                     -> <<Opening(x), Closing(y, x)>>
                [] "send_offer" \in p.ev /\ "send_confirm" \notin p.ev -> <<Opening(x)>>
                [] "send_offer" \notin p.ev /\ "send_confirm" \in p.ev -> <<Closing(y, x)>>
                [] "send_offer" \notin p.ev /\ "send_confirm" \notin p.ev -> <<>>
  <1>1. PICK o \in Frame, c \in Frame : o = Opening(x) /\ c = Closing(y, x)
    BY SaysType
  <1>2. /\ <<o>> \o <<c>> = <<o, c>> /\ <<o>> \o <<>> = <<o>>
        /\ <<>> \o <<c>> = <<c>> /\ <<>> \o <<>> = <<>>
    BY Joined
  <1>3. /\ <<o, c>> \in Seq(Frame) /\ <<o>> \in Seq(Frame) /\ <<c>> \in Seq(Frame)
        /\ <<>> \in Seq(Frame)
    OBVIOUS
  <1>4. CASE "send_offer" \in p.ev /\ "send_confirm" \in p.ev
    BY <1>1, <1>2, <1>3, <1>4, Zenon DEF Says
  <1>5. CASE "send_offer" \in p.ev /\ "send_confirm" \notin p.ev
    BY <1>1, <1>2, <1>3, <1>5, Zenon DEF Says
  <1>6. CASE "send_offer" \notin p.ev /\ "send_confirm" \in p.ev
    BY <1>1, <1>2, <1>3, <1>6, Zenon DEF Says
  <1>7. CASE "send_offer" \notin p.ev /\ "send_confirm" \notin p.ev
    BY <1>1, <1>2, <1>3, <1>7, Zenon DEF Says
  <1>8. QED
    BY <1>4, <1>5, <1>6, <1>7

\* and what is handed to the link
LEMMA SaysIs ==
  ASSUME NEW x \in Boards, NEW y \in Boards, 1 \in 1..MaxEvents, NEW p,
         p.self = <<x, 1>>, "send_abort" \notin p.ev,
         "send_confirm" \in p.ev => p.peer = <<y, 1>> /\ p.state # "ABORTED"
  PROVE  Emit(x, OldKey, Frames(p)) = Transmit(wire, x, Neighbours(x), Says(p, x, y))
  <1> DEFINE Tagged(e) == [sub |-> e.sub, from |-> x, arg |-> e.arg, mac |-> OldKey]
             o == [sub |-> "OFFER", arg |-> p.self]
             c == [sub |-> "CONFIRM", arg |-> OwnConfirm(p)]
             Tags(ms) == [i \in DOMAIN ms |-> Tagged(ms[i])]
  <1>1. Emit(x, OldKey, Frames(p)) =
          Transmit(wire, x, Neighbours(x), Tags(Frames(p)))
    BY PairingAssumption, Zenon DEF Emit
  <1>2. Tagged(o) = Opening(x)
    BY DEF Opening
  <1>3. "send_confirm" \in p.ev => Tagged(c) = Closing(y, x) /\ p.peer # NoOffer
    BY SaysType DEF Closing, OwnConfirm, ChainKey, NewKey
  <1>4. /\ <<o>> \o <<c>> \o <<>> = <<o, c>> /\ <<o>> \o <<>> \o <<>> = <<o>>
        /\ <<>> \o <<c>> \o <<>> = <<c>> /\ <<>> \o <<>> \o <<>> = <<>>
    <2>1. o \in {o, c} /\ c \in {o, c}
      OBVIOUS
    <2> HIDE DEF o, c
    <2>2. QED
      BY <2>1, Joined, ZenonT(60)
  <1>5. Frames(p) = (IF "send_offer" \in p.ev THEN <<o>> ELSE <<>>)
                    \o (IF "send_confirm" \in p.ev THEN <<c>> ELSE <<>>) \o <<>>
    BY <1>3 DEF Frames
  <1> HIDE DEF o, c
  <1>6. /\ Tags(<<o, c>>) = <<Tagged(o), Tagged(c)>> /\ Tags(<<o>>) = <<Tagged(o)>>
        /\ Tags(<<c>>) = <<Tagged(c)>> /\ Tags(<<>>) = <<>>
    <2> HIDE DEF Tagged
    <2>1. QED
      OBVIOUS
  <1> HIDE DEF Tags, Tagged
  <1>7. Tags(Frames(p)) = Says(p, x, y)
    <2>1. CASE "send_offer" \in p.ev /\ "send_confirm" \in p.ev
      <3>1. Frames(p) = <<o, c>> /\ Says(p, x, y) = <<Opening(x), Closing(y, x)>>
        BY <1>4, <1>5, <2>1, SaysCases
      <3>2. QED
        BY <1>2, <1>3, <1>6, <2>1, <3>1
    <2>2. CASE "send_offer" \in p.ev /\ "send_confirm" \notin p.ev
      <3>1. Frames(p) = <<o>> /\ Says(p, x, y) = <<Opening(x)>>
        BY <1>4, <1>5, <2>2, SaysCases
      <3>2. QED
        BY <1>2, <1>6, <3>1
    <2>3. CASE "send_offer" \notin p.ev /\ "send_confirm" \in p.ev
      <3>1. Frames(p) = <<c>> /\ Says(p, x, y) = <<Closing(y, x)>>
        BY <1>4, <1>5, <2>3, SaysCases
      <3>2. QED
        BY <1>3, <1>6, <2>3, <3>1
    <2>4. CASE "send_offer" \notin p.ev /\ "send_confirm" \notin p.ev
      <3>1. Frames(p) = <<>> /\ Says(p, x, y) = <<>>
        BY <1>4, <1>5, <2>4, SaysCases
      <3>2. QED
        BY <1>6, <3>1
    <2>5. QED
      BY <2>1, <2>2, <2>3, <2>4
  <1>8. QED
    BY <1>1, <1>7

\* dhp_link_send
Sends(w, v, b, ms) == v = Transmit(w, b, Neighbours(b), ms)

\* Frames of b's are put on the way to d, and not on the way back
SetOut(w, v, b, d, ms) ==
  /\ Longer(w, v, d, b, {})
  /\ Road(v, b, d, After(b, d, b)) = Road(w, b, d, After(b, d, b)) \o ms
  /\ Longer(w, v, b, d, {ms[i] : i \in DOMAIN ms})
  /\ \A i \in DOMAIN ms : Coming(v, b, d, ms[i])

\* by dhp_link_send
LEMMA SentOn ==
  ASSUME NEW w \in Wires, NEW b \in Boards, NEW d \in Boards, b # d,
         NEW ms \in Seq(Frame), NEW v, Sends(w, v, b, ms)
  PROVE  SetOut(w, v, b, d, ms)
  <1>1. \A c, e \in Boards :
          v[c][e] = IF e = b /\ c \in Neighbours(b) THEN w[c][e] \o ms ELSE w[c][e]
    BY Zenon DEF Transmit, Sends
  <1>2. Longer(w, v, d, b, {})
    <2>1. ASSUME NEW c \in Way(d, b)
          PROVE  c \in Boards /\ Before(d, b, c) \in Boards /\ Before(d, b, c) # b
      <3>1. c \in Boards /\ Before(d, b, c) \in Neighbours(c)
            /\ (Before(d, b, c) = d \/ Before(d, b, c) \in Way(d, b))
            /\ c = After(d, b, Before(d, b, c))
        BY WayIs
      <3>2. After(d, b, b) \notin Way(d, b)
        BY PairingAssumption DEF Boards, Way, After
      <3>3. QED
        BY <3>1, <3>2 DEF Neighbours
    <2>2. QED
      BY <1>1, <2>1 DEF Longer, Road
  <1>3. PICK n : n = After(b, d, b)
    OBVIOUS
  <1>4. /\ n \in Way(b, d) /\ Before(b, d, n) = b /\ n \in Boards /\ n \in Neighbours(b)
        /\ \A c \in Way(b, d) : /\ c \in Boards /\ Before(b, d, c) \in Boards
                                /\ Before(b, d, c) = b => c = n
    <2>1. /\ n \in Way(b, d) /\ Before(b, d, n) = b
          /\ \A c \in Way(b, d) : /\ c \in Boards /\ Before(b, d, c) \in Neighbours(c)
                                  /\ c = After(b, d, Before(b, d, c))
      BY <1>3, WayIs
    <2>2. n = b - 1 \/ n = b + 1
      BY <1>3 DEF After
    <2>3. QED
      BY <1>3, <2>1, <2>2 DEF Neighbours
  <1>5. /\ Road(v, b, d, n) = Road(w, b, d, n) \o ms
        /\ \A c \in Way(b, d) \ {n} : Road(v, b, d, c) = Road(w, b, d, c)
    BY <1>1, <1>4 DEF Road
  <1>6. Longer(w, v, b, d, {ms[i] : i \in DOMAIN ms})
    <2>1. \A i \in DOMAIN ms : ms[i] \in {ms[j] : j \in DOMAIN ms}
      OBVIOUS
    <2>2. QED
      BY <1>5, <2>1 DEF Longer
  <1>7. ASSUME NEW i \in DOMAIN ms
        PROVE  Coming(v, b, d, ms[i])
    <2>1. PICK r \in Seq(Frame) : r = Road(w, b, d, n)
      BY <1>4, RoadType
    <2>2. /\ r \o ms \in Seq(Frame) /\ Len(r \o ms) = Len(r) + Len(ms)
          /\ Len(r) \in Nat /\ i \in 1..Len(ms) /\ Len(ms) \in Nat
          /\ \A k \in 1..(Len(r) + Len(ms)) :
               (r \o ms)[k] = IF k <= Len(r) THEN r[k] ELSE ms[k - Len(r)]
      BY ConcatProperties, LenProperties
    <2>3. Len(r) + i \in DOMAIN (r \o ms) /\ (r \o ms)[Len(r) + i] = ms[i]
      <3>1. DOMAIN (r \o ms) = 1..(Len(r) + Len(ms))
        BY <2>2, LenProperties
      <3>2. Len(r) + i \in 1..(Len(r) + Len(ms)) /\ ~(Len(r) + i <= Len(r))
            /\ (Len(r) + i) - Len(r) = i
        BY <2>2
      <3>3. QED
        BY <2>2, <3>1, <3>2
    <2>4. QED
      BY <1>4, <1>5, <2>1, <2>3 DEF Coming
  <1>8. QED
    BY <1>2, <1>3, <1>5, <1>6, <1>7, Zenon DEF SetOut

\* What b says to d is led by an offer, if an offer is sent with it or coming
LEMMA SentLed ==
  ASSUME NEW w \in Wires, NEW b \in Boards, NEW d \in Boards, b # d,
         1 \in 1..MaxEvents, NEW p, NEW v,
         Sends(w, v, b, Says(p, b, d)), Led(w, b, d),
         \/ "send_offer" \in p.ev \/ "send_confirm" \notin p.ev
         \/ Coming(w, b, d, Opening(b))
  PROVE  Led(v, b, d)
  <1> DEFINE ms == Says(p, b, d)
             n == After(b, d, b)
  <1>1. ms \in Seq(Frame) /\ Sends(w, v, b, ms)
    BY SaysCases
  <1> HIDE DEF ms
  <1>2. /\ Road(v, b, d, n) = Road(w, b, d, n) \o ms
        /\ Longer(w, v, b, d, {ms[i] : i \in DOMAIN ms})
    <2>1. SetOut(w, v, b, d, ms)
      BY <1>1, SentOn, Zenon
    <2>2. QED
      BY <2>1, Zenon DEF SetOut
  <1>3. Kept(w, v, b, d)
    BY <1>2, LongerIs
  <1>4. \A z \in Way(b, d) : \A i \in DOMAIN Road(w, b, d, z) :
          /\ i \in DOMAIN Road(v, b, d, z)
          /\ Road(v, b, d, z)[i] = Road(w, b, d, z)[i]
    BY <1>3, Zenon DEF Kept
  <1>5. CASE "send_confirm" \notin p.ev
    <2>1. ms = <<Opening(b)>> \/ ms = <<>>
      BY <1>5, SaysCases DEF ms
    <2>2. Closing(d, b) \notin {ms[i] : i \in DOMAIN ms}
      BY <2>1, SaysType
    <2>3. QED
      BY <1>2, <2>2, LongerLed
  <1>6. CASE "send_confirm" \in p.ev
    <2> SUFFICES ASSUME NEW c \in Way(b, d), NEW k \in DOMAIN Road(v, b, d, c),
                        Road(v, b, d, c)[k] = Closing(d, b)
                 PROVE  \E a \in Way(b, d) : \E j \in DOMAIN Road(v, b, d, a) :
                          /\ Road(v, b, d, a)[j] = Opening(b)
                          /\ Nearer(b, d, a, c) \/ (a = c /\ j < k)
      BY DEF Led
    <2>2. CASE k \in DOMAIN Road(w, b, d, c)
      <3>1. Road(w, b, d, c)[k] = Closing(d, b)
        BY <1>4, <2>2
      <3>2. PICK a \in Way(b, d) : \E j \in DOMAIN Road(w, b, d, a) :
                          /\ Road(w, b, d, a)[j] = Opening(b)
                          /\ Nearer(b, d, a, c) \/ (a = c /\ j < k)
        BY <2>2, <3>1, Zenon DEF Led
      <3>3. QED
        BY <1>4, <3>2, Zenon
    <2>3. CASE k \notin DOMAIN Road(w, b, d, c)
      <3>1. c = n
        <4>1. Before(b, d, c) \in Boards /\ c \in Boards /\ c = After(b, d, Before(b, d, c))
          BY WayIs DEF Neighbours
        <4>2. v[c][Before(b, d, c)] # w[c][Before(b, d, c)]
          BY <2>3 DEF Road
        <4>3. Before(b, d, c) = b
          BY <4>1, <4>2, Zenon DEF Transmit, Sends
        <4>4. QED
          BY <4>1, <4>3
      <3> DEFINE r == Road(w, b, d, n)
      <3>2. r \in Seq(Frame) /\ Len(r) \in Nat /\ DOMAIN r = 1..Len(r)
        BY <3>1, RoadType
      <3>3. /\ r \o ms \in Seq(Frame) /\ Len(r \o ms) = Len(r) + Len(ms)
            /\ Len(ms) \in Nat
            /\ \A i \in 1..(Len(r) + Len(ms)) :
                 (r \o ms)[i] = IF i <= Len(r) THEN r[i] ELSE ms[i - Len(r)]
            /\ DOMAIN (r \o ms) = 1..(Len(r) + Len(ms))
        BY <1>1, <3>2, ConcatProperties, LenProperties
      <3>4. k \in 1..(Len(r) + Len(ms)) /\ k > Len(r) /\ Road(v, b, d, c) = r \o ms
        BY <1>2, <2>3, <3>1, <3>2, <3>3
      <3> HIDE DEF r, ms
      <3>5. CASE "send_offer" \in p.ev
        <4>1. ms = <<Opening(b), Closing(d, b)>>
          BY <1>6, <3>5, SaysCases DEF ms
        <4>2. Len(ms) = 2 /\ ms[1] = Opening(b) /\ ms[2] = Closing(d, b)
          BY <4>1
        <4>3. ms[k - Len(r)] = Closing(d, b) /\ k - Len(r) \in {1, 2}
          BY <3>2, <3>3, <3>4, <4>2
        <4>4. k - Len(r) # 1
          BY <4>2, <4>3, SaysType
        <4>5. /\ Len(r) + 1 \in DOMAIN (r \o ms) /\ Len(r) + 1 < k
              /\ (r \o ms)[Len(r) + 1] = Opening(b)
          BY <3>2, <3>3, <3>4, <4>2, <4>3, <4>4
        <4>6. QED
          BY <3>4, <4>5
      <3>6. CASE "send_offer" \notin p.ev
        <4>1. Coming(w, b, d, Opening(b))
          BY <1>6, <3>6
        <4>2. PICK a \in Way(b, d) :
                \E j \in DOMAIN Road(w, b, d, a) : Road(w, b, d, a)[j] = Opening(b)
          BY <4>1 DEF Coming
        <4>3. PICK j \in DOMAIN Road(w, b, d, a) : Road(w, b, d, a)[j] = Opening(b)
          BY <4>2
        <4>4. j \in DOMAIN Road(v, b, d, a) /\ Road(v, b, d, a)[j] = Opening(b)
          BY <1>4, <4>3
        <4>5. Nearer(b, d, a, n) \/ a = n
          BY PairingAssumption DEF Boards, Way, Nearer, After
        <4>6. a = n => j < k
          BY <3>2, <3>4, <4>3 DEF r
        <4>7. QED
          BY <3>1, <4>4, <4>5, <4>6
      <3>7. QED
        BY <3>5, <3>6
    <2>4. QED
      BY <2>2, <2>3
  <1>7. QED
    BY <1>5, <1>6

\* What a read of f makes of one half, p before and r after: the first offer
\* is answered with an offer and a confirmation, a later one with a
\* confirmation; a confirmation is the last thing waited for
Answered(p, r, f, k, s, x, y) ==
  /\ Half(r, k, s, x, y)
  /\ p.ev \subseteq r.ev /\ r.state # "WAITING"
  /\ p.state = "WAITING" => {"send_offer", "send_confirm"} \subseteq r.ev
  /\ r.state # "DONE" => p.state # "DONE" /\ f # Closing(x, y)

\* dhp_pair_rx
LEMMA RxHalf ==
  ASSUME NEW x \in Boards, NEW y \in Boards, x # y, 1 \in 1..MaxEvents,
         NEW p \in Pair, NEW k, NEW s, Half(p, k, s, x, y),
         NEW f, f \in {Opening(y), Closing(x, y)},
         p.state = "WAITING" => f = Opening(y)
  PROVE  Answered(p, Rx(p, f, TRUE), f, k, s, x, y)
  <1> DEFINE r == Rx(p, f, TRUE)
  <1>1. /\ p.state \in {"WAITING", "CONFIRM_WAIT", "DONE"} /\ p.self = <<x, 1>>
        /\ p.peer = IF p.state = "WAITING" THEN NoOffer ELSE <<y, 1>>
        /\ "send_abort" \notin p.ev
        /\ p.state = "WAITING" => p.ev = {}
        /\ "completed" \in p.ev => p.state = "DONE"
    BY DEF Half
  <1>2. NoOffer # <<y, 1>> /\ Opening(y) # Closing(x, y)
    BY SaysType
  <1>3. <<y, 1>>[1] = y
    OBVIOUS
  <1>4. CASE f = Opening(y)
    <2>1. f.sub = "OFFER" /\ f.from = y /\ f.arg = <<y, 1>>
      BY <1>4 DEF Opening
    <2>2. CASE p.state = "WAITING"
      <3>1. r = RxOffer(p, f.arg)
        BY <2>1, <2>2 DEF Rx
      <3>2. r = [p EXCEPT !.peer = <<y, 1>>, !.state = "CONFIRM_WAIT",
                          !.ev = @ \cup {"send_confirm", "send_offer"}]
        BY <1>1, <2>1, <2>2, <3>1 DEF RxOffer
      <3>3. /\ r.peer = <<y, 1>> /\ r.state = "CONFIRM_WAIT" /\ r.self = p.self
            /\ r.ev = p.ev \cup {"send_confirm", "send_offer"}
        BY <3>2 DEF Pair
      <3> HIDE DEF r
      <3>4. Half(r, k, s, x, y)
        BY <1>1, <2>2, <3>3 DEF Half
      <3>5. QED
        BY <1>2, <1>4, <2>2, <3>3, <3>4 DEF r, Answered
    <2>3. CASE p.state = "CONFIRM_WAIT"
      <3>1. r = RxOffer(p, f.arg)
        BY <2>1, <2>3 DEF Rx
      <3>2. r = [p EXCEPT !.ev = @ \cup {"send_confirm"}]
        BY <1>1, <1>2, <1>3, <2>1, <2>3, <3>1 DEF RxOffer
      <3>3. /\ r.peer = p.peer /\ r.state = p.state /\ r.self = p.self
            /\ r.ev = p.ev \cup {"send_confirm"}
        BY <3>2 DEF Pair
      <3> HIDE DEF r
      <3>4. Half(r, k, s, x, y)
        BY <1>1, <2>3, <3>3 DEF Half
      <3>5. QED
        BY <1>2, <1>4, <2>3, <3>3, <3>4 DEF r, Answered
    <2>4. CASE p.state = "DONE"
      <3>1. r = RxLate(p, f.from, TRUE)
        BY <2>1, <2>4 DEF Rx
      <3>2. r = p
        BY <1>1, <1>3, <2>1, <2>4, <3>1 DEF RxLate
      <3>3. QED
        BY <2>4, <3>2 DEF Answered
    <2>5. QED
      BY <1>1, <2>2, <2>3, <2>4
  <1>5. CASE f = Closing(x, y)
    <2>1. f.sub = "CONFIRM" /\ f.from = y /\ f.arg = <<NewKey(x, y), <<y, 1>>>>
      BY <1>5 DEF Closing
    <2>2. p.state \in {"CONFIRM_WAIT", "DONE"} /\ p.peer = <<y, 1>>
      BY <1>1, <1>2, <1>5
    <2>3. r = RxConfirm(p, f.from, f.arg)
      BY <2>1, <2>2 DEF Rx
    <2>4. f.arg = ExpectConfirm(p)
      BY <1>1, <2>1, <2>2 DEF ExpectConfirm, ChainKey, NewKey
    <2>5. r = IF p.state = "CONFIRM_WAIT"
              THEN [p EXCEPT !.state = "DONE", !.ev = @ \cup {"completed"}] ELSE p
      BY <1>2, <1>3, <2>1, <2>2, <2>3, <2>4 DEF RxConfirm
    <2>6. CASE p.state = "CONFIRM_WAIT"
      <3>1. /\ r.peer = p.peer /\ r.state = "DONE" /\ r.self = p.self
            /\ r.ev = p.ev \cup {"completed"}
        BY <2>5, <2>6 DEF Pair
      <3> HIDE DEF r
      <3>2. Half(r, k, s, x, y)
        BY <1>1, <2>2, <2>6, <3>1 DEF Half
      <3>3. QED
        BY <2>6, <3>1, <3>2 DEF r, Answered
    <2>7. CASE p.state = "DONE"
      BY <2>5, <2>7 DEF Answered
    <2>8. QED
      BY <2>2, <2>6, <2>7
  <1>6. QED
    BY <1>4, <1>5

\* A read leaves nothing new on the wires,
LEMMA TakenOnly ==
  ASSUME NEW w \in Wires, NEW v, NEW b \in Boards, NEW d \in Boards, NEW f, NEW on,
         Taken(w, v, b, d, f, on), NEW S, Only(w, S)
  PROVE  Only(v, S)
  <1> SUFFICES ASSUME NEW c \in Boards, NEW e \in Boards, NEW i \in DOMAIN v[c][e]
               PROVE  v[c][e][i] \in S
    BY DEF Only
  <1>1. w[b][d] \in Seq(Frame) /\ w[b][d] # <<>> /\ f = Head(w[b][d])
    BY DEF Wires, Taken
  <1>2. PICK u \in Seq(Frame) : u = w[c][e] /\ \A j \in DOMAIN u : u[j] \in S
    BY DEF Wires, Only
  <1>3. f \in Frame /\ f \in S
    <2>1. Len(w[b][d]) \in Nat \ {0} /\ DOMAIN w[b][d] = 1..Len(w[b][d])
          /\ f = w[b][d][1]
      BY <1>1, EmptySeq, LenProperties, HeadTailProperties
    <2>2. QED
      BY <1>1, <2>1, ElementOfSeq DEF Only
  <1>4. CASE v[c][e] = u
    BY <1>2, <1>4
  <1>5. CASE v[c][e] = Tail(u) /\ u # <<>>
    <2>1. /\ Tail(u) \in Seq(Frame) /\ Len(Tail(u)) = Len(u) - 1
          /\ \A k \in 1..Len(Tail(u)) : Tail(u)[k] = u[k + 1]
      BY <1>5, HeadTailProperties
    <2>2. Len(u) \in Nat /\ DOMAIN u = 1..Len(u) /\ DOMAIN Tail(u) = 1..Len(Tail(u))
      BY <2>1, LenProperties
    <2>3. i + 1 \in DOMAIN u /\ Tail(u)[i] = u[i + 1]
      BY <1>5, <2>1, <2>2
    <2>4. QED
      BY <1>2, <1>5, <2>3
  <1>6. CASE v[c][e] = u \o <<f>>
    <2>1. <<f>> \in Seq(Frame) /\ Len(<<f>>) = 1 /\ <<f>>[1] = f
      BY <1>3
    <2>2. /\ u \o <<f>> \in Seq(Frame) /\ Len(u \o <<f>>) = Len(u) + 1 /\ Len(u) \in Nat
          /\ \A k \in 1..(Len(u) + 1) :
               (u \o <<f>>)[k] = IF k <= Len(u) THEN u[k] ELSE <<f>>[k - Len(u)]
      BY <2>1, ConcatProperties, LenProperties
    <2>3. DOMAIN u = 1..Len(u) /\ i \in 1..(Len(u) + 1)
      BY <1>6, <2>2, LenProperties
    <2>4. CASE i <= Len(u)
      BY <1>2, <1>6, <2>2, <2>3, <2>4
    <2>5. CASE ~(i <= Len(u))
      <3>1. i - Len(u) = 1
        BY <2>2, <2>3, <2>5
      <3>2. QED
        BY <1>3, <1>6, <2>1, <2>2, <2>3, <2>5, <3>1
    <2>6. QED
      BY <2>4, <2>5
  <1>7. QED
    <2>1. v[c][e] = u \/ (v[c][e] = Tail(u) /\ u # <<>>) \/ v[c][e] = u \o <<f>>
      BY <1>2 DEF Taken
    <2>2. QED
      BY <1>4, <1>5, <1>6, <2>1

\* and what is sent is all that is new
LEMMA SentOnly ==
  ASSUME NEW w \in Wires, NEW b \in Boards, NEW ms \in Seq(Frame), NEW v,
         Sends(w, v, b, ms), NEW S, Only(w, S), \A i \in DOMAIN ms : ms[i] \in S
  PROVE  Only(v, S)
  <1> SUFFICES ASSUME NEW c \in Boards, NEW e \in Boards, NEW i \in DOMAIN v[c][e]
               PROVE  v[c][e][i] \in S
    BY DEF Only
  <1>1. PICK u \in Seq(Frame) : u = w[c][e] /\ \A j \in DOMAIN u : u[j] \in S
    BY DEF Wires, Only
  <1>2. v[c][e] = u \/ v[c][e] = u \o ms
    BY <1>1, Zenon DEF Sends, Transmit
  <1>3. CASE v[c][e] = u
    BY <1>1, <1>3
  <1>4. CASE v[c][e] = u \o ms
    <2>1. /\ u \o ms \in Seq(Frame) /\ Len(u \o ms) = Len(u) + Len(ms)
          /\ Len(u) \in Nat /\ Len(ms) \in Nat
          /\ DOMAIN u = 1..Len(u) /\ DOMAIN ms = 1..Len(ms)
          /\ \A k \in 1..(Len(u) + Len(ms)) :
               (u \o ms)[k] = IF k <= Len(u) THEN u[k] ELSE ms[k - Len(u)]
      BY ConcatProperties, LenProperties
    <2>2. i \in 1..(Len(u) + Len(ms))
      BY <1>4, <2>1, LenProperties
    <2>3. CASE i <= Len(u)
      BY <1>1, <1>4, <2>1, <2>2, <2>3
    <2>4. CASE ~(i <= Len(u))
      <3>1. i - Len(u) \in DOMAIN ms /\ v[c][e][i] = ms[i - Len(u)]
        BY <1>4, <2>1, <2>2, <2>4
      <3>2. QED
        BY <3>1
    <2>5. QED
      BY <2>3, <2>4
  <1>5. QED
    BY <1>2, <1>3, <1>4

\* A confirmation is not the first that x finds on its wire, if an offer leads
LEMMA OfferFirst ==
  ASSUME NEW w \in Wires, NEW x \in Boards, NEW y \in Boards, x # y, Led(w, y, x),
         NEW d \in Neighbours(x), w[x][d] # <<>>,
         d < x => y < x, d > x => y > x
  PROVE  Head(w[x][d]) # Closing(x, y)
  <1> SUFFICES ASSUME Head(w[x][d]) = Closing(x, y) PROVE FALSE
    OBVIOUS
  <1>1. x \in Way(y, x) /\ Road(w, y, x, x) = w[x][d]
    <2>1. x \in Way(y, x)
      BY WayIs
    <2>2. d = Before(y, x, x)
      BY PairingAssumption DEF Boards, Neighbours, Before
    <2>3. QED
      BY <2>1, <2>2 DEF Road
  <1>2. 1 \in DOMAIN Road(w, y, x, x) /\ Road(w, y, x, x)[1] = Closing(x, y)
    <2>1. w[x][d] \in Seq(Frame)
      BY DEF Wires, Neighbours
    <2>2. Len(w[x][d]) \in Nat \ {0} /\ DOMAIN w[x][d] = 1..Len(w[x][d])
          /\ Head(w[x][d]) = w[x][d][1]
      BY <2>1, EmptySeq, LenProperties, HeadTailProperties
    <2>3. QED
      BY <1>1, <2>2
  <1>3. PICK a \in Way(y, x) : \E j \in DOMAIN Road(w, y, x, a) :
                        /\ Road(w, y, x, a)[j] = Opening(y)
                        /\ Nearer(y, x, a, x) \/ (a = x /\ j < 1)
    BY <1>1, <1>2, Zenon DEF Led
  <1>4. ~Nearer(y, x, a, x)
    BY PairingAssumption DEF Boards, Way, Nearer
  <1>5. DOMAIN Road(w, y, x, a) = 1..Len(Road(w, y, x, a)) /\ Len(Road(w, y, x, a)) \in Nat
    BY RoadType
  <1>6. QED
    BY <1>3, <1>4, <1>5

\* A frame that a third board passes on is owed as before
LEMMA OwedOn ==
  ASSUME NEW w \in Wires, NEW v, NEW x \in Boards, NEW y \in Boards, x # y,
         NEW b \in Boards \ {x, y}, NEW d \in Neighbours(b), NEW f, Taken(w, v, b, d, f, TRUE),
         NEW p, NEW q, Owed(w, x, y, p, q)
  PROVE  Owed(v, x, y, p, q)
  <1>1. \A g : /\ Coming(w, y, x, g) => Coming(v, y, x, g)
               /\ Coming(w, x, y, g) => Coming(v, x, y, g)
    BY TakenComing
  <1>2. Led(w, y, x) => Led(v, y, x)
    BY TakenLed
  <1>3. QED
    BY <1>1, <1>2, Zenon DEF Owed

\* What two have begun, a third passes on
LEMMA ReadThird ==
  ASSUME IInv, NEW x \in Boards, NEW y \in Boards, Both(x, y), Two(x, y),
         NEW z \in Boards \ {x, y}, NEW e \in Boards, Read(z, e)
  PROVE  Two(x, y)'
  <1> DEFINE f == Head(wire[z][e])
  <1>1. /\ e \in Neighbours(z) /\ wire \in Wires
        /\ \E i \in DOMAIN wire[z][e] : wire[z][e][i] = f
        /\ Taken(wire, wire', z, e, f, Authentic(z, f))
    BY ReadTakes
  <1>2. f \in {Opening(x), Opening(y), Closing(x, y), Closing(y, x)}
    BY <1>1 DEF Two, Only
  <1>3. f.mac = OldKey
    BY <1>2 DEF Opening, Closing
  <1>4. Aside(z) /\ Authentic(z, f)
    BY <1>3 DEF Two, Aside, Authentic
  <1>5. pair' = pair
    <2>1. pair' = [pair EXCEPT ![z] = Rx(pair[z], f, open[z])]
      BY <1>4 DEF Read
    <2>2. Rx(pair[z], f, open[z]) = pair[z]
      BY <1>4, Zenon DEF Aside, Rx
    <2>3. QED
      BY <2>1, <2>2 DEF IInv
  <1>6. UNCHANGED <<open, link_key, saved, begun, events>>
    BY DEF Read
  <1>7. Taken(wire, wire', z, e, f, TRUE)
    BY <1>1, <1>4 DEF Taken
  <1>8. x # y /\ Owed(wire, x, y, pair[x], pair[y]) /\ Owed(wire, y, x, pair[y], pair[x])
        /\ Only(wire, {Opening(x), Opening(y), Closing(x, y), Closing(y, x)})
    BY DEF Two, Both
  <1> HIDE DEF f
  <1>9. Owed(wire', x, y, pair[x], pair[y])
    BY <1>1, <1>7, <1>8, OwedOn
  <1>10. Owed(wire', y, x, pair[y], pair[x])
    BY <1>1, <1>7, <1>8, OwedOn
  <1>11. Only(wire', {Opening(x), Opening(y), Closing(x, y), Closing(y, x)})
    BY <1>1, <1>7, <1>8, TakenOnly
  <1>12. QED
    BY <1>5, <1>6, <1>9, <1>10, <1>11 DEF Two, Both, Aside

\* and each of the two answers
LEMMA ReadOwn ==
  ASSUME IInv, NEW x \in Boards, NEW y \in Boards, Both(x, y), Two(x, y),
         NEW e \in Boards, Read(x, e)
  PROVE  Two(x, y)'
  <1> DEFINE f == Head(wire[x][e])
             S == {Opening(x), Opening(y), Closing(x, y), Closing(y, x)}
             p == pair[x]
             q == pair[y]
             r == pair'[x]
  <1>1. /\ e \in Neighbours(x) /\ wire \in Wires /\ wire[x][e] # <<>>
        /\ \E i \in DOMAIN wire[x][e] : wire[x][e][i] = f
        /\ Taken(wire, wire', x, e, f, Authentic(x, f))
        /\ f \in Inbound(x, e, derived)
    BY ReadTakes DEF Read
  <1>2. /\ x # y /\ 1 \in 1..MaxEvents /\ open[x]
        /\ Half(p, link_key[x], saved[x], x, y)
        /\ Owed(wire, x, y, p, q) /\ Owed(wire, y, x, q, p) /\ Only(wire, S)
    BY PairingAssumption DEF Two, Both, IInv
  <1>3. f.from # x
    BY <1>1, PairingAssumption DEF Inbound, Boards, Neighbours, Frame
  <1>4. f \in {Opening(y), Closing(x, y)} /\ f.mac = OldKey /\ f.from = y
    <2>1. f \in S
      BY <1>1, <1>2 DEF Only
    <2>2. QED
      BY <1>3, <2>1 DEF Opening, Closing
  <1>5. p.state = "WAITING" => f = Opening(y)
    <2>1. ASSUME p.state = "WAITING", f = Closing(x, y)
          PROVE  FALSE
      <3>1. Led(wire, y, x)
        BY <1>2, <2>1 DEF Owed
      <3>2. (e < x => y < x) /\ (e > x => y > x)
        BY <1>1, <1>4 DEF Inbound
      <3>3. QED
        BY <1>1, <1>2, <2>1, <3>1, <3>2, OfferFirst
    <2>2. QED
      BY <1>4, <2>1
  <1> HIDE DEF f
  <1>6. /\ pair' \in [Boards -> Pair]
        /\ \A c \in Boards \ {x} : pair'[c] = pair[c]
        /\ Answered(p, r, f, link_key[x], saved[x], x, y)
    <2>1. pair \in [Boards -> Pair] /\ p \in Pair
      BY DEF IInv
    <2>2. CASE Authentic(x, f)
      <3>1. pair' = [pair EXCEPT ![x] = Rx(p, f, TRUE)]
        BY <1>2, <2>2 DEF Read, f, IInv
      <3>2. r = Rx(p, f, TRUE)
        BY <2>1, <3>1
      <3>3. pair' \in [Boards -> Pair]
        BY ReadOK DEF IInv
      <3> HIDE DEF p, r
      <3>4. Answered(p, r, f, link_key[x], saved[x], x, y)
        <4>1. p \in Pair /\ f \in {Opening(y), Closing(x, y)} /\ x # y
              /\ 1 \in 1..MaxEvents /\ Half(p, link_key[x], saved[x], x, y)
          BY <1>2, <1>4, <2>1
        <4>2. QED
          BY <1>5, <3>2, <4>1, RxHalf, Zenon
      <3>5. QED
        BY <2>1, <3>1, <3>3, <3>4
    <2>3. CASE ~Authentic(x, f)
      <3>1. pair' = pair
        BY <2>3 DEF Read, f
      <3>2. link_key[x] # OldKey
        BY <1>4, <2>3 DEF Authentic
      <3>3. p.state = "DONE"
        BY <1>2, <3>2 DEF Half
      <3>4. QED
        BY <1>2, <2>1, <3>1, <3>3 DEF Answered
    <2>4. QED
      BY <2>2, <2>3
  <1>7. UNCHANGED <<open, link_key, saved, begun, events>>
    BY DEF Read
  <1>8. x \notin Way(x, y)
    BY <1>2, WayIs
  <1>9. \A g : /\ Coming(wire, y, x, g) => Coming(wire', y, x, g) \/ f = g
               /\ Coming(wire, x, y, g) => Coming(wire', x, y, g)
    BY <1>1, <1>2, <1>8, TakenComing
  <1>10. Led(wire, x, y) => Led(wire', x, y)
    <2>1. f # Closing(y, x)
      BY <1>2, <1>4 DEF Closing
    <2>2. QED
      BY <1>1, <1>2, <1>8, <2>1, TakenLed
  <1> HIDE DEF p, q, r
  <1>11. Owed(wire', x, y, r, q)
    BY <1>2, <1>6, <1>9 DEF Owed, Answered
  <1>12. Owed(wire', y, x, q, r)
    BY <1>2, <1>6, <1>9, <1>10 DEF Owed, Answered
  <1>13. Only(wire', S)
    BY <1>1, <1>2, TakenOnly
  <1>14. q = pair'[y]
    BY <1>2, <1>6 DEF q
  <1>15. QED
    BY <1>2, <1>6, <1>7, <1>11, <1>12, <1>13, <1>14 DEF Two, Both, Aside, Answered, p, q, r

\* A pairing that is not one has nothing to do
LEMMA IdleTurn ==
  ASSUME IInv, NEW z \in Boards, pair[z].state = "IDLE"
  PROVE  ~Turn(z)
  <1>1. pair[z].ev = {}
    BY DEF IInv, PairOK
  <1>2. Tick(pair[z], open[z]) = pair[z]
    BY DEF Tick
  <1>3. QED
    BY <1>1, <1>2 DEF Turn

\* What one of the two says answers the other, and goes out under the old key
LEMMA TurnOwn ==
  ASSUME IInv, NEW x \in Boards, NEW y \in Boards, Both(x, y), Two(x, y), Turn(x)
  PROVE  Two(x, y)'
  <1> DEFINE S == {Opening(x), Opening(y), Closing(x, y), Closing(y, x)}
             p == pair[x]
             q == pair[y]
             r == pair'[x]
             ms == Says(p, x, y)
  <1>1. /\ x # y /\ 1 \in 1..MaxEvents /\ open[x]
        /\ Half(p, link_key[x], saved[x], x, y)
        /\ Half(q, link_key[y], saved[y], y, x)
        /\ Owed(wire, x, y, p, q) /\ Owed(wire, y, x, q, p) /\ Only(wire, S)
    BY PairingAssumption DEF Two, Both, IInv
  <1>2. p.ev # {} /\ PairingDrain(x, p, link_key[x], saved[x])
        /\ UNCHANGED <<open, begun, heard, events>>
    <2>1. Tick(p, open[x]) = p
      BY <1>1 DEF Tick
    <2>2. QED
      BY <2>1 DEF Turn
  <1>3. /\ p.state \in {"CONFIRM_WAIT", "DONE"} /\ p.peer = <<y, 1>> /\ p.self = <<x, 1>>
        /\ link_key[x] = OldKey /\ "send_abort" \notin p.ev
        /\ p.state = "DONE" <=> "completed" \in p.ev
    BY <1>1, <1>2 DEF Half
  <1>4. Sends(wire, wire', x, ms)
    <2>1. wire' = Emit(x, OldKey, Frames(p))
      BY <1>2, <1>3 DEF PairingDrain
    <2>2. p.state # "ABORTED"
      BY <1>3
    <2>3. QED
      BY <1>1, <1>3, <2>1, <2>2, SaysIs DEF Sends
  <1>5. /\ pair' = [pair EXCEPT ![x] = [p EXCEPT !.ev = {}]]
        /\ link_key' = [link_key EXCEPT ![x] =
                          IF "completed" \in p.ev THEN NewKey(x, y) ELSE OldKey]
        /\ saved' = [saved EXCEPT ![x] =
                       IF "completed" \in p.ev THEN NewKey(x, y) ELSE saved[x]]
    <2>1. ChainKey(p) = NewKey(x, y)
      BY <1>3 DEF ChainKey, NewKey
    <2>2. QED
      BY <1>2, <1>3, <2>1 DEF PairingDrain, Installs
  <1>6. /\ r.state = p.state /\ r.self = p.self /\ r.peer = p.peer /\ r.ev = {}
        /\ \A c \in Boards \ {x} : /\ pair'[c] = pair[c] /\ link_key'[c] = link_key[c]
                                   /\ saved'[c] = saved[c]
    BY <1>5 DEF IInv, Pair
  <1>7. Half(r, link_key'[x], saved'[x], x, y)
    <2>1. link_key'[x] = IF "completed" \in p.ev THEN NewKey(x, y) ELSE OldKey
      BY <1>5 DEF IInv
    <2>2. "completed" \in p.ev => saved'[x] = NewKey(x, y)
      BY <1>5 DEF IInv
    <2> HIDE DEF p, r
    <2>3. QED
      BY <1>3, <1>6, <2>1, <2>2 DEF Half
  <1>8. wire \in Wires /\ ms \in Seq(Frame)
        /\ \A i \in DOMAIN ms : ms[i] \in {Opening(x), Closing(y, x)}
    <2>1. wire \in Wires
      BY DEF IInv, WireOK, Wires
    <2> HIDE DEF p
    <2>2. /\ ms \in Seq(Frame)
          /\ \/ ms = <<Opening(x), Closing(y, x)>> \/ ms = <<Opening(x)>>
             \/ ms = <<Closing(y, x)>> \/ ms = <<>>
      BY <1>1, SaysCases
    <2> HIDE DEF ms
    <2>3. \A i \in DOMAIN ms : ms[i] \in {Opening(x), Closing(y, x)}
      BY <2>2
    <2>4. QED
      BY <2>1, <2>2, <2>3
  <1>9. /\ "send_offer" \in p.ev => \E i \in DOMAIN ms : ms[i] = Opening(x)
        /\ "send_confirm" \in p.ev => \E i \in DOMAIN ms : ms[i] = Closing(y, x)
    <2> HIDE DEF p
    <2>1. ASSUME "send_offer" \in p.ev
          PROVE  \E i \in DOMAIN ms : ms[i] = Opening(x)
      <3>1. ms = <<Opening(x), Closing(y, x)>> \/ ms = <<Opening(x)>>
        BY <1>1, <2>1, SaysCases
      <3>2. 1 \in DOMAIN ms /\ ms[1] = Opening(x)
        BY <3>1
      <3>3. QED
        BY <3>2
    <2>2. ASSUME "send_confirm" \in p.ev
          PROVE  \E i \in DOMAIN ms : ms[i] = Closing(y, x)
      <3>1. ms = <<Opening(x), Closing(y, x)>> \/ ms = <<Closing(y, x)>>
        BY <1>1, <2>2, SaysCases
      <3>2. (2 \in DOMAIN ms /\ ms[2] = Closing(y, x)) \/ (1 \in DOMAIN ms /\ ms[1] = Closing(y, x))
        BY <3>1
      <3>3. QED
        BY <3>2
    <2>3. QED
      BY <2>1, <2>2
  <1> HIDE DEF ms
  <1>10. /\ Longer(wire, wire', y, x, {})
         /\ Longer(wire, wire', x, y, {ms[i] : i \in DOMAIN ms})
         /\ \A i \in DOMAIN ms : Coming(wire', x, y, ms[i])
    <2>1. SetOut(wire, wire', x, y, ms)
      BY <1>1, <1>4, <1>8, SentOn, Zenon
    <2>2. QED
      BY <2>1, Zenon DEF SetOut
  <1>11. \A g : /\ Coming(wire, y, x, g) => Coming(wire', y, x, g)
                /\ Coming(wire, x, y, g) => Coming(wire', x, y, g)
    BY <1>1, <1>8, <1>10, LongerComing
  <1>12. /\ "send_offer" \in p.ev => Coming(wire', x, y, Opening(x))
         /\ "send_confirm" \in p.ev => Coming(wire', x, y, Closing(y, x))
    BY <1>9, <1>10
  <1>13. q.state = "WAITING" => Led(wire', x, y)
    <2>1. ASSUME q.state = "WAITING"
          PROVE  /\ Led(wire, x, y)
                 /\ Coming(wire, x, y, Opening(x)) \/ "send_offer" \in p.ev
      BY <1>1, <1>3, <2>1 DEF Owed
    <2> HIDE DEF p, q
    <2>2. QED
      BY <1>1, <1>4, <1>8, <2>1, SentLed DEF ms
  <1> HIDE DEF p, q, r
  <1>14. Owed(wire', x, y, r, q)
    BY <1>1, <1>3, <1>6, <1>11 DEF Owed
  <1>15. Owed(wire', y, x, q, r)
    BY <1>1, <1>3, <1>6, <1>11, <1>12, <1>13 DEF Owed
  <1>16. Only(wire', S)
    <2>1. \A i \in DOMAIN ms : ms[i] \in S
      BY <1>8
    <2> HIDE DEF S
    <2>2. QED
      BY <1>1, <1>4, <1>8, <2>1, SentOnly
  <1>17. pair'[y] = q /\ Half(q, link_key'[y], saved'[y], y, x)
    BY <1>1, <1>6 DEF q
  <1>18. QED
    BY <1>2, <1>6, <1>7, <1>14, <1>15, <1>16, <1>17 DEF Two, Both, Aside, p, q, r

\* A first button sends an offer under the old key
LEMMA FirstHeld ==
  ASSUME IInv, NEW b \in Boards, PairButton(b), link_key[b] = OldKey, begun[b] = 0
  PROVE  /\ 1 \in 1..MaxEvents /\ Sends(wire, wire', b, <<Opening(b)>>)
         /\ pair'[b].state = "WAITING" /\ pair'[b].self = <<b, 1>>
         /\ pair'[b].peer = NoOffer /\ pair'[b].ev = {} /\ link_key'[b] = OldKey
         /\ \A c \in Boards \ {b} :
              /\ pair'[c] = pair[c] /\ link_key'[c] = link_key[c] /\ saved'[c] = saved[c]
              /\ begun'[c] = begun[c] /\ open'[c] = open[c]
         /\ events' = events + 1
  <1> DEFINE p == Begin(pair[b], <<b, 1>>)
  <1>1. events \in Nat /\ events + 1 <= MaxEvents /\ 1 \in 1..MaxEvents
    BY PairingAssumption DEF PairButton, IInv
  <1>2. begun' = [begun EXCEPT ![b] = 1]
    BY DEF PairButton, IInv
  <1>3. PairingDrain(b, p, OldKey, saved[b])
    BY <1>2 DEF PairButton, IInv
  <1>4. /\ p.state = "WAITING" /\ p.self = <<b, 1>> /\ p.peer = NoOffer
        /\ p.ev = {"send_offer"}
    BY DEF Begin, IInv, Pair
  <1>5. Sends(wire, wire', b, <<Opening(b)>>)
    <2> HIDE DEF p
    <2>1. wire' = Emit(b, OldKey, Frames(p))
      BY <1>3 DEF PairingDrain
    <2>2. wire' = Transmit(wire, b, Neighbours(b), Says(p, b, b))
      BY <1>1, <1>4, <2>1, SaysIs
    <2>3. Says(p, b, b) = <<Opening(b)>>
      BY <1>1, <1>4, SaysCases
    <2>4. QED
      BY <2>2, <2>3 DEF Sends
  <1>6. ~Installs(p)
    BY <1>4 DEF Installs
  <1>7. /\ pair' = [pair EXCEPT ![b] = [p EXCEPT !.ev = {}]]
        /\ link_key' = [link_key EXCEPT ![b] = OldKey]
        /\ saved' = [saved EXCEPT ![b] = saved[b]]
    BY <1>3, <1>6 DEF PairingDrain
  <1>8. /\ pair'[b].state = "WAITING" /\ pair'[b].self = <<b, 1>>
        /\ pair'[b].peer = NoOffer /\ pair'[b].ev = {}
    BY <1>7 DEF Begin, IInv, Pair
  <1>9. QED
    BY <1>1, <1>2, <1>5, <1>7, <1>8 DEF PairButton, IInv

\* Steps that are no event of those counted
Ordinary ==
  /\ events' = events /\ begun' = begun
  /\ \E b \in Boards : (\E d \in Boards : Read(b, d)) \/ Turn(b) \/ Close(b)

\* a step is one of those, the pair button, or counted
LEMMA OrdinaryOrNot ==
  ASSUME IInv, Next
  PROVE  \/ Ordinary
         \/ events' = events + 1 /\ begun' = begun
         \/ \E b \in Boards : PairButton(b)
  <1>1. PICK b \in Boards :
          \/ \E d \in Boards : Read(b, d) \/ Lose(b, d)
          \/ Turn(b) \/ TurnSaveFails(b) \/ PairButton(b) \/ UnpairButton(b)
          \/ Close(b) \/ Restart(b)
    BY DEF Next
  <1>2. ASSUME NEW d \in Boards, Read(b, d) PROVE Ordinary
    BY <1>2 DEF Read, Ordinary
  <1>3. ASSUME Turn(b) PROVE Ordinary
    BY <1>3 DEF Turn, Ordinary
  <1>4. ASSUME Close(b) PROVE Ordinary \/ (events' = events + 1 /\ begun' = begun)
    BY <1>4 DEF Close, Ordinary
  <1>5. ASSUME (\E d \in Boards : Lose(b, d)) \/ TurnSaveFails(b) \/ UnpairButton(b)
               \/ Restart(b)
        PROVE  events' = events + 1 /\ begun' = begun
    BY <1>5 DEF Lose, TurnSaveFails, UnpairButton, Restart
  <1>6. QED
    BY <1>1, <1>2, <1>3, <1>4, <1>5

\* Before the first button
LEMMA NobodyNext ==
  ASSUME IInv, PInv, Next, events' = 0
  PROVE  Nobody'
  <1>1. events = 0 /\ (\A b \in Boards : Aside(b) /\ begun[b] = 0) /\ Only(wire, {})
    <2>1. events \in Nat /\ (events' = events \/ events' = events + 1)
      <3>1. events' = events \/ events' = events + 1
        BY OrdinaryOrNot DEF Ordinary, PairButton
      <3>2. QED
        BY <3>1 DEF IInv
    <2>2. events = 0
      BY <2>1
    <2>3. QED
      BY <2>2 DEF PInv, Nobody
  <1>2. ASSUME NEW b \in Boards, NEW d \in Boards
        PROVE  ~Read(b, d)
    <2>1. \A i \in DOMAIN wire[b][d] : FALSE
      BY <1>1 DEF Only
    <2>2. QED
      BY <2>1, ReadTakes
  <1>3. \A b \in Boards : ~Turn(b)
    BY <1>1, IdleTurn DEF Aside
  <1>4. PICK b \in Boards : Close(b)
    BY <1>1, <1>2, <1>3, OrdinaryOrNot DEF Ordinary, PairButton
  <1>5. QED
    BY <1>1, <1>4 DEF Close, Nobody, Aside, Only

\* Between the first button and the second
LEMMA OneNext ==
  ASSUME IInv, PInv, Next, NEW b \in Boards, events' = 1, begun'[b] = 1
  PROVE  One(b)'
  <1>0. events \in Nat /\ begun \in [Boards -> Nat]
    BY DEF IInv
  <1>1. CASE Ordinary
    <2>1. /\ events = 1 /\ begun[b] = 1 /\ begun' = begun
          /\ \A c \in Boards \ {b} : Aside(c) /\ begun[c] = 0
          /\ open[b] => /\ pair[b].state = "WAITING" /\ pair[b].self = <<b, 1>>
                        /\ pair[b].ev = {} /\ link_key[b] = OldKey
                        /\ Only(wire, {Opening(b)})
      BY <1>1 DEF Ordinary, PInv, One
    <2>2. ASSUME NEW x \in Boards, NEW e \in Boards, Read(x, e)
          PROVE  One(b)'
      <3> DEFINE f == Head(wire[x][e])
      <3>1. /\ e \in Neighbours(x) /\ wire \in Wires
            /\ f \in Inbound(x, e, derived)
            /\ \E i \in DOMAIN wire[x][e] : wire[x][e][i] = f
            /\ Taken(wire, wire', x, e, f, Authentic(x, f))
        BY <2>2, ReadTakes
      <3>2. /\ UNCHANGED <<open, link_key, saved, begun, events>>
            /\ pair' = pair \/ pair' = [pair EXCEPT ![x] = Rx(@, f, open[x])]
        BY <2>2 DEF Read
      <3>3. \A c \in Boards \ {x} : pair'[c] = pair[c]
        BY <3>2 DEF IInv
      <3>4. CASE x # b
        <4>1. pair[x].state = "IDLE"
          BY <2>1, <3>4 DEF Aside
        <4>2. Rx(pair[x], f, open[x]) = pair[x]
          BY <4>1, Zenon DEF Rx
        <4>3. pair' = pair
          BY <3>2, <4>2 DEF IInv
        <4> HIDE DEF f
        <4>4. Only(wire, {Opening(b)}) => Only(wire', {Opening(b)})
          BY <3>1, TakenOnly
        <4>5. QED
          BY <2>1, <3>2, <4>3, <4>4 DEF One, Aside
      <3>5. CASE x = b
        <4>1. ~open[b]
          <5>1. ASSUME open[b] PROVE FALSE
            <6>1. f = Opening(b)
              BY <2>1, <3>1, <5>1 DEF Only
            <6>2. f.from = b
              BY <6>1 DEF Opening
            <6> HIDE DEF f
            <6>3. QED
              BY <3>1, <3>5, <6>2, PairingAssumption DEF Inbound, Boards, Neighbours
          <5>2. QED
            BY <5>1
        <4>2. QED
          BY <2>1, <3>2, <3>3, <3>5, <4>1 DEF One, Aside
      <3>6. QED
        BY <3>4, <3>5
    <2>3. ASSUME NEW x \in Boards, Turn(x)
          PROVE  One(b)'
      <3>1. pair[x].state # "IDLE"
        BY <2>3, IdleTurn
      <3>2. x = b
        BY <2>1, <3>1 DEF Aside
      <3>3. ~open[b]
        BY <2>1, <2>3, <3>2 DEF Turn, Tick
      <3>4. /\ UNCHANGED <<open, begun, events>>
            /\ \A c \in Boards \ {b} : pair'[c] = pair[c] /\ link_key'[c] = link_key[c]
        BY <2>3, <3>2 DEF Turn, PairingDrain, IInv
      <3>5. QED
        BY <2>1, <3>3, <3>4 DEF One, Aside
    <2>4. ASSUME NEW x \in Boards, Close(x)
          PROVE  One(b)'
      <3>1. /\ UNCHANGED <<pair, link_key, wire, begun>>
            /\ open'[b] => open[b]
        BY <2>4 DEF Close, IInv
      <3>2. QED
        BY <2>1, <3>1 DEF One, Aside
    <2>5. QED
      BY <1>1, <2>2, <2>3, <2>4 DEF Ordinary
  <1>2. CASE events' = events + 1 /\ begun' = begun
    <2>1. events = 0 /\ begun[b] = 1
      BY <1>0, <1>2
    <2>2. QED
      BY <2>1 DEF PInv, Nobody
  <1>3. ASSUME NEW x \in Boards, PairButton(x)
        PROVE  One(b)'
    <2>1. events = 0 /\ (\A c \in Boards : Aside(c) /\ begun[c] = 0) /\ Only(wire, {})
      BY <1>0, <1>3 DEF PairButton, PInv, Nobody
    <2>2. x = b
      BY <1>0, <1>3, <2>1 DEF PairButton
    <2>3. /\ 1 \in 1..MaxEvents /\ Sends(wire, wire', b, <<Opening(b)>>)
          /\ pair'[b].state = "WAITING" /\ pair'[b].self = <<b, 1>>
          /\ pair'[b].peer = NoOffer /\ pair'[b].ev = {} /\ link_key'[b] = OldKey
          /\ \A c \in Boards \ {b} :
               /\ pair'[c] = pair[c] /\ link_key'[c] = link_key[c] /\ saved'[c] = saved[c]
               /\ begun'[c] = begun[c] /\ open'[c] = open[c]
          /\ events' = events + 1
      BY <1>3, <2>1, <2>2, FirstHeld DEF Aside
    <2>4. Only(wire', {Opening(b)})
      <3>1. Opening(b) \in Frame
        BY <2>3, SaysType
      <3>2. /\ <<Opening(b)>> \in Seq(Frame)
            /\ \A i \in DOMAIN <<Opening(b)>> : <<Opening(b)>>[i] \in {Opening(b)}
        BY <3>1
      <3>3. wire \in Wires /\ Only(wire, {Opening(b)})
        BY <2>1 DEF IInv, WireOK, Wires, Only
      <3>4. QED
        BY <2>3, <3>2, <3>3, SentOnly
    <2>5. QED
      BY <2>1, <2>3, <2>4 DEF One, Aside
  <1>4. QED
    BY <1>1, <1>2, <1>3, OrdinaryOrNot

\* Without a confirmation on the wires there is none to lead
LEMMA LedOnly ==
  ASSUME NEW v, NEW S, Only(v, S), NEW x \in Boards, NEW y \in Boards, x # y,
         Closing(x, y) \notin S
  PROVE  Led(v, y, x)
  <1>1. ASSUME NEW c \in Way(y, x), NEW i \in DOMAIN Road(v, y, x, c)
        PROVE  Road(v, y, x, c)[i] \in S
    <2>1. c \in Boards /\ Before(y, x, c) \in Boards
      BY WayIs DEF Neighbours
    <2>2. QED
      BY <2>1 DEF Road, Only
  <1>2. QED
    BY <1>1, Zenon DEF Led

\* The second button is answered by what the first left on the wires, or
\* itself asks the first to answer
LEMMA SecondHeld ==
  ASSUME IInv, PInv, NEW b \in Boards, NEW d \in Boards, b # d, events = 1,
         begun[b] = 1, open[b], PairButton(d)
  PROVE  Two(b, d)'
  <1> DEFINE p == pair'[b]
             q == pair'[d]
             S == {Opening(b), Opening(d)}
  <1>1. /\ \A c \in Boards \ {b} : Aside(c) /\ begun[c] = 0
        /\ pair[b].state = "WAITING" /\ pair[b].self = <<b, 1>>
        /\ pair[b].ev = {} /\ link_key[b] = OldKey /\ pair[b].peer = NoOffer
        /\ Only(wire, {Opening(b)}) /\ wire \in Wires
    <2>1. One(b)
      BY DEF PInv
    <2>2. PairOK(pair[b], b, derived) /\ wire \in Wires
      BY DEF IInv, WireOK, Wires
    <2>3. QED
      BY <2>1, <2>2 DEF One, PairOK
  <1>2. /\ 1 \in 1..MaxEvents /\ Sends(wire, wire', d, <<Opening(d)>>)
        /\ pair'[d].state = "WAITING" /\ pair'[d].self = <<d, 1>>
        /\ pair'[d].peer = NoOffer /\ pair'[d].ev = {} /\ link_key'[d] = OldKey
        /\ \A c \in Boards \ {d} :
             /\ pair'[c] = pair[c] /\ link_key'[c] = link_key[c] /\ saved'[c] = saved[c]
             /\ begun'[c] = begun[c] /\ open'[c] = open[c]
    BY <1>1, FirstHeld DEF Aside
  <1>3. /\ p.state = "WAITING" /\ p.self = <<b, 1>> /\ p.peer = NoOffer
        /\ p.ev = {} /\ link_key'[b] = OldKey
    BY <1>1, <1>2
  <1>4. /\ <<Opening(d)>> \in Seq(Frame) /\ DOMAIN <<Opening(d)>> = {1}
        /\ <<Opening(d)>>[1] = Opening(d)
    <2>1. Opening(d) \in Frame
      BY <1>2, SaysType
    <2> HIDE DEF S
    <2>2. QED
      BY <2>1
  <1>5. Only(wire', S)
    <2>1. Only(wire, S) /\ \A i \in DOMAIN <<Opening(d)>> : <<Opening(d)>>[i] \in S
      BY <1>1, <1>4 DEF Only
    <2> HIDE DEF S
    <2>2. QED
      BY <1>1, <1>2, <1>4, <2>1, SentOnly
  <1>6. Closing(b, d) \notin S /\ Closing(d, b) \notin S
    <2>1. Closing(b, d).sub = "CONFIRM" /\ Closing(d, b).sub = "CONFIRM"
      BY DEF Closing
    <2>2. \A f \in S : f.sub = "OFFER"
      BY DEF Opening
    <2>3. QED
      BY <2>1, <2>2
  <1> HIDE DEF S
  <1>7. Led(wire', d, b) /\ Led(wire', b, d)
    BY <1>5, <1>6, LedOnly
  <1>8. Coming(wire', d, b, Opening(d))
    <2>1. \A i \in DOMAIN <<Opening(d)>> : Coming(wire', d, b, <<Opening(d)>>[i])
      BY <1>1, <1>2, <1>4, SentOn, Zenon DEF SetOut
    <2>2. QED
      BY <1>4, <2>1
  <1>9. Half(p, link_key'[b], saved'[b], b, d) /\ Half(q, link_key'[d], saved'[d], d, b)
    BY <1>2, <1>3 DEF Half
  <1>10. Owed(wire', b, d, p, q) /\ Owed(wire', d, b, q, p)
    BY <1>2, <1>3, <1>7, <1>8 DEF Owed
  <1>11. Only(wire', {Opening(b), Opening(d), Closing(b, d), Closing(d, b)})
    BY <1>5 DEF Only, S
  <1>12. \A c \in Boards \ {b, d} : Aside(c)'
    BY <1>1, <1>2 DEF Aside
  <1>13. QED
    BY <1>9, <1>10, <1>11, <1>12 DEF Two

\* Whichever of the two is named first
LEMMA TwoTurned ==
  ASSUME NEW b \in Boards, NEW d \in Boards, Two(d, b)'
  PROVE  Two(b, d)'
  <1> SUFFICES ASSUME Both(b, d)' PROVE Two(b, d)'
    BY DEF Two
  <1>1. Both(d, b)'
    BY DEF Both
  <1>2. /\ {b, d} = {d, b}
        /\ {Opening(b), Opening(d), Closing(b, d), Closing(d, b)} =
           {Opening(d), Opening(b), Closing(d, b), Closing(b, d)}
    OBVIOUS
  <1>3. QED
    BY <1>1, <1>2, Zenon DEF Two

\* After the second button
LEMMA TwoNext ==
  ASSUME IInv, PInv, Next, NEW b \in Boards, NEW d \in Boards, Both(b, d)'
  PROVE  Two(b, d)'
  <1>0. /\ events \in Nat /\ begun \in [Boards -> Nat] /\ open \in [Boards -> BOOLEAN]
        /\ b # d /\ events' = 2 /\ begun'[b] = 1 /\ begun'[d] = 1 /\ open'[b] /\ open'[d]
    BY DEF IInv, Both
  <1>1. events = 1 => ~(begun[b] = 1 /\ begun[d] = 1)
    <2>1. One(b) /\ d \in Boards \ {b}
      BY <1>0 DEF PInv
    <2>2. QED
      BY <2>1 DEF One
  <1>2. CASE Ordinary
    <2>1. open[b] /\ open[d]
      BY <1>0, <1>2 DEF Ordinary, Read, Turn, Close
    <2>2. Both(b, d) /\ Both(d, b) /\ Two(b, d) /\ Two(d, b)
      BY <1>0, <1>2, <2>1 DEF Ordinary, Both, PInv
    <2>3. \A c \in Boards \ {b, d} : pair[c].state = "IDLE"
      BY <2>2 DEF Two, Aside
    <2>4. ASSUME NEW z \in Boards, NEW e \in Boards, Read(z, e)
          PROVE  Two(b, d)'
      <3>1. CASE z \notin {b, d}
        BY <2>2, <2>4, <3>1, ReadThird
      <3>2. CASE z = b
        BY <2>2, <2>4, <3>2, ReadOwn
      <3>3. CASE z = d
        <4>1. Two(d, b)'
          BY <2>2, <2>4, <3>3, ReadOwn
        <4>2. QED
          BY <4>1, TwoTurned
      <3>4. QED
        BY <3>1, <3>2, <3>3
    <2>5. ASSUME NEW z \in Boards, Turn(z)
          PROVE  Two(b, d)'
      <3>1. CASE z \notin {b, d}
        BY <2>3, <2>5, <3>1, IdleTurn
      <3>2. CASE z = b
        BY <2>2, <2>5, <3>2, TurnOwn
      <3>3. CASE z = d
        <4>1. Two(d, b)'
          BY <2>2, <2>5, <3>3, TurnOwn
        <4>2. QED
          BY <4>1, TwoTurned
      <3>4. QED
        BY <3>1, <3>2, <3>3
    <2>6. ASSUME NEW z \in Boards, Close(z)
          PROVE  Two(b, d)'
      <3>1. UNCHANGED <<pair, link_key, saved, wire>>
        BY <2>6 DEF Close
      <3>2. QED
        BY <2>2, <3>1 DEF Two, Aside
    <2>7. QED
      BY <1>2, <2>4, <2>5, <2>6 DEF Ordinary
  <1>3. CASE events' = events + 1 /\ begun' = begun
    BY <1>0, <1>1, <1>3
  <1>4. ASSUME NEW z \in Boards, PairButton(z)
        PROVE  Two(b, d)'
    <2>1. /\ events = 1 /\ begun' = [begun EXCEPT ![z] = @ + 1]
          /\ open' = [open EXCEPT ![z] = TRUE]
      BY <1>0, <1>4 DEF PairButton
    <2>2. CASE z = d
      <3>1. begun[b] = 1 /\ open[b]
        BY <1>0, <2>1, <2>2
      <3>2. QED
        BY <1>0, <1>4, <2>1, <2>2, <3>1, SecondHeld
    <2>3. CASE z = b
      <3>1. begun[d] = 1 /\ open[d]
        BY <1>0, <2>1, <2>3
      <3>2. Two(d, b)'
        BY <1>0, <1>4, <2>1, <2>3, <3>1, SecondHeld
      <3>3. QED
        BY <3>2, TwoTurned
    <2>4. CASE z \notin {b, d}
      BY <1>0, <1>1, <2>1, <2>4
    <2>5. QED
      BY <2>2, <2>3, <2>4
  <1>5. QED
    BY <1>2, <1>3, <1>4, OrdinaryOrNot

\* The three phases make an invariant,
LEMMA PairedNext ==
  ASSUME IInv, PInv, [Next]_vars
  PROVE  PInv'
  <1>1. CASE UNCHANGED vars
    BY <1>1 DEF vars, PInv, Nobody, One, Two, Both, Aside
  <1>2. CASE Next
    <2>1. Nobody'
      BY <1>2, NobodyNext DEF Nobody
    <2>2. ASSUME NEW b \in Boards
          PROVE  One(b)'
      BY <1>2, OneNext DEF One
    <2>3. ASSUME NEW b \in Boards, NEW d \in Boards
          PROVE  Two(b, d)'
      BY <1>2, TwoNext DEF Two
    <2>4. QED
      BY <2>1, <2>2, <2>3 DEF PInv
  <1>3. QED
    BY <1>1, <1>2

\* of all behaviours in which the boards share a key to begin with
LEMMA PairedInit ==
  ASSUME AllShare, Init
  PROVE  PInv
  <1>1. \A b \in Boards : Aside(b) /\ begun[b] = 0
    BY DEF Init, AllShare, Aside, Idle
  <1>2. \A b, d \in Boards : wire[b][d] = <<>>
    BY DEF Init
  <1>3. events = 0
    BY DEF Init
  <1>4. Only(wire, {})
    BY <1>2 DEF Only
  <1>5. QED
    BY <1>1, <1>3, <1>4 DEF PInv, Nobody, One, Two, Both

\* Once all is quiet, nothing can be owed any more
LEMMA QuietPaired ==
  ASSUME IInv, PInv
  PROVE  TwoButtonsPair
  <1> SUFFICES ASSUME NEW b \in Boards, NEW d \in Boards, Both(b, d), Quiet
               PROVE  /\ link_key[b] = NewKey(b, d) /\ link_key[d] = link_key[b]
                      /\ saved[b] = link_key[b] /\ saved[d] = link_key[d]
    BY DEF TwoButtonsPair, Both, NewKey
  <1> DEFINE p == pair[b]
             q == pair[d]
  <1>1. /\ b # d /\ Half(p, link_key[b], saved[b], b, d)
        /\ Half(q, link_key[d], saved[d], d, b)
        /\ Owed(wire, b, d, p, q) /\ Owed(wire, d, b, q, p)
    BY DEF PInv, Two, Both
  <1>2. p.ev = {} /\ q.ev = {}
    BY DEF Quiet, Tick, Both
  <1>3. ASSUME NEW x \in Boards, NEW y \in Boards, x # y, NEW g
        PROVE  ~Coming(wire, y, x, g)
    <2>1. ASSUME NEW c \in Way(y, x)
          PROVE  Road(wire, y, x, c) = <<>>
      <3>1. c \in Boards /\ Before(y, x, c) \in Boards
        BY <1>3, WayIs DEF Neighbours
      <3>2. QED
        BY <3>1 DEF Road, Quiet
    <2>2. QED
      BY <2>1 DEF Coming
  <1>4. \A g : ~Coming(wire, b, d, g) /\ ~Coming(wire, d, b, g)
    BY <1>1, <1>3
  <1> HIDE DEF p, q
  <1>5. p.state # "WAITING" /\ q.state # "WAITING"
    BY <1>1, <1>2, <1>4 DEF Owed
  <1>6. p.state = "DONE" /\ q.state = "DONE"
    BY <1>1, <1>2, <1>4, <1>5 DEF Owed
  <1>7. /\ link_key[b] = NewKey(b, d) /\ saved[b] = NewKey(b, d)
        /\ link_key[d] = NewKey(d, b) /\ saved[d] = NewKey(d, b)
    BY <1>1, <1>2, <1>6 DEF Half
  <1>8. NewKey(d, b) = NewKey(b, d)
    BY DEF NewKey
  <1>9. QED
    BY <1>7, <1>8

(* Two buttons are all it takes, on a chain of any length whose boards share *)
(* its key: while one of the two waits, what it waits for is on its way, or  *)
(* the other is about to send it or to be asked for it, and a confirmation   *)
(* never overtakes the offer that it answers with (rx_offer, rx_confirm,     *)
(* pairing_drain).                                                           *)
THEOREM TwoPair == AllShare => (Spec => []TwoButtonsPair)
  <1> SUFFICES ASSUME AllShare PROVE Spec => []TwoButtonsPair
    OBVIOUS
  <1>1. Init => PInv
    BY PairedInit
  <1>2. IInv /\ PInv /\ [Next]_vars => PInv'
    BY PairedNext
  <1>3. IInv /\ PInv => TwoButtonsPair
    BY QuietPaired
  <1>4. QED
    BY <1>1, <1>2, <1>3, Invariance, PTL DEF Spec
=============================================================================
