------------------------------- MODULE Pairing -------------------------------
(***************************************************************************)
(* Pairing (core/src/auth.c) as the firmware's and the coordinator's main  *)
(* loops drive it: boards on a line, a button held on each, offers and     *)
(* confirmations that travel under the chain key of the moment, and the    *)
(* key that results installed in the link and saved.  An ephemeral key     *)
(* pair and its nonce are named by the board and the number of its         *)
(* attempt, the shared key by the two of them: boards derive the same key  *)
(* exactly when they hold each other's offers.                             *)
(***************************************************************************)
EXTENDS Integers, FiniteSets, Sequences

CONSTANTS
  N,             \* boards 1..N on a line; the number is also the uid
  Coordinators,  \* those that run the coordinator program
  Sharing,       \* the boards that share a chain key to begin with
  NoKey,         \* no key
  OldKey,        \* that key
  MaxEvents      \* bound: buttons held, frames lost, restarts, windows that
                 \* close in mid-exchange, saves that fail

ASSUME PairingAssumption ==
  /\ N \in Nat \ {0}
  /\ Coordinators \subseteq 1..N /\ Sharing \subseteq 1..N
  /\ NoKey # OldKey
  /\ MaxEvents \in Nat

Boards == 1..N

VARIABLES
  pair,      \* pair[b]: dhp_pair_t
  open,      \* open[b]: its window has not closed
  link_key,  \* link_key[b]: what the link tags and checks frames with
  saved,     \* saved[b]: the key in flash, or in the coordinator's key file
  wire,      \* wire[b][d]: frames on their way from neighbour d to b
  begun,     \* history: begun[b], how many attempts b has begun
  heard,     \* history: heard[b], whose offers b has heard in this one
  derived,   \* history: derived[b], the keys b has ever derived
  events

vars == <<pair, open, link_key, saved, wire, begun, heard, derived, events>>

\* self_public and self_nonce
Offers == Boards \X (1..MaxEvents)
NoOffer == <<0, 0>>

Keys == {NoKey, OldKey} \cup {{o, p} : o, p \in Offers}

Events == {"send_offer", "send_confirm", "send_abort", "completed"}

Pair == [state : {"IDLE", "WAITING", "CONFIRM_WAIT", "DONE", "ABORTED"},
         self : Offers \cup {NoOffer}, peer : Offers \cup {NoOffer},
         ev : SUBSET Events]

-----------------------------------------------------------------------------
(* dhp_pair_t: each operation as a function of the state before *)

\* dhp_pair_init
Idle == [state |-> "IDLE", self |-> NoOffer, peer |-> NoOffer, ev |-> {}]

\* Mutant of Begin: the peer of the last attempt is not forgotten
BeginAgain(p, offer) ==
  [p EXCEPT !.state = "WAITING", !.self = offer, !.ev = {"send_offer"}]

\* dhp_pair_begin
Begin(p, offer) ==
  [p EXCEPT !.state = "WAITING", !.self = offer, !.peer = NoOffer,
            !.ev = {"send_offer"}]

\* abort_with
AbortWith(p) ==
  IF p.state = "ABORTED" THEN p
  ELSE [p EXCEPT !.state = "ABORTED", !.ev = @ \cup {"send_abort"}]

\* build_transcript and derive: the same whichever side computes it
ChainKey(p) == {p.self, p.peer}

\* expect_confirm; and build_own_confirm, which after an abort works from a
\* secret that has been wiped and matches nothing
ExpectConfirm(p) == <<ChainKey(p), p.peer>>
OwnConfirm(p) ==
  IF p.state = "ABORTED" THEN <<{}, p.self>> ELSE <<ChainKey(p), p.self>>

\* Mutant of RxOffer: the first offer is not answered with ours
RxOfferSilent(p, offer) ==
  CASE p.peer # NoOffer /\ offer[1] = p.peer[1] ->
         IF p.state = "CONFIRM_WAIT"
         THEN [p EXCEPT !.ev = @ \cup {"send_confirm"}] ELSE p
    [] p.peer # NoOffer /\ offer[1] # p.peer[1] -> AbortWith(p)
    [] OTHER -> [p EXCEPT !.peer = offer, !.state = "CONFIRM_WAIT",
                          !.ev = @ \cup {"send_confirm"}]

\* rx_offer: from the peer we have, whatever it offers now; from another; or
\* the first
RxOffer(p, offer) ==
  CASE p.peer # NoOffer /\ offer[1] = p.peer[1] ->
         IF p.state = "CONFIRM_WAIT"
         THEN [p EXCEPT !.ev = @ \cup {"send_confirm"}] ELSE p
    [] p.peer # NoOffer /\ offer[1] # p.peer[1] -> AbortWith(p)
    [] OTHER -> [p EXCEPT !.peer = offer, !.state = "CONFIRM_WAIT",
                          !.ev = @ \cup {"send_confirm", "send_offer"}]

\* Mutant of RxConfirm: any confirmation of the peer's will do
RxConfirmAny(p, from, tag) ==
  CASE p.peer = NoOffer \/ from # p.peer[1] -> p
    [] OTHER -> IF p.state = "CONFIRM_WAIT"
                THEN [p EXCEPT !.state = "DONE", !.ev = @ \cup {"completed"}]
                ELSE p

RxConfirm(p, from, tag) ==
  CASE p.peer = NoOffer \/ from # p.peer[1] -> p
    [] p.peer # NoOffer /\ from = p.peer[1] /\ tag # ExpectConfirm(p) ->
         AbortWith(p)
    [] OTHER -> IF p.state = "CONFIRM_WAIT"
                THEN [p EXCEPT !.state = "DONE", !.ev = @ \cup {"completed"}]
                ELSE p

\* Mutant of RxLate: a pairing that is done stays done
RxLateDeaf(p, from, isOpen) == p

\* an offer heard when done revokes the pairing while the window is open
RxLate(p, from, isOpen) ==
  IF isOpen /\ from # p.peer[1] THEN AbortWith(p) ELSE p

\* dhp_pair_rx
Rx(p, f, isOpen) ==
  CASE p.state \in {"IDLE", "ABORTED"} -> p
    [] p.state = "DONE" /\ f.sub = "OFFER" -> RxLate(p, f.from, isOpen)
    [] p.state \in {"WAITING", "CONFIRM_WAIT"} /\ f.sub = "OFFER" ->
         RxOffer(p, f.arg)
    [] p.state \notin {"IDLE", "ABORTED"} /\ f.sub = "CONFIRM" ->
         RxConfirm(p, f.from, f.arg)
    [] p.state \notin {"IDLE", "ABORTED"} /\ f.sub = "ABORT" -> AbortWith(p)

\* dhp_pair_tick
Tick(p, isOpen) ==
  IF p.state \in {"WAITING", "CONFIRM_WAIT"} /\ ~isOpen THEN AbortWith(p)
  ELSE p

-----------------------------------------------------------------------------
(* The link *)

Neighbours(b) == {d \in Boards : d = b - 1 \/ d = b + 1}

Transmit(w, b, to, frames) ==
  [d \in Boards |-> [c \in Boards |->
     IF c = b /\ d \in to THEN w[d][c] \o frames ELSE w[d][c]]]

\* dhp_link_send: tagged with the key, and not at all without one
Emit(b, key, frames) ==
  IF key = NoKey THEN wire
  ELSE Transmit(wire, b, Neighbours(b), [i \in DOMAIN frames |->
     [sub |-> frames[i].sub, from |-> b, arg |-> frames[i].arg, mac |-> key]])

\* dhp_link_rx_byte: without a key the tag of a PAIR frame is not checked
Authentic(b, f) == link_key[b] \in {NoKey, f.mac}

-----------------------------------------------------------------------------
(* The main loop: frames are read first, *)

Read(b, d) ==
  /\ wire[b][d] # <<>>
  /\ LET f == Head(wire[b][d])
         rest == [wire EXCEPT ![b][d] = Tail(@)]
     IN  \/ /\ ~Authentic(b, f)
            /\ wire' = rest
            /\ UNCHANGED <<pair, heard, derived>>
         \/ /\ Authentic(b, f)
            /\ wire' = Transmit(rest, b, Neighbours(b) \ {d}, <<f>>)
            /\ pair' = [pair EXCEPT ![b] = Rx(@, f, open[b])]
            /\ heard' = IF f.sub = "OFFER"
                           /\ pair[b].state \notin {"IDLE", "ABORTED"}
                        THEN [heard EXCEPT ![b] = @ \cup {f.from}] ELSE heard
            /\ derived' = IF pair'[b].peer # pair[b].peer
                          THEN [derived EXCEPT ![b] =
                                  @ \cup {ChainKey(pair'[b])}]
                          ELSE derived
  /\ UNCHANGED <<open, link_key, saved, begun, events>>

\* then pairing_drain, after what the buttons and the clock made of the
\* pairing (p) and of the link's key: what the events ask for is sent, and
\* the key of a pairing that is still done replaces the one it was sent under.
Frames(p) ==
  (IF "send_offer" \in p.ev THEN <<[sub |-> "OFFER", arg |-> p.self]>>
   ELSE <<>>)
  \o (IF "send_confirm" \in p.ev /\ p.peer # NoOffer
      THEN <<[sub |-> "CONFIRM", arg |-> OwnConfirm(p)]>> ELSE <<>>)
  \o (IF "send_abort" \in p.ev THEN <<[sub |-> "ABORT", arg |-> NoOffer]>>
      ELSE <<>>)

Installs(p) == "completed" \in p.ev /\ p.state = "DONE"

PairingDrain(b, p, key, stored) ==
  /\ wire' = Emit(b, key, Frames(p))
  /\ pair' = [pair EXCEPT ![b] = [p EXCEPT !.ev = {}]]
  /\ link_key' = [link_key EXCEPT ![b] =
                    IF Installs(p) THEN ChainKey(p) ELSE key]
  /\ saved' = [saved EXCEPT ![b] = IF Installs(p) THEN ChainKey(p) ELSE stored]
  /\ UNCHANGED derived

\* a turn without buttons
Turn(b) ==
  /\ LET p == Tick(pair[b], open[b])
     IN  /\ p.ev # {}
         /\ PairingDrain(b, p, link_key[b], saved[b])
  /\ UNCHANGED <<open, begun, heard, events>>

\* one in which coord_key_save fails: the key is used all the same
TurnSaveFails(b) ==
  /\ b \in Coordinators /\ Installs(pair[b])
  /\ events < MaxEvents /\ events' = events + 1
  /\ wire' = Emit(b, link_key[b], Frames(pair[b]))
  /\ pair' = [pair EXCEPT ![b].ev = {}]
  /\ link_key' = [link_key EXCEPT ![b] = ChainKey(pair[b])]
  /\ UNCHANGED <<open, saved, begun, heard, derived>>

\* the pair button held for three seconds; `pair' on the control socket,
\* which does not look at the pairing it interrupts
PairHeld(b) == b \notin Coordinators => pair[b].state # "WAITING"

PairButton(b) ==
  /\ events < MaxEvents /\ events' = events + 1
  /\ PairHeld(b)
  /\ begun' = [begun EXCEPT ![b] = @ + 1]
  /\ open' = [open EXCEPT ![b] = TRUE]
  /\ heard' = [heard EXCEPT ![b] = {}]
  /\ PairingDrain(b, Begin(pair[b], <<b, begun'[b]>>), link_key[b], saved[b])

\* and for ten: the hold has begun a pairing on the way
UnpairHeld(b) == b \notin Coordinators /\ open[b]

UnpairButton(b) ==
  /\ UnpairHeld(b)
  /\ events < MaxEvents /\ events' = events + 1
  /\ open' = [open EXCEPT ![b] = FALSE]
  /\ heard' = [heard EXCEPT ![b] = {}]
  /\ PairingDrain(b, Idle, NoKey, NoKey)
  /\ UNCHANGED begun

-----------------------------------------------------------------------------
(* Time and failures *)

Quiet ==
  /\ \A b, d \in Boards : wire[b][d] = <<>>
  /\ \A b \in Boards : Tick(pair[b], open[b]).ev = {}

\* the window closes: 30 s outlast the exchange, but not one begun late
Close(b) ==
  /\ open[b]
  /\ \/ Quiet /\ UNCHANGED events
     \/ ~Quiet /\ events < MaxEvents /\ events' = events + 1
  /\ open' = [open EXCEPT ![b] = FALSE]
  /\ UNCHANGED <<pair, link_key, saved, wire, begun, heard, derived>>

Lose(b, d) ==
  /\ wire[b][d] # <<>>
  /\ events < MaxEvents /\ events' = events + 1
  /\ wire' = [wire EXCEPT ![b][d] = Tail(@)]
  /\ UNCHANGED <<pair, open, link_key, saved, begun, heard, derived>>

\* Flash is erased before it is programmed and a record cut short is not
\* loaded; a key file is renamed into place.
TornSave(b) ==
  /\ Installs(pair[b]) /\ b \notin Coordinators
  /\ saved' = [saved EXCEPT ![b] = NoKey]

\* A restart finds the saved key, or none in the middle of a save.
Restart(b) ==
  /\ events < MaxEvents /\ events' = events + 1
  /\ UNCHANGED saved \/ TornSave(b)
  /\ pair' = [pair EXCEPT ![b] = Idle]
  /\ open' = [open EXCEPT ![b] = FALSE]
  /\ link_key' = [link_key EXCEPT ![b] = saved'[b]]
  /\ wire' = [wire EXCEPT ![b] = [d \in Boards |-> <<>>]]
  /\ heard' = [heard EXCEPT ![b] = {}]
  /\ UNCHANGED <<begun, derived>>

-----------------------------------------------------------------------------
Init ==
  /\ pair = [b \in Boards |-> Idle]
  /\ open = [b \in Boards |-> FALSE]
  /\ link_key = [b \in Boards |-> IF b \in Sharing THEN OldKey ELSE NoKey]
  /\ saved = link_key
  /\ wire = [b \in Boards |-> [d \in Boards |-> <<>>]]
  /\ begun = [b \in Boards |-> 0]
  /\ heard = [b \in Boards |-> {}]
  /\ derived = [b \in Boards |-> {}]
  /\ events = 0

Next ==
  \E b \in Boards :
    \/ \E d \in Boards : Read(b, d) \/ Lose(b, d)
    \/ Turn(b) \/ TurnSaveFails(b) \/ PairButton(b) \/ UnpairButton(b)
    \/ Close(b) \/ Restart(b)

Spec == Init /\ [][Next]_vars

-----------------------------------------------------------------------------
TypeOK ==
  /\ pair \in [Boards -> Pair]
  /\ \A b \in Boards :
       /\ pair[b].state = "WAITING" => pair[b].peer = NoOffer
       /\ pair[b].state \in {"CONFIRM_WAIT", "DONE"} => pair[b].peer # NoOffer
  /\ open \in [Boards -> BOOLEAN]
  /\ link_key \in [Boards -> Keys] /\ saved \in [Boards -> Keys]
  /\ begun \in [Boards -> 0..MaxEvents]
  /\ heard \in [Boards -> SUBSET Boards]
  /\ events \in 0..MaxEvents

(* A key in use has been derived by two boards, each from the other's       *)
(* offer: no board is left tagging frames with a key nobody else ever had,  *)
(* whatever was lost, restarted or begun again (rx_confirm, pairing_drain). *)
KeysAreShared ==
  \A b \in Boards : link_key[b] \notin {NoKey, OldKey} =>
    /\ link_key[b] \in derived[b]
    /\ \E d \in Boards \ {b} : link_key[b] \in derived[d]

(* A board that has heard a second peer's offer while its window is open    *)
(* trusts nobody: the exchange it is in is aborted, and so installs no key  *)
(* (the rule of rx_offer, and for an exchange already done of dhp_pair_rx). *)
ThirdPartyAborts ==
  \A b \in Boards :
    open[b] /\ Cardinality(heard[b]) > 1 => pair[b].state = "ABORTED"

(* Two buttons, each held once and nothing going wrong, are all it takes:   *)
(* whichever was first and however the offers crossed, both boards end with *)
(* the one key that they made, in the link and saved.                       *)
TwoButtonsPair ==
  \A b, d \in Boards :
    /\ b # d /\ begun[b] = 1 /\ begun[d] = 1 /\ events = 2
    /\ open[b] /\ open[d] /\ Quiet
    => /\ link_key[b] = {<<b, 1>>, <<d, 1>>} /\ link_key[d] = link_key[b]
       /\ saved[b] = link_key[b] /\ saved[d] = link_key[d]
=============================================================================
