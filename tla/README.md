# DeskHop Plus: TLA+ models, checks and proofs

DeskHop Plus shares one keyboard and mouse between machines. Each machine has a
board (RP2040); the boards form a daisy chain of UARTs, optionally with a
coordinator (a Linux process) at one end. The boards elect one *active speaker*,
which owns the input focus: keyboard and mouse reports captured anywhere are sent
to it, and it sends them to the focused machine. Clients on the machines exchange
clipboards and files over the same chain.

Modules are translated from `src/`; `PROJECT.json` maps each definition to its
lines. Line numbers below are of the files under `src/`.

## 1. Inventory

| Component | State | Operations | What is hard |
|---|---|---|---|
| Role election, `core/src/uhrp.c` | role state, active speaker, peer table with ages, HELLO timer, pending resignation and deadline, `keys_held`, `vacancy_clean` | `start`, `rx_hello`, `rx_resign`, `tick`, `set_keys_held`, `take_events` | every board decides alone from what it heard; timers race HELLOs; split brain after a cut cable; a speaker dying mid-chord |
| Chain link, `core/src/link.c` | sequence counter, replay window per source, key, neighbour flags | `send`, `rx_byte` (refuse, drop as replay, relay, deliver), `set_key`, `clear_key`, `tick` | 16-bit wrap, restart of a counter, miswired ring, a full table |
| Framer, `core/src/frame.c` | partial body, escape flag per port | `push`, `encode`, `forward_prepare` | resynchronising after a damaged frame |
| Router, `core/src/router.c` | chain map, focus, level, held keys per machine, its election | local keyboard and mouse, `rx`, `button`, `set_focus`, `set_caps`, `tick` | a key held on a machine that loses focus or whose speaker vanishes; focus known differently on different boards |
| Held keys, `core/src/hid.c`; levels, `core/src/level.c`; pointer gesture, `core/src/pointer.c` | keys down per slot; none; pressure and lockout | note, release, forget; `level_of`; `feed`, `arrive` | slots reused; decay arithmetic |
| Bulk transfer, `core/src/data.c` | streams: state, next chunk, acked, window, retries | `send`, `accept`, `reject`, `cancel`, `rx`, `tick` | go-back-N with one rewind per loss; lost ACCEPT or DONE |
| Pairing, `core/src/auth.c` | state, peer, window, events | `begin`, `rx`, `tick` | both sides must agree on being paired; a third party; abort after completion |
| Client link, `firmware/.../clientlink.c` | attached flag, client capabilities, ring buffer | `rx_report`, `deliver`, `task` | full buffer in the middle of a frame, silent client |
| Client, `client/src/main.c` | transfer slots, receive buffer, last clipboard | offers, chunks, clipboard poll | one buffer for several streams, clipboard echo |
| Main loops, `firmware/.../main.c`, `coordinator/src/main.c` | paired flag, capability cache | receive, pairing, capability change, tick, shutdown | order of receive and tick; exit without releasing keys |

Interaction: a main loop feeds received bytes to the link; the link relays, and
hands frames for this board up; PAIR goes to the pairing, the rest to the router;
the router calls the election, then `drain_uhrp` turns the election's one-shot
events into frames (RELEASE, RESIGN, HELLO in that order). The loop then ticks the
router. Nothing is preempted inside an entry point (core 1 of a board only queues
captured input), so an entry point is one atomic action of the model.

What makes each part correct: *election* - connected boards settle on exactly one
speaker, a lost frame does not change it, keys are released when the role moves;
*link* - each frame reaches each addressee once and in order, and the map of the
chain is true; *router* - no machine is left holding a key, one machine has the
focus; *transfer* - what is reported received is what was sent, both ends agree or
one reports failure; *pairing* - both sides end with the same key or neither does.

## 2. Plan

Done, in this order:

1. `Uhrp`, `Election`: the election of one board, and a chain of boards that elect,
   with crashes, cuts, losses; proved: type correctness, role consistency, rule 1 and
   the tick half of rule 2.
2. `Link`: relaying, replay window, hop limit, keys, on a line and on a ring.
3. `Transfer`, `Data`: what a bulk transfer promises, and go-back-N over a lossy
   channel that implements it.
4. `Pairing`: boards on a line, symbolic keys, under the link's rule that an unkeyed
   board sends nothing.
5. `Router`: focus, forwarded input, held keys and the pointer, with the election
   reduced to its outcomes.
6. `Client`: the client program and the board's end of its USB link.

7. Proofs: `Uhrp` and `Election`; then `Pairing`, `Data` and its refinement of
   `Transfer`, `Link`, `Router`, the board's side of `Client`; then the order of acks
   and rewinds in `Data`, arrival and deafness in `Link`, the contents in `Client`,
   that two buttons are enough in `Pairing`, and the one focus of `Router`.

Left: theorems for `Router`'s `NoStuckKeys` (an induction over the reports and releases
of successive speakers) and for `Client`'s `ClipboardsAgree`; the framer's byte stuffing
and resynchronisation.

## 3. Modules

| Module | Models |
|---|---|
| `Uhrp` | `uhrp.c` as operators on a board's record `u`: `RxHello`, `RxResign`, `Tick`, `Start`, `Reevaluate` and what they call |
| `Election` | N boards on a line, frames on wires, time, faults; every action drains events as `drain_uhrp` does |
| `MCElection` | uids and capabilities for TLC: board N is the coordinator, board 1 has the keyboard |
| `Link` | `link.c`, with `forward_prepare` of `frame.c` and `rel_pos_from_frame` of `router.c` |
| `Transfer` | the promise of `data.h`: one report per transfer, success only for what was handed over whole |
| `Data`, `MCData` | `data.c` at both ends, the channel between them; lengths and directions for TLC |
| `Pairing` | `auth.c`, `pairing_drain` of both main loops, buttons, key storage, the key check of the link |
| `Router` | `router.c`, `hid.c`, `pointer.c`, `hid_bridge.c` on a chain |
| `Client`, `MCClient` | `client/src/main.c` and `clientlink.c`, one pair per machine; contents for TLC |
| `Uhrp_proofs`, `Election_proofs` | the proofs about the election |
| `Link_proofs`, `Pairing_proofs`, `Router_proofs`, `Client_proofs` | the proofs about the module they are named after |
| `Data_proofs`, `Transfer_proofs` | the proofs about `Data`, and that it implements `Transfer` |

The modules meet at the frame. `Link` shows what a chain does to frames (once, in
order, to every addressee; lost frames stay lost); `Election`, `Router` and `Pairing`
send over a line that does that, and `Data` over one that also loses. `Router` takes
from `Election` that connected boards get one speaker; `Client` takes from `Data` that
a stream's chunks are handed over in order and once.

### Uhrp

A record has the fields of `dhp_uhrp_t`. Absolute times become elapsed units: the
age of a peer's last HELLO, `since` the state was entered, time left to the next
HELLO and to the deadline; `Elapse` is a unit of the clock and stops each timer at
the last value the code distinguishes, so `now >= t + d` (`dhp_time_after`) becomes
`age >= d`. The 32-bit clock's wrap is the business of `dhp_time_after` and is left
out. The peer table is a function on addresses bounded by `MaxPeers`; slot order
matters only to `find_active_peer`, which becomes a choice among the ACTIVE
entries. A peer's priority is computed from the capabilities it advertises, as
`dhp_uhrp_init` and `dhp_router_set_caps` compute it (every caller configures
priority 0). A record's uid and preempt flag are constants of the board. Events are
the set `ev`. Left out because nothing reads them: `standby`, `active_uid`,
`active_priority`, `t_active_expiry`, `prev_state`, `promoted_by_timeout`.

### Election

`PowerOn` is `dhp_router_start`; `TickStep` is a pass of the main loop ending in
`dhp_router_tick`; `RecvHello`, `RecvResign`, `RecvRelease` are the handlers of
`dhp_router_rx`, each relaying the frame first as `dhp_link_rx_byte` does;
`KeysChange` is a keyboard report on the active board; `PlugKeyboard` is
`dhp_router_set_caps`; `Shutdown` is the coordinator's exit path; `Crash`,
`PullCable`, `MendCable`, `Lose` are the environment. `TimePasses` starts the next
hello interval when every running board has ticked and every frame has arrived:
the real loop runs every few milliseconds and a chain of sixteen boards is crossed
in a few more, well inside the 50 ms interval. Within an interval ticks and
deliveries interleave freely. RELEASE's effect on held keys belongs to the router;
here it is a frame that must be sent.

The link is abstracted to a reliable relay that may lose frames. In particular the
replay window is not composed in: a rebooted board's first HELLOs are heard at once
here, while `Link` shows that it can be ignored for up to 1025 frames (about 51 s of
HELLOs). `Converged` is therefore a statement about boards that are heard.

### Link

Boards with a port on each side, wires as sequences, a frame's `id` a history number
that the code does not have. `Refuse`, `Replayed` and `Accept` are the ways
`dhp_link_rx_byte` ends for the byte that completes a valid frame. `Accept` relays and
delivers in one action. `primed` and `used` become true together on the first frame and
are one flag. The neighbour flags are left out: nothing but the status display reads
them. The map has a slot for every board, where the code has 16. The variable `ring`
says whether the two ends were wired together by mistake; it never changes. `last` and
`missed` are history too: the last frame of each source that a board listened to, and
those it has refused as stale since. A frame does not stay on the chain while its sender
emits more than `JUMP` (1024) newer ones, and a board's boot outlasts its frames on the
wire; without these a late copy is mistaken for a restart, which on hardware would need
a frame delayed by seconds in a UART.

### Transfer and Data

Two endpoints with their tables of outbound and inbound streams. A transfer's bytes
are named by the transfer, so the running checksum is the sequence of names taken and
`Verdict` compares it with what the offer's checksum was computed from: equal exactly
when every chunk is there, in order, and of that transfer. Chunk numbers and ids keep
a width (`SEQ`, `IDS`), so the truncation of `chunks_for` and the reuse of ids happen.
`Retry` may come at any time at which at most `MaxBacklog` frames are under way to the
peer: timers race answers freely. The idle sweep of an inbound stream (15 s) comes only
when nobody is sending to it or about to, because either retry budget is shorter; a
sender that is still offering does not count, since a repeated offer does not refresh
the stream. Resync acks are limited to one per 20 ms in the code: the model sends or
omits each. A restart outlasts the frames in flight. `Implements` maps `reported` to
OK, FAILED or NONE and `delivered` to what was handed over with OK. `Transfer!Crash` is
the end of a program: it takes any number of open transfers with it in one step.

### Pairing

An offer stands for an ephemeral public key and nonce and is named by board and
attempt; the chain key two boards derive is the pair of their offers, and a
confirmation is that key with its sender's offer. So two boards hold the same key
exactly when they hold each other's offers, which is what X25519, the sorted
transcript and the derivation give. `Read` is a received frame, `Turn` the rest of a
pass of the loop: `dhp_pair_tick`, then `pairing_drain`, which sends under the old
key before it installs the new one. `UnpairButton` follows `PairButton`, because a
hold of ten seconds passes three on its way. `Restart` may catch a flash save between
erase and program. A window closes by itself only when the exchange has run out of
things to do; closing it in the middle counts against `MaxEvents`.

### Router

`router[b]` has the fields of `dhp_router_t` that routing reads, its view of the
election, and `held`, what the board's machine believes is down. What is held is a set
of classes, a keyboard key and a mouse button: `release_machine` sends one report for
each, and neither clears the other. A handler is an operator on the record, which
collects the frames it sends; `Prepared` chooses whether the USB endpoint is ready and
whether push has decayed. The election is reduced: `Candidate`/`Takeover` promote the
best board that has heard everyone, `Expire` is the tick that finds the speaker silent,
`ExpireUnnoticed` the HELLO that finds it first (finding `rule_two`), `Tick` serves a
pending resignation before or at its deadline. Running boards are connected and no
board joins while a speaker is being replaced; splits and merges are `Election`'s.
`lost` marks what no release can reach: a report the endpoint dropped, keys down when
the coordinator exits, when the keyboard is pulled out or its board dies, and at a
takeover that took the vacancy for clean. `NoStuckKeys` is stated for the rest, so
these five ways of leaving a key down are excluded by name and no others exist within
the bounds; what an exit or a dropped report does is therefore no question to it. It
looks at running boards, so it says nothing of the machines `chain_map` goes on
listing after they were unplugged (`router.c:524`). Pointer moves and focus commands
come when nothing is under way, so a handover races what follows it, not reports sent
before it. Left out: the vertical axis, the level, frames to `DHP_ADDR_NONE`. The
speaker itself counts as a screen in `neighbour_of` (`router.c:106` exempts it), so
the pointer can come to rest on a coordinator; the model has that too.

### Client

A machine is a client, its clipboard and the board's `clientlink`. Contents are
sequences of chunks; `rx.buf` is one buffer, as in the code, and what `realloc` adds is
"heap". `dhp_data` is reduced to what `Data` shows of it: an offer or the next chunk is
sent until it is answered (`Transmit`), accepting and acknowledging take effect at
once, DONE, REJECT and ABORT are frames that are sent once and may be lost. `Ends` is
the lookup of `data.c:497-503`: a REJECT or ABORT ends the inbound stream of that peer
and id, and only where there is none the outbound one; both ends number from 1, so it
may be the wrong one. `GiveUp` is the end of a retry budget and sends the ABORT of
`data.c:610-612`. It need not come while the peer's chunks find the stream by its id
and start its retries again (`data.c:508-509`; `HeldOpen`). `Expire` is the idle sweep
of an inbound stream. The sweep of an outbound one has no action: retries run out first
(9 s for an offer, 1.75 s for a chunk, against 15 s). `on_tx` ignores the port, so the
link's emission on both ports writes each client frame twice (`main.c:106-111`,
`link.c:159`); a second offer or chunk changes nothing, a second answer is taken or, cut
off by the ring, not (`TakeAnswer`). The board's ring counts frames, not
bytes, and a frame that does not fit is gone, since the framer at the other end
discards its remains. `Second` is the attach interval: every running client announces
itself, every board runs its timeout and sends STATUS. A client is restarted after the
others' streams from it have timed out. `even` is a history variable: it stays true
while nothing happens that makes two clipboards differ by design (a command that sends
text without copying it, two users copying at once, a failed transfer, a stream ended
by a frame about the other one of its id).

## 4. Runs

| Run | Distinct states | Shows |
|---|---|---|
| `election_chain` | 612 k | three boards, any power-on order, one crash, shutdown or cut cable: `Converged`, `RoleStable`, `NoEcho`, `RoleInv`, `StandsDownCleanly`, `TickTakeoverReleases` |
| `election_pair` | 102 k | two boards, frames in flight while loops run, one lost frame and one fault: `Converged`, `RoleStable` and, under fairness, `EventuallyAgreed` |
| `link` | 368 k | a line or ring of three: `EveryFrameArrives`, `MapIsTrue`, `DeafnessBounded`, `NoStorm`, `DeliveredOnceInOrder` |
| `data` | 189 k | one or two transfers, one loss, cancellation or restart: `Intact`, `ConfirmedIsTaken`, `RewindsBounded`, `Implements` and, under fairness, `EndsOneWay` |
| `pairing` | 1.6 M | three boards with a key, three events: `KeysAreShared`, `ThirdPartyAborts`, `TwoButtonsPair` |
| `router` | 961 k | two machines and a coordinator, one fault: `NoStuckKeys`, `HandoverWaitsForKeys`, `FocusAgrees`, `PushMeansPinned` |
| `client` | 454 k | two machines, text, files and share locations, two user acts, one fault: `PastedIntact`, `CapsAreLive`, `ClipboardsAgree` and, under fairness, `Settles` |
| `rule_two`, `data_crossed`, `pairing_new`, `router_late`, `client_mixed` | | violations, see Findings |

Properties of the election. `Converged`: `Settle = LEARN + HOLD + DEFER` intervals after
the last fault (and one more per lost frame) each set of connected boards has one ACTIVE
board, all name it, and no preempting board outranks it. The bound is tight up to its
rounding: with HOLD = LEARN = DEFER = 2 it fails at five intervals and holds at six.
`RoleStable`: on a settled chain the set of ACTIVE boards does not change; in
`election_pair` that includes a lost frame. `RoleInv`: the three copies of who has the
role agree and a follower follows a live ACTIVE peer. `StandsDownCleanly` is rule 1 of
`uhrp.h`: with a key held a board stands down only past the deadline of a resignation
that was pending before the step, and releases the keys in that step; no further
challenge moves the deadline, and the first tick past it stands down. (With DEFER = 0
the challenge itself is the deadline; `Overdue` has both cases.) `TickTakeoverReleases`
the part of rule 2 that the code keeps; `TakeoverReleases` rule 2 as documented.

Properties of the others. `DeafnessBounded`: a restarted board is ignored for at most
`JUMP + 1` of its frames. `Intact`: what on_received reports OK is the sent content,
once, although ids are reused and the chunk count wraps. `RewindsBounded`: between two
timeouts a sender rewinds at most once per position. `EndsOneWay`: while only one end
sends, every transfer is reported on; with traffic both ways it is not (finding
`data_crossed`). `KeysAreShared`: a key in use was derived by two boards. It is weaker
than "both are paired": after a lost confirmation one side may hold a key that the
other derived and then dropped, which the protocol cannot exclude. `TwoButtonsPair`:
nothing lost, two holds are enough, whatever the order. `HandoverWaitsForKeys`: the
flag that lets a resignation proceed is never low while the tracker has something.
`PastedIntact`: text arrives whole. `ClipboardsAgree`: the last copy wins, unless its
transfer failed or was ended by a frame about the other stream of its id (`even`).
`Settles`: no clipboard travels to and fro, and every transfer ends, except that two
which cross under one id may hold each other open (`HeldOpen`); that every transfer
ends without exception is false, which is `data_crossed`.

Bounds. In the election one unit of time is the hello interval, so HOLD is 3 as
shipped in the pair run and 2 in the chain runs; DEFER (40 intervals as shipped) is 1,
enough for both outcomes of a deferred handover: keys lifted in time, and deadline
reached. Three boards are the least with a board that relays and with a third party
whose HELLO arrives in between; one fault at a time is what the protocol's timing is
designed for, and board power-on is not counted as one, so late joins and rejoins after
a crash come on top. `MaxFlight` bounds how many ports hold frames when a loop runs: 0
in the chain run (the frames of one entry point are delivered, in any order, before the
next tick or fault), 2 in the pair run.

`Link`: SEQ = 4 and JUMP = 1 keep the shape of the 16-bit space: the window is a
minority of it and the counter wraps within the five frames of a run. One board
originates, which is enough since windows and positions are kept per source; two faults
on the line, one on the ring (`MaxRingFaults`). `DeafnessBounded` is about lines, where
no second copy of a frame is refused. `Data`: chunks of two bytes, a window of two, one
retry, chunk numbers modulo 5: the loads hold a transfer that is refused as too big, one
whose chunk count wraps, one of three chunks that fills its window and waits for an ack
next to a one-chunk one, and two in opposite directions; one slot per direction makes
offers meet a full table. `Pairing`: three events are two buttons and one thing that
goes wrong, or three buttons. `Router`: a key changes while one frame is in flight
before the first fault, other events come between frames; SPAN 1 and PUSH 2 are the
least with travel, pinned push and decay apart. `Client`: with RING = 1 any
frame crowds out the next, so a STATUS stands in an offer's way and both answers of
two crossing transfers get lost without a fault; with RING = 2 the invariants were
checked as well (2.2 million states). Contents are of one and two chunks, so a short
one follows a long one in the same buffer.

Deadlock is checked in the election, router and client runs. The link, data and pairing
runs end when the bounded number of frames, transfers or events is used up.

Fairness. `Election!Fairness`: each running board's loop keeps running, what is on a
wire is received (or lost, boundedly often), and time goes on. The loops have no
blocking call (`firmware/rp2040/src/main.c:315-499` polls; the coordinator's `poll` has
a timeout of 5 ms), so weak fairness of each is justified. `Data!Fairness`: loops run,
applications answer offers (the client answers inside `on_offer`), and the idle sweep,
which looks at a clock, comes however often the stream's channel is in use in between
(strong fairness). `Client!FairSpec`: as before for each part of the client's loop;
strong fairness of `Second`, because time also passes while it changes nothing, and of
`Transmit`, because the retransmission timers (250 ms, 1 s) are not in step with STATUS,
so a frame does not find the ring full every time. `GiveUp` is fair only where nothing
holds the stream open. A stalled clipboard helper returns at last (`Resume`). Nothing is
assumed of faults, users or the environment.

Each property has a mutant in its module (an operator named after the definition it
replaces) that a plausible slip in the code would produce and that violates it.

## 5. Findings

- `rule_two`: every entry point ages the peer table (`uhrp.c:199`) but only
  `dhp_uhrp_tick` marks the vacancy unclean (`uhrp.c:418-425`). If the first thing
  a standby processes after the dead speaker's hold time is another board's HELLO,
  it is promoted as if the vacancy were clean and sends no RELEASE, against
  `uhrp.h:23-28` and `docs/protocols/uhrp.md:91-92`. The machine keeps the key down.
- `data_crossed`: REJECT, ABORT and CHUNK are looked up by id among the inbound streams
  first (`data.c:497`), and both ends number from 1. With transfers both ways the ABORT
  of one ends the other; its sender goes on, its frames count as signs of life for the
  wrong stream, and no report ever comes, against `data.c:10-12` and `:588-590`. In the
  client (`HeldOpen` in `Client`) the stream that never ends keeps `tx_busy` set and with
it the clipboard off (`main.c:351`).
- `pairing_new`: `emit_frame` sends nothing without a key (`link.c:104`), PAIR included,
  so two boards fresh from the factory cannot pair, against `link.h:73-74` and
  `docs/protocols/auth.md:34`. Boards that already share a key can (`pairing`).
- `router_late`: FOCUS is broadcast when it changes; a coordinator that joins later and
  preempts picks a default and moves the user (`router.c:371`), against
  `docs/architecture.md:82-83`.
- `client_mixed`: one receive buffer for four inbound streams (`client/src/main.c:115`):
  two texts that arrive at once are mixed, each with a correct checksum, against
  `data.h:51-52`.

Met on the way and not made a run. The hold time expires at `>= 150 ms`, when the
third HELLO is due, so two lost HELLOs can suffice where `docs/protocols/uhrp.md:58`
says three. A board deaf to a restarted source (up to 1025 frames, about 51 s) also
ignores its transfers, which give up after 9 s. A DONE that is lost makes a success a
reported timeout. A key-up the USB endpoint drops stays down, where `hid_bridge.c:156`
relies on a release path that has no cause to run. A clipboard whose transfer failed is
not sent again until it changes. An abort heard after completion does not take the
installed key back. `next_render = 0` (`coordinator/src/main.c:649`) does not mean "at
once" in the upper half of the 32-bit clock.

## 6. Proofs

The theorems hold for every value of the constants that satisfies the ASSUMEs of the
module concerned: any chain length, any number of machines, faults, losses, buttons and
transfers, any timing. The ASSUMEs say that sizes and timeouts are positive numbers,
that the two ends of a transfer are two, that JUMP is less than half the sequence space,
and the like; a run evaluates each of them. Where a theorem needs more, the hypothesis
has a name and is part of the statement. Each module rests on one inductive invariant,
`IInv`, that TLC checked on the run's instance before it was proved (`Data`'s also with
two slots, 4.1 million states), one lemma per operator or handler, and one per action.

| Theorem | States | Hypothesis |
|---|---|---|
| `Election_proofs!TypeCorrect`, `NeverEchoed`, `RoleCorrect` | `[]TypeOK`, `[]NoEcho`, `[]RoleInv` | |
| `Election_proofs!RuleOne`, `RuleTwoOnTick` | `StandsDownCleanly`, `TickTakeoverReleases` | |
| `Link_proofs!TypeCorrect`, `MapCorrect`, `StormFree` | `[]TypeOK`, `[]MapIsTrue`, `[]NoStorm` | |
| `Link_proofs!InOrder` | `DeliveredOnceInOrder` | `FewSenders` |
| `Link_proofs!DeafnessIsBounded` | `[]DeafnessBounded` | `[]NoLap` |
| `Link_proofs!FramesArrive` | `[]EveryFrameArrives` | `LongEnough`, `[]InTouch` |
| `Link_proofs!FirstHalfTurn` | both | `LongEnough`, `MaxSend < SEQ \div 2` |
| `Data_proofs!TypeCorrect`, `WholeAndOnce` | `[]TypeOK`, `[]Intact` | |
| `Transfer_proofs!Refinement` | `Implements` | `[][FreshIds]_vars` |
| `Transfer_proofs!FewRefine` | `Implements` | `FewTransfers` |
| `Transfer_proofs!AcksAreHonest` | `[]ConfirmedIsTaken`, `[]RewindsBounded` | `[][CleanIds]_vars` |
| `Transfer_proofs!FewAreHonest` | both | `FewTransfers` |
| `Pairing_proofs!TypeCorrect`, `SharedKeys`, `TwoPeersAbort` | `[]TypeOK`, `[]KeysAreShared`, `[]ThirdPartyAborts` | |
| `Pairing_proofs!TwoPair` | `[]TwoButtonsPair` | `AllShare` |
| `Router_proofs!TypeCorrect`, `HandoverIsSafe`, `PushIsAtTheEdge` | `[]TypeOK`, `[]HandoverWaitsForKeys`, `[]PushMeansPinned` | |
| `Router_proofs!OneFocus` | `[]FocusAgrees` | `OneScreenless` |
| `Client_proofs!RingHolds`, `CapsLive` | `[]BoardsFit` (a part of `TypeOK`), `[]CapsAreLive` | |
| `Client_proofs!PastedWhole` | `[]TypeOK`, `[]PastedIntact` | `[]OneSender`, `[][CleanSends]_vars` |
| `Client_proofs!TwoPasteWhole` | both | `TwoMachines`, `FewSends` |

*Election.* Every record is `Sound` and `Follows`, every wire carries well-formed frames
that move away from their sender, and the environment's variables are typed. `RoleInv`
is not inductive: inside an entry point `peer_age` may drop the very peer a board
follows, so `Sound` is what holds in the middle and `Follows` what `reevaluate` restores
at the end. `RuleOne` rests on what each operator does to a pending resignation: only
`service_resign` ends one, with a key held only when it is `Overdue` (`DeadlineStands`),
and nothing moves its deadline away (`DeadlineKept`). `Sound` also needs that a board is
no peer of itself, which needs that it never hears its own frames, which is `NoEcho`:
`dhp_uhrp_rx_resign` does not check the source, so a board that heard its own RESIGN
would no longer name itself. `RuleTwoOnTick` needs in addition that a board which names
a speaker has once had one (`active_valid`), or `become_active` would skip the release.

*Link.* `DeliveredOnceInOrder` compares history numbers that the code does not have,
so the invariant ties them to the counters: there is a `base`, the number of frames
each board had sent when it last booted, such that `tx_seq` and the sequence number of
every frame under way are the history number less `base` modulo SEQ (`Counter`,
`Wires`), no frame under way is more than JUMP behind its sender, and every window
holds the number of a frame no older than the last one handed up (`Windows`). JUMP
being less than half of SEQ, the signed difference of `seq_is_fresh` then says which
frame is newer. `base` is existential: a restart picks a new one. `FewSenders` says
that no more boards talk than a replay table has slots: `seq_is_fresh` accepts
everything once the table is full (`link.c:70`). `MapIsTrue` needs that on a line the
hops made are the distance from the sender (`Placed`); `NoStorm` needs that each
direction carries at most one copy of a frame, wherever it is by now (`Single`).

Arrival and deafness are about a line, and rest on the order of what is still to come:
frames of a source keep the order they were sent in (`Ordered`), so all that a board
has yet to see of a source is newer than what it saw last (`Behind`). Each frame it
refuses then looks less stale than the one before, and a window takes only JUMP + 1
numbers for stale: that bounds the refusals (`Deaf`), unless a frame comes so long
after the last one refused that the counter has gone round and it looks staler again;
`NoLap` excludes a gap of SEQ - JUMP (64512) frames. For arrival, what is owed to a
board is as many frames as are on their way to it (`Current`), the hop limit covers
the way (`LongEnough`; as shipped 20 hops for 16 boards, `frame.h:78-79`), and the
window takes the next frame because it is newer by less than half a turn of the
counter (`InTouch`). Both provisos say that a board is not cut off from a source for
tens of thousands of frames; a HELLO goes to everyone every 50 ms. Where fewer than
half a turn of frames is ever sent neither is needed (`FirstHalfTurn`).

*Data.* Again an existential witness: `ids`, the id each transfer was begun under. An
offer or chunk under way and a stream at either end bear the id of their transfer. What
keeps a transfer from being handed over twice is an order on the channel: the chunks
of a transfer come after all of its offers (`Fifo`), there are none while it is still
being offered, and there are no offers of a transfer that was handed over; hence a late
offer cannot open a second stream. That the content is whole follows from the checksum
(`Verdict`) alone, so it holds when ids are reused and the chunk count wraps.

*Transfer.* The refinement does need fresh ids: if an id comes round while a chunk or a
verdict of its earlier stream is under way, the new transfer may be reported sent by the
old one's DONE (with a single id, IDS = 2, TLC shows it in nine states; as shipped it
takes 255 transfers in between). `FreshIds` says that `dhp_data_send` takes an id that
names no open stream and no chunk or verdict in flight; with it, open streams have
different ids and a DONE with OK is about a transfer that was handed over (`RInv`).
`FewRefine` discharges it where fewer transfers are begun than there are ids (255 as
shipped): ids are then given in order (`CInv`). The proof showed the abstract
specification to be wrong: a restart reports on several transfers at once, which one
slot per direction had hidden from TLC; `Transfer!Crash` is the answer.

`AcksAreHonest` needs the order of the frames of one stream. While it is offered,
nothing is taken of it (`Offered`); once it runs, the acks on their way rise, lie
between what the sender counts as confirmed and what the receiver has taken, and those
two are at most a window apart (`Started`). `Pace` ties the rewinds since the last
timeout to positions: a rewind goes to `acked`, is remembered in `rewound_to`, and the
next one needs a higher `acked`. What could break this is an accept older than the
stream: it would start the new transfer against what the peer took of the old one. So
`CleanIds` asks more of an id that comes round than `FreshIds` does, namely that no
ACCEPT of its earlier stream is under way after which a chunk was taken (`Untouched`).
As before, where fewer transfers are begun than there are ids the ids that are yet to
be given are clean (`UInv`), and `FewAreHonest` holds outright.

*Pairing.* A frame is genuine: an offer is its sender's own, and a key it confirms is
one that the sender has derived (`Genuine`). So a pairing that is done has a key both
have derived (`PairOK`), and `pairing_drain` installs and stores only such keys
(`KeyOK`, for the link and for the flash, from which a restart loads it). That the
confirming board is another one needs that frames move away from their sender.
`HeardOK` is the half of `ThirdPartyAborts` that every step keeps: a board that still
trusts somebody has heard nobody else.

`TwoPair` says that an exchange with nothing going wrong finishes, so its invariant
(`PInv`, checked by TLC with two events) says of the unfinished one what will continue
it: before the first button, between the two, and after the second. From then on each
side has its `Half` of the exchange and is `Owed` something: while x waits for an offer,
y's is on its way, or y is about to send it, or y waits too and will be asked by x's;
until x is done, y's confirmation is on its way or y is about to send it, or has yet to
see x's offer. On a quiet chain nothing is on its way or about to be sent, so both are
done. Two things could break it. A confirmation that overtakes its offer would be
ignored by a board that still waits (`rx_confirm`), and nothing would repeat it: `Led`
says that on every wire between the two an offer is ahead of each confirmation, which
holds because `pairing_drain` sends the offer first and relays keep the order. And a
side that installs the new key can no longer read what comes under the old one: by then
it is done and is owed nothing, and its own half was sent before, under the old key. The
boards between the two keep that key and so pass everything on. `AllShare` says that all
boards have the old key to begin with; without it the property is false, since a board
with no key sends nothing (finding `pairing_new`). The chain may be of any length, and
the buttons on any two of its boards.

*Router.* One lemma per operator of the module, in the order the code calls them: each
takes a record of the board to one of the same form, with frames of its own appended.
`Work(b, y, k)` is the set of records a handler may be in the middle of: with `k` the
flag `keys_held` covers the tracker (`Told`), without it not. `HandoverWaitsForKeys`
is broken inside a handler, between the tracker's change and `dhp_uhrp_set_keys_held`;
the lemmas say which operator restores it. `Pinned` goes through the clamp, the decay
and the arrival of the pointer.

`OneFocus` is about what frames in flight will do to the boards they reach, so its
invariant (`Announced`, checked by TLC on three layouts of three boards) says of every
idea of the focus other than the speaker's, in a board or in an announcement on its
way, that an announcement of the speaker's focus follows it, later in the same queue or
at a board nearer to the speaker (`Current`, `Fresh`). A handler either leaves the focus
alone and announces none (`Mum`) or ends with the announcement of the new one (`Loud`),
which goes out behind everything that is on the wires; taking a frame and relaying it
moves all that by one place (`MoveCurrent`). There is one speaker at a time, and no
announcement but its own is under way (`OneSpeaker`, `Spoken`): the model hands the role
on between bursts of frames only. What is left is that a new speaker announces anything.
It is silent if it knows of no screen (`pick_default_focus`), and then others keep the
focus of its predecessor. `OneScreenless` excludes that: of all boards at most one, the
coordinator, is no keyboard to a machine, so whoever else is running is a screen. It is
so on the chains this repository is for: a board always announces `HID_OUT`
(`firmware/rp2040/src/main.c:148`), a coordinator never does
(`coordinator/src/main.c:15`). With two coordinators and one machine TLC finds
`FocusAgrees` violated that way.

*Client.* For the board's side the records of boards and clients are reduced to what
it needs; frames and contents stay untyped. `CapsAreLive` is not inductive because the
silence that the board counts and the time since the client's end are different
counters: `Live` says that the former is never behind the latter. The ring bound
holds whatever the chain delivers while the client stalls.

`PastedWhole` types everything and says what each stream is of: for every sender and id
there is one thing some user copied or sent, and the stream at the sender, every offer
and chunk under way, and every receiver's buffer up to where it is filled, are of that
thing (`Carries`, `PInv`). A send chooses it anew, which needs that nothing of an
earlier stream with that id is left (`CleanSends`), as in `Data`. Answers and ABORTs
carry no content, and whichever stream they end, they only take one away (`Ends`).
`OneSender` says that a machine has inbound streams of one other at a time. The code
does not see to that: `rx_buf` is one buffer for all senders (`client/src/main.c:63`),
and the run `client_mixed` shows three machines breaking `PastedIntact`; the theorem
says that no text is broken in any other way. With two machines nobody else is there to
send (`UInv`), and fewer sends than the 255 ids leave none to come round:
`TwoPasteWhole` needs no proviso about the behaviour.

Only model-checked, and why:

- `EventuallyAgreed`, `EndsOneWay`, `Settles`: liveness under fairness.
- `Converged`, `RoleStable`: bounded-time statements over all boards' timers.
- `NoStuckKeys`: it needs an invariant about the reports and releases of successive
  speakers, the keys each of them tracks, and what every machine's endpoint dropped.
- `ClipboardsAgree`: it relates two clipboards through transfers still under way, and
  those through the answers that may end one for the other.

## 7. Not modelled

Byte stuffing, CRC and SipHash, message and local packing (functions of bytes below the
frame; a damaged frame is a lost one everywhere above); displays, LEDs, diagnostics,
serial ports, configuration files and their syntax, platform clipboard commands (I/O);
`dhp_level_of` and the level broadcast (a value shown to the user, derived from the
capabilities); address derivation from the uid (16 bits of 64: addresses are assumed
distinct); the queues between the two cores of a board, which drop input when 32 or 64
reports are waiting; a second pointer axis. The cryptography is symbolic: guessing a
key or a tag is not considered.
