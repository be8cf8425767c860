------------------------------- MODULE Client -------------------------------
(***************************************************************************)
(* The level 3 client (client/src/main.c) and the board that proxies for   *)
(* it (firmware/rp2040/src/clientlink.c), one pair per machine.  The       *)
(* transfers in between are dhp_data's (Data, Transfer): an offer is       *)
(* repeated until it is answered, chunks are taken in order and once, and  *)
(* the last one is answered by a DONE that is sent once.  Content is a     *)
(* sequence of chunks, named by what the user copied.                      *)
(***************************************************************************)
EXTENDS Integers, Sequences

CONSTANTS
  Clients,      \* machines, each with a board and a client program
  None,         \* DHP_ADDR_NONE, an empty clipboard, no stream
  Helpers,      \* machines with a clipboard helper
  AcceptFiles,  \* machines whose client runs with --accept-files
  Peer,         \* Peer[a]: what a's client is started with as --peer
  Texts, Files, \* what users copy, and send as files or share locations
  Commands,     \* what they ask for on the control socket: kind and content
  RING,         \* frames that fit clientlink's tx buffer
  TIMEOUT,      \* CLIENTLINK_TIMEOUT_MS, in attach intervals
  IDS,          \* 2^8: stream ids, of which zero is not used
  MaxActs,      \* bound: what users do
  MaxFaults     \* bound: crashes, resets, stalls, lost transfers

ASSUME ClientAssumption ==
  /\ Helpers \subseteq Clients /\ AcceptFiles \subseteq Clients
  /\ Peer \in [Clients -> Clients \cup {None}]
  /\ None \notin Clients /\ None \notin Texts \cup Files
  /\ None \notin [id : Nat, total : Nat, got : Nat]  \* nor a stream
  /\ Commands \subseteq ({"TEXT"} \X Texts) \cup ({"FILE", "SHARE"} \X Files)
  /\ \A x \in Texts \cup Files : x \in Seq(STRING) /\ x # <<>>
  /\ {RING, MaxActs, MaxFaults} \subseteq Nat
  /\ TIMEOUT \in Nat \ {0} /\ IDS \in Nat \ {0, 1}

VARIABLES
  client,  \* client[a]: client_t
  board,   \* board[a]: clientlink_t of the board it is plugged into
  gone,    \* history: gone[a], intervals since a's client ended
  writer,  \* history: the machine whose user copied last
  even,    \* history: nothing has happened that sets clipboards at variance
  acts, faults

vars == <<client, board, gone, writer, even, acts, faults>>

Level3 == {"CLIPBOARD", "FILES", "IMAGES", "SHARE"}

-----------------------------------------------------------------------------
(* The board's side *)

\* clientlink_init
NoClient == [attached |-> FALSE, caps |-> {}, silent |-> 0, tx |-> <<>>]

\* Mutant of Push: one frame too many
PushOver(cl, f) ==
  IF Len(cl.tx) > RING THEN cl ELSE [cl EXCEPT !.tx = Append(@, f)]

\* tx_push: what does not fit is cut off, and the framer at the other end
\* discards the part of a frame that did
Push(cl, f) == IF Len(cl.tx) >= RING THEN cl ELSE [cl EXCEPT !.tx = Append(@, f)]

SendStatus(cl) == Push(cl, [type |-> "STATUS"])

\* Mutant of Deliver: traffic to the client passes for a sign of life
DeliverTouches(cl, f) ==
  IF ~cl.attached THEN cl ELSE Push([cl EXCEPT !.silent = 0], f)

Deliver(cl, f) == IF ~cl.attached THEN cl ELSE Push(cl, f)

\* an ATTACH; the first is answered at once
Attach(cl, caps) ==
  LET s == [cl EXCEPT !.attached = TRUE, !.caps = caps \cap Level3, !.silent = 0]
  IN  IF cl.attached THEN s ELSE SendStatus(s)

\* a DATA frame of a's client for dst, proxied onto the chain
Proxy(boards, a, dst, f) ==
  LET bs == [boards EXCEPT ![a].silent = 0]
  IN  IF ~boards[a].attached \/ dst = None THEN bs
      ELSE [bs EXCEPT ![dst] = Deliver(@, f)]

\* clientlink_task, an interval after the last
Task(cl) ==
  IF ~cl.attached THEN cl
  ELSE IF cl.silent + 1 >= TIMEOUT THEN NoClient
  ELSE SendStatus([cl EXCEPT !.silent = @ + 1])

ClientCaps(cl) == IF cl.attached THEN cl.caps ELSE {}

-----------------------------------------------------------------------------
(* The client's side.  in[b] is dhp_data's inbound stream from b, tx the   *)
(* outbound one that holds tx_buf; rx is rx_kind, rx_buf and rx_len.       *)

Off ==
  [up |-> FALSE, stalled |-> FALSE, adopted |-> FALSE,
   peer |-> None, clip |-> None, last_clip |-> None, tx |-> None,
   next_id |-> 1, in |-> [b \in Clients |-> None],
   rx |-> [kind |-> "TEXT", buf |-> <<>>, len |-> 0], outdir |-> {}]

\* client a's loop can run
Runs(a) == client[a].up /\ ~client[a].stalled

SendOwned(c, kind, data) ==
  IF c.tx # None THEN c
  ELSE [c EXCEPT !.tx = [id |-> c.next_id, to |-> c.peer, kind |-> kind,
                         data |-> data, state |-> "OFFERING"],
                 !.next_id = (@ % (IDS - 1)) + 1]

\* Mutants of PollClipboard: no look at tx_busy; what is sent is not
\* remembered
PollClipboardBusy(c) ==
  IF c.clip \in {None, c.last_clip} THEN c
  ELSE SendOwned([c EXCEPT !.last_clip = c.clip], "TEXT", c.clip)

PollClipboardForgets(c) ==
  IF c.tx # None \/ c.clip \in {None, c.last_clip} THEN c
  ELSE SendOwned(c, "TEXT", c.clip)

PollClipboard(c) ==
  IF c.tx # None \/ c.clip \in {None, c.last_clip} THEN c
  ELSE SendOwned([c EXCEPT !.last_clip = c.clip], "TEXT", c.clip)

OnSent(c) == [c EXCEPT !.tx = None]

Refuses(b, kind) == kind = "FILE" /\ b \notin AcceptFiles

\* realloc keeps what was there; what it adds is whatever the heap held
Grown(buf, total) ==
  [i \in 1..(IF total > Len(buf) THEN total ELSE Len(buf)) |->
     IF i <= Len(buf) THEN buf[i] ELSE "heap"]

\* Mutant of OnOffer: the length of the last transfer stays
OnOfferKeepsLength(c, f) ==
  [c EXCEPT !.rx = [kind |-> f.kind, buf |-> Grown(c.rx.buf, f.total),
                    len |-> c.rx.len],
            !.in[f.src] = [id |-> f.id, total |-> f.total, got |-> 0]]

OnOffer(c, f) ==
  [c EXCEPT !.rx = [kind |-> f.kind, buf |-> Grown(c.rx.buf, f.total), len |-> 0],
            !.in[f.src] = [id |-> f.id, total |-> f.total, got |-> 0]]

OnChunk(c, f) ==
  [c EXCEPT !.rx.buf[f.seq] = f.data,
            !.rx.len = IF f.seq > @ THEN f.seq ELSE @,
            !.in[f.src].got = f.seq]

Reassembled(c) == SubSeq(c.rx.buf, 1, c.rx.len)

\* text goes to the clipboard; files to outdir, share locations to stdout
OnReceived(c, helper) ==
  IF c.rx.kind = "TEXT"
  THEN IF helper THEN [c EXCEPT !.clip = Reassembled(c),
                                !.last_clip = Reassembled(c)] ELSE c
  ELSE [c EXCEPT !.outdir = @ \cup {Reassembled(c)}]

-----------------------------------------------------------------------------
(* Steps of a client's loop *)

\* what announce tells a's board, every second while the loop runs
Announce(a, cl) ==
  Attach(cl, {"FILES", "SHARE"} \cup
             IF a \in Helpers THEN {"CLIPBOARD", "IMAGES"} ELSE {})

Update(a, c) == client' = [client EXCEPT ![a] = c]

Poll(a) ==
  /\ Runs(a) /\ a \in Helpers
  /\ PollClipboard(client[a]) # client[a]
  /\ Update(a, PollClipboard(client[a]))
  /\ UNCHANGED <<board, gone, writer, even, acts, faults>>

\* the stream of a's that b is receiving
Receiving(a, b) ==
  b \in Clients /\ client[b].in[a] # None /\ client[b].in[a].id = client[a].tx.id

\* what a's dhp_data sends until it is answered
Frame(a) ==
  LET s == client[a].tx
  IN  IF s.state = "OFFERING"
      THEN [type |-> "OFFER", src |-> a, id |-> s.id, kind |-> s.kind,
            total |-> Len(s.data)]
      ELSE LET n == client[s.to].in[a].got + 1
           IN  [type |-> "CHUNK", src |-> a, id |-> s.id, seq |-> n,
                data |-> s.data[n]]

Transmit(a) ==
  /\ Runs(a) /\ client[a].tx # None
  /\ LET s == client[a].tx
     IN  /\ s.state = "SENDING" => Receiving(a, s.to)
         /\ s.to # None =>
              \A i \in 1..Len(board[s.to].tx) : board[s.to].tx[i] # Frame(a)
         /\ board' = Proxy(board, a, s.to, Frame(a))
         /\ board' # board
  /\ UNCHANGED <<client, gone, writer, even, acts, faults>>

\* b's answer to a frame of a's; whoever asks for it takes the frame off
Reply(b, a, type, f) == Proxy([board EXCEPT ![b].tx = Tail(@)], b, a,
                              [type |-> type, src |-> b, id |-> f.id])

\* a's stream f.id is accepted: its sender starts on the chunks
Accepted(a, f) ==
  IF client[a].tx # None /\ client[a].tx.id = f.id
  THEN [client EXCEPT ![a].tx.state = "SENDING"] ELSE client

TakeOffer(b, f) ==
  IF Refuses(b, f.kind)
  THEN /\ board' = Reply(b, f.src, "REJECT", f) /\ UNCHANGED client
  ELSE /\ client' = [Accepted(f.src, f) EXCEPT ![b] = OnOffer(@, f)]
       /\ board' = [board EXCEPT ![b].tx = Tail(@), ![b].silent = 0]

\* a chunk out of order is not for on_chunk; the last one ends the stream
TakeChunk(b, f) ==
  LET s == client[b].in[f.src]
      c == OnChunk(client[b], f)
      drop == [board EXCEPT ![b].tx = Tail(@)]
  IN  IF s = None \/ s.id # f.id \/ f.seq # s.got + 1
      THEN board' = drop /\ UNCHANGED client
      ELSE IF f.seq < s.total
      THEN Update(b, c) /\ board' = [drop EXCEPT ![b].silent = 0]
      ELSE /\ Update(b, [OnReceived(c, b \in Helpers) EXCEPT !.in[f.src] = None])
           /\ board' = Reply(b, f.src, "DONE", f)

\* dhp_data_rx looks the id of a REJECT or ABORT up among the inbound streams
\* first, where its end is a receive that failed; that of a DONE names one of ours
Ends(c, f) ==
  IF f.type # "DONE" /\ c.in[f.src] # None /\ c.in[f.src].id = f.id
  THEN [c EXCEPT !.in[f.src] = None]
  ELSE IF c.tx # None /\ c.tx.to = f.src /\ c.tx.id = f.id
  THEN OnSent(c) ELSE c

\* an ABORT is about a stream of its sender's, an answer about one of ours
EndsItsOwn(c, d, f) == IF f.type = "ABORT" THEN d.tx = c.tx ELSE d.in = c.in

\* on_tx writes a frame once per port of the link, so it comes twice, unless
\* the second copy finds the buffer full
TakeAnswer(a, f) ==
  /\ \E c \in {Ends(client[a], f), Ends(Ends(client[a], f), f)} :
       /\ Update(a, c)
       /\ even' = (even /\ EndsItsOwn(client[a], c, f))
  /\ board' = [board EXCEPT ![a].tx = Tail(@)]

\* boardlink_read, the client's link and its dispatch.  A STATUS is heard
\* until the board's address is adopted: from then on it has our own source
\* address.  Until then DATA is not for us, and relayed back to the board.
Read(a) ==
  /\ Runs(a) /\ board[a].tx # <<>>
  /\ LET f == Head(board[a].tx)
     IN  \/ /\ f.type = "STATUS"
            /\ Update(a, [client[a] EXCEPT !.adopted = TRUE])
            /\ board' = [board EXCEPT ![a].tx = Tail(@)]
            /\ UNCHANGED even
         \/ /\ f.type # "STATUS" /\ ~client[a].adopted
            /\ board' = [board EXCEPT ![a].tx = Tail(@), ![a].silent = 0]
            /\ UNCHANGED <<client, even>>
         \/ /\ f.type # "STATUS" /\ client[a].adopted
            /\ CASE f.type = "OFFER" -> TakeOffer(a, f) /\ UNCHANGED even
                 [] f.type = "CHUNK" -> TakeChunk(a, f) /\ UNCHANGED even
                 [] OTHER            -> TakeAnswer(a, f)
  /\ UNCHANGED <<gone, writer, acts, faults>>

\* a and b's client can exchange frames
Reachable(a, b) ==
  /\ b \in Clients /\ Runs(b) /\ client[a].adopted /\ client[b].adopted
  /\ board[a].attached /\ board[b].attached

\* the answer to a's stream that it has yet to read, if it is there
Answered(a) ==
  \E i \in 1..Len(board[a].tx) :
    LET f == board[a].tx[i]
    IN  f.type = "DONE" /\ f.src = client[a].tx.to /\ f.id = client[a].tx.id

\* b's chunks of a stream that a does not receive find the stream of a's with
\* that id, and each is a sign of life to it: its retries start again
HeldOpen(a) ==
  LET b == client[a].tx.to
      t == client[b].tx
  IN  /\ client[a].tx # None /\ Reachable(a, b)
      /\ t # None /\ t.state = "SENDING" /\ t.to = a /\ t.id = client[a].tx.id
      /\ ~Receiving(b, a)

\* dhp_data_tick ends a stream whose retries have run out with an ABORT
Abort(a) == Proxy(board, a, client[a].tx.to,
                  [type |-> "ABORT", src |-> a, id |-> client[a].tx.id])

\* no answer comes, or it is lost or late
GiveUp(a) ==
  /\ Runs(a) /\ client[a].tx # None
  /\ LET s == client[a].tx
     IN  /\ \/ ~Reachable(a, s.to)
            \/ s.state = "OFFERING" /\ Refuses(s.to, s.kind)
            \/ s.state = "SENDING" /\ ~Receiving(a, s.to)
         /\ even' = (even /\ (s.kind = "TEXT" => Answered(a)))
  /\ Update(a, OnSent(client[a]))
  /\ board' = Abort(a)
  /\ UNCHANGED <<gone, writer, acts, faults>>

\* the idle timeout of an inbound stream that nobody sends any more
Expire(b, a) ==
  /\ Runs(b) /\ client[b].in[a] # None
  /\ ~(Runs(a) /\ client[a].tx # None /\ client[a].tx.to = b /\ Receiving(a, b))
  /\ Update(b, [client[b] EXCEPT !.in[a] = None])
  /\ UNCHANGED <<board, gone, writer, even, acts, faults>>

-----------------------------------------------------------------------------
(* Users *)

Act == acts < MaxActs /\ acts' = acts + 1

\* nothing is under way from a, and its clipboard has been looked at
AtRest(a) ==
  /\ client[a].tx = None
  /\ a \in Helpers => client[a].clip \in {None, client[a].last_clip}

Settled == \A a \in Clients : client[a].up => AtRest(a)

Copy(a, x) ==
  /\ client[a].up /\ a \in Helpers /\ Act
  /\ Update(a, [client[a] EXCEPT !.clip = x])
  /\ writer' = a
  /\ even' = (even /\ (Settled \/ writer = a))
  /\ UNCHANGED <<board, gone, faults>>

\* text, send and share on the control socket; busy, they are turned down
CtlSend(a, kind, x) ==
  /\ Runs(a) /\ client[a].tx = None /\ Act
  /\ Update(a, SendOwned(client[a], kind, x))
  /\ even' = (even /\ kind # "TEXT")
  /\ UNCHANGED <<board, gone, writer, faults>>

CtlPeer(a, b) ==
  /\ Runs(a) /\ b # a /\ b # client[a].peer
  /\ Update(a, [client[a] EXCEPT !.peer = b])
  /\ UNCHANGED <<board, gone, writer, even, acts, faults>>

-----------------------------------------------------------------------------
(* Time and faults *)

\* An attach interval passes, and every client that runs announces itself
Second ==
  /\ board' = [a \in Clients |->
       IF Runs(a) THEN Announce(a, Task(board[a])) ELSE Task(board[a])]
  /\ gone' = [a \in Clients |->
       IF client[a].up \/ gone[a] >= TIMEOUT THEN gone[a] ELSE gone[a] + 1]
  /\ UNCHANGED <<client, writer, even, acts, faults>>

Fault == faults < MaxFaults /\ faults' = faults + 1 /\ even' = FALSE

\* Started anew after what the others held of its streams has timed out,
\* and what was on its way has been read
Start(a) ==
  /\ ~client[a].up
  /\ \A b \in Clients \ {a} : \A i \in 1..Len(board[b].tx) :
       board[b].tx[i].type = "STATUS"
  /\ client' = [b \in Clients |->
       IF b = a THEN [Off EXCEPT !.up = TRUE,
                                 !.peer = Peer[a], !.clip = client[a].clip,
                                 !.outdir = client[a].outdir]
       ELSE [client[b] EXCEPT !.in[a] = None]]
  /\ board' = [board EXCEPT ![a] = Announce(a, @)]
  /\ gone' = [gone EXCEPT ![a] = 0]
  /\ UNCHANGED <<writer, even, acts, faults>>

\* The client ends; when its board is reset, because of that
Exit(a) ==
  /\ client[a].up /\ Fault
  /\ Update(a, [Off EXCEPT !.clip = client[a].clip, !.outdir = client[a].outdir])
  /\ \/ UNCHANGED board
     \/ board' = [board EXCEPT ![a] = NoClient]
  /\ UNCHANGED <<gone, writer, acts>>

\* a clipboard helper that does not return holds up the whole loop
Stall(a) ==
  /\ Runs(a) /\ a \in Helpers /\ Fault
  /\ Update(a, [client[a] EXCEPT !.stalled = TRUE])
  /\ UNCHANGED <<board, gone, writer, acts>>

Resume(a) ==
  /\ client[a].stalled
  /\ Update(a, [client[a] EXCEPT !.stalled = FALSE])
  /\ board' = [board EXCEPT ![a] = Announce(a, @)]
  /\ UNCHANGED <<gone, writer, even, acts, faults>>

\* frames lost until the retries run out, the ABORT among them or not
Lose(a) ==
  /\ Runs(a) /\ client[a].tx # None /\ Fault
  /\ Update(a, OnSent(client[a]))
  /\ board' \in {board, Abort(a)}
  /\ UNCHANGED <<gone, writer, acts>>

-----------------------------------------------------------------------------
Init ==
  /\ client = [a \in Clients |-> Off]
  /\ board = [a \in Clients |-> NoClient]
  /\ gone = [a \in Clients |-> TIMEOUT]
  /\ writer = None
  /\ even = TRUE
  /\ acts = 0 /\ faults = 0

Loop(a) == \/ Poll(a) \/ Transmit(a) \/ Read(a) \/ GiveUp(a)
           \/ \E b \in Clients : Expire(a, b)

User(a) ==
  \/ \E x \in Texts : Copy(a, x)
  \/ \E cmd \in Commands : CtlSend(a, cmd[1], cmd[2])
  \/ \E b \in Clients : CtlPeer(a, b)

Next ==
  \/ \E a \in Clients :
       \/ Loop(a) \/ User(a)
       \/ Start(a) \/ Exit(a) \/ Stall(a) \/ Resume(a) \/ Lose(a)
  \/ Second

Spec == Init /\ [][Next]_vars

(* Every loop runs on, every part of it in its turn, and helpers return or *)
(* are killed.  Time passes, also while it changes nothing, and            *)
(* retransmission timers are short against the seconds between STATUSes:   *)
(* a frame does not find the buffer full each time.  A stream that another *)
(* one holds open need not run out of retries.                             *)
FairSpec ==
  /\ Spec /\ SF_vars(Second)
  /\ \A a \in Clients :
       /\ WF_vars(Poll(a)) /\ SF_vars(Transmit(a)) /\ WF_vars(Read(a))
       /\ WF_vars(GiveUp(a) /\ ~HeldOpen(a)) /\ WF_vars(Resume(a))

-----------------------------------------------------------------------------
Contents == Texts \cup Files

\* what a board keeps of its client fits the fields and the ring
BoardsFit ==
  \A a \in Clients :
    /\ board[a].caps \subseteq Level3
    /\ board[a].silent \in 0..(TIMEOUT - 1)
    /\ Len(board[a].tx) <= RING

TypeOK ==
  /\ \A a \in Clients :
       /\ client[a].peer \in Clients \cup {None}
       /\ client[a].next_id \in 1..(IDS - 1)
       /\ client[a].tx = None \/ client[a].tx.data \in Contents
       /\ client[a].rx.len \in 0..Len(client[a].rx.buf)
       /\ ~client[a].up => ~client[a].stalled /\ client[a].tx = None
  /\ BoardsFit
  /\ acts \in 0..MaxActs /\ faults \in 0..MaxFaults

(* What lands on a clipboard or on disk is what a user copied or sent, to  *)
(* the last chunk, and text never ends up as a file nor a file as text.    *)
PastedIntact ==
  \A a \in Clients : /\ client[a].clip \in Texts \cup {None}
                     /\ client[a].outdir \subseteq Files

(* A board offers the clipboard of its machine to the chain only while a   *)
(* client is there to serve it, give or take the silence it allows.        *)
CapsAreLive ==
  \A a \in Clients : gone[a] >= TIMEOUT => ClientCaps(board[a]) = {}

(* Copying on one machine at a time leaves the other with the last thing   *)
(* copied, however fast the user was and whatever else is sent, unless a   *)
(* transfer is lost or ended by a frame about another of the same id.      *)
ClipboardsAgree ==
  Settled /\ even /\ writer # None /\ client[writer].up =>
    \A b \in Helpers : b = client[writer].peer /\ client[b].up =>
      client[b].clip = client[writer].clip

(* Clients do not send a clipboard back and forth for ever: once the users *)
(* stop, nothing new begins and every transfer ends, but for two that      *)
(* cross under one id and hold each other open.                            *)
Settles == <>[](\A a \in Clients : client[a].up => AtRest(a) \/ HeldOpen(a))
=============================================================================
