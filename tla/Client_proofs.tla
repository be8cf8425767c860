--------------------------- MODULE Client_proofs ---------------------------
(***************************************************************************)
(* Proofs about the client link, for any number of machines, any content,  *)
(* ring size and timeout.  The boards' side first, where frames and data   *)
(* are left untyped: the ring never overflows, and what a board announces  *)
(* of its client never outlives it by more than the timeout.  Then what    *)
(* the clients paste: it is whole, and what some user copied or sent.      *)
(***************************************************************************)
EXTENDS Client, SequenceTheorems, TLAPS

\* The boards' records, tx a sequence over some set of frames
Ring(S) ==
  [attached : BOOLEAN, caps : SUBSET Level3, silent : 0..(TIMEOUT - 1), tx : Seq(S)]
Fits(r) == (\E S : r \in Ring(S)) /\ Len(r.tx) <= RING

\* What is asked of a client's record
Sane(c) ==
  /\ {"up", "stalled"} \subseteq DOMAIN c
  /\ c.up \in BOOLEAN /\ c.stalled \in BOOLEAN
  /\ ~c.up => ~c.stalled

\* A board knows of its client's end, or counts the silence since
Live(a) ==
  /\ gone[a] \in Nat
  /\ client[a].up => gone[a] = 0
  /\ board[a].attached /\ ~client[a].up => gone[a] <= board[a].silent

IInv ==
  /\ DOMAIN client = Clients /\ DOMAIN board = Clients /\ DOMAIN gone = Clients
  /\ \A a \in Clients : Sane(client[a]) /\ Fits(board[a]) /\ Live(a)

-----------------------------------------------------------------------------
(* The board's operations                                                  *)

\* tx_push: there is room, or the frame is left out
LEMMA PushFits ==
  ASSUME NEW r, Fits(r), NEW f
  PROVE  /\ Fits(Push(r, f))
         /\ Push(r, f).attached = r.attached /\ Push(r, f).silent = r.silent
<1>1. PICK S : r \in Ring(S)
  BY DEF Fits
<1>2. CASE Len(r.tx) >= RING
  BY <1>2, Zenon DEF Push
<1>3. CASE ~(Len(r.tx) >= RING)
  <2>1. PICK t : t = Append(r.tx, f)
    OBVIOUS
  <2>2. r.tx \in Seq(S) /\ S \subseteq S \cup {f}
    BY <1>1 DEF Ring
  <2>3. r.tx \in Seq(S \cup {f})
    BY <2>2, SeqMonotonic
  <2>4. t \in Seq(S \cup {f}) /\ Len(t) = Len(r.tx) + 1
    BY <2>1, <2>3, AppendProperties
  <2>5. Len(r.tx) \in Nat /\ RING \in Nat
    BY <2>2, LenProperties, ClientAssumption
  <2>6. Len(t) <= RING
    BY <1>3, <2>4, <2>5
  <2>7. PICK s : s = [r EXCEPT !.tx = t]
    OBVIOUS
  <2>8. s \in Ring(S \cup {f}) /\ s.tx = t /\ s.attached = r.attached /\ s.silent = r.silent
    BY <1>1, <2>4, <2>7 DEF Ring
  <2>9. Push(r, f) = s
    BY <1>3, <2>1, <2>7, Zenon DEF Push
  <2>10. Fits(s)
    BY <2>6, <2>8 DEF Fits
  <2>11. QED
    BY <2>8, <2>9, <2>10
<1>4. QED
  BY <1>2, <1>3

\* A sign of life
LEMMA TouchFits ==
  ASSUME NEW r, Fits(r)
  PROVE  /\ Fits([r EXCEPT !.silent = 0])
         /\ [r EXCEPT !.silent = 0].attached = r.attached
<1>1. PICK S : r \in Ring(S)
  BY DEF Fits
<1>2. 0 \in 0..(TIMEOUT - 1)
  BY ClientAssumption
<1>3. PICK s : s = [r EXCEPT !.silent = 0]
  OBVIOUS
<1>4. s \in Ring(S) /\ s.tx = r.tx /\ s.attached = r.attached
  BY <1>1, <1>2, <1>3 DEF Ring
<1>5. Fits(s)
  BY <1>4 DEF Fits
<1>6. QED
  BY <1>3, <1>4, <1>5

\* The client reads a frame
LEMMA TailFits ==
  ASSUME NEW r, Fits(r), r.tx # <<>>
  PROVE  /\ Fits([r EXCEPT !.tx = Tail(@)])
         /\ [r EXCEPT !.tx = Tail(@)].attached = r.attached
         /\ [r EXCEPT !.tx = Tail(@)].silent = r.silent
<1>1. PICK S : r \in Ring(S)
  BY DEF Fits
<1>2. PICK t : t = Tail(r.tx)
  OBVIOUS
<1>3. r.tx \in Seq(S)
  BY <1>1 DEF Ring
<1>4. t \in Seq(S) /\ Len(t) = Len(r.tx) - 1
  BY <1>2, <1>3, HeadTailProperties
<1>5. Len(r.tx) \in Nat /\ RING \in Nat /\ Len(r.tx) <= RING
  BY <1>3, LenProperties, ClientAssumption DEF Fits
<1>6. Len(t) <= RING
  BY <1>4, <1>5
<1>7. PICK s : s = [r EXCEPT !.tx = t]
  OBVIOUS
<1>8. s \in Ring(S) /\ s.tx = t /\ s.attached = r.attached /\ s.silent = r.silent
  BY <1>1, <1>4, <1>7 DEF Ring
<1>9. [r EXCEPT !.tx = Tail(@)] = s
  BY <1>2, <1>7, Zenon
<1>10. Fits(s)
  BY <1>6, <1>8 DEF Fits
<1>11. QED
  BY <1>8, <1>9, <1>10

\* Deliver does not pass for a sign of life
LEMMA DeliverFits ==
  ASSUME NEW r, Fits(r), NEW f
  PROVE  /\ Fits(Deliver(r, f))
         /\ Deliver(r, f).attached = r.attached /\ Deliver(r, f).silent = r.silent
<1>1. Deliver(r, f) = r \/ Deliver(r, f) = Push(r, f)
  BY Zenon DEF Deliver
<1>2. QED
  BY <1>1, PushFits

\* clientlink_init
LEMMA NoClientFits == Fits(NoClient) /\ ~NoClient.attached
<1>1. <<>> \in Seq({}) /\ Len(<<>>) = 0
  BY EmptySeq
<1>2. NoClient \in Ring({})
  BY <1>1, ClientAssumption DEF NoClient, Ring
<1>3. Len(NoClient.tx) <= RING /\ ~NoClient.attached
  BY <1>1, ClientAssumption DEF NoClient
<1>4. QED
  BY <1>2, <1>3 DEF Fits

\* An ATTACH
LEMMA AttachFits ==
  ASSUME NEW r, Fits(r), NEW caps
  PROVE  Fits(Attach(r, caps))
<1>1. PICK S : r \in Ring(S)
  BY DEF Fits
<1>2. PICK k : k = caps \cap Level3
  OBVIOUS
<1>3. 0 \in 0..(TIMEOUT - 1) /\ k \in SUBSET Level3
  BY <1>2, ClientAssumption
<1>4. PICK s : s = [r EXCEPT !.attached = TRUE, !.caps = k, !.silent = 0]
  OBVIOUS
<1>5. s \in Ring(S) /\ s.tx = r.tx
  BY <1>1, <1>3, <1>4 DEF Ring
<1>6. Fits(s)
  BY <1>5 DEF Fits
<1>7. Fits(SendStatus(s))
  BY <1>6, PushFits DEF SendStatus
<1>8. Attach(r, caps) = s \/ Attach(r, caps) = SendStatus(s)
  BY <1>2, <1>4, Zenon DEF Attach
<1>9. QED
  BY <1>6, <1>7, <1>8, Zenon

\* clientlink_task counts the silence up, or lets the client go
LEMMA TaskFits ==
  ASSUME NEW r, Fits(r)
  PROVE  /\ Fits(Task(r))
         /\ Task(r).attached => r.attached /\ Task(r).silent = r.silent + 1
<1>1. PICK S : r \in Ring(S)
  BY DEF Fits
<1>2. CASE ~r.attached
  <2>1. Task(r) = r
    BY <1>2, Zenon DEF Task
  <2>2. QED
    BY <1>2, <2>1
<1>3. CASE r.attached /\ r.silent + 1 >= TIMEOUT
  <2>1. Task(r) = NoClient
    BY <1>3, Zenon DEF Task
  <2>2. QED
    BY <2>1, NoClientFits
<1>4. CASE r.attached /\ ~(r.silent + 1 >= TIMEOUT)
  <2>1. PICK n : n = r.silent + 1
    OBVIOUS
  <2>2. n \in 0..(TIMEOUT - 1)
    BY <1>1, <1>4, <2>1, ClientAssumption DEF Ring
  <2>3. PICK s : s = [r EXCEPT !.silent = n]
    OBVIOUS
  <2>4. s \in Ring(S) /\ s.tx = r.tx /\ s.attached = r.attached /\ s.silent = n
    BY <1>1, <2>2, <2>3 DEF Ring
  <2>5. Fits(s)
    BY <2>4 DEF Fits
  <2>6. Task(r) = SendStatus(s)
    BY <1>4, <2>1, <2>3, Zenon DEF Task
  <2>7. /\ Fits(SendStatus(s)) /\ SendStatus(s).silent = s.silent
        /\ SendStatus(s).attached = s.attached
    BY <2>5, PushFits DEF SendStatus
  <2>8. QED
    BY <1>4, <2>1, <2>4, <2>6, <2>7
<1>5. QED
  BY <1>2, <1>3, <1>4


-----------------------------------------------------------------------------
(* The client's operations leave alone whether it runs                     *)

Same(c, d) == DOMAIN d = DOMAIN c /\ d.up = c.up /\ d.stalled = c.stalled

\* send_owned
LEMMA SendOwnedSame ==
  ASSUME NEW c, Sane(c), NEW kind, NEW data
  PROVE  Same(c, SendOwned(c, kind, data))
<1>1. ASSUME NEW s, NEW n
      PROVE  Same(c, [c EXCEPT !.tx = s, !.next_id = n])
  BY DEF Same, Sane
<1>2. PICK s : s = [id |-> c.next_id, to |-> c.peer, kind |-> kind,
                    data |-> data, state |-> "OFFERING"]
  OBVIOUS
<1>3. PICK n : n = (c.next_id % (IDS - 1)) + 1
  OBVIOUS
<1>4. CASE c.tx # None
  BY <1>4, Zenon DEF SendOwned, Same
<1>5. CASE c.tx = None
  <2>1. SendOwned(c, kind, data) = [c EXCEPT !.tx = s, !.next_id = n]
    BY <1>2, <1>3, <1>5, Zenon DEF SendOwned
  <2>2. Same(c, [c EXCEPT !.tx = s, !.next_id = n])
    BY <1>1
  <2>3. QED
    BY <2>1, <2>2
<1>6. QED
  BY <1>4, <1>5

\* poll_clipboard
LEMMA PollSame ==
  ASSUME NEW c, Sane(c)
  PROVE  Same(c, PollClipboard(c))
<1>1. PICK d : d = [c EXCEPT !.last_clip = c.clip]
  OBVIOUS
<1>2. Same(c, d) /\ Sane(d)
  BY <1>1 DEF Same, Sane
<1>3. Same(d, SendOwned(d, "TEXT", c.clip))
  BY <1>2, SendOwnedSame
<1>4. Same(c, SendOwned(d, "TEXT", c.clip))
  BY <1>2, <1>3 DEF Same
<1>5. Same(c, c)
  BY DEF Same
<1>6. CASE c.tx # None \/ c.clip \in {None, c.last_clip}
  <2>1. PollClipboard(c) = c
    BY <1>6, Zenon DEF PollClipboard
  <2>2. QED
    BY <1>5, <2>1, Zenon
<1>7. CASE ~(c.tx # None \/ c.clip \in {None, c.last_clip})
  <2>1. PollClipboard(c) = SendOwned(d, "TEXT", c.clip)
    BY <1>1, <1>7, Zenon DEF PollClipboard
  <2>2. QED
    BY <1>4, <2>1, Zenon
<1>8. QED
  BY <1>6, <1>7

\* The fields the other steps assign
LEMMA FieldsSame ==
  ASSUME NEW c, Sane(c)
  PROVE  /\ Same(c, c)
         /\ \A v : Same(c, [c EXCEPT !.tx = v])
         /\ \A v : Same(c, [c EXCEPT !.clip = v])
         /\ \A v, w : Same(c, [c EXCEPT !.clip = v, !.last_clip = w])
         /\ \A v : Same(c, [c EXCEPT !.peer = v])
         /\ \A v : Same(c, [c EXCEPT !.adopted = v])
         /\ \A v : Same(c, [c EXCEPT !.outdir = v])
         /\ \A v : Same(c, [c EXCEPT !.in = v])
         /\ \A v, w : Same(c, [c EXCEPT !.rx = v, !.in = w])
<1>1. Same(c, c)
  BY DEF Same
<1>2. \A v : Same(c, [c EXCEPT !.tx = v])
  BY DEF Same, Sane
<1>3. \A v : Same(c, [c EXCEPT !.clip = v])
  BY DEF Same, Sane
<1>4. \A v, w : Same(c, [c EXCEPT !.clip = v, !.last_clip = w])
  BY DEF Same, Sane
<1>5. \A v : Same(c, [c EXCEPT !.peer = v])
  BY DEF Same, Sane
<1>6. \A v : Same(c, [c EXCEPT !.adopted = v])
  BY DEF Same, Sane
<1>7. \A v : Same(c, [c EXCEPT !.outdir = v])
  BY DEF Same, Sane
<1>8. \A v : Same(c, [c EXCEPT !.in = v])
  BY DEF Same, Sane
<1>9. \A v, w : Same(c, [c EXCEPT !.rx = v, !.in = w])
  BY DEF Same, Sane
<1>10. QED
  BY <1>1, <1>2, <1>3, <1>4, <1>5, <1>6, <1>7, <1>8, <1>9

\* Sameness carries over
LEMMA SameSane ==
  ASSUME NEW c, Sane(c), NEW d, Same(c, d)
  PROVE  Sane(d) /\ \A e : Same(d, e) => Same(c, e)
  BY DEF Same, Sane

\* An inbound stream goes, or one of either direction
LEMMA EndsSame ==
  ASSUME NEW c, Sane(c)
  PROVE  /\ \A b : Same(c, [c EXCEPT !.in[b] = None])
         /\ \A f : Same(c, Ends(c, f))
<1>1. ASSUME NEW b
      PROVE  Same(c, [c EXCEPT !.in[b] = None])
  BY DEF Same, Sane
<1>2. ASSUME NEW f
      PROVE  Same(c, Ends(c, f))
  <2>1. \/ Ends(c, f) = [c EXCEPT !.in[f.src] = None]
        \/ Ends(c, f) = [c EXCEPT !.tx = None]
        \/ Ends(c, f) = c
    BY Zenon DEF Ends, OnSent
  <2>2. Same(c, [c EXCEPT !.in[f.src] = None])
    BY <1>1
  <2>3. Same(c, [c EXCEPT !.tx = None]) /\ Same(c, c)
    BY FieldsSame
  <2>4. QED
    BY <2>1, <2>2, <2>3, Zenon
<1>3. QED
  BY <1>1, <1>2

\* on_offer, on_chunk, on_received
LEMMA ReceiveSame ==
  ASSUME NEW c, Sane(c), NEW f, NEW h
  PROVE  /\ Same(c, OnOffer(c, f)) /\ Same(c, OnChunk(c, f))
         /\ Same(c, OnReceived(c, h))
         /\ \A v : Same(c, [OnReceived(c, h) EXCEPT !.in[f.src] = v])
<1>1. Same(c, OnOffer(c, f))
  <2>1. PICK v, w : /\ v = [kind |-> f.kind, buf |-> Grown(c.rx.buf, f.total), len |-> 0]
                    /\ w = [c.in EXCEPT ![f.src] = [id |-> f.id, total |-> f.total, got |-> 0]]
    OBVIOUS
  <2>2. PICK d : d = [c EXCEPT !.rx = v]
    OBVIOUS
  <2>3. Same(c, d)
    BY <2>2 DEF Same, Sane
  <2>4. \A x, y : Same(d, [d EXCEPT !.in[x] = y])
    BY <2>3 DEF Same, Sane
  <2>5. OnOffer(c, f) = [d EXCEPT !.in[f.src] = [id |-> f.id, total |-> f.total, got |-> 0]]
    BY <2>1, <2>2, Zenon DEF OnOffer
  <2>6. Same(d, OnOffer(c, f))
    <3>1. PICK x, y : x = f.src /\ y = [id |-> f.id, total |-> f.total, got |-> 0]
      OBVIOUS
    <3>2. Same(d, [d EXCEPT !.in[x] = y])
      BY <2>4
    <3>3. QED
      BY <2>5, <3>1, <3>2
  <2>7. QED
    BY <2>3, <2>6 DEF Same
<1>2. Same(c, OnChunk(c, f))
  <2>1. PICK d : d = [c EXCEPT !.rx.buf[f.seq] = f.data]
    OBVIOUS
  <2>2. Same(c, d)
    BY <2>1 DEF Same, Sane
  <2>3. PICK e : e = [d EXCEPT !.rx.len = IF f.seq > @ THEN f.seq ELSE @]
    OBVIOUS
  <2>4. \A v : Same(d, [d EXCEPT !.rx.len = v])
    BY <2>2 DEF Same, Sane
  <2>5. Same(d, e)
    BY <2>3, <2>4, Zenon
  <2>6. \A v : Same(e, [e EXCEPT !.in[f.src].got = v])
    BY <2>2, <2>5 DEF Same, Sane
  <2>7. OnChunk(c, f) = [e EXCEPT !.in[f.src].got = f.seq]
    BY <2>1, <2>3, Zenon DEF OnChunk
  <2>8. Same(e, OnChunk(c, f))
    BY <2>6, <2>7, Zenon
  <2>9. QED
    BY <2>2, <2>5, <2>8 DEF Same
<1>3. Same(c, OnReceived(c, h))
  <2>1. PICK v, w : v = Reassembled(c) /\ w = c.outdir \cup {Reassembled(c)}
    OBVIOUS
  <2>2. OnReceived(c, h) =
          IF c.rx.kind = "TEXT"
          THEN IF h THEN [c EXCEPT !.clip = v, !.last_clip = v] ELSE c
          ELSE [c EXCEPT !.outdir = w]
    BY <2>1, Zenon DEF OnReceived
  <2>3. \/ OnReceived(c, h) = [c EXCEPT !.clip = v, !.last_clip = v]
        \/ OnReceived(c, h) = [c EXCEPT !.outdir = w]
        \/ OnReceived(c, h) = c
    BY <2>2
  <2>4. /\ Same(c, [c EXCEPT !.clip = v, !.last_clip = v])
        /\ Same(c, [c EXCEPT !.outdir = w]) /\ Same(c, c)
    BY FieldsSame
  <2>5. QED
    BY <2>3, <2>4
<1>4. ASSUME NEW v
      PROVE  Same(c, [OnReceived(c, h) EXCEPT !.in[f.src] = v])
  <2>1. PICK d : d = OnReceived(c, h)
    OBVIOUS
  <2>2. Same(c, d)
    BY <1>3, <2>1, Zenon
  <2>3. Same(d, [d EXCEPT !.in[f.src] = v])
    BY <2>2 DEF Same, Sane
  <2>4. Same(c, [d EXCEPT !.in[f.src] = v])
    BY <2>2, <2>3, SameSane
  <2>5. QED
    BY <2>1, <2>4, Zenon
<1>5. QED
  BY <1>1, <1>2, <1>3, <1>4


-----------------------------------------------------------------------------
(* Steps that neither start nor end a client                               *)

\* The clients after such a step
Kept(cs) ==
  DOMAIN cs = Clients /\ \A a \in Clients : Sane(cs[a]) /\ cs[a].up = client[a].up

\* and the boards: only a client that is there counts as a sign of life
Good(bs) ==
  /\ DOMAIN bs = Clients
  /\ \A a \in Clients :
       /\ Fits(bs[a])
       /\ bs[a].attached => \/ client[a].up
                            \/ board[a].attached /\ bs[a].silent = board[a].silent

\* Both hold before the step
LEMMA Before ==
  ASSUME IInv
  PROVE  Kept(client) /\ Good(board)
  BY DEF IInv, Kept, Good

\* and after one they make the invariant
LEMMA After ==
  ASSUME IInv, Kept(client'), Good(board'), gone' = gone
  PROVE  IInv'
<1>1. /\ DOMAIN client' = Clients /\ DOMAIN board' = Clients /\ DOMAIN gone' = Clients
      /\ \A a \in Clients : Sane(client'[a]) /\ Fits(board'[a])
  BY DEF Kept, Good, IInv
<1>2. ASSUME NEW a \in Clients
      PROVE  Live(a)'
  <2>1. /\ gone'[a] = gone[a] /\ client'[a].up = client[a].up
        /\ board'[a].attached => \/ client[a].up
                                 \/ board[a].attached /\ board'[a].silent = board[a].silent
    BY DEF Kept, Good
  <2>2. Live(a)
    BY DEF IInv
  <2>3. QED
    BY <2>1, <2>2 DEF Live
<1>3. QED
  BY <1>1, <1>2 DEF IInv

\* One client's record changes
LEMMA KeptSet ==
  ASSUME NEW cs, Kept(cs), NEW a, NEW d,
         a \in Clients => Sane(d) /\ d.up = cs[a].up
  PROVE  Kept([cs EXCEPT ![a] = d])
<1>1. PICK v : v = [cs EXCEPT ![a] = d]
  OBVIOUS
<1>2. DOMAIN v = Clients /\ \A b \in Clients : v[b] = IF b = a THEN d ELSE cs[b]
  BY <1>1 DEF Kept
<1>3. Kept(v)
  BY <1>2 DEF Kept
<1>4. QED
  BY <1>1, <1>3

\* in fields that do not say whether it runs
LEMMA KeptSame ==
  ASSUME NEW cs, Kept(cs), NEW a, NEW d, a \in Clients => Same(cs[a], d)
  PROVE  Kept([cs EXCEPT ![a] = d])
<1>1. a \in Clients => Sane(d) /\ d.up = cs[a].up
  BY SameSane DEF Kept, Same
<1>2. QED
  BY <1>1, KeptSet

\* One board's record changes
LEMMA GoodSet ==
  ASSUME NEW bs, Good(bs), NEW a, NEW r,
         a \in Clients => /\ Fits(r)
                          /\ client[a].up \/ (r.attached = bs[a].attached /\ r.silent = bs[a].silent)
  PROVE  Good([bs EXCEPT ![a] = r])
<1>1. PICK v : v = [bs EXCEPT ![a] = r]
  OBVIOUS
<1>2. DOMAIN v = Clients /\ \A b \in Clients : v[b] = IF b = a THEN r ELSE bs[b]
  BY <1>1 DEF Good
<1>3. Good(v)
  BY <1>2 DEF Good
<1>4. QED
  BY <1>1, <1>3

\* A sign of life of a client that runs
LEMMA GoodTouch ==
  ASSUME NEW bs, Good(bs), NEW a \in Clients, client[a].up
  PROVE  Good([bs EXCEPT ![a].silent = 0])
<1>1. PICK r : r = [bs[a] EXCEPT !.silent = 0]
  OBVIOUS
<1>2. Fits(bs[a])
  BY DEF Good
<1>3. Fits(r)
  BY <1>1, <1>2, TouchFits
<1>4. Good([bs EXCEPT ![a] = r])
  BY <1>3, GoodSet
<1>5. [bs EXCEPT ![a].silent = 0] = [bs EXCEPT ![a] = r]
  BY <1>1, Zenon
<1>6. QED
  BY <1>4, <1>5, Zenon

\* A client takes a frame
LEMMA GoodTail ==
  ASSUME NEW bs, Good(bs), NEW a \in Clients, bs[a].tx # <<>>
  PROVE  Good([bs EXCEPT ![a].tx = Tail(@)])
<1>1. PICK r : r = [bs[a] EXCEPT !.tx = Tail(@)]
  OBVIOUS
<1>2. Fits(bs[a])
  BY DEF Good
<1>3. Fits(r)
  BY <1>1, <1>2, TailFits
<1>4. r.attached = bs[a].attached /\ r.silent = bs[a].silent
  BY <1>1, <1>2, TailFits
<1>5. Good([bs EXCEPT ![a] = r])
  BY <1>3, <1>4, GoodSet
<1>6. [bs EXCEPT ![a].tx = Tail(@)] = [bs EXCEPT ![a] = r]
  BY <1>1, Zenon
<1>7. QED
  BY <1>5, <1>6, Zenon

\* A client that runs sends a frame, which its board proxies
LEMMA GoodProxy ==
  ASSUME NEW bs, Good(bs), NEW a \in Clients, client[a].up, NEW dst, NEW f
  PROVE  Good(Proxy(bs, a, dst, f))
<1>1. PICK v : v = [bs EXCEPT ![a].silent = 0]
  OBVIOUS
<1>2. Good(v)
  <2>1. Good([bs EXCEPT ![a].silent = 0])
    BY GoodTouch
  <2>2. QED
    BY <1>1, <2>1, Zenon
<1>3. PICK r : r = Deliver(v[dst], f)
  OBVIOUS
<1>4. dst \in Clients => /\ Fits(r)
                         /\ r.attached = v[dst].attached /\ r.silent = v[dst].silent
  <2>1. dst \in Clients => Fits(v[dst])
    BY <1>2 DEF Good
  <2>2. QED
    BY <1>3, <2>1, DeliverFits
<1>5. Good([v EXCEPT ![dst] = r])
  BY <1>2, <1>4, GoodSet
<1>6. Proxy(bs, a, dst, f) =
        IF ~bs[a].attached \/ dst = None THEN v ELSE [v EXCEPT ![dst] = r]
  BY <1>1, <1>3, Zenon DEF Proxy
<1>7. Proxy(bs, a, dst, f) = v \/ Proxy(bs, a, dst, f) = [v EXCEPT ![dst] = r]
  BY <1>6
<1>8. QED
  BY <1>2, <1>5, <1>7, Zenon

\* An answer
LEMMA GoodReply ==
  ASSUME IInv, NEW b \in Clients, client[b].up, board[b].tx # <<>>,
         NEW a, NEW type, NEW f
  PROVE  Good(Reply(b, a, type, f))
<1>1. PICK v : v = [board EXCEPT ![b].tx = Tail(@)]
  OBVIOUS
<1>2. Good([board EXCEPT ![b].tx = Tail(@)])
  BY Before, GoodTail
<1>3. Good(v)
  BY <1>1, <1>2, Zenon
<1>4. PICK m : m = [type |-> type, src |-> b, id |-> f.id]
  OBVIOUS
<1>5. Good(Proxy(v, b, a, m))
  BY <1>3, GoodProxy
<1>6. Reply(b, a, type, f) = Proxy(v, b, a, m)
  BY <1>1, <1>4, Zenon DEF Reply
<1>7. QED
  BY <1>5, <1>6, Zenon


-----------------------------------------------------------------------------
(* The actions                                                             *)

\* A step of a client alone
LEMMA OwnStep ==
  ASSUME IInv, NEW a \in Clients, NEW d, Same(client[a], d), Update(a, d),
         board' = board, gone' = gone
  PROVE  IInv'
<1>1. Kept(client) /\ Good(board)
  BY Before
<1>2. Kept([client EXCEPT ![a] = d])
  BY <1>1, KeptSame
<1>3. Kept(client')
  BY <1>2, Zenon DEF Update
<1>4. Good(board')
  BY <1>1
<1>5. QED
  BY <1>3, <1>4, After

\* Every client's record can be relied on
LEMMA AllSane ==
  ASSUME IInv, NEW a \in Clients
  PROVE  Sane(client[a]) /\ Fits(board[a])
  BY DEF IInv

\* Poll
LEMMA PollKeeps ==
  ASSUME IInv, NEW a \in Clients, Poll(a)
  PROVE  IInv'
<1>1. Same(client[a], PollClipboard(client[a]))
  BY AllSane, PollSame
<1>2. Update(a, PollClipboard(client[a])) /\ board' = board /\ gone' = gone
  BY DEF Poll
<1>3. QED
  BY <1>1, <1>2, OwnStep

\* A transfer is given up, and its receiver told or not
LEMMA SentStep ==
  ASSUME IInv, NEW a \in Clients, client[a].up, Update(a, OnSent(client[a])),
         board' = board \/ board' = Abort(a), gone' = gone
  PROVE  IInv'
<1>1. Kept(client) /\ Good(board)
  BY Before
<1>2. Same(client[a], OnSent(client[a]))
  BY AllSane, FieldsSame DEF OnSent
<1>3. Kept([client EXCEPT ![a] = OnSent(client[a])])
  BY <1>1, <1>2, KeptSame
<1>4. Kept(client')
  BY <1>3, Zenon DEF Update
<1>5. PICK t, m : t = client[a].tx.to
                  /\ m = [type |-> "ABORT", src |-> a, id |-> client[a].tx.id]
  OBVIOUS
<1>6. Good(Proxy(board, a, t, m))
  BY <1>1, GoodProxy
<1>7. Abort(a) = Proxy(board, a, t, m)
  BY <1>5, Zenon DEF Abort
<1>8. Good(board')
  BY <1>1, <1>6, <1>7, Zenon
<1>9. QED
  BY <1>4, <1>8, After

\* GiveUp
LEMMA GiveUpKeeps ==
  ASSUME IInv, NEW a \in Clients, GiveUp(a)
  PROVE  IInv'
<1>1. /\ Update(a, OnSent(client[a])) /\ client[a].up
      /\ board' = Abort(a) /\ gone' = gone
  BY Zenon DEF GiveUp, Runs
<1>2. QED
  BY <1>1, SentStep

\* Expire
LEMMA ExpireKeeps ==
  ASSUME IInv, NEW a \in Clients, NEW b \in Clients, Expire(a, b)
  PROVE  IInv'
<1>1. PICK d : d = [client[a] EXCEPT !.in[b] = None]
  OBVIOUS
<1>2. Same(client[a], [client[a] EXCEPT !.in[b] = None])
  BY AllSane, EndsSame
<1>3. Same(client[a], d)
  BY <1>1, <1>2, Zenon
<1>4. Update(a, d) /\ board' = board /\ gone' = gone
  BY <1>1, Zenon DEF Expire
<1>5. QED
  BY <1>3, <1>4, OwnStep

\* Lose
LEMMA LoseKeeps ==
  ASSUME IInv, NEW a \in Clients, Lose(a)
  PROVE  IInv'
<1>1. /\ Update(a, OnSent(client[a])) /\ client[a].up
      /\ board' \in {board, Abort(a)} /\ gone' = gone
  BY Zenon DEF Lose, Runs
<1>2. QED
  BY <1>1, SentStep

\* Copy
LEMMA CopyKeeps ==
  ASSUME IInv, NEW a \in Clients, NEW x, Copy(a, x)
  PROVE  IInv'
<1>1. Same(client[a], [client[a] EXCEPT !.clip = x])
  BY AllSane, FieldsSame
<1>2. Update(a, [client[a] EXCEPT !.clip = x]) /\ board' = board /\ gone' = gone
  BY DEF Copy
<1>3. QED
  BY <1>1, <1>2, OwnStep

\* CtlSend
LEMMA CtlSendKeeps ==
  ASSUME IInv, NEW a \in Clients, NEW kind, NEW x, CtlSend(a, kind, x)
  PROVE  IInv'
<1>1. Same(client[a], SendOwned(client[a], kind, x))
  BY AllSane, SendOwnedSame
<1>2. Update(a, SendOwned(client[a], kind, x)) /\ board' = board /\ gone' = gone
  BY DEF CtlSend
<1>3. QED
  BY <1>1, <1>2, OwnStep

\* CtlPeer
LEMMA CtlPeerKeeps ==
  ASSUME IInv, NEW a \in Clients, NEW b, CtlPeer(a, b)
  PROVE  IInv'
<1>1. Same(client[a], [client[a] EXCEPT !.peer = b])
  BY AllSane, FieldsSame
<1>2. Update(a, [client[a] EXCEPT !.peer = b]) /\ board' = board /\ gone' = gone
  BY DEF CtlPeer
<1>3. QED
  BY <1>1, <1>2, OwnStep

\* Transmit
LEMMA TransmitKeeps ==
  ASSUME IInv, NEW a \in Clients, Transmit(a)
  PROVE  IInv'
<1>1. client[a].up /\ client' = client /\ gone' = gone
  BY DEF Transmit, Runs
<1>2. Kept(client) /\ Good(board)
  BY Before
<1>3. board' = Proxy(board, a, client[a].tx.to, Frame(a))
  BY Zenon DEF Transmit
<1>4. Good(Proxy(board, a, client[a].tx.to, Frame(a)))
  BY <1>1, <1>2, GoodProxy
<1>5. Good(board')
  BY <1>3, <1>4, Zenon
<1>6. Kept(client')
  BY <1>1, <1>2
<1>7. QED
  BY <1>1, <1>5, <1>6, After

\* A client takes a frame and its board hears from it
LEMMA GoodTaken ==
  ASSUME IInv, NEW b \in Clients, client[b].up, board[b].tx # <<>>
  PROVE  /\ Good([board EXCEPT ![b].tx = Tail(@)])
         /\ Good([board EXCEPT ![b].tx = Tail(@), ![b].silent = 0])
<1>1. PICK v : v = [board EXCEPT ![b].tx = Tail(@)]
  OBVIOUS
<1>2. Good([board EXCEPT ![b].tx = Tail(@)])
  BY Before, GoodTail
<1>3. Good(v)
  BY <1>1, <1>2, Zenon
<1>4. Good([v EXCEPT ![b].silent = 0])
  BY <1>3, GoodTouch
<1>5. Good([board EXCEPT ![b].tx = Tail(@), ![b].silent = 0])
  BY <1>1, <1>4, Zenon
<1>6. QED
  BY <1>2, <1>5

\* An OFFER
LEMMA TakeOfferKeeps ==
  ASSUME IInv, NEW b \in Clients, client[b].up, board[b].tx # <<>>,
         NEW f, TakeOffer(b, f)
  PROVE  Kept(client') /\ Good(board')
<1>1. Kept(client)
  BY Before
<1>2. CASE Refuses(b, f.kind)
  <2>1. board' = Reply(b, f.src, "REJECT", f) /\ client' = client
    BY <1>2, Zenon DEF TakeOffer
  <2>2. Good(Reply(b, f.src, "REJECT", f))
    BY GoodReply
  <2>3. QED
    BY <1>1, <2>1, <2>2, Zenon
<1>3. CASE ~Refuses(b, f.kind)
  <2>1. /\ client' = [Accepted(f.src, f) EXCEPT ![b] = OnOffer(@, f)]
        /\ board' = [board EXCEPT ![b].tx = Tail(@), ![b].silent = 0]
    BY <1>3, Zenon DEF TakeOffer
  <2>2. Good(board')
    BY <2>1, GoodTaken, Zenon
  <2>3. PICK a : a = f.src
    OBVIOUS
  <2>4. PICK cs : cs = Accepted(a, f)
    OBVIOUS
  <2>5. Kept(cs)
    <3>1. PICK d : d = [client[a] EXCEPT !.tx.state = "SENDING"]
      OBVIOUS
    <3>2. PICK t : t = [client[a].tx EXCEPT !.state = "SENDING"]
      OBVIOUS
    <3>3. d = [client[a] EXCEPT !.tx = t]
      BY <3>1, <3>2, Zenon
    <3>4. a \in Clients => Same(client[a], [client[a] EXCEPT !.tx = t])
      BY AllSane, FieldsSame
    <3>5. a \in Clients => Same(client[a], d)
      BY <3>3, <3>4, Zenon
    <3>6. Kept([client EXCEPT ![a] = d])
      BY <1>1, <3>5, KeptSame
    <3>7. [client EXCEPT ![a].tx.state = "SENDING"] = [client EXCEPT ![a] = d]
      BY <3>1, Zenon
    <3>8. cs = client \/ cs = [client EXCEPT ![a] = d]
      BY <2>4, <3>7, Zenon DEF Accepted
    <3>9. QED
      BY <1>1, <3>6, <3>8, Zenon
  <2>6. PICK d : d = OnOffer(cs[b], f)
    OBVIOUS
  <2>7. Same(cs[b], d)
    <3>1. Sane(cs[b])
      BY <2>5 DEF Kept
    <3>2. QED
      BY <2>6, <3>1, ReceiveSame
  <2>8. Kept([cs EXCEPT ![b] = d])
    BY <2>5, <2>7, KeptSame
  <2>9. client' = [cs EXCEPT ![b] = d]
    BY <2>1, <2>3, <2>4, <2>6, Zenon
  <2>10. QED
    BY <2>2, <2>8, <2>9, Zenon
<1>4. QED
  BY <1>2, <1>3

\* A CHUNK
LEMMA TakeChunkKeeps ==
  ASSUME IInv, NEW b \in Clients, client[b].up, board[b].tx # <<>>,
         NEW f, TakeChunk(b, f)
  PROVE  Kept(client') /\ Good(board')
<1>1. Kept(client)
  BY Before
<1>2. PICK s, c : s = client[b].in[f.src] /\ c = OnChunk(client[b], f)
  OBVIOUS
<1>3. PICK drop : drop = [board EXCEPT ![b].tx = Tail(@)]
  OBVIOUS
<1>4. Good(drop)
  BY <1>3, GoodTaken, Zenon
<1>5. Same(client[b], c)
  BY <1>2, AllSane, ReceiveSame
<1>6. IF s = None \/ s.id # f.id \/ f.seq # s.got + 1
      THEN board' = drop /\ client' = client
      ELSE IF f.seq < s.total
      THEN Update(b, c) /\ board' = [drop EXCEPT ![b].silent = 0]
      ELSE /\ Update(b, [OnReceived(c, b \in Helpers) EXCEPT !.in[f.src] = None])
           /\ board' = Reply(b, f.src, "DONE", f)
  BY <1>2, <1>3, Zenon DEF TakeChunk
<1>7. CASE board' = drop /\ client' = client
  BY <1>1, <1>4, <1>7
<1>8. CASE Update(b, c) /\ board' = [drop EXCEPT ![b].silent = 0]
  <2>1. Kept([client EXCEPT ![b] = c])
    BY <1>1, <1>5, KeptSame
  <2>2. Good([drop EXCEPT ![b].silent = 0])
    BY <1>4, GoodTouch
  <2>3. QED
    BY <1>8, <2>1, <2>2, Zenon DEF Update
<1>9. CASE /\ Update(b, [OnReceived(c, b \in Helpers) EXCEPT !.in[f.src] = None])
           /\ board' = Reply(b, f.src, "DONE", f)
  <2>1. PICK d : d = [OnReceived(c, b \in Helpers) EXCEPT !.in[f.src] = None]
    OBVIOUS
  <2>2. Sane(c)
    BY <1>5, AllSane, SameSane
  <2>3. Same(c, d)
    BY <2>1, <2>2, ReceiveSame
  <2>4. Same(client[b], d)
    BY <1>5, <2>3, AllSane, SameSane
  <2>5. Kept([client EXCEPT ![b] = d])
    BY <1>1, <2>4, KeptSame
  <2>6. Good(Reply(b, f.src, "DONE", f))
    BY GoodReply
  <2>7. QED
    BY <1>9, <2>1, <2>5, <2>6, Zenon DEF Update
<1>10. QED
  BY <1>6, <1>7, <1>8, <1>9, Zenon

\* A DONE, a REJECT or an ABORT
LEMMA TakeAnswerKeeps ==
  ASSUME IInv, NEW a \in Clients, client[a].up, board[a].tx # <<>>,
         NEW f, TakeAnswer(a, f)
  PROVE  Kept(client') /\ Good(board')
<1>1. board' = [board EXCEPT ![a].tx = Tail(@)]
  BY Zenon DEF TakeAnswer
<1>2. Good(board')
  BY <1>1, GoodTaken, Zenon
<1>3. PICK d : /\ d \in {Ends(client[a], f), Ends(Ends(client[a], f), f)}
               /\ Update(a, d)
  BY Zenon DEF TakeAnswer
<1>4. Kept(client)
  BY Before
<1>5. PICK e : e = Ends(client[a], f)
  OBVIOUS
<1>6. Sane(client[a])
  BY AllSane
<1>7. Same(client[a], Ends(client[a], f))
  BY <1>6, EndsSame
<1>8. Same(client[a], e)
  BY <1>5, <1>7, Zenon
<1>9. Sane(e) /\ \A x : Same(e, x) => Same(client[a], x)
  BY <1>6, <1>8, SameSane
<1>10. Same(client[a], Ends(e, f))
  BY <1>9, EndsSame
<1>11. d = e \/ d = Ends(e, f)
  BY <1>3, <1>5, Zenon
<1>12. Same(client[a], d)
  BY <1>8, <1>10, <1>11, Zenon
<1>13. Kept([client EXCEPT ![a] = d])
  BY <1>4, <1>12, KeptSame
<1>14. QED
  BY <1>2, <1>3, <1>13, Zenon DEF Update


\* Read
LEMMA ReadKeeps ==
  ASSUME IInv, NEW a \in Clients, Read(a)
  PROVE  IInv'
<1>1. client[a].up /\ board[a].tx # <<>> /\ gone' = gone
  BY DEF Read, Runs
<1>2. PICK f : f = Head(board[a].tx)
  OBVIOUS
<1>3. Kept(client)
  BY Before
<1>4. \/ /\ Update(a, [client[a] EXCEPT !.adopted = TRUE])
         /\ board' = [board EXCEPT ![a].tx = Tail(@)]
      \/ /\ board' = [board EXCEPT ![a].tx = Tail(@), ![a].silent = 0]
         /\ client' = client
      \/ CASE f.type = "OFFER" -> TakeOffer(a, f)
           [] f.type = "CHUNK" -> TakeChunk(a, f)
           [] OTHER            -> TakeAnswer(a, f)
  BY <1>2, Zenon DEF Read
<1>5. CASE /\ Update(a, [client[a] EXCEPT !.adopted = TRUE])
           /\ board' = [board EXCEPT ![a].tx = Tail(@)]
  <2>1. Good([board EXCEPT ![a].tx = Tail(@)])
    BY <1>1, GoodTaken
  <2>2. Same(client[a], [client[a] EXCEPT !.adopted = TRUE])
    BY AllSane, FieldsSame
  <2>3. Kept([client EXCEPT ![a] = [client[a] EXCEPT !.adopted = TRUE]])
    BY <1>3, <2>2, KeptSame
  <2>4. Kept(client') /\ Good(board')
    BY <1>5, <2>1, <2>3, Zenon DEF Update
  <2>5. QED
    BY <1>1, <2>4, After
<1>6. CASE /\ board' = [board EXCEPT ![a].tx = Tail(@), ![a].silent = 0]
           /\ client' = client
  <2>1. Good([board EXCEPT ![a].tx = Tail(@), ![a].silent = 0])
    BY <1>1, GoodTaken
  <2>2. Kept(client') /\ Good(board')
    BY <1>3, <1>6, <2>1, Zenon
  <2>3. QED
    BY <1>1, <2>2, After
<1>7. CASE CASE f.type = "OFFER" -> TakeOffer(a, f)
             [] f.type = "CHUNK" -> TakeChunk(a, f)
             [] OTHER            -> TakeAnswer(a, f)
  <2>1. TakeOffer(a, f) \/ TakeChunk(a, f) \/ TakeAnswer(a, f)
    BY <1>7
  <2>2. Kept(client') /\ Good(board')
    BY <1>1, <2>1, TakeOfferKeeps, TakeChunkKeeps, TakeAnswerKeeps
  <2>3. QED
    BY <1>1, <2>2, After
<1>8. QED
  BY <1>4, <1>5, <1>6, <1>7

\* What announce tells the board
LEMMA AnnounceFits ==
  ASSUME NEW r, Fits(r), NEW a
  PROVE  Fits(Announce(a, r))
  BY AttachFits DEF Announce

\* Stall
LEMMA StallKeeps ==
  ASSUME IInv, NEW a \in Clients, Stall(a)
  PROVE  IInv'
<1>1. client[a].up /\ board' = board /\ gone' = gone
  BY DEF Stall, Runs
<1>2. Kept(client) /\ Good(board)
  BY Before
<1>3. PICK d : d = [client[a] EXCEPT !.stalled = TRUE]
  OBVIOUS
<1>4. Sane(d) /\ d.up = client[a].up
  BY <1>1, <1>3, AllSane DEF Sane
<1>5. Kept([client EXCEPT ![a] = d])
  BY <1>2, <1>4, KeptSet
<1>6. client' = [client EXCEPT ![a] = d]
  BY <1>3, Zenon DEF Stall, Update
<1>7. Kept(client') /\ Good(board')
  BY <1>1, <1>2, <1>5, <1>6
<1>8. QED
  BY <1>1, <1>7, After

\* Resume: only a client that runs can have stalled
LEMMA ResumeKeeps ==
  ASSUME IInv, NEW a \in Clients, Resume(a)
  PROVE  IInv'
<1>1. client[a].stalled /\ gone' = gone
  BY DEF Resume
<1>2. client[a].up
  BY <1>1, AllSane DEF Sane
<1>3. Kept(client) /\ Good(board)
  BY Before
<1>4. PICK d : d = [client[a] EXCEPT !.stalled = FALSE]
  OBVIOUS
<1>5. Sane(d) /\ d.up = client[a].up
  BY <1>4, AllSane DEF Sane
<1>6. Kept([client EXCEPT ![a] = d])
  BY <1>3, <1>5, KeptSet
<1>7. PICK r : r = Announce(a, board[a])
  OBVIOUS
<1>8. Fits(r)
  BY <1>7, AllSane, AnnounceFits
<1>9. Good([board EXCEPT ![a] = r])
  BY <1>2, <1>3, <1>8, GoodSet
<1>10. /\ client' = [client EXCEPT ![a] = d]
       /\ board' = [board EXCEPT ![a] = r]
  BY <1>4, <1>7, Zenon DEF Resume, Update
<1>11. Kept(client') /\ Good(board')
  BY <1>6, <1>9, <1>10, Zenon
<1>12. QED
  BY <1>1, <1>11, After

\* Exit: the silence a board allows starts here
LEMMA ExitKeeps ==
  ASSUME IInv, NEW a \in Clients, Exit(a)
  PROVE  IInv'
<1>1. PICK d : d = [Off EXCEPT !.clip = client[a].clip, !.outdir = client[a].outdir]
  OBVIOUS
<1>2. Sane(d) /\ ~d.up
  <2>1. "up" \in DOMAIN Off /\ "stalled" \in DOMAIN Off /\ ~Off.up /\ ~Off.stalled
    BY DEF Off
  <2>2. Off.up \in BOOLEAN /\ Off.stalled \in BOOLEAN
    BY DEF Off
  <2>3. DOMAIN d = DOMAIN Off /\ d.up = Off.up /\ d.stalled = Off.stalled
    BY <1>1, <2>1
  <2>4. QED
    BY <2>1, <2>2, <2>3 DEF Sane
<1>3. /\ client[a].up /\ gone' = gone
      /\ client' = [client EXCEPT ![a] = d]
      /\ board' = board \/ board' = [board EXCEPT ![a] = NoClient]
  BY <1>1, Zenon DEF Exit, Update
<1>4. /\ DOMAIN client' = Clients
      /\ \A b \in Clients : client'[b] = IF b = a THEN d ELSE client[b]
  BY <1>3 DEF IInv
<1>5. /\ DOMAIN board' = Clients
      /\ \A b \in Clients : board'[b] = board[b] \/ board'[b] = NoClient
  BY <1>3 DEF IInv
<1>6. ASSUME NEW b \in Clients
      PROVE  Sane(client'[b]) /\ Fits(board'[b]) /\ Live(b)'
  <2>1. Sane(client[b]) /\ Fits(board[b]) /\ Live(b) /\ Live(a)
    BY DEF IInv
  <2>2. Sane(client'[b])
    BY <1>2, <1>4, <2>1
  <2>3. Fits(board'[b])
    BY <1>5, <2>1, NoClientFits
  <2>4. board[b].silent \in Nat
    BY <2>1, ClientAssumption DEF Fits, Ring
  <2>5. board'[b].attached => board'[b] = board[b]
    BY <1>5, NoClientFits
  <2>6. CASE b = a
    <3>1. gone[b] = 0 /\ ~client'[b].up /\ gone'[b] = gone[b]
      BY <1>2, <1>3, <1>4, <2>1, <2>6 DEF Live
    <3>2. QED
      BY <2>2, <2>3, <2>4, <2>5, <3>1 DEF Live
  <2>7. CASE b # a
    <3>1. client'[b] = client[b] /\ gone'[b] = gone[b]
      BY <1>3, <1>4, <2>7
    <3>2. QED
      BY <2>1, <2>2, <2>3, <2>5, <3>1 DEF Live
  <2>8. QED
    BY <2>6, <2>7
<1>7. DOMAIN gone' = Clients
  BY <1>3 DEF IInv
<1>8. QED
  BY <1>4, <1>5, <1>6, <1>7 DEF IInv


\* Start
LEMMA StartKeeps ==
  ASSUME IInv, NEW a \in Clients, Start(a)
  PROVE  IInv'
<1>1. PICK d : d = [Off EXCEPT !.up = TRUE, !.peer = Peer[a], !.clip = client[a].clip,
                               !.outdir = client[a].outdir]
  OBVIOUS
<1>2. Sane(d) /\ d.up
  <2>1. "up" \in DOMAIN Off /\ "stalled" \in DOMAIN Off /\ ~Off.stalled
    BY DEF Off
  <2>2. Off.stalled \in BOOLEAN
    BY DEF Off
  <2>3. DOMAIN d = DOMAIN Off /\ d.up = TRUE /\ d.stalled = Off.stalled
    BY <1>1, <2>1
  <2>4. QED
    BY <2>1, <2>2, <2>3 DEF Sane
<1>3. client' = [b \in Clients |-> IF b = a THEN d ELSE [client[b] EXCEPT !.in[a] = None]]
  BY <1>1, Zenon DEF Start
<1>4. PICK r : r = Announce(a, board[a])
  OBVIOUS
<1>5. board' = [board EXCEPT ![a] = r] /\ gone' = [gone EXCEPT ![a] = 0]
  BY <1>4, Zenon DEF Start
<1>6. Fits(r)
  BY <1>4, AllSane, AnnounceFits
<1>7. DOMAIN client' = Clients /\ DOMAIN board' = Clients /\ DOMAIN gone' = Clients
  BY <1>3, <1>5 DEF IInv
<1>8. ASSUME NEW b \in Clients
      PROVE  Sane(client'[b]) /\ Fits(board'[b]) /\ Live(b)'
  <2>1. Sane(client[b]) /\ Fits(board[b]) /\ Live(b)
    BY DEF IInv
  <2>2. CASE b = a
    <3>1. client'[b] = d /\ board'[b] = r /\ gone'[b] = 0
      BY <1>3, <1>5, <2>2 DEF IInv
    <3>2. Live(b)'
      BY <1>2, <3>1 DEF Live
    <3>3. QED
      BY <1>2, <1>6, <3>1, <3>2
  <2>3. CASE b # a
    <3>1. client'[b] = [client[b] EXCEPT !.in[a] = None]
      BY <1>3, <2>3
    <3>2. board'[b] = board[b] /\ gone'[b] = gone[b]
      BY <1>5, <2>3 DEF IInv
    <3>3. Same(client[b], client'[b])
      BY <2>1, <3>1 DEF Same, Sane
    <3>4. Sane(client'[b]) /\ client'[b].up = client[b].up
      BY <2>1, <3>3, SameSane DEF Same
    <3>5. Live(b)'
      BY <2>1, <3>2, <3>4 DEF Live
    <3>6. QED
      BY <2>1, <3>2, <3>4, <3>5
  <2>4. QED
    BY <2>2, <2>3
<1>9. QED
  BY <1>7, <1>8 DEF IInv

\* Second: a board without a client counts as many intervals as have passed
LEMMA SecondKeeps ==
  ASSUME IInv, Second
  PROVE  IInv'
<1>1. /\ board' = [a \in Clients |->
           IF Runs(a) THEN Announce(a, Task(board[a])) ELSE Task(board[a])]
      /\ gone' = [a \in Clients |->
           IF client[a].up \/ gone[a] >= TIMEOUT THEN gone[a] ELSE gone[a] + 1]
      /\ client' = client
  BY DEF Second
<1>2. DOMAIN client' = Clients /\ DOMAIN board' = Clients /\ DOMAIN gone' = Clients
  BY <1>1 DEF IInv
<1>3. ASSUME NEW a \in Clients
      PROVE  Sane(client'[a]) /\ Fits(board'[a]) /\ Live(a)'
  <2>1. Sane(client[a]) /\ Fits(board[a]) /\ Live(a)
    BY DEF IInv
  <2>2. PICK r : r = Task(board[a])
    OBVIOUS
  <2>3. Fits(r) /\ (r.attached => board[a].attached /\ r.silent = board[a].silent + 1)
    BY <2>1, <2>2, TaskFits
  <2>4. board'[a] = IF Runs(a) THEN Announce(a, r) ELSE r
    BY <1>1, <2>2
  <2>5. Fits(Announce(a, r))
    BY <2>3, AnnounceFits
  <2>6. Fits(board'[a])
    BY <2>3, <2>4, <2>5
  <2>7. gone'[a] = IF client[a].up \/ gone[a] >= TIMEOUT THEN gone[a] ELSE gone[a] + 1
    BY <1>1
  <2>8. gone[a] \in Nat /\ TIMEOUT \in Nat /\ board[a].silent \in Nat
    BY <2>1, ClientAssumption DEF Live, Fits, Ring
  <2>9. CASE client[a].up
    BY <1>1, <2>1, <2>6, <2>7, <2>8, <2>9 DEF Live
  <2>10. CASE ~client[a].up
    <3>1. board'[a] = r
      BY <2>4, <2>10 DEF Runs
    <3>2. board[a].attached => gone[a] <= board[a].silent
      BY <2>1, <2>10 DEF Live
    <3>3. gone'[a] \in Nat /\ gone'[a] <= gone[a] + 1
      BY <2>7, <2>8
    <3>4. Live(a)'
      BY <1>1, <2>3, <2>8, <2>10, <3>1, <3>2, <3>3 DEF Live
    <3>5. QED
      BY <1>1, <2>1, <2>6, <3>4
  <2>11. QED
    BY <2>9, <2>10
<1>4. QED
  BY <1>2, <1>3 DEF IInv

-----------------------------------------------------------------------------
(* The invariant                                                           *)

\* The invariant holds before any client has been started
LEMMA InitIInv ==
  ASSUME Init
  PROVE  IInv
<1>1. DOMAIN client = Clients /\ DOMAIN board = Clients /\ DOMAIN gone = Clients
  BY DEF Init
<1>2. ASSUME NEW a \in Clients
      PROVE  Sane(client[a]) /\ Fits(board[a]) /\ Live(a)
  <2>1. client[a] = Off /\ board[a] = NoClient /\ gone[a] = TIMEOUT
    BY DEF Init
  <2>2. "up" \in DOMAIN Off /\ "stalled" \in DOMAIN Off /\ ~Off.up /\ ~Off.stalled
    BY DEF Off
  <2>3. Off.up \in BOOLEAN /\ Off.stalled \in BOOLEAN
    BY DEF Off
  <2>4. Sane(client[a])
    BY <2>1, <2>2, <2>3 DEF Sane
  <2>5. Live(a)
    BY <2>1, <2>2, NoClientFits, ClientAssumption DEF Live
  <2>6. QED
    BY <2>1, <2>4, <2>5, NoClientFits
<1>3. QED
  BY <1>1, <1>2 DEF IInv

\* and every step keeps it
LEMMA NextIInv ==
  ASSUME IInv, [Next]_vars
  PROVE  IInv'
<1>1. ASSUME NEW a \in Clients, Loop(a)
      PROVE  IInv'
  BY <1>1, PollKeeps, TransmitKeeps, ReadKeeps, GiveUpKeeps, ExpireKeeps DEF Loop
<1>2. ASSUME NEW a \in Clients, User(a)
      PROVE  IInv'
  BY <1>2, CopyKeeps, CtlSendKeeps, CtlPeerKeeps DEF User
<1>3. ASSUME NEW a \in Clients,
             Start(a) \/ Exit(a) \/ Stall(a) \/ Resume(a) \/ Lose(a)
      PROVE  IInv'
  BY <1>3, StartKeeps, ExitKeeps, StallKeeps, ResumeKeeps, LoseKeeps
<1>4. CASE Second
  BY <1>4, SecondKeeps
<1>5. CASE UNCHANGED vars
  <2>1. client' = client /\ board' = board /\ gone' = gone
    BY <1>5 DEF vars
  <2>2. QED
    BY <2>1 DEF IInv, Live
<1>6. QED
  BY <1>1, <1>2, <1>3, <1>4, <1>5 DEF Next

\* IInv is an invariant
LEMMA IInvHolds == Spec => []IInv
<1>1. Init => IInv
  BY InitIInv
<1>2. IInv /\ [Next]_vars => IInv'
  BY NextIInv
<1>3. QED
  BY <1>1, <1>2, PTL DEF Spec

\* What it says of the boards
LEMMA BoardsDoFit ==
  ASSUME IInv
  PROVE  BoardsFit
<1>1. ASSUME NEW a \in Clients
      PROVE  /\ board[a].caps \subseteq Level3
             /\ board[a].silent \in 0..(TIMEOUT - 1)
             /\ Len(board[a].tx) <= RING
  <2>1. Fits(board[a])
    BY DEF IInv
  <2>2. QED
    BY <2>1 DEF Fits, Ring
<1>2. QED
  BY <1>1 DEF BoardsFit

(* clientlink's transmit ring holds at most RING frames whatever the chain *)
(* and the client do, it counts the silence up to the timeout and never    *)
(* past it, and it announces level 3 capabilities only.                    *)
THEOREM RingHolds == Spec => []BoardsFit
<1>1. IInv => BoardsFit
  BY BoardsDoFit
<1>2. QED
  BY <1>1, IInvHolds, PTL

(* A board offers its machine's clipboard to the chain only while a client *)
(* is there to serve it, or ended less than the timeout ago: traffic for   *)
(* the client does not pass for a sign of life, a stalled client does not  *)
(* count as ended, and a restart starts the count anew.                    *)
THEOREM CapsLive == Spec => []CapsAreLive
<1>1. ASSUME IInv
      PROVE  CapsAreLive
  <2>1. ASSUME NEW a \in Clients, gone[a] >= TIMEOUT
        PROVE  ClientCaps(board[a]) = {}
    <3>1. Fits(board[a]) /\ Live(a) /\ Sane(client[a])
      BY <1>1 DEF IInv
    <3>2. board[a].silent \in 0..(TIMEOUT - 1)
      BY <3>1 DEF Fits, Ring
    <3>3. ~board[a].attached
      BY <2>1, <3>1, <3>2, ClientAssumption DEF Live, Sane
    <3>4. QED
      BY <3>3 DEF ClientCaps
  <2>2. QED
    BY <2>1 DEF CapsAreLive
<1>2. QED
  BY <1>1, IInvHolds, PTL

-----------------------------------------------------------------------------
(* What is pasted.  From here on content counts: every stream that shows   *)
(* up anywhere, in a client that sends it, in a frame on its way to        *)
(* another or in the rx_buf of that one, is of one thing that a user       *)
(* copied, told by its sender and its id.  That there is one such thing    *)
(* for each id is the invariant; a send on an id that nothing names        *)
(* chooses it anew.                                                        *)

\* what a heap or a stream may hold
Cells == STRING \cup {"heap"}
Kinds == {"TEXT", "FILE", "SHARE"}
Ids == 1..(IDS - 1)

\* dhp_data's streams and its frames, with STATUS beside them
Outbound == [id : Ids, to : Clients \cup {None}, kind : Kinds, data : Contents,
             state : {"OFFERING", "SENDING"}]
Inbound == [id : Ids, total : Nat, got : Nat]
Offers == [type : {"OFFER"}, src : Clients, id : Ids, kind : Kinds, total : Nat]
Chunks == [type : {"CHUNK"}, src : Clients, id : Ids, seq : Nat, data : STRING]
Answers == [type : {"DONE", "REJECT", "ABORT"}, src : Clients, id : Ids]
Frames == [type : {"STATUS"}] \cup Offers \cup Chunks \cup Answers

\* client_t, with nothing but what users copied on its clipboard and disk
Machine ==
  [up : BOOLEAN, stalled : BOOLEAN, adopted : BOOLEAN,
   peer : Clients \cup {None}, clip : Texts \cup {None},
   last_clip : Texts \cup {None}, tx : Outbound \cup {None}, next_id : Ids,
   in : [Clients -> Inbound \cup {None}],
   rx : [kind : Kinds, buf : Seq(Cells), len : Nat], outdir : SUBSET Files]

\* what a stream may carry, and what one that was never opened carries
Nothing == <<"NONE", <<>>>>
Goods == ({"TEXT"} \X Texts) \cup ({"FILE", "SHARE"} \X Files) \cup {Nothing}

\* Wherever a's stream i shows up, it is good p's
SentIs(c, i, p) ==
  c.tx # None /\ c.tx.id = i => c.tx.kind = p[1] /\ c.tx.data = p[2]

FrameIs(f, a, i, p) ==
  /\ f \in Offers /\ f.src = a /\ f.id = i => f.kind = p[1] /\ f.total = Len(p[2])
  /\ f \in Chunks /\ f.src = a /\ f.id = i =>
       f.seq \in 1..Len(p[2]) /\ f.data = p[2][f.seq]

HeldIs(c, a, i, p) ==
  LET s == c.in[a]
  IN  s # None /\ s.id = i =>
        /\ c.rx.kind = p[1] /\ s.total = Len(p[2]) /\ c.rx.len = s.got
        /\ s.got < s.total /\ s.total <= Len(c.rx.buf)
        /\ \A n \in 1..s.got : c.rx.buf[n] = p[2][n]

Carries(a, i, p) ==
  /\ SentIs(client[a], i, p)
  /\ \A b \in Clients :
       /\ HeldIs(client[b], a, i, p)
       /\ \A n \in 1..Len(board[b].tx) : FrameIs(board[b].tx[n], a, i, p)

Typed ==
  /\ client \in [Clients -> Machine] /\ board \in [Clients -> Ring(Frames)]
  /\ acts \in 0..MaxActs /\ faults \in 0..MaxFaults
  /\ \A a \in Clients :
       /\ client[a].rx.len <= Len(client[a].rx.buf)
       /\ ~client[a].up => client[a].tx = None

PInv == Typed /\ \A a \in Clients, i \in Ids : \E p \in Goods : Carries(a, i, p)

\* a machine is sent to by one other at a time
OneSender ==
  \A a, b, c \in Clients :
    client[a].in[b] # None /\ client[a].in[c] # None => b = c

\* nothing is left of a's stream i
Free(a, i) ==
  \A b \in Clients :
    /\ client[b].in[a] # None => client[b].in[a].id # i
    /\ \A n \in 1..Len(board[b].tx) :
         LET f == board[b].tx[n]
         IN  f \in Offers \cup Chunks => f.src # a \/ f.id # i

\* an id that comes round names nothing
CleanSends ==
  \A a \in Clients :
    client[a].tx = None /\ client'[a].tx # None => Free(a, client'[a].tx.id)

-----------------------------------------------------------------------------
(* The boards' operations bring no frames but those they are given         *)

Brings(r, q, F) ==
  \A n \in 1..Len(q.tx) : q.tx[n] \in F \/ \E m \in 1..Len(r.tx) : q.tx[n] = r.tx[m]

Moves(r, q, F) == q \in Ring(Frames) /\ Brings(r, q, F)

\* what carries nothing of a stream
Quiet == [type : {"STATUS"}] \cup Answers

\* Quiet frames are none of a stream's
LEMMA QuietFrames ==
  /\ Quiet \subseteq Frames
  /\ \A f \in Quiet : f \notin Offers /\ f \notin Chunks
<1>1. \A f \in Quiet : f.type \notin {"OFFER", "CHUNK"}
  BY DEF Quiet, Answers
<1>2. \A f \in Offers \cup Chunks : f.type \in {"OFFER", "CHUNK"}
  BY DEF Offers, Chunks
<1>3. QED
  BY <1>1, <1>2 DEF Quiet, Frames

\* One operation after another
LEMMA MovesOn ==
  ASSUME NEW r, NEW q, NEW s, NEW F, Moves(r, q, F), Moves(q, s, F)
  PROVE  Moves(r, s, F)
  BY DEF Moves, Brings

\* A record that keeps its ring
LEMMA MovesSame ==
  ASSUME NEW r, NEW q \in Ring(Frames), NEW F, q.tx = r.tx
  PROVE  Moves(r, q, F)
  BY DEF Moves, Brings, Ring

\* tx_push
LEMMA PushMoves ==
  ASSUME NEW r \in Ring(Frames), NEW F, NEW f \in Frames, f \in F
  PROVE  Moves(r, Push(r, f), F)
<1>1. CASE Len(r.tx) >= RING
  <2>1. Push(r, f) = r
    BY <1>1, Zenon DEF Push
  <2>2. QED
    BY <2>1, MovesSame
<1>2. CASE ~(Len(r.tx) >= RING)
  <2>1. PICK t : t = Append(r.tx, f)
    OBVIOUS
  <2>2. r.tx \in Seq(Frames)
    BY DEF Ring
  <2>3. /\ t \in Seq(Frames) /\ Len(t) = Len(r.tx) + 1
        /\ \A i \in 1..Len(r.tx) : t[i] = r.tx[i]
        /\ t[Len(r.tx) + 1] = f
    BY <2>1, <2>2, AppendProperties
  <2>4. PICK q : q = [r EXCEPT !.tx = t]
    OBVIOUS
  <2>5. q \in Ring(Frames) /\ q.tx = t
    BY <2>3, <2>4 DEF Ring
  <2>6. Brings(r, q, F)
    <3>1. Len(r.tx) \in Nat
      BY <2>2, LenProperties
    <3>2. \A n \in 1..Len(t) : n \in 1..Len(r.tx) \/ n = Len(r.tx) + 1
      BY <2>3, <3>1
    <3>3. QED
      BY <2>3, <2>5, <3>2 DEF Brings
  <2>7. Push(r, f) = q
    BY <1>2, <2>1, <2>4, Zenon DEF Push
  <2>8. QED
    BY <2>5, <2>6, <2>7 DEF Moves
<1>3. QED
  BY <1>1, <1>2

\* A sign of life
LEMMA TouchMoves ==
  ASSUME NEW r \in Ring(Frames), NEW F
  PROVE  Moves(r, [r EXCEPT !.silent = 0], F)
<1>1. PICK q : q = [r EXCEPT !.silent = 0]
  OBVIOUS
<1>2. 0 \in 0..(TIMEOUT - 1)
  BY ClientAssumption
<1>3. q \in Ring(Frames) /\ q.tx = r.tx
  BY <1>1, <1>2 DEF Ring
<1>4. QED
  BY <1>1, <1>3, MovesSame

\* The client reads a frame
LEMMA TailMoves ==
  ASSUME NEW r \in Ring(Frames), r.tx # <<>>, NEW F
  PROVE  Moves(r, [r EXCEPT !.tx = Tail(@)], F)
<1>1. PICK t : t = Tail(r.tx)
  OBVIOUS
<1>2. r.tx \in Seq(Frames)
  BY DEF Ring
<1>3. /\ t \in Seq(Frames) /\ Len(t) = Len(r.tx) - 1
      /\ \A i \in 1..Len(t) : t[i] = r.tx[i + 1]
  BY <1>1, <1>2, HeadTailProperties
<1>4. PICK q : q = [r EXCEPT !.tx = t]
  OBVIOUS
<1>5. q \in Ring(Frames) /\ q.tx = t
  BY <1>3, <1>4 DEF Ring
<1>6. Brings(r, q, F)
  <2>1. Len(r.tx) \in Nat
    BY <1>2, LenProperties
  <2>2. \A n \in 1..Len(t) : n + 1 \in 1..Len(r.tx)
    BY <1>3, <2>1
  <2>3. QED
    BY <1>3, <1>5, <2>2 DEF Brings
<1>7. [r EXCEPT !.tx = Tail(@)] = q
  BY <1>1, <1>4, Zenon
<1>8. QED
  BY <1>5, <1>6, <1>7 DEF Moves

\* Deliver
LEMMA DeliverMoves ==
  ASSUME NEW r \in Ring(Frames), NEW F, NEW f \in Frames, f \in F
  PROVE  Moves(r, Deliver(r, f), F)
<1>1. Deliver(r, f) = r \/ Deliver(r, f) = Push(r, f)
  BY Zenon DEF Deliver
<1>2. QED
  BY <1>1, PushMoves, MovesSame

\* A STATUS
LEMMA StatusMoves ==
  ASSUME NEW r \in Ring(Frames)
  PROVE  Moves(r, SendStatus(r), Quiet)
<1>1. [type |-> "STATUS"] \in Quiet /\ [type |-> "STATUS"] \in Frames
  BY QuietFrames DEF Quiet
<1>2. QED
  BY <1>1, PushMoves DEF SendStatus

\* clientlink_init
LEMMA NoClientMoves ==
  ASSUME NEW r
  PROVE  Moves(r, NoClient, Quiet)
<1>1. <<>> \in Seq(Frames) /\ Len(<<>>) = 0
  BY EmptySeq
<1>2. NoClient \in Ring(Frames) /\ NoClient.tx = <<>>
  BY <1>1, ClientAssumption DEF NoClient, Ring
<1>3. QED
  BY <1>1, <1>2 DEF Moves, Brings

\* What announce tells the board
LEMMA AnnounceMoves ==
  ASSUME NEW r \in Ring(Frames), NEW a
  PROVE  Moves(r, Announce(a, r), Quiet)
<1>1. PICK caps : caps = {"FILES", "SHARE"} \cup
                         IF a \in Helpers THEN {"CLIPBOARD", "IMAGES"} ELSE {}
  OBVIOUS
<1>2. PICK k : k = caps \cap Level3
  OBVIOUS
<1>3. 0 \in 0..(TIMEOUT - 1) /\ k \in SUBSET Level3
  BY <1>2, ClientAssumption
<1>4. PICK s : s = [r EXCEPT !.attached = TRUE, !.caps = k, !.silent = 0]
  OBVIOUS
<1>5. s \in Ring(Frames) /\ s.tx = r.tx
  BY <1>3, <1>4 DEF Ring
<1>6. Moves(r, s, Quiet)
  BY <1>5, MovesSame
<1>7. Moves(r, SendStatus(s), Quiet)
  BY <1>5, <1>6, StatusMoves, MovesOn
<1>8. Announce(a, r) = Attach(r, caps)
  BY <1>1, Zenon DEF Announce
<1>9. Attach(r, caps) = s \/ Attach(r, caps) = SendStatus(s)
  BY <1>2, <1>4, Zenon DEF Attach
<1>10. QED
  BY <1>6, <1>7, <1>8, <1>9, Zenon

\* clientlink_task
LEMMA TaskMoves ==
  ASSUME NEW r \in Ring(Frames)
  PROVE  Moves(r, Task(r), Quiet)
<1>1. CASE ~r.attached
  <2>1. Task(r) = r
    BY <1>1, Zenon DEF Task
  <2>2. QED
    BY <2>1, MovesSame
<1>2. CASE r.attached /\ r.silent + 1 >= TIMEOUT
  <2>1. Task(r) = NoClient
    BY <1>2, Zenon DEF Task
  <2>2. QED
    BY <2>1, NoClientMoves
<1>3. CASE r.attached /\ ~(r.silent + 1 >= TIMEOUT)
  <2>1. PICK n : n = r.silent + 1
    OBVIOUS
  <2>2. n \in 0..(TIMEOUT - 1)
    BY <1>3, <2>1, ClientAssumption DEF Ring
  <2>3. PICK s : s = [r EXCEPT !.silent = n]
    OBVIOUS
  <2>4. s \in Ring(Frames) /\ s.tx = r.tx
    BY <2>2, <2>3 DEF Ring
  <2>5. Task(r) = SendStatus(s)
    BY <1>3, <2>1, <2>3, Zenon DEF Task
  <2>6. QED
    BY <2>4, <2>5, MovesSame, StatusMoves, MovesOn
<1>4. QED
  BY <1>1, <1>2, <1>3

\* All the boards
Boards == [Clients -> Ring(Frames)]
AllMove(bs, cs, F) == cs \in Boards /\ \A b \in Clients : Brings(bs[b], cs[b], F)

\* nothing moves
LEMMA NoneMove ==
  ASSUME NEW bs \in Boards, NEW F
  PROVE  AllMove(bs, bs, F)
<1>1. \A b \in Clients : Moves(bs[b], bs[b], F)
  BY MovesSame DEF Boards
<1>2. QED
  BY <1>1 DEF AllMove, Moves

\* one thing after another
LEMMA AllMoveOn ==
  ASSUME NEW bs, NEW cs, NEW ds, NEW F, AllMove(bs, cs, F), AllMove(cs, ds, F)
  PROVE  AllMove(bs, ds, F)
  BY DEF AllMove, Brings

\* one board's record changes
LEMMA OneMoves ==
  ASSUME NEW bs \in Boards, NEW a \in Clients, NEW q, NEW F, Moves(bs[a], q, F)
  PROVE  AllMove(bs, [bs EXCEPT ![a] = q], F)
<1>1. PICK v : v = [bs EXCEPT ![a] = q]
  OBVIOUS
<1>2. v \in Boards /\ \A b \in Clients : v[b] = IF b = a THEN q ELSE bs[b]
  BY <1>1 DEF Moves, Boards
<1>3. \A b \in Clients : Moves(bs[b], bs[b], F)
  BY MovesSame DEF Boards
<1>4. \A b \in Clients : Brings(bs[b], v[b], F)
  BY <1>2, <1>3 DEF Moves
<1>5. QED
  BY <1>1, <1>2, <1>4 DEF AllMove

\* A client takes a frame, its board hears from it, or both
LEMMA TakenMoves ==
  ASSUME NEW bs \in Boards, NEW a \in Clients, NEW F
  PROVE  /\ AllMove(bs, [bs EXCEPT ![a].silent = 0], F)
         /\ bs[a].tx # <<>> =>
              /\ AllMove(bs, [bs EXCEPT ![a].tx = Tail(@)], F)
              /\ AllMove(bs, [bs EXCEPT ![a].tx = Tail(@), ![a].silent = 0], F)
<1>1. ASSUME NEW cs \in Boards
      PROVE  AllMove(cs, [cs EXCEPT ![a].silent = 0], F)
  <2>1. PICK q : q = [cs[a] EXCEPT !.silent = 0]
    OBVIOUS
  <2>2. cs[a] \in Ring(Frames)
    BY DEF Boards
  <2>3. Moves(cs[a], q, F)
    BY <2>1, <2>2, TouchMoves
  <2>4. AllMove(cs, [cs EXCEPT ![a] = q], F)
    BY <2>3, OneMoves
  <2>5. [cs EXCEPT ![a].silent = 0] = [cs EXCEPT ![a] = q]
    BY <2>1, Zenon
  <2>6. QED
    BY <2>4, <2>5, Zenon
<1>2. ASSUME bs[a].tx # <<>>
      PROVE  /\ AllMove(bs, [bs EXCEPT ![a].tx = Tail(@)], F)
             /\ AllMove(bs, [bs EXCEPT ![a].tx = Tail(@), ![a].silent = 0], F)
  <2>1. PICK q : q = [bs[a] EXCEPT !.tx = Tail(@)]
    OBVIOUS
  <2>2. bs[a] \in Ring(Frames)
    BY DEF Boards
  <2>3. Moves(bs[a], q, F)
    BY <1>2, <2>1, <2>2, TailMoves
  <2>4. AllMove(bs, [bs EXCEPT ![a] = q], F)
    BY <2>3, OneMoves
  <2>5. PICK v : v = [bs EXCEPT ![a].tx = Tail(@)]
    OBVIOUS
  <2>6. v = [bs EXCEPT ![a] = q]
    BY <2>1, <2>5, Zenon
  <2>7. AllMove(bs, v, F) /\ v \in Boards
    BY <2>4, <2>6 DEF AllMove
  <2>8. AllMove(v, [v EXCEPT ![a].silent = 0], F)
    BY <1>1, <2>7
  <2>9. AllMove(bs, [v EXCEPT ![a].silent = 0], F)
    BY <2>7, <2>8, AllMoveOn
  <2>10. [bs EXCEPT ![a].tx = Tail(@), ![a].silent = 0] = [v EXCEPT ![a].silent = 0]
    BY <2>5, Zenon
  <2>11. QED
    BY <2>5, <2>7, <2>9, <2>10, Zenon
<1>3. QED
  BY <1>1, <1>2

\* A client's frame, proxied
LEMMA ProxyMoves ==
  ASSUME NEW bs \in Boards, NEW a \in Clients, NEW dst \in Clients \cup {None},
         NEW F, NEW f \in Frames, f \in F
  PROVE  AllMove(bs, Proxy(bs, a, dst, f), F)
<1>1. PICK v : v = [bs EXCEPT ![a].silent = 0]
  OBVIOUS
<1>2. AllMove(bs, v, F) /\ v \in Boards
  BY <1>1, TakenMoves DEF AllMove
<1>3. PICK q : q = Deliver(v[dst], f)
  OBVIOUS
<1>4. dst \in Clients => AllMove(bs, [v EXCEPT ![dst] = q], F)
  <2>1. ASSUME dst \in Clients
        PROVE  AllMove(bs, [v EXCEPT ![dst] = q], F)
    <3>1. v[dst] \in Ring(Frames)
      BY <1>2, <2>1 DEF Boards
    <3>2. Moves(v[dst], q, F)
      BY <1>3, <3>1, DeliverMoves
    <3>3. AllMove(v, [v EXCEPT ![dst] = q], F)
      BY <1>2, <2>1, <3>2, OneMoves
    <3>4. QED
      BY <1>2, <3>3, AllMoveOn
  <2>2. QED
    BY <2>1
<1>5. Proxy(bs, a, dst, f) =
        IF ~bs[a].attached \/ dst = None THEN v ELSE [v EXCEPT ![dst] = q]
  BY <1>1, <1>3, Zenon DEF Proxy
<1>6. Proxy(bs, a, dst, f) = v \/ (dst \in Clients /\ Proxy(bs, a, dst, f) = [v EXCEPT ![dst] = q])
  BY <1>5
<1>7. QED
  BY <1>2, <1>4, <1>6, Zenon

\* An answer
LEMMA ReplyMoves ==
  ASSUME board \in Boards, NEW b \in Clients, board[b].tx # <<>>,
         NEW a \in Clients, NEW type \in {"DONE", "REJECT"}, NEW f, f.id \in Ids
  PROVE  AllMove(board, Reply(b, a, type, f), Quiet)
<1>1. PICK v : v = [board EXCEPT ![b].tx = Tail(@)]
  OBVIOUS
<1>2. AllMove(board, v, Quiet) /\ v \in Boards
  BY <1>1, TakenMoves DEF AllMove
<1>3. PICK m : m = [type |-> type, src |-> b, id |-> f.id]
  OBVIOUS
<1>4. m \in Quiet /\ m \in Frames
  BY <1>3, QuietFrames DEF Quiet, Answers
<1>5. AllMove(v, Proxy(v, b, a, m), Quiet)
  BY <1>2, <1>4, ProxyMoves
<1>6. Reply(b, a, type, f) = Proxy(v, b, a, m)
  BY <1>1, <1>3, Zenon DEF Reply
<1>7. QED
  BY <1>2, <1>5, <1>6, AllMoveOn, Zenon

-----------------------------------------------------------------------------
(* Steps that bring nothing new of any stream                              *)

\* of c's streams d has no more
Less(c, d) ==
  /\ d.tx # None => /\ c.tx # None
                    /\ d.tx.id = c.tx.id /\ d.tx.to = c.tx.to
                    /\ d.tx.kind = c.tx.kind /\ d.tx.data = c.tx.data
  /\ \A a \in Clients : d.in[a] # None => d.in[a] = c.in[a] /\ d.rx = c.rx

\* The fields a client's steps assign
LEMMA FieldsTyped ==
  ASSUME NEW c \in Machine
  PROVE  /\ \A v \in BOOLEAN : [c EXCEPT !.stalled = v] \in Machine
         /\ \A v \in BOOLEAN : [c EXCEPT !.adopted = v] \in Machine
         /\ \A v \in Clients \cup {None} : [c EXCEPT !.peer = v] \in Machine
         /\ \A v \in Texts \cup {None} : [c EXCEPT !.clip = v] \in Machine
         /\ \A v \in Texts \cup {None} : [c EXCEPT !.last_clip = v] \in Machine
         /\ \A v \in Texts : [c EXCEPT !.clip = v, !.last_clip = v] \in Machine
         /\ \A v \in SUBSET Files : [c EXCEPT !.outdir = v] \in Machine
         /\ \A v \in Outbound \cup {None} : [c EXCEPT !.tx = v] \in Machine
         /\ \A v \in Outbound, n \in Ids : [c EXCEPT !.tx = v, !.next_id = n] \in Machine
         /\ \A v \in [Clients -> Inbound \cup {None}] : [c EXCEPT !.in = v] \in Machine
         /\ \A v \in [kind : Kinds, buf : Seq(Cells), len : Nat],
               w \in [Clients -> Inbound \cup {None}] :
              [c EXCEPT !.rx = v, !.in = w] \in Machine
  BY ZenonT(60) DEF Machine

\* What changes of a machine when it changes no stream
Else(c, d) ==
  /\ d.tx = c.tx /\ d.in = c.in /\ d.rx = c.rx

\* what else there is of it
Stays(c, d) ==
  /\ d.up = c.up /\ d.peer = c.peer /\ d.next_id = c.next_id
  /\ d.clip = c.clip /\ d.last_clip = c.last_clip

\* is less
LEMMA ElseLess ==
  ASSUME NEW c \in Machine, NEW d \in Machine, Else(c, d)
  PROVE  Less(c, d)
  BY DEF Else, Less

\* What is held of a stream stays true of as much or less
LEMMA HeldOn ==
  ASSUME NEW c, NEW d, NEW a, NEW i, NEW p, HeldIs(c, a, i, p),
         d.in[a] # None => d.in[a] = c.in[a] /\ d.rx = c.rx
  PROVE  HeldIs(d, a, i, p)
<1>1. CASE d.in[a] = None
  BY <1>1, Zenon DEF HeldIs
<1>2. CASE d.in[a] = c.in[a] /\ d.rx = c.rx
  BY <1>2, Zenon DEF HeldIs
<1>3. QED
  BY <1>1, <1>2

\* What a stream carries it carries on
LEMMA LessCarries ==
  ASSUME Typed, Typed', NEW a \in Clients, NEW i \in Ids, NEW p,
         \A b \in Clients : Less(client[b], client'[b]),
         AllMove(board, board', Quiet), Carries(a, i, p)
  PROVE  Carries(a, i, p)'
<1>1. SentIs(client'[a], i, p)
  BY DEF Carries, SentIs, Less
<1>2. ASSUME NEW b \in Clients
      PROVE  HeldIs(client'[b], a, i, p)
  <2>1. HeldIs(client[b], a, i, p) /\ Less(client[b], client'[b])
    BY DEF Carries
  <2>2. client'[b].in[a] # None =>
          client'[b].in[a] = client[b].in[a] /\ client'[b].rx = client[b].rx
    BY <2>1 DEF Less
  <2>3. QED
    BY <2>1, <2>2, HeldOn
<1>3. ASSUME NEW b \in Clients, NEW n \in 1..Len(board'[b].tx)
      PROVE  FrameIs(board'[b].tx[n], a, i, p)
  <2>1. \/ board'[b].tx[n] \in Quiet
        \/ \E m \in 1..Len(board[b].tx) : board'[b].tx[n] = board[b].tx[m]
    BY DEF AllMove, Brings
  <2>2. CASE board'[b].tx[n] \in Quiet
    BY <2>2, QuietFrames DEF FrameIs
  <2>3. CASE \E m \in 1..Len(board[b].tx) : board'[b].tx[n] = board[b].tx[m]
    BY <2>3, Zenon DEF Carries
  <2>4. QED
    BY <2>1, <2>2, <2>3
<1>4. QED
  BY <1>1, <1>2, <1>3 DEF Carries

\* Such a step keeps the invariant
LEMMA QuietStep ==
  ASSUME PInv, Typed',
         \A b \in Clients : Less(client[b], client'[b]),
         AllMove(board, board', Quiet)
  PROVE  PInv'
<1>1. Typed
  BY DEF PInv
<1>2. ASSUME NEW a \in Clients, NEW i \in Ids
      PROVE  \E p \in Goods : Carries(a, i, p)'
  <2>1. PICK p \in Goods : Carries(a, i, p)
    BY DEF PInv
  <2>2. Carries(a, i, p)'
    BY <1>1, <2>1, LessCarries
  <2>3. QED
    BY <2>2
<1>3. QED
  BY <1>2 DEF PInv

\* of one client
LEMMA QuietOne ==
  ASSUME PInv, NEW a \in Clients, NEW d \in Machine,
         Less(client[a], d), d.rx.len <= Len(d.rx.buf), ~d.up => d.tx = None,
         client' = [client EXCEPT ![a] = d],
         AllMove(board, board', Quiet), acts' \in 0..MaxActs, faults' \in 0..MaxFaults
  PROVE  PInv'
<1>1. client \in [Clients -> Machine]
  BY DEF PInv, Typed
<1>2. client' \in [Clients -> Machine] /\ \A b \in Clients : client'[b] = IF b = a THEN d ELSE client[b]
  BY <1>1
<1>3. Typed'
  BY <1>2 DEF PInv, Typed, AllMove, Boards
<1>4. ASSUME NEW b \in Clients
      PROVE  Less(client[b], client'[b])
  <2>1. client[b] \in Machine
    BY <1>1
  <2>2. Less(client[b], client[b])
    BY <2>1 DEF Less
  <2>3. QED
    BY <1>2, <2>2
<1>5. QED
  BY <1>3, <1>4, QuietStep

\* A client's loop, or its user, changes no stream
LEMMA ElseStep ==
  ASSUME PInv, NEW a \in Clients, NEW d \in Machine, Else(client[a], d), d.up = client[a].up,
         client' = [client EXCEPT ![a] = d],
         AllMove(board, board', Quiet), acts' \in 0..MaxActs, faults' \in 0..MaxFaults
  PROVE  PInv'
<1>1. client[a] \in Machine /\ client[a].rx.len <= Len(client[a].rx.buf)
      /\ (~client[a].up => client[a].tx = None)
  BY DEF PInv, Typed
<1>2. Less(client[a], d)
  BY <1>1, ElseLess
<1>3. d.rx.len <= Len(d.rx.buf) /\ (~d.up => d.tx = None)
  BY <1>1 DEF Else
<1>4. QED
  BY <1>2, <1>3, QuietOne

\* What the invariant says of the types
LEMMA PTypes ==
  ASSUME PInv
  PROVE  /\ client \in [Clients -> Machine] /\ board \in Boards
         /\ \A a \in Clients : client[a] \in Machine /\ board[a] \in Ring(Frames)
         /\ acts \in 0..MaxActs /\ faults \in 0..MaxFaults
         /\ AllMove(board, board, Quiet)
<1>1. client \in [Clients -> Machine] /\ board \in Boards
      /\ acts \in 0..MaxActs /\ faults \in 0..MaxFaults
  BY DEF PInv, Typed, Boards
<1>2. QED
  BY <1>1, NoneMove DEF Boards

\* OnSent
LEMMA SentP ==
  ASSUME PInv, NEW a \in Clients, client' = [client EXCEPT ![a] = OnSent(client[a])],
         AllMove(board, board', Quiet), acts' \in 0..MaxActs, faults' \in 0..MaxFaults
  PROVE  PInv'
<1>1. PICK d : d = [client[a] EXCEPT !.tx = None]
  OBVIOUS
<1>2. client[a] \in Machine /\ client[a].rx.len <= Len(client[a].rx.buf)
  BY DEF PInv, Typed
<1>3. d \in Machine
  BY <1>1, <1>2, FieldsTyped
<1>4. d.tx = None /\ d.in = client[a].in /\ d.rx = client[a].rx
  BY <1>1, <1>2 DEF Machine
<1>5. Less(client[a], d)
  BY <1>4 DEF Less
<1>6. client' = [client EXCEPT ![a] = d]
  BY <1>1, Zenon DEF OnSent
<1>7. QED
  BY <1>2, <1>3, <1>4, <1>5, <1>6, QuietOne

\* The ABORT of a transfer is a quiet frame
LEMMA AbortMoves ==
  ASSUME PInv, NEW a \in Clients, client[a].tx # None
  PROVE  AllMove(board, Abort(a), Quiet)
<1>1. PICK t, m : t = client[a].tx.to
                  /\ m = [type |-> "ABORT", src |-> a, id |-> client[a].tx.id]
  OBVIOUS
<1>2. client[a].tx \in Outbound /\ board \in Boards
  BY PTypes DEF Machine
<1>3. t \in Clients \cup {None} /\ m \in Quiet /\ m \in Frames
  BY <1>1, <1>2, QuietFrames DEF Outbound, Quiet, Answers
<1>4. AllMove(board, Proxy(board, a, t, m), Quiet)
  BY <1>2, <1>3, ProxyMoves
<1>5. Abort(a) = Proxy(board, a, t, m)
  BY <1>1, Zenon DEF Abort
<1>6. QED
  BY <1>4, <1>5, Zenon

\* GiveUp and Lose
LEMMA GiveUpIs ==
  ASSUME PInv, NEW a \in Clients, GiveUp(a) \/ Lose(a)
  PROVE  /\ client' = [client EXCEPT ![a] = OnSent(client[a])]
         /\ AllMove(board, board', Quiet) /\ acts' = acts
         /\ faults' = faults \/ (faults < MaxFaults /\ faults' = faults + 1)
<1>1. /\ client' = [client EXCEPT ![a] = OnSent(client[a])] /\ client[a].tx # None
      /\ board' \in {board, Abort(a)} /\ acts' = acts
      /\ faults' = faults \/ (faults < MaxFaults /\ faults' = faults + 1)
  BY Zenon DEF GiveUp, Lose, Update, Fault
<1>2. AllMove(board, board, Quiet) /\ AllMove(board, Abort(a), Quiet)
  BY <1>1, PTypes, AbortMoves
<1>3. QED
  BY <1>1, <1>2, Zenon

LEMMA GiveUpP ==
  ASSUME PInv, NEW a \in Clients, GiveUp(a) \/ Lose(a)
  PROVE  PInv'
<1>1. /\ client' = [client EXCEPT ![a] = OnSent(client[a])]
      /\ AllMove(board, board', Quiet) /\ acts' = acts
      /\ faults' = faults \/ (faults < MaxFaults /\ faults' = faults + 1)
  BY GiveUpIs
<1>2. acts' \in 0..MaxActs /\ faults' \in 0..MaxFaults
  BY <1>1, PTypes, ClientAssumption
<1>3. QED
  BY <1>1, <1>2, SentP

\* What a client keeps of the rest when it lets go of streams
Drops(c, d) == d \in Machine /\ Less(c, d) /\ Stays(c, d) /\ d.rx = c.rx

\* One stream after another
LEMMA DropsOn ==
  ASSUME NEW c, NEW d, NEW e, Drops(c, d), Drops(d, e)
  PROVE  Drops(c, e)
  BY DEF Drops, Less, Stays

\* An inbound stream goes, or one of either direction
LEMMA EndsDrops ==
  ASSUME NEW c \in Machine
  PROVE  /\ Drops(c, c)
         /\ \A b : Drops(c, [c EXCEPT !.in[b] = None])
         /\ \A f : Drops(c, Ends(c, f))
<1>1. Drops(c, c)
  BY DEF Drops, Less, Stays
<1>2. ASSUME NEW b
      PROVE  Drops(c, [c EXCEPT !.in[b] = None])
  <2>1. PICK w : w = [c.in EXCEPT ![b] = None]
    OBVIOUS
  <2>2. c.in \in [Clients -> Inbound \cup {None}]
    BY DEF Machine
  <2>3. /\ w \in [Clients -> Inbound \cup {None}]
        /\ \A x \in Clients : w[x] # None => w[x] = c.in[x]
    BY <2>1, <2>2
  <2>4. PICK d : d = [c EXCEPT !.in = w]
    OBVIOUS
  <2>5. d \in Machine
    BY <2>3, <2>4, FieldsTyped
  <2>6. d.in = w /\ d.rx = c.rx /\ d.tx = c.tx /\ Stays(c, d)
    BY <2>4 DEF Machine, Stays
  <2>7. Less(c, d)
    BY <2>3, <2>6 DEF Less
  <2>8. [c EXCEPT !.in[b] = None] = d
    BY <2>1, <2>4, Zenon
  <2>9. QED
    BY <2>5, <2>6, <2>7, <2>8 DEF Drops
<1>3. Drops(c, [c EXCEPT !.tx = None])
  <2>1. PICK d : d = [c EXCEPT !.tx = None]
    OBVIOUS
  <2>2. d \in Machine
    BY <2>1, FieldsTyped
  <2>3. d.in = c.in /\ d.rx = c.rx /\ d.tx = None /\ Stays(c, d)
    BY <2>1 DEF Machine, Stays
  <2>4. Less(c, d)
    BY <2>3 DEF Less
  <2>5. QED
    BY <2>1, <2>2, <2>3, <2>4 DEF Drops
<1>4. ASSUME NEW f
      PROVE  Drops(c, Ends(c, f))
  <2>1. \/ Ends(c, f) = [c EXCEPT !.in[f.src] = None]
        \/ Ends(c, f) = [c EXCEPT !.tx = None]
        \/ Ends(c, f) = c
    BY Zenon DEF Ends, OnSent
  <2>2. Drops(c, [c EXCEPT !.in[f.src] = None])
    BY <1>2
  <2>3. QED
    BY <1>1, <1>3, <2>1, <2>2, Zenon
<1>5. QED
  BY <1>1, <1>2, <1>4

\* A step in which a client lets go of streams
LEMMA DropsP ==
  ASSUME PInv, NEW a \in Clients, NEW d, Drops(client[a], d),
         client' = [client EXCEPT ![a] = d],
         AllMove(board, board', Quiet), acts' = acts, faults' = faults
  PROVE  PInv'
<1>1. /\ client[a] \in Machine /\ client[a].rx.len <= Len(client[a].rx.buf)
      /\ ~client[a].up => client[a].tx = None
  BY DEF PInv, Typed
<1>2. /\ d \in Machine /\ Less(client[a], d) /\ d.up = client[a].up
      /\ d.rx = client[a].rx
  BY DEF Drops, Stays
<1>3. d.rx.len <= Len(d.rx.buf) /\ (~d.up => d.tx = None)
  BY <1>1, <1>2 DEF Less
<1>4. acts' \in 0..MaxActs /\ faults' \in 0..MaxFaults
  BY PTypes
<1>5. QED
  BY <1>2, <1>3, <1>4, QuietOne

\* Expire
LEMMA ExpireIs ==
  ASSUME PInv, NEW a \in Clients, NEW b \in Clients, Expire(a, b)
  PROVE  \E d : /\ Drops(client[a], d) /\ client' = [client EXCEPT ![a] = d]
                /\ AllMove(board, board', Quiet)
                /\ acts' = acts /\ faults' = faults
<1>1. PICK d : d = [client[a] EXCEPT !.in[b] = None]
  OBVIOUS
<1>2. Drops(client[a], [client[a] EXCEPT !.in[b] = None])
  BY PTypes, EndsDrops
<1>3. Drops(client[a], d)
  BY <1>1, <1>2, Zenon
<1>4. /\ client' = [client EXCEPT ![a] = d] /\ board' = board
      /\ acts' = acts /\ faults' = faults
  BY <1>1, Zenon DEF Expire, Update
<1>5. AllMove(board, board', Quiet)
  BY <1>4, PTypes
<1>6. QED
  BY <1>3, <1>4, <1>5

LEMMA ExpireP ==
  ASSUME PInv, NEW a \in Clients, NEW b \in Clients, Expire(a, b)
  PROVE  PInv'
  BY ExpireIs, DropsP

\* Copy
LEMMA CopyP ==
  ASSUME PInv, NEW a \in Clients, NEW x \in Texts, Copy(a, x)
  PROVE  PInv'
<1>1. PICK d : d = [client[a] EXCEPT !.clip = x]
  OBVIOUS
<1>2. client[a] \in Machine
  BY PTypes
<1>3. d \in Machine
  BY <1>1, <1>2, FieldsTyped
<1>4. Else(client[a], d) /\ d.up = client[a].up
  BY <1>1, <1>2 DEF Machine, Else
<1>5. client' = [client EXCEPT ![a] = d] /\ board' = board /\ faults' = faults
      /\ acts < MaxActs /\ acts' = acts + 1
  BY <1>1, Zenon DEF Copy, Update, Act
<1>6. acts' \in 0..MaxActs /\ faults' \in 0..MaxFaults /\ AllMove(board, board', Quiet)
  BY <1>5, PTypes, ClientAssumption
<1>7. QED
  BY <1>3, <1>4, <1>5, <1>6, ElseStep

\* CtlPeer
LEMMA CtlPeerP ==
  ASSUME PInv, NEW a \in Clients, NEW b \in Clients, CtlPeer(a, b)
  PROVE  PInv'
<1>1. PICK d : d = [client[a] EXCEPT !.peer = b]
  OBVIOUS
<1>2. client[a] \in Machine
  BY PTypes
<1>3. d \in Machine
  BY <1>1, <1>2, FieldsTyped
<1>4. Else(client[a], d) /\ d.up = client[a].up
  BY <1>1, <1>2 DEF Machine, Else
<1>5. client' = [client EXCEPT ![a] = d] /\ board' = board /\ faults' = faults /\ acts' = acts
  BY <1>1, Zenon DEF CtlPeer, Update
<1>6. acts' \in 0..MaxActs /\ faults' \in 0..MaxFaults /\ AllMove(board, board', Quiet)
  BY <1>5, PTypes
<1>7. QED
  BY <1>3, <1>4, <1>5, <1>6, ElseStep

\* Stall
LEMMA StallP ==
  ASSUME PInv, NEW a \in Clients, Stall(a)
  PROVE  PInv'
<1>1. PICK d : d = [client[a] EXCEPT !.stalled = TRUE]
  OBVIOUS
<1>2. client[a] \in Machine
  BY PTypes
<1>3. d \in Machine
  BY <1>1, <1>2, FieldsTyped
<1>4. Else(client[a], d) /\ d.up = client[a].up
  BY <1>1, <1>2 DEF Machine, Else
<1>5. client' = [client EXCEPT ![a] = d] /\ board' = board /\ acts' = acts
      /\ faults < MaxFaults /\ faults' = faults + 1
  BY <1>1, Zenon DEF Stall, Update, Fault
<1>6. acts' \in 0..MaxActs /\ faults' \in 0..MaxFaults /\ AllMove(board, board', Quiet)
  BY <1>5, PTypes, ClientAssumption
<1>7. QED
  BY <1>3, <1>4, <1>5, <1>6, ElseStep

\* Resume
LEMMA ResumeP ==
  ASSUME PInv, NEW a \in Clients, Resume(a)
  PROVE  PInv'
<1>1. PICK d : d = [client[a] EXCEPT !.stalled = FALSE]
  OBVIOUS
<1>2. client[a] \in Machine /\ board[a] \in Ring(Frames)
  BY PTypes
<1>3. d \in Machine
  BY <1>1, <1>2, FieldsTyped
<1>4. Else(client[a], d) /\ d.up = client[a].up
  BY <1>1, <1>2 DEF Machine, Else
<1>5. PICK q : q = Announce(a, board[a])
  OBVIOUS
<1>6. Moves(board[a], q, Quiet)
  BY <1>2, <1>5, AnnounceMoves
<1>7. client' = [client EXCEPT ![a] = d] /\ board' = [board EXCEPT ![a] = q]
      /\ faults' = faults /\ acts' = acts
  BY <1>1, <1>5, Zenon DEF Resume, Update
<1>8. AllMove(board, board', Quiet)
  BY <1>6, <1>7, PTypes, OneMoves
<1>9. acts' \in 0..MaxActs /\ faults' \in 0..MaxFaults
  BY <1>7, PTypes
<1>10. QED
  BY <1>3, <1>4, <1>7, <1>8, <1>9, ElseStep

\* A client that is off
LEMMA OffTyped ==
  /\ Off \in Machine /\ ~Off.up /\ Off.tx = None /\ Off.rx.len = 0
  /\ \A b \in Clients : Off.in[b] = None
<1>1. <<>> \in Seq(Cells) /\ [b \in Clients |-> None] \in [Clients -> Inbound \cup {None}]
  BY EmptySeq
<1>2. 1 \in Ids
  BY ClientAssumption DEF Ids
<1>3. Off \in Machine
  BY <1>1, <1>2 DEF Off, Machine, Kinds
<1>4. ~Off.up /\ Off.tx = None /\ Off.rx.len = 0 /\ \A b \in Clients : Off.in[b] = None
  BY DEF Off
<1>5. QED
  BY <1>3, <1>4

\* Exit
LEMMA ExitP ==
  ASSUME PInv, NEW a \in Clients, Exit(a)
  PROVE  PInv'
<1>1. PICK d : d = [Off EXCEPT !.clip = client[a].clip, !.outdir = client[a].outdir]
  OBVIOUS
<1>2. client[a] \in Machine /\ board[a] \in Ring(Frames)
  BY PTypes
<1>3. d \in Machine /\ ~d.up /\ d.tx = None /\ d.rx = Off.rx /\ d.in = Off.in
  BY <1>1, <1>2, OffTyped DEF Machine
<1>4. Less(client[a], d) /\ d.rx.len <= Len(d.rx.buf)
  <2>1. d.rx.len = 0 /\ d.rx.buf \in Seq(Cells)
    BY <1>3, OffTyped DEF Machine
  <2>2. Len(d.rx.buf) \in Nat
    BY <2>1, LenProperties
  <2>3. QED
    BY <1>3, <2>1, <2>2, OffTyped DEF Less
<1>5. /\ client' = [client EXCEPT ![a] = d] /\ acts' = acts
      /\ board' = board \/ board' = [board EXCEPT ![a] = NoClient]
      /\ faults < MaxFaults /\ faults' = faults + 1
  BY <1>1, Zenon DEF Exit, Update, Fault
<1>6. acts' \in 0..MaxActs /\ faults' \in 0..MaxFaults
  BY <1>5, PTypes, ClientAssumption
<1>7. AllMove(board, board', Quiet)
  BY <1>5, PTypes, NoClientMoves, OneMoves
<1>8. QED
  BY <1>3, <1>4, <1>5, <1>6, <1>7, QuietOne

\* Second
LEMMA SecondMoves ==
  ASSUME PInv, Second
  PROVE  AllMove(board, board', Quiet)
<1>1. board' = [a \in Clients |->
           IF Runs(a) THEN Announce(a, Task(board[a])) ELSE Task(board[a])]
  BY DEF Second
<1>2. ASSUME NEW a \in Clients
      PROVE  Moves(board[a], board'[a], Quiet)
  <2>1. board[a] \in Ring(Frames)
    BY PTypes
  <2>2. PICK r : r = Task(board[a])
    OBVIOUS
  <2>3. Moves(board[a], r, Quiet) /\ r \in Ring(Frames)
    BY <2>1, <2>2, TaskMoves DEF Moves
  <2>4. Moves(board[a], Announce(a, r), Quiet)
    BY <2>3, AnnounceMoves, MovesOn
  <2>5. board'[a] = IF Runs(a) THEN Announce(a, r) ELSE r
    BY <1>1, <2>2
  <2>6. QED
    BY <2>3, <2>4, <2>5
<1>3. QED
  BY <1>1, <1>2 DEF Moves, AllMove, Boards

\* The clocks advance: no frame and no content moves
LEMMA SecondP ==
  ASSUME PInv, Second
  PROVE  PInv'
<1>1. client' = client /\ acts' = acts /\ faults' = faults
  BY DEF Second
<1>2. AllMove(board, board', Quiet)
  BY SecondMoves
<1>3. Typed'
  BY <1>1, <1>2 DEF PInv, Typed, AllMove, Boards
<1>4. \A b \in Clients : Less(client[b], client'[b])
  BY <1>1 DEF Less
<1>5. QED
  BY <1>2, <1>3, <1>4, QuietStep

\* Start: what the others held of its streams has gone
LEMMA StartP ==
  ASSUME PInv, NEW a \in Clients, Start(a)
  PROVE  PInv'
<1>1. PICK d : d = [Off EXCEPT !.up = TRUE, !.peer = Peer[a], !.clip = client[a].clip,
                               !.outdir = client[a].outdir]
  OBVIOUS
<1>2. client[a] \in Machine /\ board[a] \in Ring(Frames)
  BY PTypes
<1>3. Peer[a] \in Clients \cup {None}
  BY ClientAssumption
<1>4. d \in Machine /\ d.up /\ d.tx = None /\ d.rx = Off.rx /\ d.in = Off.in
  BY <1>1, <1>2, <1>3, OffTyped DEF Machine
<1>5. d.rx.len <= Len(d.rx.buf)
  <2>1. d.rx.len = 0 /\ d.rx.buf \in Seq(Cells)
    BY <1>4, OffTyped DEF Machine
  <2>2. Len(d.rx.buf) \in Nat
    BY <2>1, LenProperties
  <2>3. QED
    BY <2>1, <2>2
<1>6. client' = [b \in Clients |-> IF b = a THEN d ELSE [client[b] EXCEPT !.in[a] = None]]
  BY <1>1, Zenon DEF Start
<1>7. PICK q : q = Announce(a, board[a])
  OBVIOUS
<1>8. AllMove(board, board', Quiet) /\ acts' = acts /\ faults' = faults
  <2>1. Moves(board[a], q, Quiet)
    BY <1>2, <1>7, AnnounceMoves
  <2>2. board' = [board EXCEPT ![a] = q] /\ acts' = acts /\ faults' = faults
    BY <1>7, Zenon DEF Start
  <2>3. QED
    BY <2>1, <2>2, PTypes, OneMoves
<1>9. ASSUME NEW b \in Clients
      PROVE  /\ client'[b] \in Machine /\ Less(client[b], client'[b])
             /\ client'[b].rx.len <= Len(client'[b].rx.buf)
             /\ ~client'[b].up => client'[b].tx = None
  <2>1. CASE b = a
    <3>1. client'[b] = d
      BY <1>6, <2>1
    <3>2. Less(client[b], d)
      BY <1>4, OffTyped DEF Less
    <3>3. QED
      BY <1>4, <1>5, <3>1, <3>2
  <2>2. CASE b # a
    <3>1. /\ client[b] \in Machine /\ client[b].rx.len <= Len(client[b].rx.buf)
          /\ ~client[b].up => client[b].tx = None
      BY DEF PInv, Typed
    <3>2. PICK v : v = [client[b].in EXCEPT ![a] = None]
      OBVIOUS
    <3>3. client[b].in \in [Clients -> Inbound \cup {None}]
      BY <3>1 DEF Machine
    <3>4. /\ v \in [Clients -> Inbound \cup {None}]
          /\ \A c \in Clients : v[c] # None => v[c] = client[b].in[c]
      BY <3>2, <3>3
    <3>5. PICK e : e = [client[b] EXCEPT !.in = v]
      OBVIOUS
    <3>6. e \in Machine
      BY <3>1, <3>4, <3>5, FieldsTyped
    <3>7. e.tx = client[b].tx /\ e.rx = client[b].rx /\ e.in = v /\ e.up = client[b].up
      BY <3>1, <3>5 DEF Machine
    <3>8. Less(client[b], e)
      BY <3>4, <3>7 DEF Less
    <3>9. client'[b] = e
      <4>1. client'[b] = [client[b] EXCEPT !.in[a] = None]
        BY <1>6, <2>2
      <4>2. QED
        BY <3>2, <3>5, <4>1, Zenon
    <3>10. QED
      BY <3>1, <3>6, <3>7, <3>8, <3>9
  <2>3. QED
    BY <2>1, <2>2
<1>10. Typed'
  <2>1. client' \in [Clients -> Machine]
    BY <1>6, <1>9
  <2>2. QED
    BY <1>8, <1>9, <2>1 DEF PInv, Typed, AllMove, Boards
<1>11. QED
  BY <1>8, <1>9, <1>10, QuietStep

-----------------------------------------------------------------------------
(* A stream begins                                                         *)

\* Nothing of it has been seen before it does
LEMMA FreeCarries ==
  ASSUME PInv, NEW a \in Clients, NEW i \in Ids, Free(a, i), NEW p,
         NEW b \in Clients
  PROVE  /\ HeldIs(client[b], a, i, p)
         /\ \A n \in 1..Len(board[b].tx) : FrameIs(board[b].tx[n], a, i, p)
<1>1. HeldIs(client[b], a, i, p)
  BY Zenon DEF Free, HeldIs
<1>2. ASSUME NEW n \in 1..Len(board[b].tx)
      PROVE  FrameIs(board[b].tx[n], a, i, p)
  BY DEF Free, FrameIs
<1>3. QED
  BY <1>1, <1>2

\* send_owned
LEMMA SendStep ==
  ASSUME PInv, CleanSends, NEW a \in Clients, client[a].up, client[a].tx = None,
         NEW c \in Machine, Else(client[a], c), c.up = client[a].up,
         NEW kind \in Kinds, NEW x, <<kind, x>> \in Goods,
         client' = [client EXCEPT ![a] = SendOwned(c, kind, x)],
         board' = board, acts' \in 0..MaxActs, faults' \in 0..MaxFaults
  PROVE  PInv'
<1>1. client \in [Clients -> Machine] /\ client[a] \in Machine
      /\ client[a].rx.len <= Len(client[a].rx.buf)
  BY DEF PInv, Typed
<1>2. x \in Contents
  BY DEF Goods, Nothing, Kinds, Contents
<1>3. PICK s : s = [id |-> c.next_id, to |-> c.peer, kind |-> kind,
                    data |-> x, state |-> "OFFERING"]
  OBVIOUS
<1>4. s \in Outbound /\ s.id = c.next_id /\ s.kind = kind /\ s.data = x
  BY <1>2, <1>3 DEF Outbound, Machine
<1>5. PICK n : n = (c.next_id % (IDS - 1)) + 1
  OBVIOUS
<1>6. n \in Ids
  BY <1>5, ClientAssumption DEF Machine, Ids
<1>7. PICK d : d = [c EXCEPT !.tx = s, !.next_id = n]
  OBVIOUS
<1>8. d \in Machine
  BY <1>4, <1>6, <1>7, FieldsTyped
<1>9. d.tx = s /\ d.in = client[a].in /\ d.rx = client[a].rx /\ d.up
  BY <1>7 DEF Machine, Else
<1>10. client' = [client EXCEPT ![a] = d]
  <2>1. c.tx = None
    BY DEF Else
  <2>2. SendOwned(c, kind, x) = d
    BY <1>3, <1>5, <1>7, <2>1, Zenon DEF SendOwned
  <2>3. QED
    BY <2>2
<1>11. client' \in [Clients -> Machine]
       /\ \A b \in Clients : client'[b] = IF b = a THEN d ELSE client[b]
  BY <1>1, <1>8, <1>10
<1>12. Typed'
  BY <1>1, <1>9, <1>11 DEF PInv, Typed
<1>13. ASSUME NEW b \in Clients, NEW i \in Ids
       PROVE  \E p \in Goods : Carries(b, i, p)'
  <2>1. CASE b = a /\ s # None /\ i = s.id
    <3>1. PICK p : p = <<kind, x>>
      OBVIOUS
    <3>2. client'[a].tx = s
      BY <1>9, <1>11
    <3>3. Free(a, i)
      BY <2>1, <3>2 DEF CleanSends
    <3>4. SentIs(client'[a], i, p)
      BY <1>4, <3>1, <3>2 DEF SentIs
    <3>5. ASSUME NEW e \in Clients
          PROVE  /\ HeldIs(client'[e], a, i, p)
                 /\ \A m \in 1..Len(board'[e].tx) : FrameIs(board'[e].tx[m], a, i, p)
      <4>1. /\ HeldIs(client[e], a, i, p)
            /\ \A m \in 1..Len(board[e].tx) : FrameIs(board[e].tx[m], a, i, p)
        BY <3>3, FreeCarries
      <4>2. client'[e].in = client[e].in /\ client'[e].rx = client[e].rx
        BY <1>9, <1>11
      <4>3. HeldIs(client'[e], a, i, p)
        BY <4>1, <4>2, Zenon DEF HeldIs
      <4>4. QED
        BY <4>1, <4>3
    <3>6. Carries(a, i, p)'
      BY <3>4, <3>5 DEF Carries
    <3>7. QED
      BY <2>1, <3>1, <3>6
  <2>2. CASE ~(b = a /\ s # None /\ i = s.id)
    <3>1. PICK p \in Goods : Carries(b, i, p)
      BY DEF PInv
    <3>2. SentIs(client'[b], i, p)
      BY <1>9, <1>11, <2>2, <3>1 DEF Carries, SentIs
    <3>3. ASSUME NEW e \in Clients
          PROVE  /\ HeldIs(client'[e], b, i, p)
                 /\ \A m \in 1..Len(board'[e].tx) : FrameIs(board'[e].tx[m], b, i, p)
      <4>1. /\ HeldIs(client[e], b, i, p)
            /\ \A m \in 1..Len(board[e].tx) : FrameIs(board[e].tx[m], b, i, p)
        BY <3>1 DEF Carries
      <4>2. client'[e].in = client[e].in /\ client'[e].rx = client[e].rx
        BY <1>9, <1>11
      <4>3. HeldIs(client'[e], b, i, p)
        BY <4>1, <4>2, Zenon DEF HeldIs
      <4>4. QED
        BY <4>1, <4>3
    <3>4. Carries(b, i, p)'
      BY <3>2, <3>3 DEF Carries
    <3>5. QED
      BY <3>1, <3>4
  <2>3. QED
    BY <2>1, <2>2
<1>14. QED
  BY <1>12, <1>13 DEF PInv

\* Poll
LEMMA PollP ==
  ASSUME PInv, CleanSends, NEW a \in Clients, Poll(a)
  PROVE  PInv'
<1>1. client[a] \in Machine
  BY PTypes
<1>2. PollClipboard(client[a]) # client[a] /\ client[a].up
  BY DEF Poll, Runs
<1>3. ~(client[a].tx # None \/ client[a].clip \in {None, client[a].last_clip})
  BY <1>2, Zenon DEF PollClipboard
<1>4. client[a].tx = None /\ client[a].clip \in Texts
  BY <1>1, <1>3 DEF Machine
<1>5. PICK c : c = [client[a] EXCEPT !.last_clip = client[a].clip]
  OBVIOUS
<1>6. c \in Machine
  BY <1>1, <1>4, <1>5, FieldsTyped
<1>7. Else(client[a], c) /\ c.up = client[a].up
  BY <1>1, <1>5 DEF Machine, Else
<1>8. <<"TEXT", client[a].clip>> \in Goods /\ "TEXT" \in Kinds
  BY <1>4 DEF Goods, Kinds
<1>9. PollClipboard(client[a]) = SendOwned(c, "TEXT", client[a].clip)
  BY <1>3, <1>5, Zenon DEF PollClipboard
<1>10. client' = [client EXCEPT ![a] = SendOwned(c, "TEXT", client[a].clip)]
  BY <1>9, Zenon DEF Poll, Update
<1>11. board' = board /\ acts' = acts /\ faults' = faults
  BY DEF Poll
<1>12. acts' \in 0..MaxActs /\ faults' \in 0..MaxFaults
  BY <1>11, PTypes
<1>13. QED
  BY <1>2, <1>4, <1>6, <1>7, <1>8, <1>10, <1>11, <1>12, SendStep

\* CtlSend
LEMMA CtlSendP ==
  ASSUME PInv, CleanSends, NEW a \in Clients, NEW cmd \in Commands,
         CtlSend(a, cmd[1], cmd[2])
  PROVE  PInv'
<1>1. cmd \in ({"TEXT"} \X Texts) \cup ({"FILE", "SHARE"} \X Files)
  BY ClientAssumption
<1>2. cmd[1] \in Kinds /\ <<cmd[1], cmd[2]>> \in Goods
  BY <1>1 DEF Kinds, Goods
<1>3. client[a].up /\ client[a].tx = None
  BY DEF CtlSend, Runs
<1>4. client[a] \in Machine
  BY PTypes
<1>5. Else(client[a], client[a])
  BY DEF Else
<1>6. client' = [client EXCEPT ![a] = SendOwned(client[a], cmd[1], cmd[2])]
  BY Zenon DEF CtlSend, Update
<1>7. board' = board /\ faults' = faults /\ acts < MaxActs /\ acts' = acts + 1
  BY DEF CtlSend, Act
<1>8. acts' \in 0..MaxActs /\ faults' \in 0..MaxFaults
  BY <1>7, PTypes, ClientAssumption
<1>9. QED
  BY <1>2, <1>3, <1>4, <1>5, <1>6, <1>7, <1>8, SendStep

-----------------------------------------------------------------------------
(* A frame is sent                                                         *)

\* Of what has been offered, or of what is asked for next
LEMMA FrameTrue ==
  ASSUME PInv, NEW a \in Clients, client[a].tx # None,
         client[a].tx.state = "SENDING" => Receiving(a, client[a].tx.to),
         NEW p \in Goods, Carries(a, client[a].tx.id, p)
  PROVE  /\ Frame(a) \in Offers \cup Chunks
         /\ Frame(a).src = a /\ Frame(a).id = client[a].tx.id
         /\ FrameIs(Frame(a), a, client[a].tx.id, p)
<1>1. PICK s : s = client[a].tx
  OBVIOUS
<1>2. s \in Outbound
  BY <1>1, PTypes DEF Machine
<1>3. s.kind = p[1] /\ s.data = p[2] /\ s.id \in Ids
  BY <1>1, <1>2 DEF Carries, SentIs, Outbound
<1>4. s.data \in Seq(STRING)
  BY <1>2, ClientAssumption DEF Outbound, Contents
<1>5. CASE s.state = "OFFERING"
  <2>1. PICK f : f = [type |-> "OFFER", src |-> a, id |-> s.id, kind |-> s.kind,
                      total |-> Len(s.data)]
    OBVIOUS
  <2>2. Len(s.data) \in Nat /\ s.kind \in Kinds
    BY <1>2, <1>4, LenProperties DEF Outbound
  <2>3. /\ f \in Offers /\ f.src = a /\ f.id = s.id /\ f.type = "OFFER"
        /\ f.kind = p[1] /\ f.total = Len(p[2])
    BY <1>3, <2>1, <2>2 DEF Offers
  <2>4. f \notin Chunks
    BY <2>3 DEF Chunks
  <2>5. FrameIs(f, a, s.id, p)
    BY <2>3, <2>4 DEF FrameIs
  <2>6. Frame(a) = f
    BY <1>1, <1>5, <2>1, Zenon DEF Frame
  <2>7. QED
    BY <1>1, <2>3, <2>5, <2>6
<1>6. CASE s.state # "OFFERING"
  <2>1. s.state = "SENDING"
    BY <1>2, <1>6 DEF Outbound
  <2>2. /\ s.to \in Clients /\ client[s.to].in[a] # None
        /\ client[s.to].in[a].id = s.id
    BY <1>1, <2>1, Zenon DEF Receiving
  <2>3. PICK h : h = client[s.to].in[a]
    OBVIOUS
  <2>4. h \in Inbound
    <3>1. client[s.to] \in Machine
      BY <2>2, PTypes
    <3>2. QED
      BY <2>2, <2>3, <3>1 DEF Machine
  <2>5. h.total = Len(p[2]) /\ h.got < h.total
    <3>1. HeldIs(client[s.to], a, s.id, p)
      BY <1>1, <2>2, Zenon DEF Carries
    <3>2. QED
      BY <2>2, <2>3, <3>1, Zenon DEF HeldIs
  <2>6. PICK n : n = h.got + 1
    OBVIOUS
  <2>7. n \in 1..Len(s.data) /\ n \in Nat
    BY <1>3, <2>4, <2>5, <2>6 DEF Inbound
  <2>8. s.data[n] \in STRING
    BY <1>4, <2>7, ElementOfSeq
  <2>9. PICK f : f = [type |-> "CHUNK", src |-> a, id |-> s.id, seq |-> n,
                      data |-> s.data[n]]
    OBVIOUS
  <2>10. /\ f \in Chunks /\ f.src = a /\ f.id = s.id /\ f.type = "CHUNK"
         /\ f.seq = n /\ f.data = s.data[n]
    BY <1>3, <2>7, <2>8, <2>9 DEF Chunks
  <2>11. f \notin Offers
    BY <2>10 DEF Offers
  <2>12. FrameIs(f, a, s.id, p)
    BY <1>3, <2>7, <2>10, <2>11 DEF FrameIs
  <2>13. Frame(a) = f
    BY <1>1, <1>6, <2>3, <2>6, <2>9, Zenon DEF Frame
  <2>14. QED
    BY <1>1, <2>10, <2>12, <2>13
<1>7. QED
  BY <1>5, <1>6

\* Transmit
LEMMA TransmitP ==
  ASSUME PInv, NEW a \in Clients, Transmit(a)
  PROVE  PInv'
<1>1. /\ client[a].tx # None /\ client' = client /\ acts' = acts /\ faults' = faults
      /\ client[a].tx.state = "SENDING" => Receiving(a, client[a].tx.to)
      /\ board' = Proxy(board, a, client[a].tx.to, Frame(a))
  BY Zenon DEF Transmit
<1>2. client[a].tx \in Outbound
  BY <1>1, PTypes DEF Machine
<1>3. PICK j : j = client[a].tx.id
  OBVIOUS
<1>4. j \in Ids /\ client[a].tx.to \in Clients \cup {None}
  BY <1>2, <1>3 DEF Outbound
<1>5. PICK g : g = Frame(a)
  OBVIOUS
<1>6. ASSUME NEW p \in Goods, Carries(a, j, p)
      PROVE  g \in Offers \cup Chunks /\ g.src = a /\ g.id = j /\ FrameIs(g, a, j, p)
  <2>1. Carries(a, client[a].tx.id, p)
    BY <1>3, <1>6
  <2>2. QED
    BY <1>1, <1>3, <1>5, <2>1, FrameTrue
<1>7. \E p \in Goods : Carries(a, j, p)
  BY <1>4 DEF PInv
<1>8. g \in Offers \cup Chunks /\ g.src = a /\ g.id = j
  BY <1>6, <1>7
<1>9. g \in Frames
  BY <1>8 DEF Frames
<1>10. AllMove(board, board', {g})
  <2>1. AllMove(board, Proxy(board, a, client[a].tx.to, g), {g})
    BY <1>4, <1>9, PTypes, ProxyMoves
  <2>2. QED
    BY <1>1, <1>5, <2>1, Zenon
<1>11. Typed'
  BY <1>1, <1>10 DEF PInv, Typed, AllMove, Boards
<1>12. ASSUME NEW b \in Clients, NEW i \in Ids
       PROVE  \E p \in Goods : Carries(b, i, p)'
  <2>1. PICK p \in Goods : Carries(b, i, p)
    BY DEF PInv
  <2>2. FrameIs(g, b, i, p)
    <3>1. CASE b = a /\ i = j
      BY <1>6, <2>1, <3>1
    <3>2. CASE ~(b = a /\ i = j)
      BY <1>8, <3>2 DEF FrameIs
    <3>3. QED
      BY <3>1, <3>2
  <2>3. ASSUME NEW e \in Clients, NEW n \in 1..Len(board'[e].tx)
        PROVE  FrameIs(board'[e].tx[n], b, i, p)
    <3>1. \/ board'[e].tx[n] = g
          \/ \E m \in 1..Len(board[e].tx) : board'[e].tx[n] = board[e].tx[m]
      BY <1>10 DEF AllMove, Brings
    <3>2. \A m \in 1..Len(board[e].tx) : FrameIs(board[e].tx[m], b, i, p)
      BY <2>1 DEF Carries
    <3>3. QED
      BY <2>2, <3>1, <3>2
  <2>4. Carries(b, i, p)'
    BY <1>1, <2>1, <2>3 DEF Carries
  <2>5. QED
    BY <2>1, <2>4
<1>13. QED
  BY <1>11, <1>12 DEF PInv

-----------------------------------------------------------------------------
(* A frame is read                                                         *)

\* The frame at the head of the ring
LEMMA HeadTrue ==
  ASSUME PInv, NEW b \in Clients, board[b].tx # <<>>, NEW f, f = Head(board[b].tx)
  PROVE  /\ f \in Frames
         /\ \A a \in Clients, i \in Ids : \A p : Carries(a, i, p) => FrameIs(f, a, i, p)
<1>1. board[b].tx \in Seq(Frames)
  BY PTypes DEF Ring
<1>2. f \in Frames /\ f = board[b].tx[1] /\ Len(board[b].tx) \in Nat /\ Len(board[b].tx) # 0
  BY <1>1, HeadTailProperties, EmptySeq, LenProperties
<1>3. 1 \in 1..Len(board[b].tx)
  BY <1>2
<1>4. QED
  BY <1>2, <1>3 DEF Carries

\* What kind of frame it is
LEMMA FrameKinds ==
  ASSUME NEW f \in Frames
  PROVE  /\ f.type = "OFFER" => f \in Offers /\ f \notin Chunks
         /\ f.type = "CHUNK" => f \in Chunks /\ f \notin Offers
         /\ f.type \notin {"STATUS", "OFFER", "CHUNK"} => f \in Answers
  BY DEF Frames, Offers, Chunks, Answers

\* realloc
LEMMA GrownIs ==
  ASSUME NEW buf \in Seq(Cells), NEW total \in Nat
  PROVE  Grown(buf, total) \in Seq(Cells) /\ total <= Len(Grown(buf, total))
<1>1. PICK n : n = IF total > Len(buf) THEN total ELSE Len(buf)
  OBVIOUS
<1>2. Len(buf) \in Nat
  BY LenProperties
<1>3. n \in Nat /\ total <= n
  BY <1>1, <1>2
<1>4. PICK g : g = [i \in 1..n |-> IF i <= Len(buf) THEN buf[i] ELSE "heap"]
  OBVIOUS
<1>5. ASSUME NEW i \in 1..n
      PROVE  (IF i <= Len(buf) THEN buf[i] ELSE "heap") \in Cells
  <2>1. CASE i <= Len(buf)
    <3>1. i \in 1..Len(buf)
      BY <1>2, <1>3, <2>1
    <3>2. buf[i] \in Cells
      BY <3>1, ElementOfSeq
    <3>3. QED
      BY <2>1, <3>2
  <2>2. CASE ~(i <= Len(buf))
    BY <2>2 DEF Cells
  <2>3. QED
    BY <2>1, <2>2
<1>6. g \in [1..n -> Cells]
  BY <1>4, <1>5, Zenon
<1>7. g \in Seq(Cells) /\ Len(g) = n
  BY <1>3, <1>6
<1>8. Grown(buf, total) = g
  BY <1>1, <1>4, Zenon DEF Grown
<1>9. QED
  BY <1>3, <1>7, <1>8

\* on_offer
LEMMA OnOfferIs ==
  ASSUME NEW c \in Machine, NEW f \in Offers
  PROVE  /\ OnOffer(c, f) \in Machine
         /\ OnOffer(c, f).tx = c.tx /\ OnOffer(c, f).up = c.up
         /\ OnOffer(c, f).rx.kind = f.kind /\ OnOffer(c, f).rx.len = 0
         /\ f.total <= Len(OnOffer(c, f).rx.buf)
         /\ OnOffer(c, f).rx.buf \in Seq(Cells)
         /\ OnOffer(c, f).in[f.src] # None
         /\ OnOffer(c, f).in[f.src].id = f.id
         /\ OnOffer(c, f).in[f.src].total = f.total
         /\ OnOffer(c, f).in[f.src].got = 0
         /\ \A x \in Clients : x # f.src => OnOffer(c, f).in[x] = c.in[x]
         /\ Stays(c, OnOffer(c, f))
<1>1. f.src \in Clients /\ f.id \in Ids /\ f.kind \in Kinds /\ f.total \in Nat
  BY DEF Offers
<1>2. PICK g : g = Grown(c.rx.buf, f.total)
  OBVIOUS
<1>3. c.rx.buf \in Seq(Cells)
  BY DEF Machine
<1>4. g \in Seq(Cells) /\ f.total <= Len(g)
  BY <1>1, <1>2, <1>3, GrownIs
<1>5. PICK v : v = [kind |-> f.kind, buf |-> g, len |-> 0]
  OBVIOUS
<1>6. v \in [kind : Kinds, buf : Seq(Cells), len : Nat]
      /\ v.kind = f.kind /\ v.len = 0 /\ v.buf = g
  BY <1>1, <1>4, <1>5
<1>7. PICK s : s = [id |-> f.id, total |-> f.total, got |-> 0]
  OBVIOUS
<1>8. s \in Inbound /\ s.id = f.id /\ s.total = f.total /\ s.got = 0
  BY <1>1, <1>7 DEF Inbound
<1>9. s # None
  <2>1. s \in [id : Nat, total : Nat, got : Nat]
    BY <1>1, <1>7, ClientAssumption DEF Ids
  <2>2. QED
    BY <2>1, ClientAssumption
<1>10. PICK w : w = [c.in EXCEPT ![f.src] = s]
  OBVIOUS
<1>11. c.in \in [Clients -> Inbound \cup {None}]
  BY DEF Machine
<1>12. w \in [Clients -> Inbound \cup {None}] /\ w[f.src] = s
       /\ \A x \in Clients : x # f.src => w[x] = c.in[x]
  BY <1>1, <1>8, <1>10, <1>11
<1>13. PICK d : d = [c EXCEPT !.rx = v, !.in = w]
  OBVIOUS
<1>14. d \in Machine
  BY <1>6, <1>12, <1>13, FieldsTyped
<1>15. d.tx = c.tx /\ d.up = c.up /\ d.rx = v /\ d.in = w /\ Stays(c, d)
  BY <1>13 DEF Machine, Stays
<1>16. OnOffer(c, f) = d
  BY <1>2, <1>5, <1>7, <1>10, <1>13, Zenon DEF OnOffer
<1>17. QED
  BY <1>4, <1>6, <1>8, <1>9, <1>12, <1>14, <1>15, <1>16

\* Its sender starts on the chunks
LEMMA AcceptedIs ==
  ASSUME PInv, NEW a \in Clients, NEW f
  PROVE  /\ Accepted(a, f) \in [Clients -> Machine]
         /\ \A b \in Clients :
              LET c == Accepted(a, f)[b]
              IN  /\ Less(client[b], c) /\ c.up = client[b].up /\ Stays(client[b], c)
                  /\ c.rx = client[b].rx /\ c.in = client[b].in
                  /\ ~c.up => c.tx = None
<1>1. client \in [Clients -> Machine] /\ client[a] \in Machine
  BY PTypes
<1>2. ASSUME NEW b \in Clients
      PROVE  /\ Less(client[b], client[b]) /\ client[b] \in Machine
             /\ Stays(client[b], client[b])
             /\ ~client[b].up => client[b].tx = None
  BY DEF PInv, Typed, Less, Stays
<1>3. CASE client[a].tx # None /\ client[a].tx.id = f.id
  <2>1. PICK s : s = [client[a].tx EXCEPT !.state = "SENDING"]
    OBVIOUS
  <2>2. client[a].tx \in Outbound
    BY <1>1, <1>3 DEF Machine
  <2>3. /\ s \in Outbound /\ s.id = client[a].tx.id /\ s.to = client[a].tx.to
        /\ s.kind = client[a].tx.kind /\ s.data = client[a].tx.data
    BY <2>1, <2>2 DEF Outbound
  <2>4. PICK d : d = [client[a] EXCEPT !.tx = s]
    OBVIOUS
  <2>5. d \in Machine
    BY <1>1, <2>3, <2>4, FieldsTyped
  <2>6. d.tx = s /\ d.in = client[a].in /\ d.rx = client[a].rx /\ d.up = client[a].up
        /\ Stays(client[a], d)
    BY <1>1, <2>4 DEF Machine, Stays
  <2>7. Less(client[a], d)
    BY <1>3, <2>3, <2>6 DEF Less
  <2>8. d.up
    BY <1>2, <1>3, <2>6
  <2>9. PICK cs : cs = [client EXCEPT ![a] = d]
    OBVIOUS
  <2>10. cs \in [Clients -> Machine] /\ \A b \in Clients : cs[b] = IF b = a THEN d ELSE client[b]
    BY <1>1, <2>5, <2>9
  <2>11. Accepted(a, f) = cs
    <3>1. Accepted(a, f) = [client EXCEPT ![a].tx.state = "SENDING"]
      BY <1>3, Zenon DEF Accepted
    <3>2. QED
      BY <2>1, <2>4, <2>9, <3>1, Zenon
  <2>12. QED
    BY <1>2, <2>6, <2>7, <2>8, <2>10, <2>11
<1>4. CASE ~(client[a].tx # None /\ client[a].tx.id = f.id)
  <2>1. Accepted(a, f) = client
    BY <1>4, Zenon DEF Accepted
  <2>2. QED
    BY <1>1, <1>2, <2>1
<1>5. QED
  BY <1>3, <1>4

\* A receiver takes up a stream or the next of it: what it holds is told
\* for the one stream it is receiving
LEMMA TakeStep ==
  ASSUME PInv, OneSender', NEW b \in Clients, NEW a \in Clients, NEW i \in Ids,
         NEW cs \in [Clients -> Machine], NEW d \in Machine,
         \A e \in Clients : /\ Less(client[e], cs[e])
                            /\ cs[e].rx = client[e].rx
                            /\ ~cs[e].up => cs[e].tx = None,
         client' = [cs EXCEPT ![b] = d],
         d.tx = cs[b].tx, d.up = cs[b].up, d.rx.len <= Len(d.rx.buf),
         d.in[a] # None, d.in[a].id = i,
         \A p \in Goods : Carries(a, i, p) => HeldIs(d, a, i, p),
         AllMove(board, board', Quiet), acts' = acts, faults' = faults
  PROVE  PInv'
<1>1. client' \in [Clients -> Machine]
      /\ \A e \in Clients : client'[e] = IF e = b THEN d ELSE cs[e]
  OBVIOUS
<1>2. Typed'
  <2>1. \A e \in Clients : client[e].rx.len <= Len(client[e].rx.buf)
    BY DEF PInv, Typed
  <2>2. \A e \in Clients : client'[e].rx.len <= Len(client'[e].rx.buf)
                            /\ (~client'[e].up => client'[e].tx = None)
    BY <1>1, <2>1
  <2>3. board' \in [Clients -> Ring(Frames)]
    BY DEF AllMove, Boards
  <2>4. acts' \in 0..MaxActs /\ faults' \in 0..MaxFaults
    BY PTypes
  <2>5. QED
    BY <1>1, <2>2, <2>3, <2>4 DEF Typed
<1>3. \A c \in Clients : d.in[c] # None => c = a
  <2>1. client'[b] = d
    BY <1>1
  <2>2. QED
    BY <2>1 DEF OneSender
<1>4. ASSUME NEW c \in Clients, NEW j \in Ids
      PROVE  \E p \in Goods : Carries(c, j, p)'
  <2>1. PICK p \in Goods : Carries(c, j, p)
    BY DEF PInv
  <2>2. SentIs(client'[c], j, p)
    <3>1. SentIs(client[c], j, p) /\ Less(client[c], cs[c])
      BY <2>1 DEF Carries
    <3>2. client'[c].tx = cs[c].tx
      BY <1>1
    <3>3. QED
      BY <3>1, <3>2 DEF SentIs, Less
  <2>3. ASSUME NEW e \in Clients
        PROVE  HeldIs(client'[e], c, j, p)
    <3>1. CASE e = b
      <4>1. client'[e] = d
        BY <1>1, <3>1
      <4>2. CASE c = a /\ j = i
        BY <2>1, <4>1, <4>2
      <4>3. CASE ~(c = a /\ j = i)
        <5>1. d.in[c] = None \/ d.in[c].id # j
          BY <1>3, <4>3
        <5>2. HeldIs(d, c, j, p)
          BY <5>1 DEF HeldIs
        <5>3. QED
          BY <4>1, <5>2, Zenon
      <4>4. QED
        BY <4>2, <4>3
    <3>2. CASE e # b
      <4>1. client'[e] = cs[e] /\ HeldIs(client[e], c, j, p) /\ Less(client[e], cs[e])
        BY <1>1, <2>1, <3>2 DEF Carries
      <4>2. cs[e].in[c] # None => cs[e].in[c] = client[e].in[c] /\ cs[e].rx = client[e].rx
        BY <4>1 DEF Less
      <4>3. HeldIs(cs[e], c, j, p)
        BY <4>1, <4>2, HeldOn
      <4>4. QED
        BY <4>1, <4>3, Zenon
    <3>3. QED
      BY <3>1, <3>2
  <2>4. ASSUME NEW e \in Clients, NEW n \in 1..Len(board'[e].tx)
        PROVE  FrameIs(board'[e].tx[n], c, j, p)
    <3>1. \/ board'[e].tx[n] \in Quiet
          \/ \E m \in 1..Len(board[e].tx) : board'[e].tx[n] = board[e].tx[m]
      BY DEF AllMove, Brings
    <3>2. CASE board'[e].tx[n] \in Quiet
      BY <3>2, QuietFrames DEF FrameIs
    <3>3. CASE \E m \in 1..Len(board[e].tx) : board'[e].tx[n] = board[e].tx[m]
      BY <2>1, <3>3, Zenon DEF Carries
    <3>4. QED
      BY <3>1, <3>2, <3>3
  <2>5. Carries(c, j, p)'
    BY <2>2, <2>3, <2>4 DEF Carries
  <2>6. QED
    BY <2>1, <2>5
<1>5. QED
  BY <1>2, <1>4 DEF PInv

\* An OFFER
LEMMA TakeOfferP ==
  ASSUME PInv, OneSender', NEW b \in Clients, board[b].tx # <<>>,
         NEW f \in Offers, f = Head(board[b].tx), TakeOffer(b, f),
         acts' = acts, faults' = faults
  PROVE  PInv'
<1>1. f.src \in Clients /\ f.id \in Ids /\ f.kind \in Kinds /\ f.total \in Nat
  BY DEF Offers
<1>2. CASE Refuses(b, f.kind)
  <2>1. board' = Reply(b, f.src, "REJECT", f) /\ client' = client
    BY <1>2, Zenon DEF TakeOffer
  <2>2. AllMove(board, Reply(b, f.src, "REJECT", f), Quiet)
    BY <1>1, PTypes, ReplyMoves
  <2>3. AllMove(board, board', Quiet)
    BY <2>1, <2>2, Zenon
  <2>4. Typed'
    BY <2>1, <2>3 DEF PInv, Typed, AllMove, Boards
  <2>5. \A e \in Clients : Less(client[e], client'[e])
    BY <2>1 DEF Less
  <2>6. QED
    BY <2>3, <2>4, <2>5, QuietStep
<1>3. CASE ~Refuses(b, f.kind)
  <2>1. /\ client' = [Accepted(f.src, f) EXCEPT ![b] = OnOffer(@, f)]
        /\ board' = [board EXCEPT ![b].tx = Tail(@), ![b].silent = 0]
    BY <1>3, Zenon DEF TakeOffer
  <2>2. AllMove(board, board', Quiet)
    BY <2>1, PTypes, TakenMoves, Zenon
  <2>3. PICK a, i : a = f.src /\ i = f.id
    OBVIOUS
  <2>4. PICK cs : cs = Accepted(a, f)
    OBVIOUS
  <2>5. /\ cs \in [Clients -> Machine]
        /\ \A e \in Clients : /\ Less(client[e], cs[e]) /\ cs[e].rx = client[e].rx
                              /\ ~cs[e].up => cs[e].tx = None
    BY <1>1, <2>3, <2>4, AcceptedIs, SMTT(60)
  <2>6. PICK d : d = OnOffer(cs[b], f)
    OBVIOUS
  <2>7. cs[b] \in Machine
    BY <2>5
  <2>8. /\ d \in Machine /\ d.tx = cs[b].tx /\ d.up = cs[b].up
        /\ d.rx.kind = f.kind /\ d.rx.len = 0 /\ f.total <= Len(d.rx.buf)
        /\ d.rx.buf \in Seq(Cells)
        /\ d.in[a] # None /\ d.in[a].id = i
        /\ d.in[a].total = f.total /\ d.in[a].got = 0
    BY <2>3, <2>6, <2>7, OnOfferIs
  <2>9. client' = [cs EXCEPT ![b] = d]
    BY <2>1, <2>3, <2>4, <2>6, Zenon
  <2>10. d.rx.len <= Len(d.rx.buf)
    BY <1>1, <2>8, LenProperties
  <2>11. ASSUME NEW p \in Goods, Carries(a, i, p)
         PROVE  HeldIs(d, a, i, p)
    <3>1. FrameIs(f, a, i, p)
      BY <1>1, <2>3, <2>11, HeadTrue
    <3>2. f.kind = p[1] /\ f.total = Len(p[2])
      BY <2>3, <3>1 DEF FrameIs
    <3>3. 0 < Len(p[2])
      <4>1. p[2] \in Contents /\ p[2] \in Seq(STRING) /\ p[2] # <<>>
        <5>1. p # Nothing
          BY <1>1, <3>2 DEF Nothing, Kinds
        <5>2. p[2] \in Contents
          BY <5>1 DEF Goods, Contents
        <5>3. QED
          BY <5>2, ClientAssumption DEF Contents
      <4>2. QED
        BY <4>1, EmptySeq, LenProperties
    <3>4. PICK s : s = d.in[a]
      OBVIOUS
    <3>5. /\ d.rx.kind = p[1] /\ s.total = Len(p[2]) /\ d.rx.len = s.got
          /\ s.got < s.total /\ s.total <= Len(d.rx.buf)
          /\ \A n \in 1..s.got : d.rx.buf[n] = p[2][n]
      BY <2>8, <3>2, <3>3, <3>4
    <3>6. QED
      BY <3>4, <3>5, Zenon DEF HeldIs
  <2>12. a \in Clients /\ i \in Ids
    BY <1>1, <2>3
  <2>13. QED
    BY <2>2, <2>5, <2>8, <2>9, <2>10, <2>11, <2>12, TakeStep, ZenonT(60)
<1>4. QED
  BY <1>2, <1>3

\* on_chunk
LEMMA OnChunkIs ==
  ASSUME NEW c \in Machine, NEW f \in Chunks, c.in[f.src] # None,
         f.seq \in 1..Len(c.rx.buf)
  PROVE  /\ OnChunk(c, f) \in Machine
         /\ OnChunk(c, f).tx = c.tx /\ OnChunk(c, f).up = c.up
         /\ OnChunk(c, f).rx.kind = c.rx.kind
         /\ OnChunk(c, f).rx.len = IF f.seq > c.rx.len THEN f.seq ELSE c.rx.len
         /\ OnChunk(c, f).rx.buf = [c.rx.buf EXCEPT ![f.seq] = f.data]
         /\ Len(OnChunk(c, f).rx.buf) = Len(c.rx.buf)
         /\ OnChunk(c, f).in[f.src].id = c.in[f.src].id
         /\ OnChunk(c, f).in[f.src].total = c.in[f.src].total
         /\ OnChunk(c, f).in[f.src].got = f.seq
         /\ OnChunk(c, f).in[f.src] # None
         /\ \A x \in Clients : x # f.src => OnChunk(c, f).in[x] = c.in[x]
         /\ Stays(c, OnChunk(c, f))
<1>1. f.src \in Clients /\ f.seq \in Nat /\ f.data \in Cells
  BY DEF Chunks, Cells
<1>2. c.in \in [Clients -> Inbound \cup {None}] /\ c.in[f.src] \in Inbound
  BY <1>1 DEF Machine
<1>3. c.rx.buf \in Seq(Cells) /\ c.rx.len \in Nat /\ c.rx.kind \in Kinds
      /\ c.rx \in [kind : Kinds, buf : Seq(Cells), len : Nat]
  BY DEF Machine
<1>4. PICK g : g = [c.rx.buf EXCEPT ![f.seq] = f.data]
  OBVIOUS
<1>5. g \in Seq(Cells) /\ Len(g) = Len(c.rx.buf)
  BY <1>1, <1>3, <1>4, ExceptSeq
<1>6. PICK m : m = IF f.seq > c.rx.len THEN f.seq ELSE c.rx.len
  OBVIOUS
<1>7. m \in Nat
  BY <1>1, <1>3, <1>6
<1>8. PICK v : v = [c.rx EXCEPT !.buf = g, !.len = m]
  OBVIOUS
<1>9. v \in [kind : Kinds, buf : Seq(Cells), len : Nat]
      /\ v.kind = c.rx.kind /\ v.len = m /\ v.buf = g
  BY <1>3, <1>5, <1>7, <1>8
<1>10. PICK s : s = [c.in[f.src] EXCEPT !.got = f.seq]
  OBVIOUS
<1>11. /\ s \in Inbound /\ s.id = c.in[f.src].id /\ s.total = c.in[f.src].total
       /\ s.got = f.seq
  BY <1>1, <1>2, <1>10 DEF Inbound
<1>12. s # None
  <2>1. s \in [id : Nat, total : Nat, got : Nat]
    BY <1>11, ClientAssumption DEF Inbound, Ids
  <2>2. QED
    BY <2>1, ClientAssumption
<1>13. PICK w : w = [c.in EXCEPT ![f.src] = s]
  OBVIOUS
<1>14. w \in [Clients -> Inbound \cup {None}] /\ w[f.src] = s
       /\ \A x \in Clients : x # f.src => w[x] = c.in[x]
  BY <1>1, <1>2, <1>11, <1>13
<1>15. PICK d : d = [c EXCEPT !.rx = v, !.in = w]
  OBVIOUS
<1>16. d \in Machine
  BY <1>9, <1>14, <1>15, FieldsTyped
<1>17. d.tx = c.tx /\ d.up = c.up /\ d.rx = v /\ d.in = w /\ Stays(c, d)
  BY <1>15 DEF Machine, Stays
<1>18. OnChunk(c, f) = d
  <2>1. PICK c1 : c1 = [c EXCEPT !.rx.buf[f.seq] = f.data]
    OBVIOUS
  <2>2. PICK r1 : r1 = [c.rx EXCEPT !.buf = g]
    OBVIOUS
  <2>3. c1 = [c EXCEPT !.rx = r1]
    BY <1>4, <2>1, <2>2, Zenon
  <2>4. c1.rx = r1 /\ r1.len = c.rx.len /\ c1.in = c.in
    BY <1>3, <2>2, <2>3 DEF Machine
  <2>5. v = [r1 EXCEPT !.len = m]
    BY <1>3, <1>8, <2>2
  <2>6. PICK c2 : c2 = [c1 EXCEPT !.rx.len = IF f.seq > @ THEN f.seq ELSE @]
    OBVIOUS
  <2>7. c2 = [c1 EXCEPT !.rx = v]
    <3>1. PICK l : l = IF f.seq > c1.rx.len THEN f.seq ELSE c1.rx.len
      OBVIOUS
    <3>2. l = m
      BY <1>6, <2>4, <3>1
    <3>3. c2 = [c1 EXCEPT !.rx.len = l]
      BY <2>6, <3>1, Zenon
    <3>4. c2 = [c1 EXCEPT !.rx = [c1.rx EXCEPT !.len = l]]
      BY <3>3, Zenon
    <3>5. QED
      BY <2>4, <2>5, <3>2, <3>4, Zenon
  <2>8. c2 = [c EXCEPT !.rx = v]
    BY <2>3, <2>7 DEF Machine
  <2>9. c2.in = c.in
    BY <2>8 DEF Machine
  <2>10. PICK c3 : c3 = [c2 EXCEPT !.in[f.src].got = f.seq]
    OBVIOUS
  <2>11. c3 = [c2 EXCEPT !.in = w]
    <3>1. c3 = [c2 EXCEPT !.in = [c2.in EXCEPT ![f.src] = [c2.in[f.src] EXCEPT !.got = f.seq]]]
      BY <2>10, Zenon
    <3>2. QED
      BY <1>10, <1>13, <2>9, <3>1, Zenon
  <2>12. c3 = d
    BY <1>15, <2>8, <2>11 DEF Machine
  <2>13. OnChunk(c, f) = c3
    BY <2>1, <2>6, <2>10, Zenon DEF OnChunk
  <2>14. QED
    BY <2>12, <2>13
<1>19. QED
  BY <1>4, <1>5, <1>6, <1>9, <1>11, <1>12, <1>14, <1>16, <1>17, <1>18

\* on_received, and the stream is over
Ended(c, a, h) == [OnReceived(c, h) EXCEPT !.in[a] = None]

\* The end of a stream leaves everything but its own rx_buf and the heap
LEMMA EndedIs ==
  ASSUME NEW c \in Machine, NEW a \in Clients, NEW h
  PROVE  /\ Ended(c, a, h).tx = c.tx /\ Ended(c, a, h).up = c.up
         /\ Ended(c, a, h).rx = c.rx
         /\ \A x \in Clients : Ended(c, a, h).in[x] = IF x = a THEN None ELSE c.in[x]
         /\ Ended(c, a, h).peer = c.peer /\ Ended(c, a, h).next_id = c.next_id
         /\ \/ Ended(c, a, h).clip = c.clip /\ Ended(c, a, h).last_clip = c.last_clip
            \/ Ended(c, a, h).clip = Ended(c, a, h).last_clip
<1>1. PICK x, o : x = Reassembled(c) /\ o = c.outdir \cup {x}
  OBVIOUS
<1>2. PICK e : e = OnReceived(c, h)
  OBVIOUS
<1>3. \/ e = [c EXCEPT !.clip = x, !.last_clip = x]
      \/ e = [c EXCEPT !.outdir = o]
      \/ e = c
  BY <1>1, <1>2, Zenon DEF OnReceived
<1>4. /\ e.tx = c.tx /\ e.up = c.up /\ e.rx = c.rx /\ e.in = c.in
      /\ e.peer = c.peer /\ e.next_id = c.next_id
      /\ \/ e.clip = c.clip /\ e.last_clip = c.last_clip
         \/ e.clip = e.last_clip
      /\ DOMAIN e = DOMAIN c
  BY <1>3 DEF Machine
<1>5. PICK w : w = [e.in EXCEPT ![a] = None]
  OBVIOUS
<1>6. \A y \in Clients : w[y] = IF y = a THEN None ELSE e.in[y]
  BY <1>4, <1>5 DEF Machine
<1>7. PICK d : d = [e EXCEPT !.in = w]
  OBVIOUS
<1>8. /\ d.tx = e.tx /\ d.up = e.up /\ d.rx = e.rx /\ d.in = w
      /\ d.peer = e.peer /\ d.next_id = e.next_id
      /\ d.clip = e.clip /\ d.last_clip = e.last_clip
  BY <1>4, <1>7 DEF Machine
<1>9. Ended(c, a, h) = d
  BY <1>2, <1>5, <1>7, Zenon DEF Ended
<1>10. QED
  BY <1>4, <1>6, <1>8, <1>9

\* with what fits where it goes
LEMMA ReceivedIs ==
  ASSUME NEW c \in Machine, NEW a \in Clients, NEW h,
         c.rx.kind = "TEXT" => Reassembled(c) \in Texts,
         c.rx.kind # "TEXT" => Reassembled(c) \in Files
  PROVE  Ended(c, a, h) \in Machine
<1>1. PICK x : x = Reassembled(c)
  OBVIOUS
<1>2. PICK e : e = OnReceived(c, h)
  OBVIOUS
<1>3. e \in Machine
  <2>1. CASE c.rx.kind = "TEXT" /\ h
    <3>1. e = [c EXCEPT !.clip = x, !.last_clip = x]
      BY <1>1, <1>2, <2>1, Zenon DEF OnReceived
    <3>2. x \in Texts
      BY <1>1, <2>1
    <3>3. QED
      BY <3>1, <3>2, FieldsTyped
  <2>2. CASE c.rx.kind = "TEXT" /\ ~h
    <3>1. e = c
      BY <1>2, <2>2, Zenon DEF OnReceived
    <3>2. QED
      BY <3>1
  <2>3. CASE c.rx.kind # "TEXT"
    <3>1. PICK o : o = c.outdir \cup {x}
      OBVIOUS
    <3>2. e = [c EXCEPT !.outdir = o]
      BY <1>1, <1>2, <2>3, <3>1, Zenon DEF OnReceived
    <3>3. x \in Files
      BY <1>1, <2>3
    <3>4. o \in SUBSET Files
      BY <3>1, <3>3 DEF Machine
    <3>5. QED
      BY <3>2, <3>4, FieldsTyped
  <2>4. QED
    BY <2>1, <2>2, <2>3
<1>4. PICK w : w = [e.in EXCEPT ![a] = None]
  OBVIOUS
<1>5. w \in [Clients -> Inbound \cup {None}]
  BY <1>3, <1>4 DEF Machine
<1>6. PICK d : d = [e EXCEPT !.in = w]
  OBVIOUS
<1>7. d \in Machine
  BY <1>3, <1>5, <1>6, FieldsTyped
<1>8. Ended(c, a, h) = d
  BY <1>2, <1>4, <1>6, Zenon DEF Ended
<1>9. QED
  BY <1>7, <1>8

\* A CHUNK
LEMMA TakeChunkP ==
  ASSUME PInv, OneSender, OneSender', NEW b \in Clients, board[b].tx # <<>>,
         NEW f \in Chunks, f = Head(board[b].tx), TakeChunk(b, f),
         acts' = acts, faults' = faults
  PROVE  PInv'
<1>1. f.src \in Clients /\ f.id \in Ids /\ f.seq \in Nat /\ f.data \in STRING
      /\ f \notin Offers
  BY DEF Chunks, Offers
<1>2. PICK a, i, s : a = f.src /\ i = f.id /\ s = client[b].in[a]
  OBVIOUS
<1>3. PICK c : c = OnChunk(client[b], f)
  OBVIOUS
<1>4. PICK drop : drop = [board EXCEPT ![b].tx = Tail(@)]
  OBVIOUS
<1>5. AllMove(board, drop, Quiet) /\ drop \in Boards
  BY <1>4, PTypes, TakenMoves DEF AllMove
<1>6. IF s = None \/ s.id # i \/ f.seq # s.got + 1
      THEN board' = drop /\ client' = client
      ELSE IF f.seq < s.total
      THEN Update(b, c) /\ board' = [drop EXCEPT ![b].silent = 0]
      ELSE /\ Update(b, [OnReceived(c, b \in Helpers) EXCEPT !.in[a] = None])
           /\ board' = Reply(b, a, "DONE", f)
  BY <1>2, <1>3, <1>4, Zenon DEF TakeChunk
<1>7. CASE s = None \/ s.id # i \/ f.seq # s.got + 1
  <2>1. board' = drop /\ client' = client
    BY <1>6, <1>7, Zenon
  <2>2. AllMove(board, board', Quiet)
    BY <1>5, <2>1
  <2>3. Typed'
    BY <2>1, <2>2 DEF PInv, Typed, AllMove, Boards
  <2>4. \A e \in Clients : Less(client[e], client'[e])
    BY <2>1 DEF Less
  <2>5. QED
    BY <2>2, <2>3, <2>4, QuietStep
<1>8. CASE s # None /\ s.id = i /\ f.seq = s.got + 1
  <2>1. client[b] \in Machine /\ client \in [Clients -> Machine]
    BY PTypes
  <2>2. s \in Inbound
    BY <1>1, <1>2, <1>8, <2>1 DEF Machine
  <2>3. PICK p \in Goods : Carries(a, i, p)
    BY <1>1, <1>2 DEF PInv
  <2>4. /\ client[b].rx.kind = p[1] /\ s.total = Len(p[2]) /\ client[b].rx.len = s.got
        /\ s.got < s.total /\ s.total <= Len(client[b].rx.buf)
        /\ \A n \in 1..s.got : client[b].rx.buf[n] = p[2][n]
    <3>1. HeldIs(client[b], a, i, p)
      BY <2>3 DEF Carries
    <3>2. QED
      BY <1>2, <1>8, <3>1, Zenon DEF HeldIs
  <2>5. Len(client[b].rx.buf) \in Nat /\ s.got \in Nat /\ s.total \in Nat
        /\ client[b].rx.buf \in Seq(Cells)
    BY <2>1, <2>2, LenProperties DEF Machine, Inbound
  <2>6. f.seq \in 1..Len(client[b].rx.buf) /\ f.seq \in 1..s.total
    BY <1>1, <1>8, <2>4, <2>5
  <2>7. /\ c \in Machine /\ c.tx = client[b].tx /\ c.up = client[b].up
        /\ c.rx.kind = client[b].rx.kind
        /\ c.rx.len = IF f.seq > client[b].rx.len THEN f.seq ELSE client[b].rx.len
        /\ c.rx.buf = [client[b].rx.buf EXCEPT ![f.seq] = f.data]
        /\ Len(c.rx.buf) = Len(client[b].rx.buf)
        /\ c.in[a].id = s.id /\ c.in[a].total = s.total /\ c.in[a].got = f.seq
        /\ c.in[a] # None
        /\ \A x \in Clients : x # a => c.in[x] = client[b].in[x]
    BY <1>2, <1>3, <1>8, <2>1, <2>6, OnChunkIs, ZenonT(60)
  <2>8. c.rx.len = f.seq
    BY <1>8, <2>4, <2>5, <2>7
  \* what is held after it is the same good's
  <2>9. ASSUME NEW q \in Goods, Carries(a, i, q)
        PROVE  /\ client[b].rx.kind = q[1] /\ s.total = Len(q[2])
               /\ \A n \in 1..f.seq : c.rx.buf[n] = q[2][n]
    <3>1. HeldIs(client[b], a, i, q)
      BY <2>9 DEF Carries
    <3>2. /\ client[b].rx.kind = q[1] /\ s.total = Len(q[2])
          /\ \A n \in 1..s.got : client[b].rx.buf[n] = q[2][n]
      BY <1>2, <1>8, <3>1, Zenon DEF HeldIs
    <3>3. FrameIs(f, a, i, q)
      BY <1>1, <1>2, <2>9, HeadTrue
    <3>4. f.data = q[2][f.seq]
      BY <1>2, <3>3 DEF FrameIs
    <3>5. ASSUME NEW n \in 1..f.seq
          PROVE  c.rx.buf[n] = q[2][n]
      <4>1. n \in 1..Len(client[b].rx.buf) /\ (n = f.seq \/ n \in 1..s.got)
        BY <1>8, <2>5, <2>6
      <4>2. c.rx.buf[n] = IF n = f.seq THEN f.data ELSE client[b].rx.buf[n]
        BY <2>5, <2>7, <4>1
      <4>3. QED
        BY <3>2, <3>4, <4>1, <4>2
    <3>6. QED
      BY <3>2, <3>5
  <2>10. ASSUME NEW e \in Clients
         PROVE  /\ Less(client[e], client[e]) /\ client[e].rx = client[e].rx
                /\ ~client[e].up => client[e].tx = None
    BY DEF Less, PInv, Typed
  <2>11. CASE f.seq < s.total
    <3>1. client' = [client EXCEPT ![b] = c] /\ board' = [drop EXCEPT ![b].silent = 0]
      BY <1>6, <1>8, <2>11 DEF Update
    <3>2. AllMove(drop, [drop EXCEPT ![b].silent = 0], Quiet)
      BY <1>5, TakenMoves
    <3>3. AllMove(board, board', Quiet)
      BY <1>5, <3>1, <3>2, AllMoveOn
    <3>4. c.rx.len <= Len(c.rx.buf)
      BY <2>6, <2>7, <2>8
    <3>5. ASSUME NEW q \in Goods, Carries(a, i, q)
          PROVE  HeldIs(c, a, i, q)
      <4>1. PICK t : t = c.in[a]
        OBVIOUS
      <4>2. s.total <= Len(c.rx.buf)
        BY <2>4, <2>7
      <4>3. /\ client[b].rx.kind = q[1] /\ s.total = Len(q[2])
            /\ \A n \in 1..f.seq : c.rx.buf[n] = q[2][n]
        BY <2>9, <3>5
      <4>4. /\ c.rx.kind = q[1] /\ t.total = Len(q[2]) /\ c.rx.len = t.got
            /\ t.got < t.total /\ t.total <= Len(c.rx.buf)
            /\ \A n \in 1..t.got : c.rx.buf[n] = q[2][n]
        BY <2>7, <2>8, <2>11, <4>1, <4>2, <4>3
      <4>5. QED
        BY <4>1, <4>4, Zenon DEF HeldIs
    <3>6. a \in Clients /\ i \in Ids /\ c.in[a].id = i
      BY <1>1, <1>2, <1>8, <2>7
    <3>7. PICK cs : cs = client
      OBVIOUS
    <3>8. /\ cs \in [Clients -> Machine]
          /\ \A e \in Clients : /\ Less(client[e], cs[e])
                                /\ cs[e].rx = client[e].rx
                                /\ ~cs[e].up => cs[e].tx = None
      BY <2>1, <2>10, <3>7
    <3>9. client' = [cs EXCEPT ![b] = c] /\ c.tx = cs[b].tx /\ c.up = cs[b].up
      BY <2>7, <3>1, <3>7
    <3>10. c \in Machine /\ c.in[a] # None
      BY <2>7
    <3>11. QED
      BY <3>3, <3>4, <3>5, <3>6, <3>8, <3>9, <3>10, TakeStep
  <2>12. CASE ~(f.seq < s.total)
    <3>1. PICK d : d = [OnReceived(c, b \in Helpers) EXCEPT !.in[a] = None]
      OBVIOUS
    <3>2. client' = [client EXCEPT ![b] = d] /\ board' = Reply(b, a, "DONE", f)
      BY <1>6, <1>8, <2>12, <3>1, Zenon DEF Update
    <3>3. AllMove(board, Reply(b, a, "DONE", f), Quiet)
      BY <1>1, <1>2, PTypes, ReplyMoves
    <3>4. AllMove(board, board', Quiet)
      BY <3>2, <3>3, Zenon
    <3>5. f.seq = Len(p[2])
      BY <2>4, <2>5, <2>6, <2>12
    <3>6. p # Nothing /\ p[2] \in Seq(STRING)
      <4>1. p[1] \in Kinds
        BY <2>1, <2>4 DEF Machine
      <4>2. p # Nothing
        BY <4>1 DEF Nothing, Kinds
      <4>3. p[2] \in Texts \cup Files
        BY <4>2 DEF Goods
      <4>4. QED
        BY <4>2, <4>3, ClientAssumption
    <3>7. Reassembled(c) = p[2]
      <4>1. PICK r : r = SubSeq(c.rx.buf, 1, f.seq)
        OBVIOUS
      <4>2. c.rx.buf \in Seq(Cells) /\ f.seq \in 1..Len(c.rx.buf)
        BY <2>6, <2>7 DEF Machine
      <4>3. /\ r \in Seq(Cells) /\ Len(r) = f.seq
            /\ \A n \in 1..f.seq : r[n] = c.rx.buf[n]
        <5>1. Len(c.rx.buf) \in Nat
          BY <4>2, LenProperties
        <5>2. QED
          BY <4>1, <4>2, <5>1
      <4>4. \A n \in 1..f.seq : r[n] = p[2][n]
        BY <2>3, <2>9, <4>3
      <4>5. r = p[2]
        <5>1. p[2] \in Seq(Cells)
          BY <3>6, SeqMonotonic DEF Cells
        <5>2. QED
          BY <3>5, <4>3, <4>4, <5>1, SeqEqual
      <4>6. QED
        BY <2>8, <4>1, <4>5 DEF Reassembled
    <3>8. /\ c.rx.kind = "TEXT" => Reassembled(c) \in Texts
          /\ c.rx.kind # "TEXT" => Reassembled(c) \in Files
      <4>1. c.rx.kind = p[1]
        BY <2>4, <2>7
      <4>2. QED
        BY <3>6, <3>7, <4>1 DEF Goods
    <3>9. /\ d \in Machine /\ d.tx = c.tx /\ d.up = c.up /\ d.rx = c.rx
          /\ \A x \in Clients : d.in[x] = IF x = a THEN None ELSE c.in[x]
      <4>1. PICK h : h = (b \in Helpers)
        OBVIOUS
      <4>2. d = Ended(c, a, h)
        BY <3>1, <4>1, Zenon DEF Ended
      <4>3. a \in Clients /\ c \in Machine
        BY <1>1, <1>2, <2>7
      <4>4. QED
        BY <3>8, <4>2, <4>3, EndedIs, ReceivedIs
    <3>10. Less(client[b], d)
      <4>1. \A x \in Clients : d.in[x] = None
        <5>1. \A x \in Clients : client[b].in[x] # None => x = a
          BY <1>1, <1>2, <1>8 DEF OneSender
        <5>2. QED
          BY <2>7, <3>9, <5>1
      <4>2. d.tx = client[b].tx
        BY <2>7, <3>9
      <4>3. QED
        BY <4>1, <4>2 DEF Less
    <3>11. d.rx.len <= Len(d.rx.buf) /\ (~d.up => d.tx = None)
      BY <2>6, <2>7, <2>8, <2>10, <3>9
    <3>12. acts' \in 0..MaxActs /\ faults' \in 0..MaxFaults
      BY PTypes
    <3>13. QED
      BY <3>2, <3>4, <3>9, <3>10, <3>11, <3>12, QuietOne
  <2>13. QED
    BY <2>11, <2>12
<1>9. QED
  BY <1>7, <1>8

\* A DONE, a REJECT or an ABORT
LEMMA AnswerIs ==
  ASSUME PInv, NEW a \in Clients, board[a].tx # <<>>, NEW f, TakeAnswer(a, f)
  PROVE  \E d : /\ Drops(client[a], d) /\ client' = [client EXCEPT ![a] = d]
                /\ AllMove(board, board', Quiet)
<1>1. board' = [board EXCEPT ![a].tx = Tail(@)]
  BY Zenon DEF TakeAnswer
<1>2. AllMove(board, board', Quiet)
  BY <1>1, PTypes, TakenMoves, Zenon
<1>3. PICK e : e = Ends(client[a], f)
  OBVIOUS
<1>4. Drops(client[a], Ends(client[a], f))
  BY PTypes, EndsDrops
<1>5. Drops(client[a], e)
  BY <1>3, <1>4, Zenon
<1>6. e \in Machine
  BY <1>5 DEF Drops
<1>7. Drops(client[a], Ends(e, f))
  BY <1>5, <1>6, EndsDrops, DropsOn
<1>8. PICK d : /\ d \in {Ends(client[a], f), Ends(Ends(client[a], f), f)}
               /\ client' = [client EXCEPT ![a] = d]
  BY Zenon DEF TakeAnswer, Update
<1>9. d = e \/ d = Ends(e, f)
  BY <1>3, <1>8, Zenon
<1>10. Drops(client[a], d)
  BY <1>5, <1>7, <1>9, Zenon
<1>11. QED
  BY <1>2, <1>8, <1>10, Zenon

LEMMA TakeAnswerP ==
  ASSUME PInv, NEW a \in Clients, board[a].tx # <<>>, NEW f, TakeAnswer(a, f),
         acts' = acts, faults' = faults
  PROVE  PInv'
  BY AnswerIs, DropsP

\* Read
LEMMA ReadP ==
  ASSUME PInv, OneSender, OneSender', NEW a \in Clients, Read(a)
  PROVE  PInv'
<1>1. board[a].tx # <<>> /\ acts' = acts /\ faults' = faults
  BY DEF Read
<1>2. PICK f : f = Head(board[a].tx)
  OBVIOUS
<1>3. f \in Frames
  BY <1>1, <1>2, HeadTrue
<1>4. \/ /\ Update(a, [client[a] EXCEPT !.adopted = TRUE])
         /\ board' = [board EXCEPT ![a].tx = Tail(@)]
      \/ /\ board' = [board EXCEPT ![a].tx = Tail(@), ![a].silent = 0]
         /\ client' = client
      \/ /\ f.type # "STATUS"
         /\ CASE f.type = "OFFER" -> TakeOffer(a, f)
              [] f.type = "CHUNK" -> TakeChunk(a, f)
              [] OTHER            -> TakeAnswer(a, f)
  BY <1>2, Zenon DEF Read
<1>5. CASE /\ Update(a, [client[a] EXCEPT !.adopted = TRUE])
           /\ board' = [board EXCEPT ![a].tx = Tail(@)]
  <2>1. AllMove(board, board', Quiet)
    BY <1>1, <1>5, PTypes, TakenMoves, Zenon
  <2>2. PICK d : d = [client[a] EXCEPT !.adopted = TRUE]
    OBVIOUS
  <2>3. client[a] \in Machine
    BY PTypes
  <2>4. d \in Machine
    BY <2>2, <2>3, FieldsTyped
  <2>5. Else(client[a], d) /\ d.up = client[a].up
    BY <2>2, <2>3 DEF Machine, Else
  <2>6. client' = [client EXCEPT ![a] = d]
    BY <1>5, <2>2, Zenon DEF Update
  <2>7. QED
    BY <1>1, <2>1, <2>4, <2>5, <2>6, PTypes, ElseStep
<1>6. CASE /\ board' = [board EXCEPT ![a].tx = Tail(@), ![a].silent = 0]
           /\ client' = client
  <2>1. AllMove(board, board', Quiet)
    BY <1>1, <1>6, PTypes, TakenMoves, Zenon
  <2>2. Typed'
    BY <1>1, <1>6, <2>1 DEF PInv, Typed, AllMove, Boards
  <2>3. \A e \in Clients : Less(client[e], client'[e])
    BY <1>6 DEF Less
  <2>4. QED
    BY <2>1, <2>2, <2>3, QuietStep
<1>7. CASE /\ f.type # "STATUS"
           /\ CASE f.type = "OFFER" -> TakeOffer(a, f)
                [] f.type = "CHUNK" -> TakeChunk(a, f)
                [] OTHER            -> TakeAnswer(a, f)
  <2>1. CASE f.type = "OFFER"
    <3>1. TakeOffer(a, f) /\ f \in Offers
      BY <1>3, <1>7, <2>1, FrameKinds
    <3>2. QED
      BY <1>1, <1>2, <3>1, TakeOfferP
  <2>2. CASE f.type = "CHUNK"
    <3>1. TakeChunk(a, f) /\ f \in Chunks
      BY <1>3, <1>7, <2>2, FrameKinds
    <3>2. QED
      BY <1>1, <1>2, <3>1, TakeChunkP
  <2>3. CASE f.type # "OFFER" /\ f.type # "CHUNK"
    <3>1. TakeAnswer(a, f)
      BY <1>7, <2>3
    <3>2. QED
      BY <1>1, <3>1, TakeAnswerP
  <2>4. QED
    BY <2>1, <2>2, <2>3
<1>8. QED
  BY <1>4, <1>5, <1>6, <1>7

-----------------------------------------------------------------------------
(* What is pasted                                                          *)

\* Nothing has been copied yet
LEMMA InitPInv ==
  ASSUME Init
  PROVE  PInv
<1>1. /\ client = [a \in Clients |-> Off] /\ board = [a \in Clients |-> NoClient]
      /\ acts = 0 /\ faults = 0
  BY DEF Init
<1>2. NoClient \in Ring(Frames) /\ Len(NoClient.tx) = 0
  <2>1. NoClient \in Ring(Frames)
    BY NoClientMoves DEF Moves
  <2>2. QED
    BY <2>1, EmptySeq DEF NoClient
<1>3. Off.rx.len <= Len(Off.rx.buf)
  <2>1. Off.rx.len = 0 /\ Off.rx.buf \in Seq(Cells)
    BY OffTyped DEF Machine
  <2>2. QED
    BY <2>1, LenProperties
<1>4. Typed
  BY <1>1, <1>2, <1>3, OffTyped, ClientAssumption DEF Typed
<1>5. ASSUME NEW a \in Clients, NEW i \in Ids
      PROVE  Carries(a, i, Nothing)
  <2>1. SentIs(client[a], i, Nothing)
    BY <1>1, OffTyped DEF SentIs
  <2>2. ASSUME NEW b \in Clients
        PROVE  /\ HeldIs(client[b], a, i, Nothing)
               /\ \A n \in 1..Len(board[b].tx) : FrameIs(board[b].tx[n], a, i, Nothing)
    <3>1. client[b].in[a] = None /\ Len(board[b].tx) = 0
      BY <1>1, <1>2, OffTyped
    <3>2. HeldIs(client[b], a, i, Nothing)
      BY <3>1 DEF HeldIs
    <3>3. QED
      BY <3>1, <3>2
  <2>3. QED
    BY <2>1, <2>2 DEF Carries
<1>6. Nothing \in Goods
  BY DEF Goods
<1>7. QED
  BY <1>4, <1>5, <1>6 DEF PInv

\* and every step keeps it whole
LEMMA NextPInv ==
  ASSUME PInv, OneSender, OneSender', [Next]_vars, [CleanSends]_vars
  PROVE  PInv'
<1>1. CASE UNCHANGED vars
  <2>1. client' = client /\ board' = board /\ acts' = acts /\ faults' = faults
    BY <1>1 DEF vars
  <2>2. Typed' /\ AllMove(board, board', Quiet)
    BY <2>1, PTypes DEF PInv, Typed
  <2>3. \A e \in Clients : Less(client[e], client'[e])
    BY <2>1 DEF Less
  <2>4. QED
    BY <2>2, <2>3, QuietStep
<1>2. CASE CleanSends /\ Next
  <2>1. ASSUME NEW a \in Clients, Loop(a)
        PROVE  PInv'
    BY <1>2, <2>1, PollP, TransmitP, ReadP, GiveUpP, ExpireP DEF Loop
  <2>2. ASSUME NEW a \in Clients, User(a)
        PROVE  PInv'
    BY <1>2, <2>2, CopyP, CtlSendP, CtlPeerP DEF User
  <2>3. ASSUME NEW a \in Clients,
               Start(a) \/ Exit(a) \/ Stall(a) \/ Resume(a) \/ Lose(a)
        PROVE  PInv'
    BY <2>3, StartP, ExitP, StallP, ResumeP, GiveUpP
  <2>4. CASE Second
    BY <2>4, SecondP
  <2>5. QED
    BY <1>2, <2>1, <2>2, <2>3, <2>4 DEF Next
<1>3. QED
  BY <1>1, <1>2

\* It says what is promised
LEMMA PInvSays ==
  ASSUME PInv, IInv
  PROVE  TypeOK /\ PastedIntact
<1>1. ASSUME NEW a \in Clients
      PROVE  /\ client[a].peer \in Clients \cup {None}
             /\ client[a].next_id \in 1..(IDS - 1)
             /\ client[a].tx = None \/ client[a].tx.data \in Contents
             /\ client[a].rx.len \in 0..Len(client[a].rx.buf)
             /\ ~client[a].up => ~client[a].stalled /\ client[a].tx = None
             /\ client[a].clip \in Texts \cup {None}
             /\ client[a].outdir \subseteq Files
  <2>1. client[a] \in Machine
    BY PTypes
  <2>2. /\ client[a].peer \in Clients \cup {None} /\ client[a].next_id \in 1..(IDS - 1)
        /\ client[a].clip \in Texts \cup {None} /\ client[a].outdir \subseteq Files
        /\ client[a].rx.len \in Nat /\ client[a].rx.buf \in Seq(Cells)
        /\ client[a].tx \in Outbound \cup {None}
    BY <2>1 DEF Machine, Ids
  <2>3. client[a].tx = None \/ client[a].tx.data \in Contents
    BY <2>2 DEF Outbound
  <2>4. client[a].rx.len \in 0..Len(client[a].rx.buf)
    <3>1. client[a].rx.len <= Len(client[a].rx.buf)
      BY DEF PInv, Typed
    <3>2. QED
      BY <2>2, <3>1, LenProperties
  <2>5. ~client[a].up => ~client[a].stalled /\ client[a].tx = None
    BY DEF PInv, Typed, IInv, Sane
  <2>6. QED
    BY <2>2, <2>3, <2>4, <2>5
<1>2. BoardsFit
  BY BoardsDoFit
<1>3. acts \in 0..MaxActs /\ faults \in 0..MaxFaults
  BY PTypes
<1>4. QED
  BY <1>1, <1>2, <1>3 DEF TypeOK, PastedIntact

(* What a client puts on a clipboard, into its directory or on stdout is a *)
(* text, or a file, that some user copied or sent, whole, and of its kind, *)
(* whatever is lost, ends, stalls or starts anew in between: as long as no *)
(* two machines send to one at once, whose rx_buf they would share, and an *)
(* id that comes round names no frame or stream of before.                 *)
THEOREM PastedWhole ==
  Spec /\ []OneSender /\ [][CleanSends]_vars => [](TypeOK /\ PastedIntact)
<1>1. Init => PInv
  BY InitPInv
<1>2. PInv /\ OneSender /\ OneSender' /\ [Next]_vars /\ [CleanSends]_vars => PInv'
  BY NextPInv
<1>3. PInv /\ IInv => TypeOK /\ PastedIntact
  BY PInvSays
<1>4. Spec /\ []OneSender /\ [][CleanSends]_vars => []PInv
  BY <1>1, <1>2, PTL DEF Spec
<1>5. QED
  BY <1>3, <1>4, IInvHolds, PTL

-----------------------------------------------------------------------------
(* Two machines, and no id that comes round                                *)

\* Two machines, neither its own peer
TwoMachines ==
  /\ \A a, b, c \in Clients : a = b \/ b = c \/ a = c
  /\ \A a \in Clients : Peer[a] # a

\* fewer of the users' doings than ids
FewSends == MaxActs + 3 <= IDS

\* Nothing a machine sends comes to itself
Elsewhere(a) ==
  /\ client[a].peer # a /\ client[a].in[a] = None
  /\ client[a].tx # None => client[a].tx.to # a
  /\ \A n \in 1..Len(board[a].tx) :
       LET f == board[a].tx[n] IN f \in Offers \cup Chunks => f.src # a

\* Ids are used up by what users do, and by what is on the clipboard at start
Bound(c, n) ==
  c.next_id <= n + (IF c.clip \in {None, c.last_clip} THEN 2 ELSE 1)

\* what a running client has sent has an id below the next
Low(a) ==
  client[a].up =>
    /\ Bound(client[a], acts)
    /\ client[a].tx # None => client[a].tx.id < client[a].next_id
    /\ \A b \in Clients :
         /\ client[b].in[a] # None => client[b].in[a].id < client[a].next_id
         /\ \A n \in 1..Len(board[b].tx) :
              LET f == board[b].tx[n]
              IN  f \in Offers \cup Chunks /\ f.src = a => f.id < client[a].next_id

UInv == \A a \in Clients : Elsewhere(a) /\ Low(a)

\* Then nothing is mixed
LEMMA TwoDontMix ==
  ASSUME TwoMachines, UInv
  PROVE  OneSender
  BY DEF TwoMachines, UInv, Elsewhere, OneSender

\* A stream that is held was offered
Offered(c, d, r) ==
  \A b \in Clients : d.in[b] # None =>
    \/ c.in[b] # None /\ d.in[b].id = c.in[b].id
    \/ \E n \in 1..Len(r.tx) : /\ r.tx[n] \in Offers \cup Chunks
                               /\ r.tx[n].src = b /\ r.tx[n].id = d.in[b].id

\* Steps that send nothing
Gentle ==
  /\ AllMove(board, board', Quiet)
  /\ \A a \in Clients :
       /\ client'[a].peer # a
       /\ client'[a].tx # None => /\ client[a].tx # None
                                  /\ client'[a].tx.id = client[a].tx.id
                                  /\ client'[a].tx.to = client[a].tx.to
       /\ client'[a].up => /\ client[a].up /\ client'[a].next_id = client[a].next_id
                           /\ Bound(client'[a], acts')
       /\ Offered(client[a], client'[a], board[a])

\* Frames of a stream after such a step were there before it
LEMMA GentleFrames ==
  ASSUME Gentle, NEW b \in Clients, NEW n \in 1..Len(board'[b].tx),
         board'[b].tx[n] \in Offers \cup Chunks
  PROVE  \E m \in 1..Len(board[b].tx) : board'[b].tx[n] = board[b].tx[m]
<1>1. board'[b].tx[n] \notin Quiet
  BY QuietFrames
<1>2. QED
  BY <1>1 DEF Gentle, AllMove, Brings

\* They keep both
LEMMA GentleKeeps ==
  ASSUME UInv, Gentle
  PROVE  UInv' /\ CleanSends
<1>1. CleanSends
  BY DEF Gentle, CleanSends
<1>2. ASSUME NEW a \in Clients
      PROVE  Elsewhere(a)'
  <2>1. Elsewhere(a)
    BY DEF UInv
  <2>2. client'[a].peer # a /\ (client'[a].tx # None => client'[a].tx.to # a)
    BY <2>1 DEF Gentle, Elsewhere
  <2>3. client'[a].in[a] = None
    BY <2>1 DEF Gentle, Offered, Elsewhere
  <2>4. ASSUME NEW n \in 1..Len(board'[a].tx), board'[a].tx[n] \in Offers \cup Chunks
        PROVE  board'[a].tx[n].src # a
    BY <2>1, <2>4, GentleFrames DEF Elsewhere
  <2>5. QED
    BY <2>2, <2>3, <2>4 DEF Elsewhere
<1>3. ASSUME NEW a \in Clients, client'[a].up
      PROVE  /\ Bound(client'[a], acts')
             /\ client'[a].tx # None => client'[a].tx.id < client'[a].next_id
             /\ \A b \in Clients :
                  /\ client'[b].in[a] # None => client'[b].in[a].id < client'[a].next_id
                  /\ \A n \in 1..Len(board'[b].tx) :
                       LET f == board'[b].tx[n]
                       IN  f \in Offers \cup Chunks /\ f.src = a => f.id < client'[a].next_id
  <2>1. /\ client[a].up /\ client'[a].next_id = client[a].next_id
        /\ Bound(client'[a], acts')
    BY <1>3 DEF Gentle
  <2>2. Low(a)
    BY DEF UInv
  <2>3. client'[a].tx # None => client'[a].tx.id < client'[a].next_id
    BY <2>1, <2>2 DEF Gentle, Low
  <2>4. ASSUME NEW b \in Clients, client'[b].in[a] # None
        PROVE  client'[b].in[a].id < client'[a].next_id
    <3>1. \/ client[b].in[a] # None /\ client'[b].in[a].id = client[b].in[a].id
          \/ \E n \in 1..Len(board[b].tx) :
               /\ board[b].tx[n] \in Offers \cup Chunks
               /\ board[b].tx[n].src = a /\ board[b].tx[n].id = client'[b].in[a].id
      BY <2>4 DEF Gentle, Offered
    <3>2. QED
      BY <2>1, <2>2, <3>1 DEF Low
  <2>5. ASSUME NEW b \in Clients, NEW n \in 1..Len(board'[b].tx),
               board'[b].tx[n] \in Offers \cup Chunks, board'[b].tx[n].src = a
        PROVE  board'[b].tx[n].id < client'[a].next_id
    BY <2>1, <2>2, <2>5, GentleFrames, SMTT(60) DEF Low
  <2>6. QED
    BY <2>1, <2>3, <2>4, <2>5
<1>4. ASSUME NEW a \in Clients
      PROVE  Low(a)'
  BY <1>3 DEF Low
<1>5. QED
  BY <1>1, <1>2, <1>4 DEF UInv

\* Less is no more than was offered
LEMMA LessOffered ==
  ASSUME NEW c, NEW d, NEW r, Less(c, d)
  PROVE  Offered(c, d, r)
  BY DEF Less, Offered

\* What is bounded stays so
LEMMA BoundStays ==
  ASSUME PInv, UInv, acts' = acts \/ acts' = acts + 1, NEW a \in Clients, client[a].up
  PROVE  Bound(client[a], acts')
<1>1. Bound(client[a], acts)
  BY DEF UInv, Low
<1>2. acts \in Nat /\ client[a].next_id \in Nat
  <2>1. client[a] \in Machine /\ acts \in 0..MaxActs
    BY PTypes
  <2>2. QED
    BY <2>1, ClientAssumption DEF Machine, Ids
<1>3. QED
  BY <1>1, <1>2 DEF Bound

\* A step of one client
LEMMA GentleOne ==
  ASSUME PInv, UInv, NEW a \in Clients, NEW d, Offered(client[a], d, board[a]),
         d.tx # None => /\ client[a].tx # None
                        /\ d.tx.id = client[a].tx.id /\ d.tx.to = client[a].tx.to,
         d.peer # a,
         d.up => client[a].up /\ d.next_id = client[a].next_id /\ Bound(d, acts'),
         client' = [client EXCEPT ![a] = d], acts' = acts \/ acts' = acts + 1,
         AllMove(board, board', Quiet)
  PROVE  UInv' /\ CleanSends
<1>1. \A b \in Clients : client'[b] = IF b = a THEN d ELSE client[b]
  BY PTypes
<1>2. ASSUME NEW b \in Clients
      PROVE  /\ client'[b].peer # b
             /\ client'[b].tx # None => /\ client[b].tx # None
                                        /\ client'[b].tx.id = client[b].tx.id
                                        /\ client'[b].tx.to = client[b].tx.to
             /\ client'[b].up => /\ client[b].up /\ client'[b].next_id = client[b].next_id
                                 /\ Bound(client'[b], acts')
             /\ Offered(client[b], client'[b], board[b])
  <2>1. CASE b = a
    BY <1>1, <2>1
  <2>2. CASE b # a
    <3>1. client'[b] = client[b]
      BY <1>1, <2>2
    <3>2. Offered(client[b], client[b], board[b])
      BY DEF Offered
    <3>3. client[b].peer # b
      BY DEF UInv, Elsewhere
    <3>4. client[b].up => Bound(client[b], acts')
      BY BoundStays
    <3>5. QED
      BY <3>1, <3>2, <3>3, <3>4
  <2>3. QED
    BY <2>1, <2>2
<1>3. Gentle
  BY <1>2 DEF Gentle
<1>4. QED
  BY <1>3, GentleKeeps

\* which keeps all but its streams
LEMMA GentleStays ==
  ASSUME PInv, UInv, NEW a \in Clients, NEW d, Less(client[a], d), Stays(client[a], d),
         client' = [client EXCEPT ![a] = d], acts' = acts,
         AllMove(board, board', Quiet)
  PROVE  UInv' /\ CleanSends
<1>1. Offered(client[a], d, board[a])
  BY LessOffered
<1>2. d.peer # a
  BY DEF Stays, UInv, Elsewhere
<1>3. d.up => client[a].up /\ d.next_id = client[a].next_id /\ Bound(d, acts')
  BY BoundStays DEF Stays, Bound
<1>4. d.tx # None => /\ client[a].tx # None
                     /\ d.tx.id = client[a].tx.id /\ d.tx.to = client[a].tx.to
  BY DEF Less
<1>5. QED
  BY <1>1, <1>2, <1>3, <1>4, GentleOne

\* No client's record changes
LEMMA GentleBoards ==
  ASSUME PInv, UInv, client' = client, acts' = acts, AllMove(board, board', Quiet)
  PROVE  UInv' /\ CleanSends
<1>1. ASSUME NEW b \in Clients
      PROVE  /\ client[b].peer # b
             /\ client[b].up => Bound(client[b], acts')
             /\ Offered(client[b], client[b], board[b])
  BY BoundStays DEF UInv, Elsewhere, Offered
<1>2. Gentle
  BY <1>1 DEF Gentle
<1>3. QED
  BY <1>2, GentleKeeps

\* OnSent
LEMMA SentU ==
  ASSUME PInv, UInv, NEW a \in Clients, acts' = acts,
         client' = [client EXCEPT ![a] = OnSent(client[a])],
         AllMove(board, board', Quiet)
  PROVE  UInv' /\ CleanSends
<1>1. PICK d : d = [client[a] EXCEPT !.tx = None]
  OBVIOUS
<1>2. client[a] \in Machine
  BY PTypes
<1>3. Less(client[a], d) /\ Stays(client[a], d)
  BY <1>1, <1>2 DEF Machine, Less, Stays
<1>4. client' = [client EXCEPT ![a] = d]
  BY <1>1, Zenon DEF OnSent
<1>5. QED
  BY <1>3, <1>4, GentleStays

\* A client lets go of streams
LEMMA DropsU ==
  ASSUME PInv, UInv, NEW a \in Clients, NEW d, Drops(client[a], d),
         client' = [client EXCEPT ![a] = d], acts' = acts,
         AllMove(board, board', Quiet)
  PROVE  UInv' /\ CleanSends
<1>1. Less(client[a], d) /\ Stays(client[a], d)
  BY DEF Drops
<1>2. QED
  BY <1>1, GentleStays

\* Expire
LEMMA ExpireU ==
  ASSUME PInv, UInv, NEW a \in Clients, NEW b \in Clients, Expire(a, b)
  PROVE  UInv' /\ CleanSends
  BY ExpireIs, DropsU

\* GiveUp, Lose, Stall and Resume
LEMMA LoopU ==
  ASSUME PInv, UInv, NEW a \in Clients, GiveUp(a) \/ Lose(a) \/ Stall(a) \/ Resume(a)
  PROVE  UInv' /\ CleanSends
<1>1. client[a] \in Machine /\ board[a] \in Ring(Frames)
  BY PTypes
<1>2. CASE GiveUp(a) \/ Lose(a)
  <2>1. /\ client' = [client EXCEPT ![a] = OnSent(client[a])] /\ acts' = acts
        /\ AllMove(board, board', Quiet)
    BY <1>2, GiveUpIs
  <2>2. QED
    BY <2>1, SentU
<1>3. ASSUME NEW v, Stall(a) \/ Resume(a), client' = [client EXCEPT ![a].stalled = v],
             AllMove(board, board', Quiet)
      PROVE  UInv' /\ CleanSends
  <2>1. PICK d : d = [client[a] EXCEPT !.stalled = v]
    OBVIOUS
  <2>2. Less(client[a], d) /\ Stays(client[a], d)
    BY <1>1, <2>1 DEF Machine, Less, Stays
  <2>3. client' = [client EXCEPT ![a] = d]
    BY <1>3, <2>1, Zenon
  <2>4. acts' = acts
    BY <1>3 DEF Stall, Resume
  <2>5. QED
    BY <1>3, <2>2, <2>3, <2>4, GentleStays
<1>4. CASE Stall(a)
  <2>1. client' = [client EXCEPT ![a].stalled = TRUE] /\ board' = board
    BY <1>4, Zenon DEF Stall, Update
  <2>2. AllMove(board, board', Quiet)
    BY <2>1, PTypes
  <2>3. QED
    BY <1>3, <1>4, <2>1, <2>2
<1>5. CASE Resume(a)
  <2>1. PICK q : q = Announce(a, board[a])
    OBVIOUS
  <2>2. client' = [client EXCEPT ![a].stalled = FALSE] /\ board' = [board EXCEPT ![a] = q]
    BY <1>5, <2>1, Zenon DEF Resume, Update
  <2>3. Moves(board[a], q, Quiet)
    BY <1>1, <2>1, AnnounceMoves
  <2>4. AllMove(board, board', Quiet)
    BY <2>2, <2>3, PTypes, OneMoves
  <2>5. QED
    BY <1>3, <1>5, <2>2, <2>4
<1>6. QED
  BY <1>2, <1>4, <1>5

\* Copy and CtlPeer
LEMMA UserU ==
  ASSUME PInv, UInv, NEW a \in Clients,
         (\E x \in Texts : Copy(a, x)) \/ (\E b \in Clients : CtlPeer(a, b))
  PROVE  UInv' /\ CleanSends
<1>1. client[a] \in Machine /\ acts \in 0..MaxActs
  BY PTypes
<1>2. ASSUME NEW x \in Texts, Copy(a, x)
      PROVE  UInv' /\ CleanSends
  <2>1. PICK d : d = [client[a] EXCEPT !.clip = x]
    OBVIOUS
  <2>2. client' = [client EXCEPT ![a] = d] /\ board' = board /\ client[a].up /\ acts' = acts + 1
    BY <1>2, <2>1, Zenon DEF Copy, Update, Act
  <2>3. Less(client[a], d) /\ d.next_id = client[a].next_id /\ d.peer = client[a].peer
    BY <1>1, <2>1 DEF Machine, Less
  <2>4. Bound(d, acts')
    <3>1. Bound(client[a], acts)
      BY <2>2 DEF UInv, Low
    <3>2. acts \in Nat /\ client[a].next_id \in Nat
      BY <1>1, ClientAssumption DEF Machine, Ids
    <3>3. client[a].next_id <= acts + 2
      BY <3>1, <3>2 DEF Bound
    <3>4. d.next_id <= acts' + 1
      BY <2>2, <2>3, <3>2, <3>3
    <3>5. QED
      BY <2>2, <2>3, <3>2, <3>4 DEF Bound
  <2>5. AllMove(board, board', Quiet)
    BY <2>2, PTypes
  <2>6. d.peer # a
    BY <2>3 DEF UInv, Elsewhere
  <2>7. Offered(client[a], d, board[a])
    BY <2>3, LessOffered
  <2>8. d.tx # None => /\ client[a].tx # None
                       /\ d.tx.id = client[a].tx.id /\ d.tx.to = client[a].tx.to
    BY <2>3 DEF Less
  <2>9. QED
    BY <2>2, <2>3, <2>4, <2>5, <2>6, <2>7, <2>8, GentleOne
<1>3. ASSUME NEW b \in Clients, CtlPeer(a, b)
      PROVE  UInv' /\ CleanSends
  <2>1. PICK d : d = [client[a] EXCEPT !.peer = b]
    OBVIOUS
  <2>2. client' = [client EXCEPT ![a] = d] /\ board' = board /\ acts' = acts
        /\ client[a].up /\ b # a
    BY <1>3, <2>1, Zenon DEF CtlPeer, Update, Runs
  <2>3. /\ Less(client[a], d) /\ d.next_id = client[a].next_id /\ d.peer = b
        /\ d.clip = client[a].clip /\ d.last_clip = client[a].last_clip
    BY <1>1, <2>1 DEF Machine, Less
  <2>4. Bound(d, acts')
    BY <2>2, <2>3, BoundStays DEF Bound
  <2>5. AllMove(board, board', Quiet)
    BY <2>2, PTypes
  <2>6. Offered(client[a], d, board[a])
    BY <2>3, LessOffered
  <2>7. d.tx # None => /\ client[a].tx # None
                       /\ d.tx.id = client[a].tx.id /\ d.tx.to = client[a].tx.to
    BY <2>3 DEF Less
  <2>8. QED
    BY <2>2, <2>3, <2>4, <2>5, <2>6, <2>7, GentleOne
<1>4. QED
  BY <1>2, <1>3

\* Exit
LEMMA ExitU ==
  ASSUME PInv, UInv, NEW a \in Clients, Exit(a)
  PROVE  UInv' /\ CleanSends
<1>1. PICK d : d = [Off EXCEPT !.clip = client[a].clip, !.outdir = client[a].outdir]
  OBVIOUS
<1>2. ~d.up /\ d.tx = None /\ d.in = Off.in /\ d.peer = None
  BY <1>1, OffTyped DEF Off
<1>3. Offered(client[a], d, board[a]) /\ d.peer # a
  BY <1>2, OffTyped, ClientAssumption DEF Offered
<1>4. /\ client' = [client EXCEPT ![a] = d] /\ acts' = acts
      /\ board' = board \/ board' = [board EXCEPT ![a] = NoClient]
  BY <1>1, Zenon DEF Exit, Update
<1>5. AllMove(board, board', Quiet)
  BY <1>4, PTypes, NoClientMoves, OneMoves
<1>6. QED
  BY <1>2, <1>3, <1>4, <1>5, GentleOne

\* Second
LEMMA SecondU ==
  ASSUME PInv, UInv, Second
  PROVE  UInv' /\ CleanSends
<1>1. client' = client /\ acts' = acts
  BY DEF Second
<1>2. AllMove(board, board', Quiet)
  BY SecondMoves
<1>3. QED
  BY <1>1, <1>2, GentleBoards

\* Start: what is left of its streams has gone from its own ring as well
LEMMA StartU ==
  ASSUME PInv, UInv, TwoMachines, NEW a \in Clients, Start(a)
  PROVE  UInv' /\ CleanSends
<1>1. PICK d : d = [Off EXCEPT !.up = TRUE, !.peer = Peer[a], !.clip = client[a].clip,
                               !.outdir = client[a].outdir]
  OBVIOUS
<1>2. client[a] \in Machine /\ board[a] \in Ring(Frames) /\ acts \in Nat
  BY PTypes, ClientAssumption
<1>3. /\ d.tx = None /\ d.in = Off.in /\ d.peer = Peer[a] /\ d.next_id = 1
      /\ d.peer # a
  BY <1>1, OffTyped DEF Off, TwoMachines
<1>4. client' = [b \in Clients |-> IF b = a THEN d ELSE [client[b] EXCEPT !.in[a] = None]]
  BY <1>1, Zenon DEF Start
<1>5. PICK q : q = Announce(a, board[a])
  OBVIOUS
<1>6. AllMove(board, board', Quiet) /\ acts' = acts
  <2>1. Moves(board[a], q, Quiet)
    BY <1>2, <1>5, AnnounceMoves
  <2>2. board' = [board EXCEPT ![a] = q] /\ acts' = acts
    BY <1>5, Zenon DEF Start
  <2>3. QED
    BY <2>1, <2>2, PTypes, OneMoves
<1>7. client'[a] = d
  BY <1>4
<1>8. ASSUME NEW b \in Clients, b # a
      PROVE  /\ client'[b].tx = client[b].tx /\ Stays(client[b], client'[b])
             /\ client'[b].in[a] = None
             /\ \A c \in Clients : client'[b].in[c] # None => client'[b].in[c] = client[b].in[c]
  <2>1. client[b] \in Machine
    BY PTypes
  <2>2. PICK v : v = [client[b].in EXCEPT ![a] = None]
    OBVIOUS
  <2>3. /\ v[a] = None
        /\ \A c \in Clients : v[c] # None => v[c] = client[b].in[c]
    BY <2>1, <2>2 DEF Machine
  <2>4. PICK e : e = [client[b] EXCEPT !.in = v]
    OBVIOUS
  <2>5. e.tx = client[b].tx /\ e.in = v /\ Stays(client[b], e)
    BY <2>1, <2>4 DEF Machine, Stays
  <2>6. client'[b] = e
    <3>1. client'[b] = [client[b] EXCEPT !.in[a] = None]
      BY <1>4, <1>8
    <3>2. QED
      BY <2>2, <2>4, <3>1, Zenon
  <2>7. QED
    BY <2>3, <2>5, <2>6
\* no frame of its is left
<1>9. ASSUME NEW b \in Clients, NEW n \in 1..Len(board'[b].tx),
             board'[b].tx[n] \in Offers \cup Chunks
      PROVE  /\ board'[b].tx[n].src # a
             /\ \E m \in 1..Len(board[b].tx) : board'[b].tx[n] = board[b].tx[m]
  <2>1. PICK m \in 1..Len(board[b].tx) : board'[b].tx[n] = board[b].tx[m]
    <3>1. board'[b].tx[n] \notin Quiet
      BY <1>9, QuietFrames
    <3>2. QED
      BY <1>6, <3>1 DEF AllMove, Brings
  <2>2. CASE b = a
    BY <1>9, <2>1, <2>2 DEF UInv, Elsewhere
  <2>3. CASE b # a
    <3>1. board[b].tx[m].type = "STATUS"
      BY <2>3 DEF Start
    <3>2. QED
      BY <1>9, <2>1, <3>1 DEF Offers, Chunks
  <2>4. QED
    BY <2>1, <2>2, <2>3
<1>10. ASSUME NEW b \in Clients
       PROVE  Elsewhere(b)'
  <2>1. Elsewhere(b)
    BY DEF UInv
  <2>2. ASSUME NEW n \in 1..Len(board'[b].tx), board'[b].tx[n] \in Offers \cup Chunks
        PROVE  board'[b].tx[n].src # b
    BY <1>9, <2>1, <2>2 DEF Elsewhere
  <2>3. /\ client'[b].peer # b /\ client'[b].in[b] = None
        /\ client'[b].tx # None => client'[b].tx.to # b
    <3>1. CASE b = a
      BY <1>3, <1>7, <3>1, OffTyped
    <3>2. CASE b # a
      BY <1>8, <2>1, <3>2 DEF Elsewhere, Stays
    <3>3. QED
      BY <3>1, <3>2
  <2>4. QED
    BY <2>2, <2>3 DEF Elsewhere
<1>11. ASSUME NEW b \in Clients, client'[b].up
       PROVE  /\ Bound(client'[b], acts')
              /\ client'[b].tx # None => client'[b].tx.id < client'[b].next_id
              /\ \A c \in Clients :
                   /\ client'[c].in[b] # None => client'[c].in[b].id < client'[b].next_id
                   /\ \A n \in 1..Len(board'[c].tx) :
                        LET f == board'[c].tx[n]
                        IN  f \in Offers \cup Chunks /\ f.src = b => f.id < client'[b].next_id
  <2>1. CASE b = a
    <3>1. Bound(d, acts')
      BY <1>2, <1>3, <1>6 DEF Bound
    <3>2. \A c \in Clients : client'[c].in[a] = None
      BY <1>3, <1>7, <1>8, OffTyped
    <3>3. QED
      BY <1>3, <1>7, <1>9, <2>1, <3>1, <3>2
  <2>2. CASE b # a
    <3>1. client[b].up /\ Stays(client[b], client'[b]) /\ client'[b].tx = client[b].tx
      BY <1>8, <1>11, <2>2 DEF Stays
    <3>2. /\ Bound(client[b], acts)
          /\ client[b].tx # None => client[b].tx.id < client[b].next_id
          /\ \A c \in Clients :
               /\ client[c].in[b] # None => client[c].in[b].id < client[b].next_id
               /\ \A n \in 1..Len(board[c].tx) :
                    LET f == board[c].tx[n]
                    IN  f \in Offers \cup Chunks /\ f.src = b => f.id < client[b].next_id
      BY <3>1 DEF UInv, Low
    <3>3. Bound(client'[b], acts') /\ client'[b].next_id = client[b].next_id
      BY <1>6, <3>1, <3>2 DEF Bound, Stays
    <3>4. ASSUME NEW c \in Clients
          PROVE  client'[c].in[b] # None => client'[c].in[b].id < client'[b].next_id
      <4>1. CASE c = a
        BY <1>3, <1>7, <4>1, OffTyped
      <4>2. CASE c # a
        BY <1>8, <3>2, <3>3, <4>2
      <4>3. QED
        BY <4>1, <4>2
    <3>5. ASSUME NEW c \in Clients, NEW n \in 1..Len(board'[c].tx),
                 board'[c].tx[n] \in Offers \cup Chunks, board'[c].tx[n].src = b
          PROVE  board'[c].tx[n].id < client'[b].next_id
      BY <1>9, <3>2, <3>3, <3>5
    <3>6. QED
      BY <3>1, <3>2, <3>3, <3>4, <3>5
  <2>3. QED
    BY <2>1, <2>2
<1>12. ASSUME NEW b \in Clients
       PROVE  Low(b)'
  BY <1>11 DEF Low
<1>13. CleanSends
  <2>1. ASSUME NEW b \in Clients
        PROVE  client'[b].tx # None => client[b].tx # None
    <3>1. CASE b = a
      BY <1>3, <1>7, <3>1
    <3>2. CASE b # a
      BY <1>8, <3>2
    <3>3. QED
      BY <3>1, <3>2
  <2>2. QED
    BY <2>1 DEF CleanSends
<1>14. QED
  BY <1>10, <1>12, <1>13 DEF UInv

\* send_owned takes the next id
LEMMA SendU ==
  ASSUME PInv, UInv, NEW a \in Clients, client[a].up, client[a].tx = None,
         NEW c \in Machine, Else(client[a], c), c.up = client[a].up,
         c.peer = client[a].peer, c.next_id = client[a].next_id,
         client[a].next_id + 1 <= acts' + (IF c.clip \in {None, c.last_clip} THEN 2 ELSE 1),
         client[a].next_id < IDS - 1, acts' = acts \/ acts' = acts + 1,
         NEW kind, NEW x,
         client' = [client EXCEPT ![a] = SendOwned(c, kind, x)], board' = board
  PROVE  UInv' /\ CleanSends
<1>1. client \in [Clients -> Machine] /\ client[a] \in Machine
  BY PTypes
<1>2. PICK s : s = [id |-> c.next_id, to |-> c.peer, kind |-> kind,
                    data |-> x, state |-> "OFFERING"]
  OBVIOUS
<1>3. s.id = client[a].next_id /\ s.to = client[a].peer
  BY <1>2
<1>4. client[a].next_id \in Nat /\ IDS \in Nat
  BY <1>1, ClientAssumption DEF Machine, Ids
<1>5. PICK n : n = (c.next_id % (IDS - 1)) + 1
  OBVIOUS
<1>6. n = client[a].next_id + 1
  <2>1. client[a].next_id % (IDS - 1) = client[a].next_id
    BY <1>4
  <2>2. QED
    BY <1>5, <2>1
<1>7. PICK d : d = [c EXCEPT !.tx = s, !.next_id = n]
  OBVIOUS
<1>8. /\ d.tx = s /\ d.in = client[a].in /\ d.next_id = n /\ d.peer = client[a].peer
      /\ d.clip = c.clip /\ d.last_clip = c.last_clip /\ d.up
  BY <1>7 DEF Machine, Else
<1>9. client' = [client EXCEPT ![a] = d]
  <2>1. c.tx = None
    BY DEF Else
  <2>2. SendOwned(c, kind, x) = d
    BY <1>2, <1>5, <1>7, <2>1, Zenon DEF SendOwned
  <2>3. QED
    BY <2>2
<1>10. \A b \in Clients : client'[b] = IF b = a THEN d ELSE client[b]
  BY <1>1, <1>9
<1>11. \A b \in Clients : client'[b].in = client[b].in
  BY <1>8, <1>10
<1>12. CleanSends
  <2>1. Low(a)
    BY DEF UInv
  <2>2. ASSUME NEW b \in Clients, client[b].tx = None, client'[b].tx # None
        PROVE  Free(b, client'[b].tx.id)
    <3>1. b = a /\ client'[b].tx.id = client[a].next_id
      BY <1>3, <1>8, <1>10, <2>2
    <3>2. ASSUME NEW e \in Clients
          PROVE  /\ client[e].in[a] # None => client[e].in[a].id # client[a].next_id
                 /\ \A m \in 1..Len(board[e].tx) :
                      LET f == board[e].tx[m]
                      IN  f \in Offers \cup Chunks => f.src # a \/ f.id # client[a].next_id
      <4>1. \A m \in Nat : m < client[a].next_id => m # client[a].next_id
        BY <1>4
      <4>2. client[e].in[a] # None => client[e].in[a].id \in Nat
        BY PTypes DEF Machine, Inbound, Ids
      <4>3. \A m \in 1..Len(board[e].tx) :
              board[e].tx[m] \in Offers \cup Chunks => board[e].tx[m].id \in Nat
        BY DEF Offers, Chunks, Ids
      <4>4. QED
        BY <2>1, <4>1, <4>2, <4>3 DEF Low
    <3>3. QED
      BY <3>1, <3>2 DEF Free
  <2>3. QED
    BY <2>2 DEF CleanSends
<1>13. ASSUME NEW b \in Clients
       PROVE  Elsewhere(b)'
  BY <1>3, <1>8, <1>10, <1>11 DEF UInv, Elsewhere
<1>14. Bound(d, acts')
  BY <1>6, <1>8 DEF Bound
<1>15. ASSUME NEW b \in Clients, client'[b].up
       PROVE  /\ Bound(client'[b], acts')
              /\ client'[b].tx # None => client'[b].tx.id < client'[b].next_id
              /\ \A e \in Clients :
                   /\ client'[e].in[b] # None => client'[e].in[b].id < client'[b].next_id
                   /\ \A m \in 1..Len(board'[e].tx) :
                        LET f == board'[e].tx[m]
                        IN  f \in Offers \cup Chunks /\ f.src = b => f.id < client'[b].next_id
  <2>1. client[b].up
    BY <1>10, <1>15
  <2>2. /\ Bound(client[b], acts)
        /\ client[b].tx # None => client[b].tx.id < client[b].next_id
        /\ \A e \in Clients :
             /\ client[e].in[b] # None => client[e].in[b].id < client[b].next_id
             /\ \A m \in 1..Len(board[e].tx) :
                  LET f == board[e].tx[m]
                  IN  f \in Offers \cup Chunks /\ f.src = b => f.id < client[b].next_id
    BY <2>1 DEF UInv, Low
  <2>3. CASE b # a
    <3>1. client'[b] = client[b]
      BY <1>10, <2>3
    <3>2. Bound(client[b], acts')
      BY <2>1, BoundStays
    <3>3. QED
      BY <1>11, <2>2, <3>1, <3>2
  <2>4. CASE b = a
    <3>1. client'[b] = d
      BY <1>10, <2>4
    <3>2. d.tx.id < d.next_id
      BY <1>3, <1>4, <1>6, <1>8
    <3>3. \A m \in Nat : m < client[a].next_id => m < d.next_id
      BY <1>4, <1>6, <1>8
    <3>4. ASSUME NEW e \in Clients
          PROVE  /\ client[e].in[a] # None => client[e].in[a].id < d.next_id
                 /\ \A m \in 1..Len(board[e].tx) :
                      LET f == board[e].tx[m]
                      IN  f \in Offers \cup Chunks /\ f.src = a => f.id < d.next_id
      <4>1. client[e].in[a] # None => client[e].in[a].id \in Nat
        BY PTypes DEF Machine, Inbound, Ids
      <4>2. \A m \in 1..Len(board[e].tx) :
              board[e].tx[m] \in Offers \cup Chunks => board[e].tx[m].id \in Nat
        BY DEF Offers, Chunks, Ids
      <4>3. QED
        BY <2>2, <2>4, <3>3, <4>1, <4>2
    <3>5. QED
      BY <1>11, <1>14, <2>4, <3>1, <3>2, <3>4
  <2>5. QED
    BY <2>3, <2>4
<1>16. ASSUME NEW b \in Clients
       PROVE  Low(b)'
  BY <1>15 DEF Low
<1>17. QED
  BY <1>12, <1>13, <1>16 DEF UInv

\* Poll
LEMMA PollU ==
  ASSUME PInv, UInv, FewSends, NEW a \in Clients, Poll(a)
  PROVE  UInv' /\ CleanSends
<1>1. client[a] \in Machine /\ acts \in 0..MaxActs
  BY PTypes
<1>2. PollClipboard(client[a]) # client[a] /\ client[a].up
  BY DEF Poll, Runs
<1>3. ~(client[a].tx # None \/ client[a].clip \in {None, client[a].last_clip})
  BY <1>2, Zenon DEF PollClipboard
<1>4. PICK c : c = [client[a] EXCEPT !.last_clip = client[a].clip]
  OBVIOUS
<1>5. c \in Machine
  <2>1. client[a].clip \in Texts \cup {None}
    BY <1>1 DEF Machine
  <2>2. QED
    BY <1>1, <1>4, <2>1, FieldsTyped
<1>6. /\ Else(client[a], c) /\ c.up = client[a].up /\ c.peer = client[a].peer
      /\ c.next_id = client[a].next_id /\ c.clip = c.last_clip
  BY <1>1, <1>4 DEF Machine, Else
<1>7. PollClipboard(client[a]) = SendOwned(c, "TEXT", client[a].clip)
  BY <1>3, <1>4, Zenon DEF PollClipboard
<1>8. client' = [client EXCEPT ![a] = SendOwned(c, "TEXT", client[a].clip)]
  BY <1>7, Zenon DEF Poll, Update
<1>9. board' = board /\ acts' = acts
  BY DEF Poll
<1>10. client[a].next_id <= acts + 1 /\ acts \in Nat /\ client[a].next_id \in Nat
  <2>1. Bound(client[a], acts)
    BY <1>2 DEF UInv, Low
  <2>2. client[a].next_id \in Nat /\ acts \in Nat
    BY <1>1, ClientAssumption DEF Machine, Ids
  <2>3. QED
    BY <1>3, <2>1, <2>2 DEF Bound
<1>11. client[a].next_id < IDS - 1
  BY <1>1, <1>10, ClientAssumption DEF FewSends
<1>12. client[a].next_id + 1 <= acts' + (IF c.clip \in {None, c.last_clip} THEN 2 ELSE 1)
  BY <1>6, <1>9, <1>10
<1>13. client[a].tx = None
  BY <1>3
<1>14. QED
  BY <1>2, <1>5, <1>6, <1>8, <1>9, <1>11, <1>12, <1>13, SendU

\* CtlSend
LEMMA CtlSendU ==
  ASSUME PInv, UInv, FewSends, NEW a \in Clients, NEW kind, NEW x, CtlSend(a, kind, x)
  PROVE  UInv' /\ CleanSends
<1>1. client[a] \in Machine /\ acts \in 0..MaxActs
  BY PTypes
<1>2. client[a].up /\ client[a].tx = None /\ board' = board
      /\ acts < MaxActs /\ acts' = acts + 1
  BY DEF CtlSend, Runs, Act
<1>3. client' = [client EXCEPT ![a] = SendOwned(client[a], kind, x)]
  BY Zenon DEF CtlSend, Update
<1>4. PICK k : k = IF client[a].clip \in {None, client[a].last_clip} THEN 2 ELSE 1
  OBVIOUS
<1>5. client[a].next_id <= acts + k /\ k <= 2 /\ k \in Nat
  <2>1. Bound(client[a], acts)
    BY <1>2 DEF UInv, Low
  <2>2. QED
    BY <1>4, <2>1 DEF Bound
<1>6. client[a].next_id \in Nat /\ acts \in Nat
  BY <1>1, ClientAssumption DEF Machine, Ids
<1>7. client[a].next_id < IDS - 1
  BY <1>1, <1>2, <1>5, <1>6, ClientAssumption DEF FewSends
<1>8. client[a].next_id + 1 <=
        acts' + (IF client[a].clip \in {None, client[a].last_clip} THEN 2 ELSE 1)
  BY <1>2, <1>4, <1>5, <1>6
<1>9. Else(client[a], client[a])
  BY DEF Else
<1>10. QED
  BY <1>1, <1>2, <1>3, <1>7, <1>8, <1>9, SendU

\* Transmit: the frame's id is that of the stream under way, and its
\* destination another machine
LEMMA TransmitU ==
  ASSUME PInv, UInv, NEW a \in Clients, Transmit(a)
  PROVE  UInv' /\ CleanSends
<1>1. /\ client[a].tx # None /\ client' = client /\ acts' = acts /\ client[a].up
      /\ client[a].tx.state = "SENDING" => Receiving(a, client[a].tx.to)
      /\ board' = Proxy(board, a, client[a].tx.to, Frame(a))
  BY Zenon DEF Transmit, Runs
<1>2. client[a].tx \in Outbound
  BY <1>1, PTypes DEF Machine
<1>3. PICK g, dst : g = Frame(a) /\ dst = client[a].tx.to
  OBVIOUS
<1>4. dst \in Clients \cup {None} /\ dst # a /\ client[a].tx.id \in Ids
  BY <1>1, <1>2, <1>3 DEF Outbound, UInv, Elsewhere
<1>5. g \in Offers \cup Chunks /\ g.src = a /\ g.id = client[a].tx.id
  <2>1. PICK p \in Goods : Carries(a, client[a].tx.id, p)
    BY <1>4 DEF PInv
  <2>2. QED
    BY <1>1, <1>3, <2>1, FrameTrue
<1>6. g \in Frames
  BY <1>5 DEF Frames
<1>7. board' = Proxy(board, a, dst, g)
  BY <1>1, <1>3, Zenon
<1>8. AllMove(board, board', {g})
  BY <1>4, <1>6, <1>7, PTypes, ProxyMoves
<1>9. board'[a].tx = board[a].tx
  <2>1. PICK v : v = [board EXCEPT ![a].silent = 0]
    OBVIOUS
  <2>2. PICK q : q = Deliver(v[dst], g)
    OBVIOUS
  <2>3. Proxy(board, a, dst, g) =
          IF ~board[a].attached \/ dst = None THEN v ELSE [v EXCEPT ![dst] = q]
    BY <2>1, <2>2, Zenon DEF Proxy
  <2>4. board'[a] = v[a]
    <3>1. DOMAIN v = Clients
      BY <2>1, PTypes DEF Boards
    <3>2. [v EXCEPT ![dst] = q][a] = v[a]
      BY <1>4, <3>1
    <3>3. board' = v \/ board' = [v EXCEPT ![dst] = q]
      BY <1>7, <2>3
    <3>4. QED
      BY <3>2, <3>3
  <2>5. v[a].tx = board[a].tx
    BY <2>1, PTypes DEF Boards, Ring
  <2>6. QED
    BY <2>4, <2>5
<1>10. CleanSends
  BY <1>1 DEF CleanSends
\* nothing new comes to a sender itself but what another sends
<1>11. ASSUME NEW b \in Clients
       PROVE  Elsewhere(b)'
  <2>1. Elsewhere(b)
    BY DEF UInv
  <2>2. ASSUME NEW n \in 1..Len(board'[b].tx), board'[b].tx[n] \in Offers \cup Chunks
        PROVE  board'[b].tx[n].src # b
    <3>1. CASE b = a
      BY <1>9, <2>1, <2>2, <3>1 DEF Elsewhere
    <3>2. CASE b # a
      <4>1. board'[b].tx[n] = g \/ \E m \in 1..Len(board[b].tx) : board'[b].tx[n] = board[b].tx[m]
        BY <1>8 DEF AllMove, Brings
      <4>2. QED
        BY <1>5, <2>1, <2>2, <3>2, <4>1 DEF Elsewhere
    <3>3. QED
      BY <3>1, <3>2
  <2>3. QED
    BY <1>1, <2>1, <2>2 DEF Elsewhere
<1>12. ASSUME NEW b \in Clients, client[b].up, NEW e \in Clients,
              NEW n \in 1..Len(board'[e].tx), board'[e].tx[n] \in Offers \cup Chunks,
              board'[e].tx[n].src = b
       PROVE  board'[e].tx[n].id < client[b].next_id
  <2>1. Low(b)
    BY DEF UInv
  <2>2. CASE board'[e].tx[n] = g
    BY <1>1, <1>5, <1>12, <2>1, <2>2 DEF Low
  <2>3. CASE \E m \in 1..Len(board[e].tx) : board'[e].tx[n] = board[e].tx[m]
    BY <1>12, <2>1, <2>3 DEF Low
  <2>4. QED
    BY <1>8, <2>2, <2>3 DEF AllMove, Brings
<1>13. ASSUME NEW b \in Clients
       PROVE  Low(b)'
  <2>1. Low(b)
    BY DEF UInv
  <2>2. Bound(client[b], acts) => Bound(client'[b], acts')
    BY <1>1 DEF Bound
  <2>3. QED
    BY <1>1, <1>12, <2>1, <2>2 DEF Low
<1>14. QED
  BY <1>10, <1>11, <1>13 DEF UInv

\* A frame of a stream at the head of the ring is one that was sent
LEMMA HeadOffered ==
  ASSUME PInv, NEW b \in Clients, board[b].tx # <<>>, NEW f, f = Head(board[b].tx),
         f \in Offers \cup Chunks
  PROVE  \E n \in 1..Len(board[b].tx) :
           /\ board[b].tx[n] \in Offers \cup Chunks
           /\ board[b].tx[n].src = f.src /\ board[b].tx[n].id = f.id
<1>1. board[b].tx \in Seq(Frames)
  BY PTypes DEF Ring
<1>2. f = board[b].tx[1] /\ Len(board[b].tx) \in Nat /\ Len(board[b].tx) # 0
  BY <1>1, HeadTailProperties, EmptySeq, LenProperties
<1>3. 1 \in 1..Len(board[b].tx)
  BY <1>2
<1>4. QED
  BY <1>2, <1>3

\* An OFFER
LEMMA TakeOfferU ==
  ASSUME PInv, UInv, NEW b \in Clients, board[b].tx # <<>>,
         NEW f \in Offers, f = Head(board[b].tx), TakeOffer(b, f), acts' = acts
  PROVE  UInv' /\ CleanSends
<1>1. f.src \in Clients /\ f.id \in Ids
  BY DEF Offers
<1>2. CASE Refuses(b, f.kind)
  <2>1. board' = Reply(b, f.src, "REJECT", f) /\ client' = client
    BY <1>2, Zenon DEF TakeOffer
  <2>2. AllMove(board, Reply(b, f.src, "REJECT", f), Quiet)
    BY <1>1, PTypes, ReplyMoves
  <2>3. AllMove(board, board', Quiet)
    BY <2>1, <2>2, Zenon
  <2>4. QED
    BY <2>1, <2>3, GentleBoards
<1>3. CASE ~Refuses(b, f.kind)
  <2>1. /\ client' = [Accepted(f.src, f) EXCEPT ![b] = OnOffer(@, f)]
        /\ board' = [board EXCEPT ![b].tx = Tail(@), ![b].silent = 0]
    BY <1>3, Zenon DEF TakeOffer
  <2>2. AllMove(board, board', Quiet)
    BY <2>1, PTypes, TakenMoves, Zenon
  <2>3. PICK a : a = f.src
    OBVIOUS
  <2>4. PICK cs : cs = Accepted(a, f)
    OBVIOUS
  <2>5. /\ cs \in [Clients -> Machine]
        /\ \A e \in Clients : /\ Less(client[e], cs[e]) /\ Stays(client[e], cs[e])
                              /\ cs[e].in = client[e].in
    BY <1>1, <2>3, <2>4, AcceptedIs
  <2>6. PICK d : d = OnOffer(cs[b], f)
    OBVIOUS
  <2>7. cs[b] \in Machine
    BY <2>5
  <2>8. /\ d \in Machine /\ d.tx = cs[b].tx /\ Stays(cs[b], d)
        /\ d.in[a] # None /\ d.in[a].id = f.id
        /\ \A x \in Clients : x # a => d.in[x] = cs[b].in[x]
    BY <2>3, <2>6, <2>7, OnOfferIs
  <2>9. \A e \in Clients : client'[e] = IF e = b THEN d ELSE cs[e]
    <3>1. client' = [cs EXCEPT ![b] = d]
      BY <2>1, <2>3, <2>4, <2>6, Zenon
    <3>2. QED
      BY <2>5, <3>1
  <2>10. ASSUME NEW e \in Clients
         PROVE  /\ client'[e].peer # e
                /\ client'[e].tx # None => /\ client[e].tx # None
                                           /\ client'[e].tx.id = client[e].tx.id
                                           /\ client'[e].tx.to = client[e].tx.to
                /\ client'[e].up => /\ client[e].up /\ client'[e].next_id = client[e].next_id
                                    /\ Bound(client'[e], acts')
                /\ Offered(client[e], client'[e], board[e])
    <3>1. Less(client[e], cs[e]) /\ Stays(client[e], cs[e]) /\ cs[e].in = client[e].in
      BY <2>5
    <3>2. Stays(client[e], client'[e]) /\ client'[e].tx = cs[e].tx
      BY <2>8, <2>9, <3>1 DEF Stays
    <3>3. client'[e].peer # e
      BY <3>2 DEF Stays, UInv, Elsewhere
    <3>4. client'[e].up => /\ client[e].up /\ client'[e].next_id = client[e].next_id
                           /\ Bound(client'[e], acts')
      BY <3>2, BoundStays DEF Stays, Bound
    <3>5. client'[e].tx # None => /\ client[e].tx # None
                                  /\ client'[e].tx.id = client[e].tx.id
                                  /\ client'[e].tx.to = client[e].tx.to
      BY <3>1, <3>2 DEF Less
    <3>6. Offered(client[e], client'[e], board[e])
      <4>1. CASE e = b
        <5>1. client'[e] = d
          BY <2>9, <4>1
        <5>2. \A x \in Clients : x # a => d.in[x] = client[e].in[x]
          BY <2>8, <3>1, <4>1
        <5>3. \E n \in 1..Len(board[e].tx) :
                /\ board[e].tx[n] \in Offers \cup Chunks
                /\ board[e].tx[n].src = a /\ board[e].tx[n].id = f.id
          BY <2>3, <4>1, HeadOffered
        <5>4. QED
          BY <2>8, <5>1, <5>2, <5>3 DEF Offered
      <4>2. CASE e # b
        BY <2>9, <3>1, <4>2 DEF Offered
      <4>3. QED
        BY <4>1, <4>2
    <3>7. QED
      BY <3>3, <3>4, <3>5, <3>6
  <2>11. Gentle
    BY <2>2, <2>10 DEF Gentle
  <2>12. QED
    BY <2>11, GentleKeeps
<1>4. QED
  BY <1>2, <1>3

\* A CHUNK
LEMMA TakeChunkU ==
  ASSUME PInv, UInv, NEW b \in Clients, board[b].tx # <<>>,
         NEW f \in Chunks, f = Head(board[b].tx), TakeChunk(b, f), acts' = acts
  PROVE  UInv' /\ CleanSends
<1>1. f.src \in Clients /\ f.id \in Ids /\ f.seq \in Nat
  BY DEF Chunks
<1>2. PICK a, i, s : a = f.src /\ i = f.id /\ s = client[b].in[a]
  OBVIOUS
<1>3. PICK c : c = OnChunk(client[b], f)
  OBVIOUS
<1>4. PICK drop : drop = [board EXCEPT ![b].tx = Tail(@)]
  OBVIOUS
<1>5. AllMove(board, drop, Quiet) /\ drop \in Boards
  BY <1>4, PTypes, TakenMoves DEF AllMove
<1>6. IF s = None \/ s.id # i \/ f.seq # s.got + 1
      THEN board' = drop /\ client' = client
      ELSE IF f.seq < s.total
      THEN Update(b, c) /\ board' = [drop EXCEPT ![b].silent = 0]
      ELSE /\ Update(b, [OnReceived(c, b \in Helpers) EXCEPT !.in[a] = None])
           /\ board' = Reply(b, a, "DONE", f)
  BY <1>2, <1>3, <1>4, Zenon DEF TakeChunk
<1>7. CASE s = None \/ s.id # i \/ f.seq # s.got + 1
  <2>1. board' = drop /\ client' = client
    BY <1>6, <1>7, Zenon
  <2>2. AllMove(board, board', Quiet)
    BY <1>5, <2>1
  <2>3. QED
    BY <2>1, <2>2, GentleBoards
<1>8. CASE s # None /\ s.id = i /\ f.seq = s.got + 1
  <2>1. client[b] \in Machine
    BY PTypes
  <2>2. s \in Inbound
    BY <1>1, <1>2, <1>8, <2>1 DEF Machine
  <2>3. s.got < s.total /\ s.total <= Len(client[b].rx.buf)
    <3>1. PICK p \in Goods : Carries(a, i, p)
      BY <1>1, <1>2 DEF PInv
    <3>2. HeldIs(client[b], a, i, p)
      BY <3>1 DEF Carries
    <3>3. QED
      BY <1>2, <1>8, <3>2, Zenon DEF HeldIs
  <2>4. f.seq \in 1..Len(client[b].rx.buf)
    <3>1. Len(client[b].rx.buf) \in Nat /\ s.got \in Nat /\ s.total \in Nat
      BY <2>1, <2>2, LenProperties DEF Machine, Inbound
    <3>2. QED
      BY <1>1, <1>8, <2>3, <3>1
  <2>5. /\ c \in Machine /\ c.tx = client[b].tx /\ Stays(client[b], c)
        /\ c.in[a].id = s.id
        /\ \A x \in Clients : x # a => c.in[x] = client[b].in[x]
    BY <1>2, <1>3, <1>8, <2>1, <2>4, OnChunkIs
  <2>6. \A x \in Clients : c.in[x] # None =>
          client[b].in[x] # None /\ c.in[x].id = client[b].in[x].id
    BY <1>2, <1>8, <2>5
  <2>7. CASE f.seq < s.total
    <3>1. client' = [client EXCEPT ![b] = c] /\ board' = [drop EXCEPT ![b].silent = 0]
      BY <1>6, <1>8, <2>7 DEF Update
    <3>2. AllMove(drop, [drop EXCEPT ![b].silent = 0], Quiet)
      BY <1>5, TakenMoves
    <3>3. AllMove(board, board', Quiet)
      BY <1>5, <3>1, <3>2, AllMoveOn
    <3>4. Offered(client[b], c, board[b])
      BY <2>6 DEF Offered
    <3>5. c.peer # b
      BY <2>5 DEF Stays, UInv, Elsewhere
    <3>6. c.up => client[b].up /\ c.next_id = client[b].next_id /\ Bound(c, acts')
      BY <2>5, BoundStays DEF Stays, Bound
    <3>7. QED
      BY <2>5, <3>1, <3>3, <3>4, <3>5, <3>6, GentleOne
  <2>8. CASE ~(f.seq < s.total)
    <3>1. PICK h : h = (b \in Helpers)
      OBVIOUS
    <3>2. PICK d : d = Ended(c, a, h)
      OBVIOUS
    <3>3. client' = [client EXCEPT ![b] = d] /\ board' = Reply(b, a, "DONE", f)
      BY <1>6, <1>8, <2>8, <3>1, <3>2, Zenon DEF Update, Ended
    <3>4. AllMove(board, Reply(b, a, "DONE", f), Quiet)
      BY <1>1, <1>2, PTypes, ReplyMoves
    <3>5. AllMove(board, board', Quiet)
      BY <3>3, <3>4, Zenon
    <3>6. /\ d.tx = c.tx /\ d.up = c.up /\ d.peer = c.peer /\ d.next_id = c.next_id
          /\ \A x \in Clients : d.in[x] = IF x = a THEN None ELSE c.in[x]
          /\ \/ d.clip = c.clip /\ d.last_clip = c.last_clip
             \/ d.clip = d.last_clip
      <4>1. a \in Clients /\ c \in Machine
        BY <1>1, <1>2, <2>5
      <4>2. QED
        BY <3>2, <4>1, EndedIs
    <3>7. Offered(client[b], d, board[b])
      BY <2>6, <3>6 DEF Offered
    <3>8. d.peer # b
      BY <2>5, <3>6 DEF Stays, UInv, Elsewhere
    <3>9. ASSUME d.up
          PROVE  client[b].up /\ d.next_id = client[b].next_id /\ Bound(d, acts')
      <4>1. client[b].up /\ d.next_id = client[b].next_id
        BY <2>5, <3>6, <3>9 DEF Stays
      <4>2. Bound(client[b], acts')
        BY <4>1, BoundStays
      <4>3. acts' \in Nat /\ client[b].next_id \in Nat
        BY <2>1, PTypes, ClientAssumption DEF Machine, Ids
      <4>4. CASE d.clip = c.clip /\ d.last_clip = c.last_clip
        BY <2>5, <4>1, <4>2, <4>4 DEF Stays, Bound
      <4>5. CASE d.clip = d.last_clip
        <5>1. d.next_id <= acts' + 2
          BY <4>1, <4>2, <4>3 DEF Bound
        <5>2. QED
          BY <4>1, <4>5, <5>1 DEF Bound
      <4>6. QED
        BY <3>6, <4>1, <4>4, <4>5
    <3>10. QED
      BY <2>5, <3>3, <3>5, <3>6, <3>7, <3>8, <3>9, GentleOne, ZenonT(60)
  <2>9. QED
    BY <2>7, <2>8
<1>9. QED
  BY <1>7, <1>8

\* Read
LEMMA ReadU ==
  ASSUME PInv, UInv, NEW a \in Clients, Read(a)
  PROVE  UInv' /\ CleanSends
<1>1. board[a].tx # <<>> /\ acts' = acts
  BY DEF Read
<1>2. PICK f : f = Head(board[a].tx)
  OBVIOUS
<1>3. f \in Frames
  BY <1>1, <1>2, HeadTrue
<1>4. \/ /\ Update(a, [client[a] EXCEPT !.adopted = TRUE])
         /\ board' = [board EXCEPT ![a].tx = Tail(@)]
      \/ /\ board' = [board EXCEPT ![a].tx = Tail(@), ![a].silent = 0]
         /\ client' = client
      \/ /\ f.type # "STATUS"
         /\ CASE f.type = "OFFER" -> TakeOffer(a, f)
              [] f.type = "CHUNK" -> TakeChunk(a, f)
              [] OTHER            -> TakeAnswer(a, f)
  BY <1>2, Zenon DEF Read
<1>5. CASE /\ Update(a, [client[a] EXCEPT !.adopted = TRUE])
           /\ board' = [board EXCEPT ![a].tx = Tail(@)]
  <2>1. AllMove(board, board', Quiet)
    BY <1>1, <1>5, PTypes, TakenMoves, Zenon
  <2>2. PICK d : d = [client[a] EXCEPT !.adopted = TRUE]
    OBVIOUS
  <2>3. Less(client[a], d) /\ Stays(client[a], d)
    BY <2>2, PTypes DEF Machine, Less, Stays
  <2>4. client' = [client EXCEPT ![a] = d]
    BY <1>5, <2>2, Zenon DEF Update
  <2>5. QED
    BY <1>1, <2>1, <2>3, <2>4, GentleStays
<1>6. CASE /\ board' = [board EXCEPT ![a].tx = Tail(@), ![a].silent = 0]
           /\ client' = client
  <2>1. AllMove(board, board', Quiet)
    BY <1>1, <1>6, PTypes, TakenMoves, Zenon
  <2>2. QED
    BY <1>1, <1>6, <2>1, GentleBoards
<1>7. CASE /\ f.type # "STATUS"
           /\ CASE f.type = "OFFER" -> TakeOffer(a, f)
                [] f.type = "CHUNK" -> TakeChunk(a, f)
                [] OTHER            -> TakeAnswer(a, f)
  <2>1. CASE f.type = "OFFER"
    <3>1. TakeOffer(a, f) /\ f \in Offers
      BY <1>3, <1>7, <2>1, FrameKinds
    <3>2. QED
      BY <1>1, <1>2, <3>1, TakeOfferU
  <2>2. CASE f.type = "CHUNK"
    <3>1. TakeChunk(a, f) /\ f \in Chunks
      BY <1>3, <1>7, <2>2, FrameKinds
    <3>2. QED
      BY <1>1, <1>2, <3>1, TakeChunkU
  <2>3. CASE f.type # "OFFER" /\ f.type # "CHUNK"
    <3>1. TakeAnswer(a, f)
      BY <1>7, <2>3
    <3>2. QED
      BY <1>1, <3>1, AnswerIs, DropsU
  <2>4. QED
    BY <2>1, <2>2, <2>3
<1>8. QED
  BY <1>4, <1>5, <1>6, <1>7

\* Nothing has been sent yet
LEMMA InitUInv ==
  ASSUME Init
  PROVE  UInv
<1>1. client = [a \in Clients |-> Off] /\ board = [a \in Clients |-> NoClient]
  BY DEF Init
<1>2. Len(NoClient.tx) = 0 /\ Off.peer = None
  BY EmptySeq DEF NoClient, Off
<1>3. ASSUME NEW a \in Clients
      PROVE  Elsewhere(a) /\ Low(a)
  <2>1. client[a] = Off /\ Len(board[a].tx) = 0
    BY <1>1, <1>2
  <2>2. Elsewhere(a)
    BY <1>2, <2>1, OffTyped, ClientAssumption DEF Elsewhere
  <2>3. Low(a)
    BY <2>1, OffTyped DEF Low
  <2>4. QED
    BY <2>2, <2>3
<1>4. QED
  BY <1>3 DEF UInv

\* and every step sends to the other, under the next id
LEMMA NextUInv ==
  ASSUME TwoMachines, FewSends, PInv, UInv, [Next]_vars
  PROVE  UInv' /\ CleanSends
<1>1. CASE UNCHANGED vars
  <2>1. client' = client /\ board' = board /\ acts' = acts
    BY <1>1 DEF vars
  <2>2. AllMove(board, board', Quiet)
    BY <2>1, PTypes
  <2>3. QED
    BY <2>1, <2>2, GentleBoards
<1>2. CASE Next
  <2>1. ASSUME NEW a \in Clients, Loop(a)
        PROVE  UInv' /\ CleanSends
    BY <2>1, PollU, TransmitU, ReadU, LoopU, ExpireU DEF Loop
  <2>2. ASSUME NEW a \in Clients, User(a)
        PROVE  UInv' /\ CleanSends
    BY <2>2, UserU, CtlSendU DEF User
  <2>3. ASSUME NEW a \in Clients,
               Start(a) \/ Exit(a) \/ Stall(a) \/ Resume(a) \/ Lose(a)
        PROVE  UInv' /\ CleanSends
    BY <2>3, StartU, ExitU, LoopU
  <2>4. CASE Second
    BY <2>4, SecondU
  <2>5. QED
    BY <1>2, <2>1, <2>2, <2>3, <2>4 DEF Next
<1>3. QED
  BY <1>1, <1>2

\* Both invariants, each with the other's help
LEMMA NextBoth ==
  ASSUME TwoMachines, FewSends, PInv, UInv, [Next]_vars
  PROVE  PInv' /\ UInv'
<1>1. UInv' /\ CleanSends
  BY NextUInv
<1>2. OneSender
  BY TwoDontMix
<1>3. OneSender'
  BY <1>1 DEF TwoMachines, UInv, Elsewhere, OneSender
<1>4. PInv'
  BY <1>1, <1>2, <1>3, NextPInv
<1>5. QED
  BY <1>1, <1>4

(* Between two machines, as long as the users of a client copy and send    *)
(* less often than dhp_data has ids, everything pasted or saved is whole:  *)
(* neither of the two provisos above is needed.                            *)
COROLLARY TwoPasteWhole ==
  TwoMachines /\ FewSends => (Spec => [](TypeOK /\ PastedIntact))
<1>1. SUFFICES ASSUME TwoMachines, FewSends
               PROVE  Spec => [](TypeOK /\ PastedIntact)
  OBVIOUS
<1>2. Init => PInv /\ UInv
  BY InitPInv, InitUInv
<1>3. PInv /\ UInv /\ [Next]_vars => PInv' /\ UInv'
  BY <1>1, NextBoth
<1>4. PInv /\ IInv => TypeOK /\ PastedIntact
  BY PInvSays
<1>5. QED
  BY <1>2, <1>3, <1>4, IInvHolds, PTL DEF Spec
=============================================================================
