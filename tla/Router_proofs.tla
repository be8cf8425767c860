--------------------------- MODULE Router_proofs ---------------------------
(***************************************************************************)
(* Proofs about input routing, for a chain of any length with any boards   *)
(* on it, any number of faults and any frames in flight.  A handler works  *)
(* on the record of its board; the proof shows, handler by handler, that   *)
(* it returns a record and frames of the right form, that it never clears  *)
(* keys_held while it tracks a key, that the pointer's push stays tied to  *)
(* the edge, and that the focus only moves with the speaker's announcement *)
(* of it, which overtakes no older one on the chain.                       *)
(***************************************************************************)
EXTENDS Router, SequenceTheorems, NaturalsInduction, WellFoundedInduction, TLAPS

Input == [kind : {"KBD", "MOUSE"}, down : BOOLEAN, dx : {-1, 0, 1}]
Hello == [caps : SUBSET Caps, active : BOOLEAN]
To == Boards \cup {Everyone}

\* The frames board b originates
From(b) ==
  [type : {"HELLO"}, src : {b}, dst : To, arg : Hello]
    \cup [type : {"INPUT"}, src : {b}, dst : To, arg : Input]
    \cup [type : {"FOCUS"}, src : {b}, dst : To, arg : Boards]
    \cup [type : {"KBD", "MOUSE"}, src : {b}, dst : To, arg : BOOLEAN]
    \cup [type : {"RESIGN", "RELEASE"}, src : {b}, dst : To, arg : {0}]

\* Where the pointer can be: push only builds up at the edge
Pinned(p) == (p.push > 0 => p.travel = SPAN) /\ (p.push < 0 => p.travel = -SPAN)

Pointers ==
  {p \in [travel : -SPAN..SPAN, push : (1 - PUSH)..(PUSH - 1)] : Pinned(p)}

\* The record of board b while a handler works on it; y: its endpoint is ready
Record(b, y) ==
  [self : {b}, up : BOOLEAN, caps : SUBSET Caps,
   chain : [Boards -> SUBSET (Caps \cup {"used"})], focus : Addr,
   hid : [Boards -> SUBSET Class], keys_held : BOOLEAN, active : Addr,
   active_valid : BOOLEAN, vacancy_clean : BOOLEAN, resign_pending : BOOLEAN,
   pointer : Pointers, held : SUBSET Class, lost : SUBSET Class,
   out : Seq(From(b)), ready : {y}, dropped : {FALSE, ~y}, bleed : {0, 1}]

\* A record that tells the election of every key it tracks
Told(r) == ~r.keys_held => \A m \in Boards : r.hid[m] = {}

\* Records of which that is asked (k) or not
Work(b, y, k) == {r \in Record(b, y) : k => Told(r)}

-----------------------------------------------------------------------------
(* Sending *)

\* A frame of the right form may be sent from any record
LEMMA SendWorks ==
  ASSUME NEW b \in Boards, NEW y \in BOOLEAN, NEW k \in BOOLEAN,
         NEW r \in Work(b, y, k), NEW type, NEW dst, NEW arg,
         [type |-> type, src |-> b, dst |-> dst, arg |-> arg] \in From(b)
  PROVE  Send(r, type, dst, arg) \in Work(b, y, k)
<1>1. PICK m : m = [type |-> type, src |-> b, dst |-> dst, arg |-> arg]
  OBVIOUS
<1>2. r.self = b /\ r.out \in Seq(From(b))
  BY DEF Work, Record
<1>3. PICK o : o = Append(r.out, m)
  OBVIOUS
<1>4. o \in Seq(From(b))
  BY <1>1, <1>2, <1>3, AppendProperties
<1>5. Send(r, type, dst, arg) = [r EXCEPT !.out = o]
  BY <1>1, <1>2, <1>3, Zenon DEF Send
<1>6. [r EXCEPT !.out = o] \in Record(b, y)
  BY <1>4 DEF Work, Record
<1>7. Told(r) => Told([r EXCEPT !.out = o])
  BY DEF Told, Work, Record
<1>8. QED
  BY <1>5, <1>6, <1>7 DEF Work

\* hid_bridge_send_*
LEMMA DeliverWorks ==
  ASSUME NEW b \in Boards, NEW y \in BOOLEAN, NEW k \in BOOLEAN,
         NEW r \in Work(b, y, k), NEW c \in Class, NEW down \in BOOLEAN
  PROVE  Deliver(r, c, down) \in Work(b, y, k)
<1>1. r \in Record(b, y) /\ r.ready = y /\ r.held \in SUBSET Class /\ r.lost \in SUBSET Class
  BY DEF Work, Record
<1>2. CASE ~y
  <2>1. PICK l : l = r.lost \cup ({c} \cap r.held)
    OBVIOUS
  <2>2. l \in SUBSET Class
    BY <1>1, <2>1
  <2>3. Deliver(r, c, down) = [r EXCEPT !.lost = l, !.dropped = TRUE]
    BY <1>1, <1>2, <2>1, Zenon DEF Deliver
  <2>4. [r EXCEPT !.lost = l, !.dropped = TRUE] \in Record(b, y)
    BY <1>1, <1>2, <2>2 DEF Record
  <2>5. Told(r) => Told([r EXCEPT !.lost = l, !.dropped = TRUE])
    BY <1>1 DEF Told, Record
  <2>6. QED
    BY <2>3, <2>4, <2>5 DEF Work
<1>3. CASE y
  <2>1. PICK h, l : h = Pressed(r.held, c, down) /\ l = r.lost \ {c}
    OBVIOUS
  <2>2. l \in SUBSET Class /\ h \in SUBSET Class
    BY <1>1, <2>1 DEF Pressed
  <2>3. Deliver(r, c, down) = [r EXCEPT !.held = h, !.lost = l]
    BY <1>1, <1>3, <2>1, Zenon DEF Deliver
  <2>4. [r EXCEPT !.held = h, !.lost = l] \in Record(b, y)
    BY <1>1, <1>3, <2>2 DEF Record
  <2>5. Told(r) => Told([r EXCEPT !.held = h, !.lost = l])
    BY <1>1 DEF Told, Record
  <2>6. QED
    BY <2>3, <2>4, <2>5 DEF Work
<1>4. QED
  BY <1>2, <1>3

\* Tracking is changed: any change of a record no longer asked about, and a
\* change that forgets keys of any record
LEMMA HidWorks ==
  ASSUME NEW b \in Boards, NEW y \in BOOLEAN, NEW k \in BOOLEAN,
         NEW r \in Work(b, y, k), NEW h \in [Boards -> SUBSET Class],
         k => \A m \in Boards : h[m] \subseteq r.hid[m]
  PROVE  [r EXCEPT !.hid = h] \in Work(b, y, k)
<1>1. r \in Record(b, y)
  BY DEF Work
<1>2. [r EXCEPT !.hid = h] \in Record(b, y)
  BY <1>1 DEF Record
<1>3. k => Told([r EXCEPT !.hid = h])
  BY <1>1 DEF Told, Record, Work
<1>4. QED
  BY <1>2, <1>3 DEF Work

\* The other fields that handlers assign
LEMMA FieldsWork ==
  ASSUME NEW b \in Boards, NEW y \in BOOLEAN, NEW k \in BOOLEAN,
         NEW r \in Work(b, y, k)
  PROVE  /\ \A a \in Addr : [r EXCEPT !.focus = a] \in Work(b, y, k)
         /\ \A p \in Pointers : [r EXCEPT !.pointer = p] \in Work(b, y, k)
         /\ \A a \in Addr, p \in Pointers :
              [r EXCEPT !.focus = a, !.pointer = p] \in Work(b, y, k)
         /\ \A a \in Addr, z \in BOOLEAN :
              [r EXCEPT !.resign_pending = z, !.active = a] \in Work(b, y, k)
         /\ \A a \in Addr, v, z \in BOOLEAN :
              [r EXCEPT !.active = a, !.active_valid = v, !.resign_pending = z] \in Work(b, y, k)
         /\ \A z \in BOOLEAN : [r EXCEPT !.resign_pending = z] \in Work(b, y, k)
         /\ \A a \in Addr, v, z \in BOOLEAN :
              [r EXCEPT !.active = a, !.active_valid = v, !.vacancy_clean = z] \in Work(b, y, k)
         /\ \A a \in Addr, z \in BOOLEAN :
              [r EXCEPT !.active = a, !.vacancy_clean = z] \in Work(b, y, k)
         /\ \A c \in [Boards -> SUBSET (Caps \cup {"used"})] :
              [r EXCEPT !.chain = c] \in Work(b, y, k)
         /\ \A a \in Addr : [r EXCEPT !.active = a] \in Work(b, y, k)
<1>1. r \in Record(b, y) /\ (k => Told(r))
  BY DEF Work
<1>2. \A a \in Addr : [r EXCEPT !.focus = a] \in Work(b, y, k)
  <2> TAKE a \in Addr
  <2>1. [r EXCEPT !.focus = a] \in Record(b, y)
    BY <1>1 DEF Record
  <2>2. Told(r) => Told([r EXCEPT !.focus = a])
    BY <1>1 DEF Record, Told
  <2>3. QED
    BY <1>1, <2>1, <2>2 DEF Work
<1>3. \A p \in Pointers : [r EXCEPT !.pointer = p] \in Work(b, y, k)
  <2> TAKE p \in Pointers
  <2>1. [r EXCEPT !.pointer = p] \in Record(b, y)
    BY <1>1 DEF Record
  <2>2. Told(r) => Told([r EXCEPT !.pointer = p])
    BY <1>1 DEF Record, Told
  <2>3. QED
    BY <1>1, <2>1, <2>2 DEF Work
<1>4. \A a \in Addr, p \in Pointers :
              [r EXCEPT !.focus = a, !.pointer = p] \in Work(b, y, k)
  <2> TAKE a \in Addr, p \in Pointers
  <2>1. [r EXCEPT !.focus = a, !.pointer = p] \in Record(b, y)
    BY <1>1 DEF Record
  <2>2. Told(r) => Told([r EXCEPT !.focus = a, !.pointer = p])
    BY <1>1 DEF Record, Told
  <2>3. QED
    BY <1>1, <2>1, <2>2 DEF Work
<1>5. \A a \in Addr, z \in BOOLEAN :
              [r EXCEPT !.resign_pending = z, !.active = a] \in Work(b, y, k)
  <2> TAKE a \in Addr, z \in BOOLEAN
  <2>1. [r EXCEPT !.resign_pending = z, !.active = a] \in Record(b, y)
    BY <1>1 DEF Record
  <2>2. Told(r) => Told([r EXCEPT !.resign_pending = z, !.active = a])
    BY <1>1 DEF Record, Told
  <2>3. QED
    BY <1>1, <2>1, <2>2 DEF Work
<1>6. \A a \in Addr, v, z \in BOOLEAN :
              [r EXCEPT !.active = a, !.active_valid = v, !.resign_pending = z] \in Work(b, y, k)
  <2> TAKE a \in Addr, v, z \in BOOLEAN
  <2>1. [r EXCEPT !.active = a, !.active_valid = v, !.resign_pending = z] \in Record(b, y)
    BY <1>1 DEF Record
  <2>2. Told(r) => Told([r EXCEPT !.active = a, !.active_valid = v, !.resign_pending = z])
    BY <1>1 DEF Record, Told
  <2>3. QED
    BY <1>1, <2>1, <2>2 DEF Work
<1>7. \A z \in BOOLEAN : [r EXCEPT !.resign_pending = z] \in Work(b, y, k)
  <2> TAKE z \in BOOLEAN
  <2>1. [r EXCEPT !.resign_pending = z] \in Record(b, y)
    BY <1>1 DEF Record
  <2>2. Told(r) => Told([r EXCEPT !.resign_pending = z])
    BY <1>1 DEF Record, Told
  <2>3. QED
    BY <1>1, <2>1, <2>2 DEF Work
<1>8. \A a \in Addr, v, z \in BOOLEAN :
              [r EXCEPT !.active = a, !.active_valid = v, !.vacancy_clean = z] \in Work(b, y, k)
  <2> TAKE a \in Addr, v, z \in BOOLEAN
  <2>1. [r EXCEPT !.active = a, !.active_valid = v, !.vacancy_clean = z] \in Record(b, y)
    BY <1>1 DEF Record
  <2>2. Told(r) => Told([r EXCEPT !.active = a, !.active_valid = v, !.vacancy_clean = z])
    BY <1>1 DEF Record, Told
  <2>3. QED
    BY <1>1, <2>1, <2>2 DEF Work
<1>9. \A a \in Addr, z \in BOOLEAN :
              [r EXCEPT !.active = a, !.vacancy_clean = z] \in Work(b, y, k)
  <2> TAKE a \in Addr, z \in BOOLEAN
  <2>1. [r EXCEPT !.active = a, !.vacancy_clean = z] \in Record(b, y)
    BY <1>1 DEF Record
  <2>2. Told(r) => Told([r EXCEPT !.active = a, !.vacancy_clean = z])
    BY <1>1 DEF Record, Told
  <2>3. QED
    BY <1>1, <2>1, <2>2 DEF Work
<1>10. \A c \in [Boards -> SUBSET (Caps \cup {"used"})] :
              [r EXCEPT !.chain = c] \in Work(b, y, k)
  <2> TAKE c \in [Boards -> SUBSET (Caps \cup {"used"})]
  <2>1. [r EXCEPT !.chain = c] \in Record(b, y)
    BY <1>1 DEF Record
  <2>2. Told(r) => Told([r EXCEPT !.chain = c])
    BY <1>1 DEF Record, Told
  <2>3. QED
    BY <1>1, <2>1, <2>2 DEF Work
<1>11. \A a \in Addr : [r EXCEPT !.active = a] \in Work(b, y, k)
  <2> TAKE a \in Addr
  <2>1. [r EXCEPT !.active = a] \in Record(b, y)
    BY <1>1 DEF Record
  <2>2. Told(r) => Told([r EXCEPT !.active = a])
    BY <1>1 DEF Record, Told
  <2>3. QED
    BY <1>1, <2>1, <2>2 DEF Work
<1>12. QED
  BY <1>2, <1>3, <1>4, <1>5, <1>6, <1>7, <1>8, <1>9, <1>10, <1>11

\* What a handler may rely on
LEMMA Typed ==
  ASSUME NEW b \in Boards, NEW y \in BOOLEAN, NEW k \in BOOLEAN,
         NEW r \in Work(b, y, k)
  PROVE  /\ r.self = b /\ r.ready = y /\ r.caps \in SUBSET Caps
         /\ r.chain \in [Boards -> SUBSET (Caps \cup {"used"})]
         /\ r.hid \in [Boards -> SUBSET Class]
         /\ r.focus \in Addr /\ r.active \in Addr
         /\ r.active_valid \in BOOLEAN /\ r.vacancy_clean \in BOOLEAN
         /\ r.resign_pending \in BOOLEAN /\ r.keys_held \in BOOLEAN
         /\ r.pointer \in Pointers /\ r.bleed \in {0, 1}
         /\ r.out \in Seq(From(b))
         /\ r.held \in SUBSET Class /\ r.lost \in SUBSET Class
         /\ r \in Work(b, y, FALSE)
  BY DEF Work, Record

\* set_keys_held: after it, a record tells of every key it tracks
LEMMA NotedWorks ==
  ASSUME NEW b \in Boards, NEW y \in BOOLEAN, NEW r \in Work(b, y, FALSE)
  PROVE  Noted(r) \in Work(b, y, TRUE)
<1>1. r \in Record(b, y)
  BY DEF Work
<1>2. PICK a \in BOOLEAN : a = AnyHeld(r)
  BY DEF AnyHeld
<1>3. Noted(r) = [r EXCEPT !.keys_held = a]
  BY <1>2, Zenon DEF Noted
<1>4. [r EXCEPT !.keys_held = a] \in Record(b, y)
  BY <1>1 DEF Record
<1>5. Told([r EXCEPT !.keys_held = a])
  BY <1>1, <1>2 DEF Told, AnyHeld, Record
<1>6. QED
  BY <1>3, <1>4, <1>5 DEF Work

\* The frames of a handler, by type
LEMMA FrameForms ==
  ASSUME NEW b \in Boards
  PROVE  /\ \A dst \in To, h \in Hello :
              [type |-> "HELLO", src |-> b, dst |-> dst, arg |-> h] \in From(b)
         /\ \A dst \in To, i \in Input :
              [type |-> "INPUT", src |-> b, dst |-> dst, arg |-> i] \in From(b)
         /\ \A dst \in To, t \in Boards :
              [type |-> "FOCUS", src |-> b, dst |-> dst, arg |-> t] \in From(b)
         /\ \A dst \in To, c \in Class, d \in BOOLEAN :
              [type |-> TypeOf(c), src |-> b, dst |-> dst, arg |-> d] \in From(b)
         /\ \A dst \in To, t \in {"RESIGN", "RELEASE"} :
              [type |-> t, src |-> b, dst |-> dst, arg |-> 0] \in From(b)
  BY DEF From, TypeOf, Class

\* A report on its way to a machine
LEMMA PassWorks ==
  ASSUME NEW b \in Boards, NEW y \in BOOLEAN, NEW k \in BOOLEAN,
         NEW r \in Work(b, y, k), NEW dst \in Addr, NEW c \in Class,
         NEW down \in BOOLEAN
  PROVE  Pass(r, dst, c, down) \in Work(b, y, k)
<1>1. CASE dst = r.self
  BY <1>1, DeliverWorks DEF Pass
<1>2. CASE dst # r.self /\ dst = NoAddr
  BY <1>2 DEF Pass
<1>3. CASE dst # r.self /\ dst # NoAddr
  <2>1. dst \in To
    BY <1>3 DEF Addr, To
  <2>2. [type |-> TypeOf(c), src |-> b, dst |-> dst, arg |-> down] \in From(b)
    BY <2>1, FrameForms
  <2>3. Send(r, TypeOf(c), dst, down) \in Work(b, y, k)
    BY <2>2, SendWorks
  <2>4. QED
    BY <1>3, <2>3, Zenon DEF Pass
<1>4. QED
  BY <1>1, <1>2, <1>3

\* The tracker entry for an address is one of the table
LEMMA SlotIsBoard ==
  ASSUME NEW b \in Boards, NEW y \in BOOLEAN, NEW k \in BOOLEAN,
         NEW r \in Work(b, y, k), NEW addr
  PROVE  SlotOf(r, addr) \in Boards
  BY Typed, ZenonT(30) DEF SlotOf, Known

\* send_kbd_to, send_mouse_to
LEMMA SendToWorks ==
  ASSUME NEW b \in Boards, NEW y \in BOOLEAN, NEW k \in BOOLEAN,
         NEW r \in Work(b, y, k), NEW dst \in Addr, NEW c \in Class,
         NEW down \in BOOLEAN
  PROVE  SendTo(r, dst, c, down) \in Work(b, y, FALSE)
<1>1. PICK m \in Boards : m = SlotOf(r, dst)
  BY SlotIsBoard
<1>2. r.hid \in [Boards -> SUBSET Class] /\ r \in Work(b, y, FALSE)
  BY Typed
<1>3. PICK h : h = [r.hid EXCEPT ![m] = Pressed(@, c, down)]
  OBVIOUS
<1>4. h \in [Boards -> SUBSET Class]
  BY <1>2, <1>3 DEF Pressed
<1>5. [r EXCEPT !.hid[SlotOf(r, dst)] = Pressed(@, c, down)] = [r EXCEPT !.hid = h]
  BY <1>1, <1>3, Zenon
<1>6. PICK s : s = [r EXCEPT !.hid = h]
  OBVIOUS
<1>7. s \in Work(b, y, FALSE)
  BY <1>2, <1>4, <1>6, HidWorks
<1>8. Pass(s, dst, c, down) \in Work(b, y, FALSE)
  BY <1>7, PassWorks
<1>9. SendTo(r, dst, c, down) = Pass(s, dst, c, down)
  BY <1>5, <1>6, Zenon DEF SendTo
<1>10. QED
  BY <1>8, <1>9

\* release_machine only forgets keys
LEMMA ReleaseMachineWorks ==
  ASSUME NEW b \in Boards, NEW y \in BOOLEAN, NEW k \in BOOLEAN,
         NEW r \in Work(b, y, k), NEW addr \in Addr
  PROVE  ReleaseMachine(r, addr) \in Work(b, y, k)
<1>1. PICK m \in Boards : m = SlotOf(r, addr)
  BY SlotIsBoard
<1>2. r.hid \in [Boards -> SUBSET Class]
  BY Typed
<1>3. PICK h : h = [r.hid EXCEPT ![m] = {}]
  OBVIOUS
<1>4. h \in [Boards -> SUBSET Class] /\ \A n \in Boards : h[n] \subseteq r.hid[n]
  BY <1>2, <1>3
<1>5. PICK s : s = [r EXCEPT !.hid = h]
  OBVIOUS
<1>6. s \in Work(b, y, k)
  BY <1>4, <1>5, HidWorks
<1>7. PICK t : t = Pass(s, addr, "key", FALSE)
  OBVIOUS
<1>8. "key" \in Class /\ "btn" \in Class
  BY DEF Class
<1>9. t \in Work(b, y, k)
  BY <1>6, <1>7, <1>8, PassWorks
<1>10. Pass(t, addr, "btn", FALSE) \in Work(b, y, k)
  BY <1>8, <1>9, PassWorks
<1>11. [r EXCEPT !.hid[SlotOf(r, addr)] = {}] = s
  BY <1>1, <1>3, <1>5, Zenon
<1>12. ReleaseMachine(r, addr) = r \/ ReleaseMachine(r, addr) = Pass(t, addr, "btn", FALSE)
  BY <1>7, <1>11, Zenon DEF ReleaseMachine
<1>13. QED
  BY <1>10, <1>12

-----------------------------------------------------------------------------
(* The pointer *)

\* What the constants give
LEMMA PointerWidth ==
  SPAN \in Nat \ {0} /\ PUSH \in Nat \ {0} /\ GUARD \in 0..SPAN
  BY RoutingAssumption

\* The pointer enters clear of the edge it came from
LEMMA ArriveIn ==
  ASSUME NEW e \in {-1, 0, 1}
  PROVE  Arrive(e) \in Pointers
<1>1. PICK t : t = e * (GUARD - SPAN)
  OBVIOUS
<1>2. t \in -SPAN..SPAN
  <2>1. CASE e = 1
    BY <1>1, <2>1, PointerWidth
  <2>2. CASE e = 0
    BY <1>1, <2>2, PointerWidth
  <2>3. CASE e = -1
    BY <1>1, <2>3, PointerWidth
  <2>4. QED
    BY <2>1, <2>2, <2>3
<1>3. Arrive(e) = [travel |-> t, push |-> 0]
  BY <1>1, Zenon DEF Arrive
<1>4. [travel |-> t, push |-> 0] \in Pointers
  BY <1>2, PointerWidth DEF Pointers, Pinned
<1>5. QED
  BY <1>3, <1>4

\* Time only eats push away
LEMMA DecayIn ==
  ASSUME NEW p \in Pointers, NEW bleed \in {0, 1}
  PROVE  Decay(p, bleed) \in Pointers
<1>1. PICK t \in -SPAN..SPAN, u \in (1 - PUSH)..(PUSH - 1) :
        /\ p = [travel |-> t, push |-> u]
        /\ u > 0 => t = SPAN
        /\ u < 0 => t = -SPAN
  BY DEF Pointers, Pinned
<1>2. PICK v : v = IF u > 0 THEN (IF u > bleed THEN u - bleed ELSE 0)
                   ELSE IF -u > bleed THEN u + bleed ELSE 0
  OBVIOUS
<1>3. Decay(p, bleed) = [travel |-> t, push |-> v]
  BY <1>1, <1>2 DEF Decay
<1>4. /\ v \in (1 - PUSH)..(PUSH - 1)
      /\ v > 0 => t = SPAN
      /\ v < 0 => t = -SPAN
  BY <1>1, <1>2, PointerWidth
<1>5. QED
  BY <1>3, <1>4 DEF Pointers, Pinned

\* A report moves the pointer or pushes on: still at the edge if there is push
LEMMA AxisFeedIn ==
  ASSUME NEW p \in Pointers, NEW d \in {-1, 0, 1}
  PROVE  /\ Crossing(AxisFeed(p, d)) \in {-1, 0, 1}
         /\ Crossing(AxisFeed(p, d)) = 0 => AxisFeed(p, d) \in Pointers
<1>1. PICK t \in -SPAN..SPAN, u \in (1 - PUSH)..(PUSH - 1) :
        /\ p = [travel |-> t, push |-> u]
        /\ u > 0 => t = SPAN
        /\ u < 0 => t = -SPAN
  BY DEF Pointers, Pinned
<1>2. PICK tt, uu : /\ tt = Clamp(t + d, -SPAN, SPAN)
                    /\ uu = IF (t >= SPAN /\ d > 0) \/ (t <= -SPAN /\ d < 0)
                            THEN u + d
                            ELSE IF (u > 0 /\ d < 0) \/ (u < 0 /\ d > 0)
                            THEN 0 ELSE u
  OBVIOUS
<1>3. AxisFeed(p, d) = [travel |-> tt, push |-> uu]
  BY <1>1, <1>2 DEF AxisFeed
<1>4. tt \in -SPAN..SPAN /\ uu \in Int
  BY <1>1, <1>2, PointerWidth DEF Clamp
<1>5. (uu > 0 => tt = SPAN) /\ (uu < 0 => tt = -SPAN)
  BY <1>1, <1>2, PointerWidth DEF Clamp
<1>6. PICK e : e = IF uu >= PUSH THEN 1 ELSE IF uu <= -PUSH THEN -1 ELSE 0
  OBVIOUS
<1>7. Crossing(AxisFeed(p, d)) = e
  BY <1>3, <1>6 DEF Crossing
<1>8. e \in {-1, 0, 1} /\ (e = 0 => uu \in (1 - PUSH)..(PUSH - 1))
  BY <1>4, <1>6, PointerWidth
<1>9. e = 0 => AxisFeed(p, d) \in Pointers
  BY <1>3, <1>4, <1>5, <1>8 DEF Pointers, Pinned
<1>10. QED
  BY <1>7, <1>8, <1>9

-----------------------------------------------------------------------------
(* Where focus goes *)

\* There is a nearest board
LEMMA NearestIn ==
  ASSUME NEW S \in SUBSET Boards, NEW from \in Boards
  PROVE  Nearest(S, from) \in Addr
<1>1. CASE S = {}
  BY <1>1 DEF Nearest, Addr
<1>2. CASE S # {}
  <2> DEFINE dist(d) == (d - from) * (d - from)
             D == {dist(d) : d \in S}
  <2>1. \A d \in S : dist(d) \in Nat
    BY RoutingAssumption DEF Boards
  <2>2. D \subseteq Nat /\ D # {}
    BY <1>2, <2>1
  <2> HIDE DEF dist, D
  <2>3. PICK n \in D : \A m \in D : ~(<<m, n>> \in OpToRel(<, Nat))
    BY <2>2, WFMin, NatLessThanWellFounded, Zenon
  <2>4. \A m \in D : ~(m < n)
    BY <2>2, <2>3, Zenon DEF OpToRel
  <2>5. \A m \in D : n <= m
    BY <2>2, <2>4
  <2>6. PICK d \in S : n = dist(d)
    BY <2>3 DEF D
  <2>7. \A e \in S : dist(d) <= dist(e)
    BY <2>5, <2>6 DEF D
  <2>8. \E c \in S : \A e \in S : (c - from) * (c - from) <= (e - from) * (e - from)
    BY <2>7 DEF dist
  <2>9. (CHOOSE c \in S : \A e \in S : (c - from) * (c - from)
                                         <= (e - from) * (e - from)) \in S
    BY <2>8, Zenon
  <2>10. Nearest(S, from) \in S
    BY <1>2, <2>9, Zenon DEF Nearest
  <2>11. QED
    BY <2>10 DEF Addr
<1>3. QED
  BY <1>1, <1>2

\* neighbour_of, button_target and pick_default_focus return a board of the
\* table or none
LEMMA TargetsIn ==
  ASSUME NEW b \in Boards, NEW y \in BOOLEAN, NEW k \in BOOLEAN,
         NEW r \in Work(b, y, k)
  PROVE  /\ \A from, dir : NeighbourOf(r, from, dir) \in Addr
         /\ ButtonTarget(r) \in Addr
         /\ PickDefaultFocus(r) \subseteq Addr
<1>1. /\ Known(r) \subseteq Boards /\ Screens(r) \subseteq Boards
      /\ r.self \in Boards /\ NoAddr \in Addr /\ Boards \subseteq Addr
  BY Typed DEF Known, Screens, Addr
<1>2. ASSUME NEW from, NEW dir
      PROVE  NeighbourOf(r, from, dir) \in Addr
  <2>1. PICK S : S = {d \in Screens(r) \cup {r.self} : (d - from) * dir > 0}
    OBVIOUS
  <2>2. S \in SUBSET Boards
    BY <1>1, <2>1
  <2>3. NeighbourOf(r, from, dir) =
          IF from \notin Known(r) THEN NoAddr ELSE Nearest(S, from)
    BY <2>1, Zenon DEF NeighbourOf
  <2>4. CASE from \notin Known(r)
    BY <1>1, <2>3, <2>4
  <2>5. CASE from \in Known(r)
    <3>1. from \in Boards
      BY <1>1, <2>5
    <3>2. Nearest(S, from) \in Addr
      BY <2>2, <3>1, NearestIn
    <3>3. QED
      BY <2>3, <2>5, <3>2
  <2>6. QED
    BY <2>4, <2>5
<1>3. ButtonTarget(r) \in Addr
  <2>1. PICK cur : cur = IF r.focus \in Known(r) THEN r.focus ELSE r.self
    OBVIOUS
  <2>2. cur \in Boards
    BY <1>1, <2>1
  <2>3. PICK next : next = {d \in Screens(r) : d > cur}
    OBVIOUS
  <2>4. next \in SUBSET Boards /\ Screens(r) \in SUBSET Boards /\ 1 \in Boards
    BY <1>1, <2>3, RoutingAssumption DEF Boards
  <2>5. Nearest(next, cur) \in Addr /\ Nearest(Screens(r), 1) \in Addr
    BY <2>2, <2>4, NearestIn
  <2>6. ButtonTarget(r) = IF next # {} THEN Nearest(next, cur) ELSE Nearest(Screens(r), 1)
    BY <2>1, <2>3, Zenon DEF ButtonTarget
  <2>7. QED
    BY <2>5, <2>6
<1>4. PickDefaultFocus(r) \subseteq Addr
  BY <1>1 DEF PickDefaultFocus
<1>5. QED
  BY <1>2, <1>3, <1>4

\* apply_focus: the old machine is released, the pointer placed, all are told
LEMMA ApplyFocusWorks ==
  ASSUME NEW b \in Boards, NEW y \in BOOLEAN, NEW k \in BOOLEAN,
         NEW r \in Work(b, y, k), NEW target \in Addr, NEW edge \in {-1, 0, 1}
  PROVE  ApplyFocus(r, target, edge) \in Work(b, y, k)
<1>1. CASE target \in {NoAddr, r.focus}
  BY <1>1 DEF ApplyFocus
<1>2. CASE target \notin {NoAddr, r.focus}
  <2>1. target \in Boards /\ r.focus \in Addr /\ Everyone \in To
    BY <1>2, Typed DEF Addr, To
  <2>2. PICK s : s = ReleaseMachine(r, r.focus)
    OBVIOUS
  <2>3. s \in Work(b, y, k)
    BY <2>1, <2>2, ReleaseMachineWorks
  <2>4. PICK p \in Pointers : p = Arrive(edge)
    BY ArriveIn
  <2>5. PICK t : t = [s EXCEPT !.focus = target, !.pointer = p]
    OBVIOUS
  <2>6. t \in Work(b, y, k)
    BY <2>3, <2>5, FieldsWork
  <2>7. Send(t, "FOCUS", Everyone, target) \in Work(b, y, k)
    BY <2>1, <2>6, FrameForms, SendWorks
  <2>8. ApplyFocus(r, target, edge) = Send(t, "FOCUS", Everyone, target)
    BY <1>2, <2>2, <2>4, <2>5, Zenon DEF ApplyFocus
  <2>9. QED
    BY <2>7, <2>8
<1>3. QED
  BY <1>1, <1>2

-----------------------------------------------------------------------------
(* The election *)

\* dhp_router's HELLO
LEMMA SendHelloWorks ==
  ASSUME NEW b \in Boards, NEW y \in BOOLEAN, NEW k \in BOOLEAN,
         NEW r \in Work(b, y, k)
  PROVE  SendHello(r) \in Work(b, y, k)
<1>1. PICK h : h = [caps |-> r.caps, active |-> IsActive(r)]
  OBVIOUS
<1>2. h \in Hello /\ Everyone \in To
  BY <1>1, Typed DEF Hello, To, IsActive
<1>3. Send(r, "HELLO", Everyone, h) \in Work(b, y, k)
  BY <1>2, FrameForms, SendWorks
<1>4. QED
  BY <1>1, <1>3, Zenon DEF SendHello

\* The board's own machine lets everything go
LEMMA LetGoWorks ==
  ASSUME NEW b \in Boards, NEW y \in BOOLEAN, NEW k \in BOOLEAN,
         NEW r \in Work(b, y, k)
  PROVE  LetGo(r) \in Work(b, y, k)
<1>1. "key" \in Class /\ "btn" \in Class
  BY DEF Class
<1>2. PICK s : s = Deliver(r, "key", FALSE)
  OBVIOUS
<1>3. s \in Work(b, y, k)
  BY <1>1, <1>2, DeliverWorks
<1>4. Deliver(s, "btn", FALSE) \in Work(b, y, k)
  BY <1>1, <1>3, DeliverWorks
<1>5. QED
  BY <1>2, <1>4, Zenon DEF LetGo

\* broadcast_release_all forgets every key
LEMMA ReleaseAllWorks ==
  ASSUME NEW b \in Boards, NEW y \in BOOLEAN, NEW k \in BOOLEAN,
         NEW r \in Work(b, y, k)
  PROVE  BroadcastReleaseAll(r) \in Work(b, y, k)
<1>1. PICK s : s = Send(r, "RELEASE", Everyone, 0)
  OBVIOUS
<1>2. s \in Work(b, y, k)
  BY <1>1, FrameForms, SendWorks DEF To
<1>3. PICK h : h = [m \in Boards |-> {}]
  OBVIOUS
<1>4. /\ h \in [Boards -> SUBSET Class]
      /\ \A m \in Boards : h[m] \subseteq s.hid[m]
  BY <1>3
<1>5. PICK t : t = [s EXCEPT !.hid = h]
  OBVIOUS
<1>6. t \in Work(b, y, k)
  BY <1>2, <1>4, <1>5, HidWorks
<1>7. LetGo(t) \in Work(b, y, k)
  BY <1>6, LetGoWorks
<1>8. BroadcastReleaseAll(r) = LetGo(t)
  BY <1>1, <1>3, <1>5, Zenon DEF BroadcastReleaseAll
<1>9. QED
  BY <1>7, <1>8

\* Rule 1
LEMMA ServiceResignWorks ==
  ASSUME NEW b \in Boards, NEW y \in BOOLEAN, NEW k \in BOOLEAN,
         NEW r \in Work(b, y, k), NEW deadline \in BOOLEAN
  PROVE  ServiceResign(r, deadline) \in Work(b, y, k)
<1>1. CASE ~r.resign_pending \/ (r.keys_held /\ ~deadline)
  BY <1>1, Zenon DEF ServiceResign
<1>2. CASE ~(~r.resign_pending \/ (r.keys_held /\ ~deadline))
  <2>1. PICK s : s = IF r.keys_held THEN BroadcastReleaseAll(r) ELSE r
    OBVIOUS
  <2>2. s \in Work(b, y, k)
    BY <2>1, ReleaseAllWorks
  <2>3. PICK t : t = Send(s, "RESIGN", Everyone, 0)
    OBVIOUS
  <2>4. t \in Work(b, y, k)
    BY <2>2, <2>3, FrameForms, SendWorks DEF To
  <2>5. NoAddr \in Addr
    BY DEF Addr
  <2>6. [t EXCEPT !.resign_pending = FALSE, !.active = NoAddr] \in Work(b, y, k)
    BY <2>4, <2>5, FieldsWork
  <2>7. ServiceResign(r, deadline) = [t EXCEPT !.resign_pending = FALSE, !.active = NoAddr]
    BY <1>2, <2>1, <2>3, Zenon DEF ServiceResign
  <2>8. QED
    BY <2>6, <2>7
<1>3. QED
  BY <1>1, <1>2

\* become_active, and what the router does then
LEMMA PromoteWorks ==
  ASSUME NEW b \in Boards, NEW y \in BOOLEAN, NEW k \in BOOLEAN,
         NEW r \in Work(b, y, k), NEW t \in Promote(r)
  PROVE  t \in Work(b, y, k)
<1>1. PICK s : s = IF r.active_valid /\ ~r.vacancy_clean THEN BroadcastReleaseAll(r) ELSE r
  OBVIOUS
<1>2. s \in Work(b, y, k)
  BY <1>1, ReleaseAllWorks
<1>3. r.self \in Addr
  <2>1. r.self = b
    BY Typed
  <2>2. QED
    BY <2>1 DEF Addr
<1>4. PICK u : u = [s EXCEPT !.active = r.self, !.active_valid = TRUE, !.resign_pending = FALSE]
  OBVIOUS
<1>5. u \in Work(b, y, k)
  BY <1>2, <1>3, <1>4, FieldsWork
<1>6. BecomeActive(r) = u
  BY <1>1, <1>4, Zenon DEF BecomeActive
<1>7. PICK v : v = SendHello(u)
  OBVIOUS
<1>8. v \in Work(b, y, k)
  BY <1>5, <1>7, SendHelloWorks
<1>9. PICK f \in (IF r.focus \in Known(r) THEN {r.focus} ELSE PickDefaultFocus(r)) :
        t = Announce(v, f)
  <2>1. PICK g \in (IF r.focus \in Known(r) THEN {r.focus} ELSE PickDefaultFocus(r)) :
          t = Announce(SendHello(BecomeActive(r)), g)
    BY Zenon DEF Promote
  <2>2. t = Announce(v, g)
    BY <1>6, <1>7, <2>1, Zenon
  <2>3. QED
    BY <2>2
<1>10. f \in Addr
  <2>1. r.focus \in Addr /\ PickDefaultFocus(r) \subseteq Addr
    BY Typed, TargetsIn
  <2>2. QED
    BY <1>9, <2>1
<1>11. CASE f = NoAddr
  <2>1. Announce(v, f) = v
    BY <1>11, Zenon DEF Announce
  <2>2. QED
    BY <1>8, <1>9, <2>1
<1>12. CASE f # NoAddr
  <2>1. f \in Boards /\ Everyone \in To
    BY <1>10, <1>12 DEF Addr, To
  <2>2. PICK w : w = [v EXCEPT !.focus = f]
    OBVIOUS
  <2>3. w \in Work(b, y, k)
    BY <1>8, <1>10, <2>2, FieldsWork
  <2>4. Send(w, "FOCUS", Everyone, f) \in Work(b, y, k)
    BY <2>1, <2>3, FrameForms, SendWorks
  <2>5. Announce(v, f) = Send(w, "FOCUS", Everyone, f)
    BY <1>12, <2>2, Zenon DEF Announce
  <2>6. QED
    BY <1>9, <2>4, <2>5
<1>13. QED
  BY <1>11, <1>12

\* The chain table learns of a board
LEMMA ChainWorks ==
  ASSUME NEW b \in Boards, NEW y \in BOOLEAN, NEW k \in BOOLEAN,
         NEW r \in Work(b, y, k), NEW d \in Boards, NEW S \in SUBSET (Caps \cup {"used"})
  PROVE  [r EXCEPT !.chain[d] = S] \in Work(b, y, k)
<1>1. r.chain \in [Boards -> SUBSET (Caps \cup {"used"})]
  BY Typed
<1>2. PICK c : c = [r.chain EXCEPT ![d] = S]
  OBVIOUS
<1>3. c \in [Boards -> SUBSET (Caps \cup {"used"})]
  BY <1>1, <1>2
<1>4. [r EXCEPT !.chain = c] \in Work(b, y, k)
  BY <1>3, FieldsWork
<1>5. [r EXCEPT !.chain[d] = S] = [r EXCEPT !.chain = c]
  BY <1>2, Zenon
<1>6. QED
  BY <1>4, <1>5

\* A HELLO received
LEMMA RxHelloWorks ==
  ASSUME NEW b \in Boards, NEW y \in BOOLEAN, NEW k \in BOOLEAN,
         NEW r \in Work(b, y, k), NEW src \in Boards, NEW h \in Hello
  PROVE  RxHello(r, src, h) \in Work(b, y, k)
<1>1. h.caps \cup {"used"} \in SUBSET (Caps \cup {"used"}) /\ h.active \in BOOLEAN
  BY DEF Hello
<1>2. PICK s : s = [r EXCEPT !.chain[src] = h.caps \cup {"used"}]
  OBVIOUS
<1>3. s \in Work(b, y, k)
  BY <1>1, <1>2, ChainWorks
<1>4. PICK p \in BOOLEAN :
        p = (s.resign_pending \/ (/\ src \in Coordinators \/ h.active
                                  /\ Outranks(src, h.caps, r.self, r.caps)))
  OBVIOUS
<1>5. PICK t : t = [s EXCEPT !.resign_pending = p]
  OBVIOUS
<1>6. t \in Work(b, y, k)
  BY <1>3, <1>5, FieldsWork
<1>7. ServiceResign(t, FALSE) \in Work(b, y, k)
  BY <1>6, ServiceResignWorks
<1>8. PICK z \in BOOLEAN : z = (s.vacancy_clean \/ r.active # src)
  OBVIOUS
<1>a. src \in Addr
  BY DEF Addr
<1>9. [s EXCEPT !.active = src, !.active_valid = TRUE, !.vacancy_clean = z] \in Work(b, y, k)
  BY <1>3, <1>a, FieldsWork
<1>10. \/ RxHello(r, src, h) = ServiceResign(t, FALSE)
       \/ RxHello(r, src, h) = [s EXCEPT !.active = src, !.active_valid = TRUE, !.vacancy_clean = z]
       \/ RxHello(r, src, h) = s
  BY <1>2, <1>4, <1>5, <1>8, Zenon DEF RxHello
<1>11. QED
  BY <1>3, <1>7, <1>9, <1>10

\* A RESIGN received
LEMMA RxResignWorks ==
  ASSUME NEW b \in Boards, NEW y \in BOOLEAN, NEW k \in BOOLEAN,
         NEW r \in Work(b, y, k), NEW src \in Boards
  PROVE  RxResign(r, src) \in Work(b, y, k)
<1>1. ServiceResign(r, FALSE) \in Work(b, y, k)
  BY ServiceResignWorks
<1>2. [r EXCEPT !.active = NoAddr, !.vacancy_clean = TRUE] \in Work(b, y, k)
  BY FieldsWork DEF Addr
<1>3. \/ RxResign(r, src) = ServiceResign(r, FALSE)
      \/ RxResign(r, src) = [r EXCEPT !.active = NoAddr, !.vacancy_clean = TRUE]
      \/ RxResign(r, src) = r
  BY Zenon DEF RxResign
<1>4. QED
  BY <1>1, <1>2, <1>3

-----------------------------------------------------------------------------
(* Input *)

\* A board that is not the speaker hands its input on
LEMMA ForwardWorks ==
  ASSUME NEW b \in Boards, NEW y \in BOOLEAN, NEW k \in BOOLEAN,
         NEW r \in Work(b, y, k), NEW i \in Input
  PROVE  Forward(r, i) \in Work(b, y, k)
<1>1. CASE "HID_IN" \notin r.caps \/ r.active = NoAddr
  BY <1>1, Zenon DEF Forward
<1>2. CASE ~("HID_IN" \notin r.caps \/ r.active = NoAddr)
  <2>1. r.active \in To
    <3>1. r.active \in Addr
      BY Typed
    <3>2. QED
      BY <1>2, <3>1 DEF Addr, To
  <2>2. Send(r, "INPUT", r.active, i) \in Work(b, y, k)
    BY <2>1, FrameForms, SendWorks
  <2>3. QED
    BY <1>2, <2>2, Zenon DEF Forward
<1>3. QED
  BY <1>1, <1>2

\* A keyboard report: keys_held is brought up to date after it is routed
LEMMA LocalKbdWorks ==
  ASSUME NEW b \in Boards, NEW y \in BOOLEAN, NEW r \in Work(b, y, TRUE), NEW i \in Input
  PROVE  LocalKbd(r, i) \in Work(b, y, TRUE)
<1>1. Forward(r, i) \in Work(b, y, TRUE)
  BY ForwardWorks
<1>2. PICK s : s = SendTo(r, r.focus, "key", i.down)
  OBVIOUS
<1>3. s \in Work(b, y, FALSE)
  <2>1. r.focus \in Addr /\ "key" \in Class /\ i.down \in BOOLEAN
    BY Typed DEF Class, Input
  <2>2. SendTo(r, r.focus, "key", i.down) \in Work(b, y, FALSE)
    BY <2>1, SendToWorks
  <2>3. QED
    BY <1>2, <2>2
<1>4. Noted(s) \in Work(b, y, TRUE)
  BY <1>3, NotedWorks
<1>5. LocalKbd(r, i) = Forward(r, i) \/ LocalKbd(r, i) = Noted(s)
  BY <1>2, Zenon DEF LocalKbd
<1>6. QED
  BY <1>1, <1>4, <1>5

\* A mouse report: it moves the focus, which only forgets keys, or is routed
LEMMA LocalMouseWorks ==
  ASSUME NEW b \in Boards, NEW y \in BOOLEAN, NEW r \in Work(b, y, TRUE), NEW i \in Input
  PROVE  LocalMouse(r, i) \in Work(b, y, TRUE)
<1>1. Forward(r, i) \in Work(b, y, TRUE)
  BY ForwardWorks
<1>2. /\ r.focus \in Addr /\ "btn" \in Class /\ i.down \in BOOLEAN
      /\ i.dx \in {-1, 0, 1} /\ r.pointer \in Pointers /\ r.bleed \in {0, 1}
  BY Typed DEF Class, Input
<1>3. PICK q \in Pointers : q = Decay(r.pointer, r.bleed)
  BY <1>2, DecayIn
<1>4. PICK p : p = AxisFeed(q, i.dx)
  OBVIOUS
<1>5. PICK e \in {-1, 0, 1} : e = Crossing(p) /\ (e = 0 => p \in Pointers)
  BY <1>2, <1>4, AxisFeedIn
<1>6. PICK a \in Pointers : a = IF e = 0 THEN p ELSE Arrive(e)
  BY <1>5, ArriveIn
<1>7. PICK s : s = [r EXCEPT !.pointer = a]
  OBVIOUS
<1>8. s \in Work(b, y, TRUE)
  BY <1>7, FieldsWork
<1>9. PICK t \in Addr : t = IF e = 0 THEN NoAddr ELSE NeighbourOf(r, r.focus, e)
  <2>1. NoAddr \in Addr /\ NeighbourOf(r, r.focus, e) \in Addr
    BY TargetsIn DEF Addr
  <2>2. QED
    BY <2>1
<1>10. ApplyFocus(s, t, e) \in Work(b, y, TRUE)
  BY <1>8, ApplyFocusWorks
<1>11. PICK u : u = SendTo(s, r.focus, "btn", i.down)
  OBVIOUS
<1>12. u \in Work(b, y, FALSE)
  BY <1>2, <1>8, <1>11, SendToWorks
<1>13. Noted(u) \in Work(b, y, TRUE)
  BY <1>12, NotedWorks
<1>14. \/ LocalMouse(r, i) = Forward(r, i)
       \/ LocalMouse(r, i) = ApplyFocus(s, t, e)
       \/ LocalMouse(r, i) = Noted(u)
  BY <1>3, <1>4, <1>5, <1>6, <1>7, <1>9, <1>11, Zenon DEF LocalMouse
<1>15. QED
  BY <1>1, <1>10, <1>13, <1>14

\* dhp_router_local_*
LEMMA LocalInputWorks ==
  ASSUME NEW b \in Boards, NEW y \in BOOLEAN, NEW r \in Work(b, y, TRUE), NEW i \in Input
  PROVE  LocalInput(r, i) \in Work(b, y, TRUE)
  BY LocalKbdWorks, LocalMouseWorks DEF LocalInput

\* A FOCUS received
LEMMA RxFocusWorks ==
  ASSUME NEW b \in Boards, NEW y \in BOOLEAN, NEW k \in BOOLEAN,
         NEW r \in Work(b, y, k), NEW target \in Boards
  PROVE  RxFocus(r, target) \in Work(b, y, k)
<1>1. PICK s : s = [r EXCEPT !.focus = target]
  OBVIOUS
<1>2. target \in Addr /\ r.self \in Addr
  <2>1. r.self = b
    BY Typed
  <2>2. QED
    BY <2>1 DEF Addr
<1>3. s \in Work(b, y, k)
  BY <1>1, <1>2, FieldsWork
<1>4. ReleaseMachine(s, r.self) \in Work(b, y, k)
  BY <1>2, <1>3, ReleaseMachineWorks
<1>5. \/ RxFocus(r, target) = r
      \/ RxFocus(r, target) = ReleaseMachine(s, r.self)
      \/ RxFocus(r, target) = s
  BY <1>1, Zenon DEF RxFocus
<1>6. QED
  BY <1>3, <1>4, <1>5

\* dhp_router_rx
LEMMA RxWorks ==
  ASSUME NEW b \in Boards, NEW y \in BOOLEAN, NEW r \in Work(b, y, TRUE),
         NEW src \in Boards, NEW f \in From(src)
  PROVE  Rx(r, f) \in Work(b, y, TRUE)
<1>1. f.src = src
  BY DEF From
<1>2. PICK s : s = [r EXCEPT !.chain[f.src] = @ \cup {"used"}]
  OBVIOUS
<1>3. s \in Work(b, y, TRUE)
  <2>1. r.chain \in [Boards -> SUBSET (Caps \cup {"used"})]
    BY Typed
  <2>2. PICK S : S = r.chain[src] \cup {"used"}
    OBVIOUS
  <2>3. S \in SUBSET (Caps \cup {"used"})
    BY <2>1, <2>2
  <2>4. [r EXCEPT !.chain[src] = S] \in Work(b, y, TRUE)
    BY <2>3, ChainWorks
  <2>5. s = [r EXCEPT !.chain[src] = S]
    BY <1>1, <1>2, <2>2, Zenon
  <2>6. QED
    BY <2>4, <2>5
<1>4. "key" \in Class /\ "btn" \in Class
  BY DEF Class
<1>5. CASE f.type = "HELLO"
  <2>1. f.arg \in Hello
    BY <1>5 DEF From
  <2>2. RxHello(s, src, f.arg) \in Work(b, y, TRUE)
    BY <1>3, <2>1, RxHelloWorks
  <2>3. Rx(r, f) = RxHello(s, src, f.arg)
    BY <1>1, <1>2, <1>5 DEF Rx
  <2>4. QED
    BY <2>2, <2>3
<1>6. CASE f.type = "RESIGN"
  <2>1. RxResign(s, src) \in Work(b, y, TRUE)
    BY <1>3, RxResignWorks
  <2>2. Rx(r, f) = RxResign(s, src)
    BY <1>1, <1>2, <1>6 DEF Rx
  <2>3. QED
    BY <2>1, <2>2
<1>7. CASE f.type = "KBD"
  <2>1. f.arg \in BOOLEAN
    BY <1>7 DEF From
  <2>2. Deliver(s, "key", f.arg) \in Work(b, y, TRUE)
    BY <1>3, <1>4, <2>1, DeliverWorks
  <2>3. Rx(r, f) = Deliver(s, "key", f.arg)
    BY <1>2, <1>7 DEF Rx
  <2>4. QED
    BY <2>2, <2>3
<1>8. CASE f.type = "MOUSE"
  <2>1. f.arg \in BOOLEAN
    BY <1>8 DEF From
  <2>2. Deliver(s, "btn", f.arg) \in Work(b, y, TRUE)
    BY <1>3, <1>4, <2>1, DeliverWorks
  <2>3. Rx(r, f) = Deliver(s, "btn", f.arg)
    BY <1>2, <1>8 DEF Rx
  <2>4. QED
    BY <2>2, <2>3
<1>9. CASE f.type = "FOCUS"
  <2>1. f.arg \in Boards
    BY <1>9 DEF From
  <2>2. RxFocus(s, f.arg) \in Work(b, y, TRUE)
    BY <1>3, <2>1, RxFocusWorks
  <2>3. Rx(r, f) = RxFocus(s, f.arg)
    BY <1>2, <1>9 DEF Rx
  <2>4. QED
    BY <2>2, <2>3
<1>10. CASE f.type = "INPUT"
  <2>1. f.arg \in Input
    BY <1>10 DEF From
  <2>2. LocalInput(s, f.arg) \in Work(b, y, TRUE)
    BY <1>3, <2>1, LocalInputWorks
  <2>3. RxInput(s, src, f.arg) = LocalInput(s, f.arg) \/ RxInput(s, src, f.arg) = s
    BY Zenon DEF RxInput
  <2>4. Rx(r, f) = RxInput(s, src, f.arg)
    BY <1>1, <1>2, <1>10 DEF Rx
  <2>5. QED
    BY <1>3, <2>2, <2>3, <2>4
<1>11. CASE f.type = "RELEASE"
  <2>1. PICK h : h = [s.hid EXCEPT ![b] = {}]
    OBVIOUS
  <2>2. s.hid \in [Boards -> SUBSET Class] /\ r.self = b
    BY <1>3, Typed
  <2>3. h \in [Boards -> SUBSET Class] /\ \A m \in Boards : h[m] \subseteq s.hid[m]
    BY <2>1, <2>2
  <2>4. PICK t : t = [s EXCEPT !.hid = h]
    OBVIOUS
  <2>5. t \in Work(b, y, TRUE)
    BY <1>3, <2>3, <2>4, HidWorks
  <2>6. LetGo(t) \in Work(b, y, TRUE)
    BY <2>5, LetGoWorks
  <2>7. [s EXCEPT !.hid[r.self] = {}] = t
    BY <2>1, <2>2, <2>4, Zenon
  <2>8. Rx(r, f) = LetGo([s EXCEPT !.hid[r.self] = {}])
    BY <1>2, <1>11 DEF Rx
  <2>9. QED
    BY <2>6, <2>7, <2>8, Zenon
<1>12. QED
  BY <1>5, <1>6, <1>7, <1>8, <1>9, <1>10, <1>11 DEF From

-----------------------------------------------------------------------------
(* The chain *)

\* A record between two steps
Rest(b) == {r \in Work(b, TRUE, TRUE) : r.out = <<>> /\ r.bleed = 0}

\* Frames travel away from the board that sent them
Any == UNION {From(b) : b \in Boards}
Inbound(d, p) == {f \in Any : IF p = "UP" THEN f.src < d ELSE f.src > d}

Queues(w) ==
  /\ w \in [Boards -> [Port -> Seq(Any)]]
  /\ \A d \in Boards, p \in Port : w[d][p] \in Seq(Inbound(d, p))

Records(rs) ==
  /\ rs = [b \in Boards |-> rs[b]]
  /\ \A b \in Boards : rs[b] \in Rest(b)

IInv == Records(router) /\ Queues(wire) /\ phys \subseteq Class /\ faults \in 0..MaxFaults

\* Frames added to a queue they fit
LEMMA PutWorks ==
  ASSUME NEW w, Queues(w), NEW d \in Boards, NEW p \in Port,
         NEW ms \in Seq(Inbound(d, p))
  PROVE  Queues([w EXCEPT ![d][p] = @ \o ms])
<1>1. w[d][p] \in Seq(Inbound(d, p)) /\ w \in [Boards -> [Port -> Seq(Any)]]
  BY DEF Queues
<1>2. PICK u : u = w[d][p] \o ms
  OBVIOUS
<1>3. u \in Seq(Inbound(d, p))
  BY <1>1, <1>2, ConcatProperties
<1>4. Inbound(d, p) \subseteq Any
  BY DEF Inbound
<1>5. u \in Seq(Any)
  BY <1>3, <1>4, SeqMonotonic
<1>6. PICK v : v = [w EXCEPT ![d][p] = u]
  OBVIOUS
<1>7. [w EXCEPT ![d][p] = @ \o ms] = v
  BY <1>2, <1>6, Zenon
<1>8. /\ v \in [Boards -> [Port -> Seq(Any)]]
      /\ v[d][p] = u
      /\ \A e \in Boards, q \in Port : ~(e = d /\ q = p) => v[e][q] = w[e][q]
  BY <1>1, <1>5, <1>6
<1>9. ASSUME NEW e \in Boards, NEW q \in Port
      PROVE  v[e][q] \in Seq(Inbound(e, q))
  <2>1. CASE e = d /\ q = p
    BY <1>3, <1>8, <2>1
  <2>2. CASE ~(e = d /\ q = p)
    BY <1>8, <2>2 DEF Queues
  <2>3. QED
    BY <2>1, <2>2
<1>10. Queues(v)
  BY <1>8, <1>9 DEF Queues
<1>11. QED
  BY <1>7, <1>10

\* A queue without its head
LEMMA TakeWorks ==
  ASSUME NEW w, Queues(w), NEW d \in Boards, NEW p \in Port, w[d][p] # <<>>
  PROVE  /\ Head(w[d][p]) \in Inbound(d, p)
         /\ Queues([w EXCEPT ![d][p] = Tail(@)])
<1>1. w[d][p] \in Seq(Inbound(d, p)) /\ w \in [Boards -> [Port -> Seq(Any)]]
  BY DEF Queues
<1>2. PICK u : u = Tail(w[d][p])
  OBVIOUS
<1>3. u \in Seq(Inbound(d, p)) /\ Head(w[d][p]) \in Inbound(d, p)
  BY <1>1, <1>2, HeadTailProperties
<1>4. Inbound(d, p) \subseteq Any
  BY DEF Inbound
<1>5. u \in Seq(Any)
  BY <1>3, <1>4, SeqMonotonic
<1>6. PICK v : v = [w EXCEPT ![d][p] = u]
  OBVIOUS
<1>7. [w EXCEPT ![d][p] = Tail(@)] = v
  BY <1>2, <1>6, Zenon
<1>8. /\ v \in [Boards -> [Port -> Seq(Any)]]
      /\ v[d][p] = u
      /\ \A e \in Boards, q \in Port : ~(e = d /\ q = p) => v[e][q] = w[e][q]
  BY <1>1, <1>5, <1>6
<1>9. ASSUME NEW e \in Boards, NEW q \in Port
      PROVE  v[e][q] \in Seq(Inbound(e, q))
  <2>1. CASE e = d /\ q = p
    BY <1>3, <1>8, <2>1
  <2>2. CASE ~(e = d /\ q = p)
    BY <1>8, <2>2 DEF Queues
  <2>3. QED
    BY <2>1, <2>2
<1>10. Queues(v)
  BY <1>8, <1>9 DEF Queues
<1>11. QED
  BY <1>3, <1>7, <1>10

Hop(b, p) == IF p = "UP" THEN b - 1 ELSE b + 1
Into(b, ps, p, ms, w) ==
  IF p \in ps /\ Hop(b, p) \in Up
  THEN [w EXCEPT ![Hop(b, p)][Opposite(p)] = @ \o ms] ELSE w

\* Frames that leave a board by one of its ports
LEMMA IntoWorks ==
  ASSUME NEW w, Queues(w), NEW b \in Boards, NEW ps, NEW p \in Port, NEW ms,
         p \in ps => (Hop(b, p) \in Boards => ms \in Seq(Inbound(Hop(b, p), Opposite(p))))
  PROVE  Queues(Into(b, ps, p, ms, w))
<1>1. Up \subseteq Boards /\ Opposite(p) \in Port
  BY DEF Up, Port, Opposite
<1>2. CASE p \in ps /\ Hop(b, p) \in Up
  <2>1. PICK d \in Boards : d = Hop(b, p)
    BY <1>1, <1>2
  <2>2. ms \in Seq(Inbound(d, Opposite(p)))
    BY <1>2, <2>1, Zenon
  <2>3. Queues([w EXCEPT ![d][Opposite(p)] = @ \o ms])
    BY <1>1, <2>2, PutWorks
  <2>4. Into(b, ps, p, ms, w) = [w EXCEPT ![d][Opposite(p)] = @ \o ms]
    BY <1>2, <2>1, Zenon DEF Into
  <2>5. QED
    BY <2>3, <2>4, Zenon
<1>3. CASE ~(p \in ps /\ Hop(b, p) \in Up)
  BY <1>3, Zenon DEF Into
<1>4. QED
  BY <1>2, <1>3

\* or by some of them
LEMMA TransmitWorks ==
  ASSUME NEW w, Queues(w), NEW b \in Boards, NEW ps, NEW ms,
         "UP" \in ps => (b - 1 \in Boards => ms \in Seq(Inbound(b - 1, "DOWN"))),
         "DOWN" \in ps => (b + 1 \in Boards => ms \in Seq(Inbound(b + 1, "UP")))
  PROVE  Queues(Transmit(b, ps, ms, w))
<1>1. "UP" \in Port /\ "DOWN" \in Port
  BY DEF Port
<1>2. /\ Opposite("UP") = "DOWN" /\ Opposite("DOWN") = "UP"
      /\ Hop(b, "UP") = b - 1 /\ Hop(b, "DOWN") = b + 1
  BY DEF Opposite, Hop
<1>3. PICK v : v = Into(b, ps, "DOWN", ms, w)
  OBVIOUS
<1>4. "DOWN" \in ps => (Hop(b, "DOWN") \in Boards
                          => ms \in Seq(Inbound(Hop(b, "DOWN"), Opposite("DOWN"))))
  BY <1>2, Zenon
<1>5. Queues(v)
  <2>1. Queues(Into(b, ps, "DOWN", ms, w))
    BY <1>1, <1>4, IntoWorks
  <2>2. QED
    BY <1>3, <2>1, Zenon
<1>6. "UP" \in ps => (Hop(b, "UP") \in Boards
                        => ms \in Seq(Inbound(Hop(b, "UP"), Opposite("UP"))))
  BY <1>2, Zenon
<1>7. Queues(Into(b, ps, "UP", ms, v))
  BY <1>1, <1>5, <1>6, IntoWorks
<1>8. Transmit(b, ps, ms, w) =
        IF ms = <<>> THEN w ELSE Into(b, ps, "UP", ms, Into(b, ps, "DOWN", ms, w))
  BY Zenon DEF Transmit, Into, Hop
<1>9. Transmit(b, ps, ms, w) = w \/ Transmit(b, ps, ms, w) = Into(b, ps, "UP", ms, v)
  BY <1>3, <1>8, Zenon
<1>10. QED
  BY <1>7, <1>9, Zenon

\* A board's own frames
LEMMA OwnFrames ==
  ASSUME NEW w, Queues(w), NEW b \in Boards, NEW ms \in Seq(From(b))
  PROVE  Queues(Transmit(b, Port, ms, w))
<1>1. b \in Int /\ From(b) \subseteq Any /\ \A f \in From(b) : f.src = b
  BY RoutingAssumption DEF Boards, Any, From
<1>2. From(b) \subseteq Inbound(b - 1, "DOWN") /\ From(b) \subseteq Inbound(b + 1, "UP")
  BY <1>1 DEF Inbound
<1>3. ms \in Seq(Inbound(b - 1, "DOWN")) /\ ms \in Seq(Inbound(b + 1, "UP"))
  BY <1>2, SeqMonotonic
<1>4. QED
  BY <1>3, TransmitWorks

\* A relayed frame
LEMMA RelayedFrame ==
  ASSUME NEW w, Queues(w), NEW b \in Boards, NEW p \in Port, NEW f \in Inbound(b, p)
  PROVE  Queues(Transmit(b, {Opposite(p)}, <<f>>, w))
<1>1. f \in Any /\ f.src \in Int /\ b \in Int
  <2>1. PICK d \in Boards : f \in From(d)
    BY DEF Inbound, Any
  <2>2. f.src = d
    BY <2>1 DEF From
  <2>3. QED
    BY <2>2, RoutingAssumption DEF Boards, Inbound
<1>2. CASE p = "UP"
  <2>1. f \in Inbound(b + 1, "UP") /\ Opposite(p) = "DOWN"
    BY <1>1, <1>2 DEF Inbound, Opposite
  <2>2. <<f>> \in Seq(Inbound(b + 1, "UP"))
    BY <2>1
  <2>3. QED
    BY <2>1, <2>2, TransmitWorks
<1>3. CASE p = "DOWN"
  <2>1. f \in Inbound(b - 1, "DOWN") /\ Opposite(p) = "UP"
    BY <1>1, <1>3 DEF Inbound, Opposite
  <2>2. <<f>> \in Seq(Inbound(b - 1, "DOWN"))
    BY <2>1
  <2>3. QED
    BY <2>1, <2>2, TransmitWorks
<1>4. QED
  BY <1>2, <1>3 DEF Port

-----------------------------------------------------------------------------
(* Steps *)

\* One record changes
LEMMA RecordSet ==
  ASSUME NEW rs, Records(rs), NEW b \in Boards, NEW r \in Rest(b)
  PROVE  Records([rs EXCEPT ![b] = r])
<1>1. rs = [c \in Boards |-> rs[c]] /\ \A c \in Boards : rs[c] \in Rest(c)
  BY DEF Records
<1>2. PICK v : v = [rs EXCEPT ![b] = r]
  OBVIOUS
<1>3. /\ v = [c \in Boards |-> v[c]]
      /\ v[b] = r /\ \A c \in Boards : c # b => v[c] = rs[c]
  BY <1>1, <1>2
<1>4. Records(v)
  BY <1>1, <1>3 DEF Records
<1>5. QED
  BY <1>2, <1>4

\* A handler's record is put away, its frames are sent
LEMMA StepWorks ==
  ASSUME IInv, NEW b \in Boards, NEW y \in BOOLEAN, NEW r \in Work(b, y, TRUE),
         NEW q, Queues(q), Step(b, r, q), y \/ faults # MaxFaults
  PROVE  Records(router') /\ Queues(wire') /\ faults' \in 0..MaxFaults
<1>1. PICK s : s = [r EXCEPT !.out = <<>>, !.bleed = 0, !.ready = TRUE, !.dropped = FALSE]
  OBVIOUS
<1>2. r \in Record(b, y) /\ Told(r)
  BY DEF Work
<1>3. s \in Record(b, TRUE) /\ s.out = <<>> /\ s.bleed = 0
  <2>1. <<>> \in Seq(From(b))
    BY EmptySeq
  <2>2. QED
    BY <1>1, <1>2, <2>1 DEF Record
<1>4. Told(s)
  BY <1>1, <1>2 DEF Told, Record
<1>5. s \in Rest(b)
  BY <1>3, <1>4 DEF Rest, Work
<1>6. router' = [router EXCEPT ![b] = s]
  BY <1>1, Zenon DEF Step
<1>7. Records(router')
  <2>1. Records([router EXCEPT ![b] = s])
    BY <1>5, RecordSet DEF IInv
  <2>2. QED
    BY <1>6, <2>1, Zenon
<1>8. Queues(wire')
  <2>1. r.out \in Seq(From(b))
    BY <1>2 DEF Record
  <2>2. Queues(Transmit(b, Port, r.out, q))
    BY <2>1, OwnFrames
  <2>3. QED
    BY <2>2, Zenon DEF Step
<1>9. faults' \in 0..MaxFaults
  <2>1. r.dropped => ~y
    BY <1>2 DEF Record
  <2>2. faults' = IF r.dropped THEN faults + 1 ELSE faults
    BY DEF Step
  <2>3. faults \in 0..MaxFaults /\ MaxFaults \in Nat
    BY RoutingAssumption DEF IInv
  <2>4. QED
    BY <2>1, <2>2, <2>3
<1>10. QED
  BY <1>7, <1>8, <1>9

\* The record a step finds
LEMMA RestWorks ==
  ASSUME NEW b \in Boards, NEW r \in Rest(b)
  PROVE  r \in Work(b, TRUE, TRUE)
  BY DEF Rest

\* with the endpoint busy only while a report may still be lost
LEMMA PreparedWorks ==
  ASSUME IInv, NEW b \in Boards, NEW r \in Prepared(b)
  PROVE  \E y \in BOOLEAN : r \in Work(b, y, TRUE) /\ (y \/ faults # MaxFaults)
<1>1. PICK y \in Ready, e \in {0, 1} :
        r = [router[b] EXCEPT !.ready = y, !.bleed = e]
  <2>1. PICK z \in Ready, c \in {0, 1} : r = Found(b, z, c)
    BY DEF Prepared
  <2>2. QED
    BY <2>1, Zenon DEF Found
<1>2. y \in BOOLEAN /\ (y \/ faults # MaxFaults)
  BY <1>1 DEF Ready
<1>3. router[b] \in Rest(b)
  BY DEF IInv, Records
<1>4. PICK s \in Record(b, TRUE) : s = router[b] /\ Told(s)
  BY <1>3 DEF Rest, Work
<1>5. PICK t : t = [s EXCEPT !.ready = y, !.bleed = e]
  OBVIOUS
<1>6. t \in Record(b, y)
  <2>1. s.dropped \in {FALSE, ~y}
    BY DEF Record
  <2>2. QED
    BY <1>1, <1>2, <1>5, <2>1 DEF Record
<1>7. t.hid = s.hid /\ t.keys_held = s.keys_held
  BY <1>5 DEF Record
<1>8. r = t /\ Told(t)
  BY <1>1, <1>4, <1>5, <1>7 DEF Told
<1>9. r \in Work(b, y, TRUE)
  BY <1>6, <1>8 DEF Work
<1>10. QED
  BY <1>2, <1>9

\* Receive
LEMMA ReceiveKeeps ==
  ASSUME IInv, NEW b \in Boards, NEW p \in Port, Receive(b, p)
  PROVE  IInv'
<1>1. wire[b][p] # <<>> /\ Queues(wire)
  BY DEF Receive, IInv
<1>2. PICK f : f = Head(wire[b][p])
  OBVIOUS
<1>3. PICK q : q = [wire EXCEPT ![b][p] = Tail(@)]
  OBVIOUS
<1>4. f \in Inbound(b, p) /\ Queues(q)
  BY <1>1, <1>2, <1>3, TakeWorks
<1>5. PICK v : v = IF f.dst = b THEN q ELSE Transmit(b, {Opposite(p)}, <<f>>, q)
  OBVIOUS
<1>6. Queues(v)
  BY <1>4, <1>5, RelayedFrame
<1>7. PICK r \in Prepared(b) : Step(b, IF f.dst \in {b, Everyone} THEN Rx(r, f) ELSE r, v)
  BY <1>2, <1>3, <1>5, Zenon DEF Receive
<1>8. PICK y \in BOOLEAN : r \in Work(b, y, TRUE) /\ (y \/ faults # MaxFaults)
  BY PreparedWorks
<1>9. PICK s : s = IF f.dst \in {b, Everyone} THEN Rx(r, f) ELSE r
  OBVIOUS
<1>10. s \in Work(b, y, TRUE)
  <2>1. PICK src \in Boards : f \in From(src)
    BY <1>4 DEF Inbound, Any
  <2>2. Rx(r, f) \in Work(b, y, TRUE)
    BY <1>8, <2>1, RxWorks
  <2>3. QED
    BY <1>8, <1>9, <2>2
<1>11. Step(b, s, v)
  BY <1>7, <1>9, Zenon
<1>12. Records(router') /\ Queues(wire') /\ faults' \in 0..MaxFaults
  BY <1>6, <1>8, <1>10, <1>11, StepWorks
<1>13. phys' = phys
  BY DEF Receive
<1>14. QED
  BY <1>12, <1>13 DEF IInv

\* Key, Mouse: a report of the real devices
LEMMA InputKeeps ==
  ASSUME IInv, NEW i \in Input, NEW r \in Prepared(Keyboard),
         Step(Keyboard, LocalInput(r, i), wire), phys' \subseteq Class
  PROVE  IInv'
<1>1. Keyboard \in Boards
  BY RoutingAssumption
<1>2. PICK y \in BOOLEAN : r \in Work(Keyboard, y, TRUE) /\ (y \/ faults # MaxFaults)
  BY <1>1, PreparedWorks
<1>3. PICK s : s = LocalInput(r, i)
  OBVIOUS
<1>4. s \in Work(Keyboard, y, TRUE)
  BY <1>1, <1>2, <1>3, LocalInputWorks
<1>5. Step(Keyboard, s, wire) /\ Queues(wire)
  BY <1>3, Zenon DEF IInv
<1>6. Records(router') /\ Queues(wire') /\ faults' \in 0..MaxFaults
  BY <1>1, <1>2, <1>4, <1>5, StepWorks
<1>7. QED
  BY <1>6 DEF IInv

\* Key
LEMMA KeyKeeps ==
  ASSUME IInv, Key
  PROVE  IInv'
<1>1. PICK down \in BOOLEAN : down = ("key" \notin phys)
  OBVIOUS
<1>2. PICK i : i = [kind |-> "KBD", down |-> down, dx |-> 0]
  OBVIOUS
<1>3. i \in Input
  BY <1>2 DEF Input
<1>4. PICK r \in Prepared(Keyboard) : Step(Keyboard, LocalInput(r, i), wire)
  BY <1>1, <1>2, Zenon DEF Key
<1>5. phys' \subseteq Class
  BY DEF Key, Pressed, IInv, Class
<1>6. QED
  BY <1>3, <1>4, <1>5, InputKeeps

\* Mouse
LEMMA MouseKeeps ==
  ASSUME IInv, NEW down \in BOOLEAN, NEW dx \in {-1, 0, 1}, Mouse(down, dx)
  PROVE  IInv'
<1>1. PICK i : i = [kind |-> "MOUSE", down |-> down, dx |-> dx]
  OBVIOUS
<1>2. i \in Input
  BY <1>1 DEF Input
<1>3. PICK r \in Prepared(Keyboard) : Step(Keyboard, LocalInput(r, i), wire)
  BY <1>1, Zenon DEF Mouse
<1>4. phys' \subseteq Class
  BY DEF Mouse, Pressed, IInv, Class
<1>5. QED
  BY <1>2, <1>3, <1>4, InputKeeps

\* A step of a board with the record it finds or a prepared one, that leaves
\* what the user holds alone
LEMMA HandlerKeeps ==
  ASSUME IInv, NEW b \in Boards, NEW y \in BOOLEAN, NEW r \in Work(b, y, TRUE),
         y \/ faults # MaxFaults, Step(b, r, wire), phys' = phys
  PROVE  IInv'
<1>1. Queues(wire)
  BY DEF IInv
<1>2. Records(router') /\ Queues(wire') /\ faults' \in 0..MaxFaults
  BY <1>1, StepWorks
<1>3. QED
  BY <1>2 DEF IInv


\* Button
LEMMA ButtonKeeps ==
  ASSUME IInv, NEW b \in Boards, Button(b)
  PROVE  IInv'
<1>1. PICK r \in Prepared(b) : Step(b, ApplyFocus(r, ButtonTarget(r), 0), wire)
  BY Zenon DEF Button
<1>2. PICK y \in BOOLEAN : r \in Work(b, y, TRUE) /\ (y \/ faults # MaxFaults)
  BY PreparedWorks
<1>3. ButtonTarget(r) \in Addr
  BY <1>2, TargetsIn
<1>4. ApplyFocus(r, ButtonTarget(r), 0) \in Work(b, y, TRUE)
  BY <1>2, <1>3, ApplyFocusWorks
<1>5. phys' = phys
  BY DEF Button
<1>6. QED
  BY <1>1, <1>2, <1>4, <1>5, HandlerKeeps

\* The record a step without a prepared one starts from
LEMMA AtRest ==
  ASSUME IInv, NEW b \in Boards
  PROVE  router[b] \in Work(b, TRUE, TRUE)
<1>1. router[b] \in Rest(b)
  BY DEF IInv, Records
<1>2. QED
  BY <1>1, RestWorks

\* CtlFocus
LEMMA CtlFocusKeeps ==
  ASSUME IInv, NEW b \in Boards, NEW target \in Boards, CtlFocus(b, target)
  PROVE  IInv'
<1>1. target \in Addr
  BY DEF Addr
<1>2. router[b] \in Work(b, TRUE, TRUE)
  BY AtRest
<1>3. ApplyFocus(router[b], target, 0) \in Work(b, TRUE, TRUE)
  BY <1>1, <1>2, ApplyFocusWorks
<1>4. Step(b, ApplyFocus(router[b], target, 0), wire) /\ phys' = phys
  BY DEF CtlFocus
<1>5. QED
  BY <1>3, <1>4, HandlerKeeps

\* Tick
LEMMA TickKeeps ==
  ASSUME IInv, NEW b \in Boards, Tick(b)
  PROVE  IInv'
<1>1. PICK deadline \in BOOLEAN, r \in Prepared(b) : Step(b, ServiceResign(r, deadline), wire)
  BY Zenon DEF Tick
<1>2. PICK y \in BOOLEAN : r \in Work(b, y, TRUE) /\ (y \/ faults # MaxFaults)
  BY PreparedWorks
<1>3. ServiceResign(r, deadline) \in Work(b, y, TRUE)
  BY <1>2, ServiceResignWorks
<1>4. phys' = phys
  BY DEF Tick
<1>5. QED
  BY <1>1, <1>2, <1>3, <1>4, HandlerKeeps

\* Advertise
LEMMA AdvertiseKeeps ==
  ASSUME IInv, NEW b \in Boards, Advertise(b)
  PROVE  IInv'
<1>1. router[b] \in Work(b, TRUE, TRUE)
  BY AtRest
<1>2. SendHello(router[b]) \in Work(b, TRUE, TRUE)
  BY <1>1, SendHelloWorks
<1>3. Step(b, SendHello(router[b]), wire) /\ phys' = phys
  BY DEF Advertise
<1>4. QED
  BY <1>2, <1>3, HandlerKeeps

\* Takeover
LEMMA TakeoverKeeps ==
  ASSUME IInv, NEW b \in Boards, Takeover(b)
  PROVE  IInv'
<1>1. PICK r0 \in Prepared(b) : \E r \in Promote(r0) : Step(b, r, wire)
  BY Zenon DEF Takeover
<1>2. PICK r \in Promote(r0) : Step(b, r, wire)
  BY <1>1, Zenon
<1>3. PICK y \in BOOLEAN : r0 \in Work(b, y, TRUE) /\ (y \/ faults # MaxFaults)
  BY PreparedWorks
<1>4. r \in Work(b, y, TRUE)
  BY <1>2, <1>3, PromoteWorks
<1>5. phys' = phys
  BY DEF Takeover
<1>6. QED
  BY <1>2, <1>3, <1>4, <1>5, HandlerKeeps

\* Expire
LEMMA ExpireKeeps ==
  ASSUME IInv, NEW b \in Boards, Expire(b)
  PROVE  IInv'
<1>1. PICK r : r = router[b]
  OBVIOUS
<1>2. r \in Work(b, TRUE, TRUE)
  BY <1>1, AtRest
<1>3. PICK s : s = [r EXCEPT !.active = NoAddr, !.vacancy_clean = FALSE]
  OBVIOUS
<1>4. s \in Work(b, TRUE, TRUE)
  <2>1. NoAddr \in Addr
    BY DEF Addr
  <2>2. QED
    BY <1>2, <1>3, <2>1, FieldsWork
<1>5. Step(b, s, wire) /\ phys' = phys
  BY <1>1, <1>3, Zenon DEF Expire
<1>6. QED
  BY <1>4, <1>5, HandlerKeeps

\* dhp_router_init
LEMMA BootRests ==
  ASSUME NEW b \in Boards
  PROVE  Boot(b) \in Rest(b)
<1>1. CapsOf(b) \in SUBSET Caps
  BY DEF CapsOf, Caps
<1>2. PICK c : c = [d \in Boards |-> IF d = b THEN CapsOf(b) \cup {"used"} ELSE {}]
  OBVIOUS
<1>3. c \in [Boards -> SUBSET (Caps \cup {"used"})]
  BY <1>1, <1>2
<1>4. PICK h : h = [m \in Boards |-> {}]
  OBVIOUS
<1>5. h \in [Boards -> SUBSET Class] /\ \A m \in Boards : h[m] = {}
  BY <1>4
<1>6. PICK p \in Pointers : p = Arrive(0)
  BY ArriveIn
<1>7. <<>> \in Seq(From(b)) /\ NoAddr \in Addr
  BY EmptySeq DEF Addr
<1>8. PICK k : k = CapsOf(b)
  OBVIOUS
<1>9. PICK r : r =
        [self |-> b, up |-> FALSE, caps |-> k, chain |-> c,
         focus |-> NoAddr, hid |-> h, keys_held |-> FALSE,
         active |-> NoAddr, active_valid |-> FALSE, vacancy_clean |-> TRUE,
         resign_pending |-> FALSE, pointer |-> p,
         held |-> {}, lost |-> {}, out |-> <<>>, ready |-> TRUE,
         dropped |-> FALSE, bleed |-> 0]
  OBVIOUS
<1>10. r \in Record(b, TRUE)
  BY <1>1, <1>3, <1>5, <1>6, <1>7, <1>8, <1>9 DEF Record
<1>11. Told(r) /\ r.out = <<>> /\ r.bleed = 0
  BY <1>5, <1>9 DEF Told
<1>12. r \in Rest(b)
  BY <1>10, <1>11 DEF Rest, Work
<1>13. Boot(b) = r
  BY <1>2, <1>4, <1>6, <1>8, <1>9, Zenon DEF Boot
<1>14. QED
  BY <1>12, <1>13

\* dhp_router_start
LEMMA StartWorks ==
  ASSUME NEW b \in Boards
  PROVE  [Boot(b) EXCEPT !.up = TRUE] \in Work(b, TRUE, TRUE)
<1>1. PICK r : r = Boot(b)
  OBVIOUS
<1>2. r \in Record(b, TRUE) /\ Told(r)
  BY <1>1, BootRests DEF Rest, Work
<1>3. [r EXCEPT !.up = TRUE] \in Record(b, TRUE)
  BY <1>2 DEF Record
<1>4. Told([r EXCEPT !.up = TRUE])
  BY <1>2 DEF Told, Record
<1>5. QED
  BY <1>1, <1>3, <1>4 DEF Work

\* PowerOn
LEMMA PowerOnKeeps ==
  ASSUME IInv, NEW b \in Boards, PowerOn(b)
  PROVE  IInv'
<1>1. PICK r : r = [Boot(b) EXCEPT !.up = TRUE]
  OBVIOUS
<1>2. r \in Work(b, TRUE, TRUE)
  BY <1>1, StartWorks
<1>3. SendHello(r) \in Work(b, TRUE, TRUE)
  BY <1>2, SendHelloWorks
<1>4. Step(b, SendHello(r), wire) /\ phys' = phys
  BY <1>1, Zenon DEF PowerOn
<1>5. QED
  BY <1>3, <1>4, HandlerKeeps

-----------------------------------------------------------------------------
(* Faults *)

\* What is lost at all machines at once
LEMMA OrphanedWorks ==
  ASSUME NEW rs, Records(rs)
  PROVE  Records(Orphaned(rs))
<1>1. \A b \in Boards : rs[b] \in Rest(b)
  BY DEF Records
<1>2. PICK v : v = Orphaned(rs)
  OBVIOUS
<1>3. v = [b \in Boards |-> [rs[b] EXCEPT !.lost = @ \cup rs[b].held]]
  BY <1>2, Zenon DEF Orphaned
<1>4. v = [b \in Boards |-> v[b]]
  BY <1>3
<1>5. ASSUME NEW b \in Boards
      PROVE  v[b] \in Rest(b)
  <2>1. PICK r : r = rs[b]
    OBVIOUS
  <2>2. r \in Record(b, TRUE) /\ Told(r) /\ r.out = <<>> /\ r.bleed = 0
    BY <1>1, <2>1 DEF Rest, Work
  <2>3. PICK l : l = r.lost \cup r.held
    OBVIOUS
  <2>4. l \in SUBSET Class
    BY <2>2, <2>3 DEF Record
  <2>5. PICK s : s = [r EXCEPT !.lost = l]
    OBVIOUS
  <2>6. s \in Record(b, TRUE) /\ s.out = <<>> /\ s.bleed = 0
    BY <2>2, <2>4, <2>5 DEF Record
  <2>7. Told(s)
    BY <2>2, <2>5 DEF Told, Record
  <2>8. v[b] = s
    BY <1>3, <2>1, <2>3, <2>5
  <2>9. QED
    BY <2>6, <2>7, <2>8 DEF Rest, Work
<1>6. Records(v)
  BY <1>4, <1>5 DEF Records
<1>7. QED
  BY <1>2, <1>6, Zenon

\* A board loses power
LEMMA PowerOffWorks ==
  ASSUME NEW rs, Records(rs), NEW b \in Boards
  PROVE  Records(PowerOff(b, rs))
<1>1. Boot(b) \in Rest(b)
  BY BootRests
<1>2. QED
  BY <1>1, RecordSet DEF PowerOff

\* and what was on its wires
LEMMA UnpluggedWorks ==
  ASSUME NEW w, Queues(w), NEW b \in Boards
  PROVE  Queues(Unplugged(b, w))
<1>1. PICK v : v = Unplugged(b, w)
  OBVIOUS
<1>2. PICK e : e = [p \in Port |-> <<>>]
  OBVIOUS
<1>3. \A p \in Port : <<>> \in Seq(Any) /\ <<>> \in Seq(Inbound(b, p))
  BY EmptySeq
<1>4. e \in [Port -> Seq(Any)] /\ \A p \in Port : e[p] \in Seq(Inbound(b, p))
  BY <1>2, <1>3
<1>5. v = [w EXCEPT ![b] = e]
  BY <1>1, <1>2, Zenon DEF Unplugged
<1>6. w \in [Boards -> [Port -> Seq(Any)]]
  BY DEF Queues
<1>7. v \in [Boards -> [Port -> Seq(Any)]]
  BY <1>4, <1>5, <1>6
<1>8. ASSUME NEW d \in Boards, NEW p \in Port
      PROVE  v[d][p] \in Seq(Inbound(d, p))
  <2>1. CASE d = b
    BY <1>4, <1>5, <1>6, <2>1
  <2>2. CASE d # b
    <3>1. v[d] = w[d]
      BY <1>5, <1>6, <2>2
    <3>2. QED
      BY <3>1 DEF Queues
  <2>3. QED
    BY <2>1, <2>2
<1>9. Queues(v)
  BY <1>7, <1>8 DEF Queues
<1>10. QED
  BY <1>1, <1>9, Zenon

\* A fault is counted
LEMMA FaultCounts ==
  ASSUME IInv, Fault
  PROVE  faults' \in 0..MaxFaults
  BY RoutingAssumption DEF IInv, Fault

\* Crash
LEMMA CrashKeeps ==
  ASSUME IInv, NEW b \in Boards, Crash(b)
  PROVE  IInv'
<1>1. Records(router) /\ Queues(wire) /\ phys \subseteq Class
  BY DEF IInv
<1>2. Records(PowerOff(b, router)) /\ Records(PowerOff(b, Orphaned(router)))
  BY <1>1, PowerOffWorks, OrphanedWorks
<1>3. router' = PowerOff(b, router) \/ router' = PowerOff(b, Orphaned(router))
  BY Zenon DEF Crash
<1>4. Records(router')
  BY <1>2, <1>3, Zenon
<1>5. wire' = Unplugged(b, wire)
  BY Zenon DEF Crash
<1>6. Queues(wire')
  <2>1. Queues(Unplugged(b, wire))
    BY <1>1, UnpluggedWorks
  <2>2. QED
    BY <1>5, <2>1, Zenon
<1>7. phys' \subseteq Class
  <2>1. phys' = phys \/ phys' = {}
    BY Zenon DEF Crash
  <2>2. QED
    BY <1>1, <2>1
<1>8. faults' \in 0..MaxFaults
  <2>1. Fault
    BY DEF Crash
  <2>2. QED
    BY <2>1, FaultCounts
<1>9. QED
  BY <1>4, <1>6, <1>7, <1>8 DEF IInv

\* Exit
LEMMA ExitKeeps ==
  ASSUME IInv, NEW b \in Boards, Exit(b)
  PROVE  IInv'
<1>1. Records(router) /\ Queues(wire) /\ phys \subseteq Class
  BY DEF IInv
<1>2. Records(PowerOff(b, Orphaned(router)))
  BY <1>1, PowerOffWorks, OrphanedWorks
<1>3. router' = PowerOff(b, Orphaned(router))
  BY Zenon DEF Exit
<1>4. router[b] \in Work(b, TRUE, TRUE)
  BY AtRest
<1>5. PICK r : r = Send(router[b], "RESIGN", Everyone, 0)
  OBVIOUS
<1>6. r \in Work(b, TRUE, TRUE)
  BY <1>4, <1>5, FrameForms, SendWorks DEF To
<1>7. PICK ms : ms = r.out
  OBVIOUS
<1>8. ms \in Seq(From(b))
  BY <1>6, <1>7, Typed
<1>9. Queues(Transmit(b, Port, ms, wire))
  BY <1>1, <1>8, OwnFrames
<1>10. wire' = Transmit(b, Port, ms, wire)
  BY <1>5, <1>7, Zenon DEF Exit
<1>11. faults' \in 0..MaxFaults
  <2>1. Fault
    BY DEF Exit
  <2>2. QED
    BY <2>1, FaultCounts
<1>12. phys' = phys
  BY DEF Exit
<1>13. Records(router') /\ Queues(wire')
  BY <1>2, <1>3, <1>9, <1>10, Zenon
<1>14. QED
  BY <1>1, <1>11, <1>12, <1>13 DEF IInv


-----------------------------------------------------------------------------
(* A takeover that took the vacancy for clean is no prepared step *)

\* Sending leaves alone what the step found of the clock
LEMMA SendBleed ==
  ASSUME NEW b \in Boards, NEW y \in BOOLEAN, NEW k \in BOOLEAN,
         NEW r \in Work(b, y, k), NEW type, NEW dst, NEW arg
  PROVE  Send(r, type, dst, arg).bleed = r.bleed
  BY DEF Send, Work, Record

\* and so does a report
LEMMA DeliverBleed ==
  ASSUME NEW b \in Boards, NEW y \in BOOLEAN, NEW k \in BOOLEAN,
         NEW r \in Work(b, y, k), NEW c, NEW down
  PROVE  Deliver(r, c, down).bleed = r.bleed
<1>1. r \in Record(b, y)
  BY DEF Work
<1>2. \A l : [r EXCEPT !.lost = l, !.dropped = TRUE].bleed = r.bleed
  BY <1>1 DEF Record
<1>3. \A h, l : [r EXCEPT !.held = h, !.lost = l].bleed = r.bleed
  BY <1>1 DEF Record
<1>4. PICK h, l, m : h = Pressed(r.held, c, down) /\ l = r.lost \ {c}
                       /\ m = r.lost \cup ({c} \cap r.held)
  OBVIOUS
<1>5. CASE ~r.ready
  <2>1. Deliver(r, c, down) = [r EXCEPT !.lost = m, !.dropped = TRUE]
    BY <1>4, <1>5, Zenon DEF Deliver
  <2>2. QED
    BY <1>2, <2>1, Zenon
<1>6. CASE r.ready
  <2>1. Deliver(r, c, down) = [r EXCEPT !.held = h, !.lost = l]
    BY <1>4, <1>6, Zenon DEF Deliver
  <2>2. QED
    BY <1>3, <2>1, Zenon
<1>7. QED
  BY <1>5, <1>6

\* a general release
LEMMA ReleaseAllBleed ==
  ASSUME NEW b \in Boards, NEW y \in BOOLEAN, NEW k \in BOOLEAN,
         NEW r \in Work(b, y, k)
  PROVE  BroadcastReleaseAll(r).bleed = r.bleed
<1>1. PICK s : s = Send(r, "RELEASE", Everyone, 0)
  OBVIOUS
<1>2. s \in Work(b, y, k) /\ s.bleed = r.bleed
  <2>1. s \in Work(b, y, k)
    BY <1>1, FrameForms, SendWorks DEF To
  <2>2. s.bleed = r.bleed
    BY <1>1, SendBleed
  <2>3. QED
    BY <2>1, <2>2
<1>3. PICK h : h = [m \in Boards |-> {}]
  OBVIOUS
<1>4. /\ h \in [Boards -> SUBSET Class]
      /\ \A m \in Boards : h[m] \subseteq s.hid[m]
  BY <1>3
<1>5. PICK t : t = [s EXCEPT !.hid = h]
  OBVIOUS
<1>6. t \in Work(b, y, k)
  BY <1>2, <1>4, <1>5, HidWorks
<1>7. t.bleed = s.bleed
  BY <1>2, <1>5 DEF Work, Record
<1>8. PICK u : u = Deliver(t, "key", FALSE)
  OBVIOUS
<1>9. u \in Work(b, y, k)
  BY <1>6, <1>8, DeliverWorks DEF Class
<1>10. u.bleed = t.bleed
  BY <1>6, <1>8, DeliverBleed
<1>11. Deliver(u, "btn", FALSE).bleed = u.bleed
  BY <1>9, DeliverBleed
<1>12. BroadcastReleaseAll(r) = Deliver(u, "btn", FALSE)
  BY <1>1, <1>3, <1>5, <1>8, Zenon DEF BroadcastReleaseAll, LetGo
<1>13. QED
  BY <1>2, <1>7, <1>10, <1>11, <1>12

\* and a promotion
LEMMA PromoteBleed ==
  ASSUME NEW b \in Boards, NEW y \in BOOLEAN, NEW k \in BOOLEAN,
         NEW r \in Work(b, y, k), NEW t \in Promote(r)
  PROVE  t.bleed = r.bleed
<1>1. PICK s : s = IF r.active_valid /\ ~r.vacancy_clean THEN BroadcastReleaseAll(r) ELSE r
  OBVIOUS
<1>2. s \in Work(b, y, k)
  BY <1>1, ReleaseAllWorks
<1>3. s.bleed = r.bleed
  BY <1>1, ReleaseAllBleed
<1>4. r.self \in Addr
  <2>1. r.self = b
    BY Typed
  <2>2. QED
    BY <2>1 DEF Addr
<1>5. PICK u : u = [s EXCEPT !.active = r.self, !.active_valid = TRUE, !.resign_pending = FALSE]
  OBVIOUS
<1>6. u \in Work(b, y, k)
  BY <1>2, <1>4, <1>5, FieldsWork
<1>7. u.bleed = s.bleed
  BY <1>2, <1>5 DEF Work, Record
<1>8. BecomeActive(r) = u
  BY <1>1, <1>5, Zenon DEF BecomeActive
<1>9. PICK v : v = SendHello(u)
  OBVIOUS
<1>10. v \in Work(b, y, k)
  BY <1>6, <1>9, SendHelloWorks
<1>11. v.bleed = u.bleed
  BY <1>6, <1>9, SendBleed DEF SendHello
<1>12. PICK f : t = Announce(v, f)
  <2>1. PICK g : t = Announce(SendHello(BecomeActive(r)), g)
    BY Zenon DEF Promote
  <2>2. t = Announce(v, g)
    BY <1>8, <1>9, <2>1, Zenon
  <2>3. QED
    BY <2>2
<1>13. CASE f = NoAddr
  <2>1. Announce(v, f) = v
    BY <1>13, Zenon DEF Announce
  <2>2. QED
    BY <1>3, <1>7, <1>11, <1>12, <2>1
<1>14. CASE f # NoAddr
  <2>1. t = [[v EXCEPT !.focus = f] EXCEPT !.out = Append(@,
              [type |-> "FOCUS", src |-> [v EXCEPT !.focus = f].self,
               dst |-> Everyone, arg |-> f])]
    BY <1>12, <1>14, Zenon DEF Announce, Send
  <2>2. v.bleed = [v EXCEPT !.focus = f].bleed
    BY <1>10 DEF Work, Record
  <2>3. PICK w : w = [v EXCEPT !.focus = f]
    OBVIOUS
  <2>4. DOMAIN w = DOMAIN v /\ "bleed" \in DOMAIN v
    BY <1>10, <2>3 DEF Work, Record
  <2>5. t.bleed = w.bleed
    BY <2>1, <2>3, <2>4
  <2>6. QED
    BY <1>3, <1>7, <1>11, <2>2, <2>3, <2>5
<1>15. QED
  BY <1>13, <1>14

\* ExpireUnnoticed
LEMMA ExpireUnnoticedKeeps ==
  ASSUME IInv, NEW b \in Boards, ExpireUnnoticed(b)
  PROVE  IInv'
<1>1. PICK o : o = Orphaned(router)
  OBVIOUS
<1>2. Records(o)
  <2>1. Records(Orphaned(router))
    BY OrphanedWorks DEF IInv
  <2>2. QED
    BY <1>1, <2>1, Zenon
<1>3. o[b] \in Work(b, TRUE, TRUE) /\ o[b].bleed = 0
  BY <1>2 DEF Records, Rest
<1>4. PICK s : s = [o[b] EXCEPT !.active = NoAddr]
  OBVIOUS
<1>5. s \in Work(b, TRUE, TRUE)
  <2>1. NoAddr \in Addr
    BY DEF Addr
  <2>2. QED
    BY <1>3, <1>4, <2>1, FieldsWork
<1>6. s.bleed = 0
  BY <1>3, <1>4 DEF Work, Record
<1>7. PICK r \in Promote(s) :
        /\ router' = [o EXCEPT ![b] = [r EXCEPT !.out = <<>>]]
        /\ wire' = Transmit(b, Port, r.out, wire)
  BY <1>1, <1>4, Zenon DEF ExpireUnnoticed
<1>8. r \in Work(b, TRUE, TRUE)
  BY <1>5, <1>7, PromoteWorks
<1>9. r.bleed = 0
  BY <1>5, <1>6, <1>7, PromoteBleed
<1>10. PICK t : t = [r EXCEPT !.out = <<>>]
  OBVIOUS
<1>11. t \in Rest(b)
  <2>1. <<>> \in Seq(From(b))
    BY EmptySeq
  <2>2. t \in Record(b, TRUE) /\ t.out = <<>> /\ t.bleed = 0
    BY <1>8, <1>9, <1>10, <2>1 DEF Work, Record
  <2>3. Told(t)
    BY <1>8, <1>10 DEF Work, Told, Record
  <2>4. QED
    BY <2>2, <2>3 DEF Rest, Work
<1>12. Records([o EXCEPT ![b] = t])
  BY <1>2, <1>11, RecordSet
<1>13. Records(router')
  BY <1>7, <1>10, <1>12, Zenon
<1>14. PICK ms : ms = r.out
  OBVIOUS
<1>15. ms \in Seq(From(b)) /\ Queues(wire)
  BY <1>8, <1>14, Typed DEF IInv
<1>16. Queues(Transmit(b, Port, ms, wire))
  BY <1>15, OwnFrames
<1>17. Queues(wire')
  BY <1>7, <1>14, <1>16, Zenon
<1>18. phys' = phys /\ faults' = faults
  BY DEF ExpireUnnoticed
<1>19. QED
  BY <1>13, <1>17, <1>18 DEF IInv


-----------------------------------------------------------------------------
(* The keyboard is pulled out and plugged in *)

\* dhp_router_set_caps changes the capabilities and the board's own entry
SetCaps(rs, b, c, S) == [rs EXCEPT ![b].caps = c, ![b].chain[b] = S]

NewCaps(r, b, c, S) == [r EXCEPT !.caps = c, !.chain = [r.chain EXCEPT ![b] = S]]

LEMMA SetCapsIs ==
  ASSUME NEW rs, Records(rs), NEW b \in Boards, NEW c, NEW S
  PROVE  SetCaps(rs, b, c, S) = [rs EXCEPT ![b] = NewCaps(rs[b], b, c, S)]
<1>1. PICK r : r = rs[b]
  OBVIOUS
<1>2. r \in Record(b, TRUE)
  BY <1>1 DEF Records, Rest, Work
<1>3. PICK u : u = [r EXCEPT !.caps = c]
  OBVIOUS
<1>4. u.chain = r.chain
  BY <1>2, <1>3 DEF Record
<1>5. PICK h : h = [r.chain EXCEPT ![b] = S]
  OBVIOUS
<1>6. PICK s : s = [u EXCEPT !.chain = h]
  OBVIOUS
<1>7. s = [u EXCEPT !.chain[b] = S]
  BY <1>4, <1>5, <1>6
<1>8. rs = [d \in Boards |-> rs[d]]
  BY DEF Records
<1>9. PICK v : v = [rs EXCEPT ![b] = u]
  OBVIOUS
<1>10. v = [rs EXCEPT ![b].caps = c]
  BY <1>1, <1>3, <1>9
<1>11. v[b] = u
  BY <1>8, <1>9
<1>12. [v EXCEPT ![b].chain[b] = S] = [v EXCEPT ![b] = s]
  BY <1>7, <1>11
<1>13. [v EXCEPT ![b] = s] = [rs EXCEPT ![b] = s]
  BY <1>8, <1>9
<1>14. SetCaps(rs, b, c, S) = [v EXCEPT ![b].chain[b] = S]
  BY <1>10, Zenon DEF SetCaps
<1>15. s = [r EXCEPT !.caps = c, !.chain = h]
  BY <1>3, <1>6
<1>16. s = NewCaps(rs[b], b, c, S)
  BY <1>1, <1>5, <1>15, Zenon DEF NewCaps
<1>17. QED
  BY <1>12, <1>13, <1>14, <1>16, Zenon

\* and leaves a record
LEMMA SetCapsWorks ==
  ASSUME NEW rs, Records(rs), NEW b \in Boards, NEW c \in SUBSET Caps,
         NEW S \in SUBSET (Caps \cup {"used"})
  PROVE  Records(SetCaps(rs, b, c, S))
<1>1. PICK r : r = rs[b]
  OBVIOUS
<1>2. r \in Record(b, TRUE) /\ Told(r) /\ r.out = <<>> /\ r.bleed = 0
  BY <1>1 DEF Records, Rest, Work
<1>3. PICK h : h = [r.chain EXCEPT ![b] = S]
  OBVIOUS
<1>4. h \in [Boards -> SUBSET (Caps \cup {"used"})]
  BY <1>2, <1>3 DEF Record
<1>5. PICK s : s = [r EXCEPT !.caps = c, !.chain = h]
  OBVIOUS
<1>6. s \in Record(b, TRUE) /\ s.out = <<>> /\ s.bleed = 0
  BY <1>2, <1>4, <1>5 DEF Record
<1>7. Told(s)
  BY <1>2, <1>5 DEF Told, Record
<1>8. s \in Rest(b)
  BY <1>6, <1>7 DEF Rest, Work
<1>9. Records([rs EXCEPT ![b] = s])
  BY <1>8, RecordSet
<1>10. s = NewCaps(rs[b], b, c, S)
  BY <1>1, <1>3, <1>5, Zenon DEF NewCaps
<1>11. SetCaps(rs, b, c, S) = [rs EXCEPT ![b] = NewCaps(rs[b], b, c, S)]
  BY SetCapsIs
<1>12. QED
  BY <1>9, <1>10, <1>11, Zenon

\* Unplug
LEMMA UnplugSets ==
  ASSUME IInv, Unplug, NEW o, o = Orphaned(router)
  PROVE  \E c \in SUBSET Caps, S \in SUBSET (Caps \cup {"used"}) :
           /\ c = o[Keyboard].caps \ {"HID_IN"}
           /\ router' = SetCaps(o, Keyboard, c, S)
<1>1. Keyboard \in Boards
  BY RoutingAssumption
<1>2. o = Orphaned(router)
  OBVIOUS
<1>3. Records(o)
  <2>1. Records(Orphaned(router))
    BY OrphanedWorks DEF IInv
  <2>2. QED
    BY <1>2, <2>1, Zenon
<1>4. o[Keyboard] \in Work(Keyboard, TRUE, TRUE)
  BY <1>1, <1>3 DEF Records, Rest
<1>5. PICK c, S : /\ c = o[Keyboard].caps \ {"HID_IN"}
                /\ S = o[Keyboard].chain[Keyboard] \ {"HID_IN"}
  OBVIOUS
<1>6. c \in SUBSET Caps /\ S \in SUBSET (Caps \cup {"used"})
  <2>1. /\ o[Keyboard].caps \in SUBSET Caps
        /\ o[Keyboard].chain[Keyboard] \in SUBSET (Caps \cup {"used"})
    <3>1. PICK r \in Work(Keyboard, TRUE, TRUE) : r = o[Keyboard]
      BY <1>4
    <3>2. r.caps \in SUBSET Caps /\ r.chain \in [Boards -> SUBSET (Caps \cup {"used"})]
      BY <1>1, Typed
    <3>3. QED
      BY <1>1, <3>1, <3>2
  <2>2. QED
    BY <1>5, <2>1
<1>7. router' = [o EXCEPT ![Keyboard].caps = @ \ {"HID_IN"},
                          ![Keyboard].chain[Keyboard] = @ \ {"HID_IN"}]
  BY <1>2, Zenon DEF Unplug
<1>8. o = [d \in Boards |-> o[d]]
  BY <1>3 DEF Records
<1>9. PICK v : v = [o EXCEPT ![Keyboard].caps = c]
  OBVIOUS
<1>10. v[Keyboard].chain = o[Keyboard].chain
  <2>1. v[Keyboard] = [o[Keyboard] EXCEPT !.caps = c]
    BY <1>1, <1>8, <1>9
  <2>2. [o[Keyboard] EXCEPT !.caps = c].chain = o[Keyboard].chain
    BY <1>4 DEF Work, Record
  <2>3. QED
    BY <2>1, <2>2, Zenon
<1>11. v = [o EXCEPT ![Keyboard].caps = @ \ {"HID_IN"}]
  BY <1>5, <1>9, Zenon
<1>12. router' = [v EXCEPT ![Keyboard].chain[Keyboard] = @ \ {"HID_IN"}]
  BY <1>7, <1>11, Zenon
<1>13. router' = [v EXCEPT ![Keyboard].chain[Keyboard] = v[Keyboard].chain[Keyboard] \ {"HID_IN"}]
  BY <1>12, Zenon
<1>14. router' = [v EXCEPT ![Keyboard].chain[Keyboard] = S]
  BY <1>5, <1>10, <1>13, Zenon
<1>15. router' = SetCaps(o, Keyboard, c, S)
  BY <1>9, <1>14, Zenon DEF SetCaps
<1>16. QED
  BY <1>5, <1>6, <1>15, Zenon

LEMMA UnplugKeeps ==
  ASSUME IInv, Unplug
  PROVE  IInv'
<1>1. PICK o : o = Orphaned(router) /\ Records(o)
  BY OrphanedWorks DEF IInv
<1>2. PICK c \in SUBSET Caps, S \in SUBSET (Caps \cup {"used"}) :
        /\ c = o[Keyboard].caps \ {"HID_IN"}
        /\ router' = SetCaps(o, Keyboard, c, S)
  BY <1>1, UnplugSets
<1>3. Records(router')
  <2>1. Keyboard \in Boards
    BY RoutingAssumption
  <2>2. Records(SetCaps(o, Keyboard, c, S))
    BY <1>1, <1>2, <2>1, SetCapsWorks
  <2>3. QED
    BY <1>2, <2>2, Zenon
<1>4. faults' \in 0..MaxFaults
  <2>1. Fault
    BY DEF Unplug
  <2>2. QED
    BY <2>1, FaultCounts
<1>5. phys' = {} /\ wire' = wire
  BY DEF Unplug
<1>6. QED
  BY <1>3, <1>4, <1>5 DEF IInv

\* Plug
LEMMA PlugSets ==
  ASSUME IInv, Plug, NEW o, o = router
  PROVE  \E c \in SUBSET Caps, S \in SUBSET (Caps \cup {"used"}) :
           /\ c = o[Keyboard].caps \cup {"HID_IN"}
           /\ router' = SetCaps(o, Keyboard, c, S)
<1>1. Keyboard \in Boards
  BY RoutingAssumption
<1>2. o = router
  OBVIOUS
<1>3. Records(o)
  BY <1>2 DEF IInv
<1>4. o[Keyboard] \in Work(Keyboard, TRUE, TRUE)
  BY <1>1, <1>3 DEF Records, Rest
<1>5. PICK c, S : /\ c = o[Keyboard].caps \cup {"HID_IN"}
                /\ S = o[Keyboard].chain[Keyboard] \cup {"HID_IN"}
  OBVIOUS
<1>6. c \in SUBSET Caps /\ S \in SUBSET (Caps \cup {"used"})
  <2>1. /\ o[Keyboard].caps \in SUBSET Caps
        /\ o[Keyboard].chain[Keyboard] \in SUBSET (Caps \cup {"used"})
    <3>1. PICK r \in Work(Keyboard, TRUE, TRUE) : r = o[Keyboard]
      BY <1>4
    <3>2. r.caps \in SUBSET Caps /\ r.chain \in [Boards -> SUBSET (Caps \cup {"used"})]
      BY <1>1, Typed
    <3>3. QED
      BY <1>1, <3>1, <3>2
  <2>2. QED
    BY <1>5, <2>1 DEF Caps
<1>7. router' = [o EXCEPT ![Keyboard].caps = @ \cup {"HID_IN"},
                          ![Keyboard].chain[Keyboard] = @ \cup {"HID_IN"}]
  BY <1>2, Zenon DEF Plug
<1>8. o = [d \in Boards |-> o[d]]
  BY <1>3 DEF Records
<1>9. PICK v : v = [o EXCEPT ![Keyboard].caps = c]
  OBVIOUS
<1>10. v[Keyboard].chain = o[Keyboard].chain
  <2>1. v[Keyboard] = [o[Keyboard] EXCEPT !.caps = c]
    BY <1>1, <1>8, <1>9
  <2>2. [o[Keyboard] EXCEPT !.caps = c].chain = o[Keyboard].chain
    BY <1>4 DEF Work, Record
  <2>3. QED
    BY <2>1, <2>2, Zenon
<1>11. v = [o EXCEPT ![Keyboard].caps = @ \cup {"HID_IN"}]
  BY <1>5, <1>9, Zenon
<1>12. router' = [v EXCEPT ![Keyboard].chain[Keyboard] = @ \cup {"HID_IN"}]
  BY <1>7, <1>11, Zenon
<1>13. router' = [v EXCEPT ![Keyboard].chain[Keyboard] = v[Keyboard].chain[Keyboard] \cup {"HID_IN"}]
  BY <1>12, Zenon
<1>14. router' = [v EXCEPT ![Keyboard].chain[Keyboard] = S]
  BY <1>5, <1>10, <1>13, Zenon
<1>15. router' = SetCaps(o, Keyboard, c, S)
  BY <1>9, <1>14, Zenon DEF SetCaps
<1>16. QED
  BY <1>5, <1>6, <1>15, Zenon

LEMMA PlugKeeps ==
  ASSUME IInv, Plug
  PROVE  IInv'
<1>1. PICK o : o = router /\ Records(o)
  BY OrphanedWorks DEF IInv
<1>2. PICK c \in SUBSET Caps, S \in SUBSET (Caps \cup {"used"}) :
        /\ c = o[Keyboard].caps \cup {"HID_IN"}
        /\ router' = SetCaps(o, Keyboard, c, S)
  BY <1>1, PlugSets
<1>3. Records(router')
  <2>1. Keyboard \in Boards
    BY RoutingAssumption
  <2>2. Records(SetCaps(o, Keyboard, c, S))
    BY <1>1, <1>2, <2>1, SetCapsWorks
  <2>3. QED
    BY <1>2, <2>2, Zenon
<1>4. phys' = phys /\ wire' = wire /\ faults' = faults
  BY DEF Plug
<1>5. QED
  BY <1>3, <1>4 DEF IInv


-----------------------------------------------------------------------------
(* The invariant *)

\* The invariant holds when every board is off
LEMMA InitIInv ==
  ASSUME Init
  PROVE  IInv
<1>1. Records(router)
  <2>1. router = [b \in Boards |-> Boot(b)]
    BY DEF Init
  <2>2. \A b \in Boards : router[b] = Boot(b)
    BY <2>1
  <2>3. \A b \in Boards : router[b] \in Rest(b)
    BY <2>2, BootRests
  <2>4. router = [b \in Boards |-> router[b]]
    BY <2>1, <2>2
  <2>5. QED
    BY <2>3, <2>4 DEF Records
<1>2. Queues(wire)
  <2>1. <<>> \in Seq(Any) /\ \A d \in Boards, p \in Port : <<>> \in Seq(Inbound(d, p))
    BY EmptySeq
  <2>2. wire = [b \in Boards |-> [p \in Port |-> <<>>]]
    BY DEF Init
  <2>3. QED
    BY <2>1, <2>2 DEF Queues
<1>3. phys \subseteq Class /\ faults \in 0..MaxFaults
  BY RoutingAssumption DEF Init
<1>4. QED
  BY <1>1, <1>2, <1>3 DEF IInv

\* and every step keeps it
LEMMA NextIInv ==
  ASSUME IInv, [Next]_vars
  PROVE  IInv'
<1>1. ASSUME NEW b \in Boards, NEW p \in Port, Receive(b, p)
      PROVE  IInv'
  BY <1>1, ReceiveKeeps
<1>2. ASSUME NEW b \in Boards, Button(b)
      PROVE  IInv'
  BY <1>2, ButtonKeeps
<1>3. ASSUME NEW b \in Boards, NEW t \in Boards, CtlFocus(b, t)
      PROVE  IInv'
  BY <1>3, CtlFocusKeeps
<1>4. ASSUME NEW b \in Boards, Tick(b)
      PROVE  IInv'
  BY <1>4, TickKeeps
<1>5. ASSUME NEW b \in Boards, Advertise(b)
      PROVE  IInv'
  BY <1>5, AdvertiseKeeps
<1>6. ASSUME NEW b \in Boards, PowerOn(b)
      PROVE  IInv'
  BY <1>6, PowerOnKeeps
<1>7. ASSUME NEW b \in Boards, Takeover(b)
      PROVE  IInv'
  BY <1>7, TakeoverKeeps
<1>8. ASSUME NEW b \in Boards, Expire(b)
      PROVE  IInv'
  BY <1>8, ExpireKeeps
<1>9. ASSUME NEW b \in Boards, ExpireUnnoticed(b)
      PROVE  IInv'
  BY <1>9, ExpireUnnoticedKeeps
<1>10. ASSUME NEW b \in Boards, Crash(b)
       PROVE  IInv'
  BY <1>10, CrashKeeps
<1>11. ASSUME NEW b \in Boards, Exit(b)
       PROVE  IInv'
  BY <1>11, ExitKeeps
<1>12. ASSUME NEW down \in BOOLEAN, NEW dx \in {-1, 0, 1}, Mouse(down, dx)
       PROVE  IInv'
  BY <1>12, MouseKeeps
<1>13. CASE UNCHANGED vars
  <2>1. router' = router /\ wire' = wire /\ phys' = phys /\ faults' = faults
    BY <1>13 DEF vars
  <2>2. QED
    BY <2>1 DEF IInv
<1>14. QED
  BY <1>1, <1>2, <1>3, <1>4, <1>5, <1>6, <1>7, <1>8, <1>9, <1>10, <1>11, <1>12, <1>13,
     KeyKeeps, UnplugKeeps, PlugKeeps, Zenon DEF Next

\* IInv is an invariant
LEMMA IInvHolds == Spec => []IInv
<1>1. Init => IInv
  BY InitIInv
<1>2. IInv /\ [Next]_vars => IInv'
  BY NextIInv
<1>3. QED
  BY <1>1, <1>2, PTL DEF Spec

\* A record at rest is one of the states TypeOK allows
LEMMA RestTyped ==
  ASSUME NEW b \in Boards, NEW r \in Rest(b)
  PROVE  r \in RouterState
<1>1. r \in Record(b, TRUE) /\ r.out = <<>> /\ r.bleed = 0
  BY DEF Rest, Work
<1>2. r.pointer \in [travel : -SPAN..SPAN, push : (1 - PUSH)..(PUSH - 1)]
  BY <1>1 DEF Record, Pointers
<1>3. r.dropped \in {FALSE}
  BY <1>1 DEF Record
<1>4. QED
  BY <1>1, <1>2, <1>3 DEF Record, RouterState

(* Every board's record keeps its form through every handler, and no frame *)
(* comes back to the board that sent it.                                   *)
THEOREM TypeCorrect == Spec => []TypeOK
<1>1. ASSUME IInv
      PROVE  TypeOK
  <2>1. router \in [Boards -> RouterState]
    <3>1. \A b \in Boards : router[b] \in RouterState
      BY <1>1, RestTyped DEF IInv, Records
    <3>2. router = [b \in Boards |-> router[b]]
      BY <1>1 DEF IInv, Records
    <3>3. QED
      BY <3>1, <3>2
  <2>2. ASSUME NEW b \in Boards, NEW p \in Port, NEW i \in 1..Len(wire[b][p])
        PROVE  wire[b][p][i].src # b
    <3>1. PICK q : q = wire[b][p]
      OBVIOUS
    <3>2. q \in Seq(Inbound(b, p))
      BY <1>1, <3>1 DEF IInv, Queues
    <3>3. PICK f : f = q[i]
      OBVIOUS
    <3>4. f \in Inbound(b, p)
      BY <2>2, <3>1, <3>2, <3>3, ElementOfSeq
    <3>5. IF p = "UP" THEN f.src < b ELSE f.src > b
      BY <3>4 DEF Inbound
    <3>6. f.src # b
      BY <3>5, RoutingAssumption DEF Boards
    <3>7. QED
      BY <3>1, <3>3, <3>6, Zenon
  <2>3. phys \subseteq Class /\ faults \in 0..MaxFaults
    BY <1>1 DEF IInv
  <2>4. QED
    BY <2>1, <2>2, <2>3 DEF TypeOK
<1>2. QED
  BY <1>1, IInvHolds, PTL

(* A planned handover never overlooks a key: through every report, focus   *)
(* switch, release and dropped report, keys_held of the speaker covers     *)
(* what its tracker holds for any machine.                                 *)
THEOREM HandoverIsSafe == Spec => []HandoverWaitsForKeys
<1>1. ASSUME IInv
      PROVE  HandoverWaitsForKeys
  <2>1. \A b \in Boards : Told(router[b])
    BY <1>1 DEF IInv, Records, Rest, Work
  <2>2. Up \subseteq Boards
    BY DEF Up
  <2>3. QED
    BY <2>1, <2>2 DEF HandoverWaitsForKeys, Told, AnyHeld
<1>2. QED
  BY <1>1, IInvHolds, PTL

(* Push only builds up while the pointer is pinned to the edge it pushes   *)
(* against, for every span, threshold and re-entry guard.                  *)
THEOREM PushIsAtTheEdge == Spec => []PushMeansPinned
<1>1. ASSUME IInv
      PROVE  PushMeansPinned
  <2>1. \A b \in Boards : Pinned(router[b].pointer)
    BY <1>1 DEF IInv, Records, Rest, Work, Record, Pointers
  <2>2. QED
    BY <2>1, Zenon DEF PushMeansPinned, Pinned
<1>2. QED
  BY <1>1, IInvHolds, PTL

-----------------------------------------------------------------------------
(* What the handlers do to the focus: only the speaker announces one, it is *)
(* its own, and the announcement is the last frame of the step.            *)

\* Frames of board b with capabilities c that announce no focus
Mild(b, c) ==
  {f \in From(b) : f.type # "FOCUS" /\ (f.type = "HELLO" => f.arg.caps = c)}

\* r becomes t and nobody's idea of the focus is touched
Mum(r, t) ==
  /\ t.self = r.self /\ t.up = r.up /\ t.caps = r.caps /\ t.chain = r.chain
  /\ t.focus = r.focus
  /\ t.active = r.self => r.active = r.self
  /\ r.out \in Seq(Mild(r.self, r.caps)) => t.out \in Seq(Mild(r.self, r.caps))

\* One handler after another
LEMMA MumTrans ==
  ASSUME NEW r, NEW s, NEW t, Mum(r, s), Mum(s, t)
  PROVE  Mum(r, t)
  BY DEF Mum

LEMMA MumSame ==
  ASSUME NEW r
  PROVE  Mum(r, r)
  BY DEF Mum

\* A frame that is no announcement
LEMMA SendMum ==
  ASSUME NEW b \in Boards, NEW y \in BOOLEAN, NEW k \in BOOLEAN,
         NEW r \in Work(b, y, k), NEW type, NEW dst, NEW arg,
         [type |-> type, src |-> b, dst |-> dst, arg |-> arg] \in From(b),
         type # "FOCUS", type = "HELLO" => arg.caps = r.caps
  PROVE  Mum(r, Send(r, type, dst, arg))
<1>1. PICK m : m = [type |-> type, src |-> b, dst |-> dst, arg |-> arg]
  OBVIOUS
<1>2. r \in Record(b, y) /\ r.self = b
  BY DEF Work, Record
<1>3. PICK o : o = Append(r.out, m)
  OBVIOUS
<1>4. m \in Mild(b, r.caps)
  <2>1. m.type = type /\ m.arg = arg
    BY <1>1
  <2>2. QED
    BY <1>1, <2>1 DEF Mild
<1>5. r.out \in Seq(Mild(b, r.caps)) => o \in Seq(Mild(b, r.caps))
  BY <1>3, <1>4, AppendProperties
<1>6. Send(r, type, dst, arg) = [r EXCEPT !.out = o]
  BY <1>1, <1>2, <1>3, Zenon DEF Send
<1>7. Mum(r, [r EXCEPT !.out = o])
  BY <1>2, <1>5 DEF Mum, Record
<1>8. QED
  BY <1>6, <1>7

\* The fields that have nothing to do with it
LEMMA FieldsMum ==
  ASSUME NEW b \in Boards, NEW y \in BOOLEAN, NEW k \in BOOLEAN,
         NEW r \in Work(b, y, k)
  PROVE  /\ \A h : Mum(r, [r EXCEPT !.hid = h])
         /\ \A h, l : Mum(r, [r EXCEPT !.held = h, !.lost = l])
         /\ \A l, z : Mum(r, [r EXCEPT !.lost = l, !.dropped = z])
         /\ \A p : Mum(r, [r EXCEPT !.pointer = p])
         /\ \A z : Mum(r, [r EXCEPT !.keys_held = z])
         /\ \A z : Mum(r, [r EXCEPT !.resign_pending = z])
         /\ \A z : Mum(r, [r EXCEPT !.resign_pending = z, !.active = NoAddr])
         /\ \A z : Mum(r, [r EXCEPT !.active = NoAddr, !.vacancy_clean = z])
         /\ Mum(r, [r EXCEPT !.active = NoAddr])
         /\ \A a, v, z : a # b => Mum(r, [r EXCEPT !.active = a, !.active_valid = v,
                                                   !.vacancy_clean = z])
<1>1. r \in Record(b, y) /\ r.self = b /\ NoAddr # b
  BY RoutingAssumption DEF Work, Record
<1>2. \A h : Mum(r, [r EXCEPT !.hid = h])
  BY <1>1 DEF Mum, Record
<1>3. \A h, l : Mum(r, [r EXCEPT !.held = h, !.lost = l])
  BY <1>1 DEF Mum, Record
<1>4. \A l, z : Mum(r, [r EXCEPT !.lost = l, !.dropped = z])
  BY <1>1 DEF Mum, Record
<1>5. \A p : Mum(r, [r EXCEPT !.pointer = p])
  BY <1>1 DEF Mum, Record
<1>6. \A z : Mum(r, [r EXCEPT !.keys_held = z])
  BY <1>1 DEF Mum, Record
<1>7. \A z : Mum(r, [r EXCEPT !.resign_pending = z])
  BY <1>1 DEF Mum, Record
<1>8. \A z : Mum(r, [r EXCEPT !.resign_pending = z, !.active = NoAddr])
  BY <1>1 DEF Mum, Record
<1>9. \A z : Mum(r, [r EXCEPT !.active = NoAddr, !.vacancy_clean = z])
  BY <1>1 DEF Mum, Record
<1>10. Mum(r, [r EXCEPT !.active = NoAddr])
  BY <1>1 DEF Mum, Record
<1>11. \A a, v, z : a # b => Mum(r, [r EXCEPT !.active = a, !.active_valid = v,
                                              !.vacancy_clean = z])
  BY <1>1 DEF Mum, Record
<1>12. QED
  BY <1>2, <1>3, <1>4, <1>5, <1>6, <1>7, <1>8, <1>9, <1>10, <1>11

\* hid_bridge_send_*
LEMMA DeliverMum ==
  ASSUME NEW b \in Boards, NEW y \in BOOLEAN, NEW k \in BOOLEAN,
         NEW r \in Work(b, y, k), NEW c, NEW down
  PROVE  Mum(r, Deliver(r, c, down))
<1>1. PICK h, l, m : h = Pressed(r.held, c, down) /\ l = r.lost \ {c}
                       /\ m = r.lost \cup ({c} \cap r.held)
  OBVIOUS
<1>2. \/ Deliver(r, c, down) = [r EXCEPT !.lost = m, !.dropped = TRUE]
      \/ Deliver(r, c, down) = [r EXCEPT !.held = h, !.lost = l]
  BY <1>1, Zenon DEF Deliver
<1>3. Mum(r, [r EXCEPT !.lost = m, !.dropped = TRUE]) /\ Mum(r, [r EXCEPT !.held = h, !.lost = l])
  BY FieldsMum, Zenon
<1>4. QED
  BY <1>2, <1>3, Zenon

\* A report on its way to a machine
LEMMA PassMum ==
  ASSUME NEW b \in Boards, NEW y \in BOOLEAN, NEW k \in BOOLEAN,
         NEW r \in Work(b, y, k), NEW dst \in Addr, NEW c \in Class,
         NEW down \in BOOLEAN
  PROVE  Mum(r, Pass(r, dst, c, down))
<1>1. CASE dst = r.self
  <2>1. Mum(r, Deliver(r, c, down))
    BY DeliverMum
  <2>2. QED
    BY <1>1, <2>1, Zenon DEF Pass
<1>2. CASE dst # r.self /\ dst = NoAddr
  BY <1>2, MumSame, Zenon DEF Pass
<1>3. CASE dst # r.self /\ dst # NoAddr
  <2>1. dst \in To
    BY <1>3 DEF Addr, To
  <2>2. [type |-> TypeOf(c), src |-> b, dst |-> dst, arg |-> down] \in From(b)
    BY <2>1, FrameForms
  <2>3. TypeOf(c) # "FOCUS" /\ TypeOf(c) # "HELLO"
    BY DEF TypeOf
  <2>4. Mum(r, Send(r, TypeOf(c), dst, down))
    BY <2>2, <2>3, SendMum
  <2>5. QED
    BY <1>3, <2>4, Zenon DEF Pass
<1>4. QED
  BY <1>1, <1>2, <1>3

\* send_kbd_to, send_mouse_to
LEMMA SendToMum ==
  ASSUME NEW b \in Boards, NEW y \in BOOLEAN, NEW k \in BOOLEAN,
         NEW r \in Work(b, y, k), NEW dst \in Addr, NEW c \in Class,
         NEW down \in BOOLEAN
  PROVE  Mum(r, SendTo(r, dst, c, down))
<1>1. PICK m \in Boards : m = SlotOf(r, dst)
  BY SlotIsBoard
<1>2. r.hid \in [Boards -> SUBSET Class] /\ r \in Work(b, y, FALSE)
  BY Typed
<1>3. PICK h : h = [r.hid EXCEPT ![m] = Pressed(@, c, down)]
  OBVIOUS
<1>4. h \in [Boards -> SUBSET Class]
  BY <1>2, <1>3 DEF Pressed
<1>5. PICK s : s = [r EXCEPT !.hid = h]
  OBVIOUS
<1>6. s \in Work(b, y, FALSE)
  BY <1>2, <1>4, <1>5, HidWorks
<1>7. Mum(r, s)
  BY <1>5, FieldsMum
<1>8. Mum(s, Pass(s, dst, c, down))
  BY <1>6, PassMum
<1>9. [r EXCEPT !.hid[SlotOf(r, dst)] = Pressed(@, c, down)] = s
  BY <1>1, <1>3, <1>5, Zenon
<1>10. SendTo(r, dst, c, down) = Pass(s, dst, c, down)
  BY <1>9, Zenon DEF SendTo
<1>11. QED
  BY <1>7, <1>8, <1>10, MumTrans, Zenon

\* release_machine
LEMMA ReleaseMachineMum ==
  ASSUME NEW b \in Boards, NEW y \in BOOLEAN, NEW k \in BOOLEAN,
         NEW r \in Work(b, y, k), NEW addr \in Addr
  PROVE  Mum(r, ReleaseMachine(r, addr))
<1>1. PICK m \in Boards : m = SlotOf(r, addr)
  BY SlotIsBoard
<1>2. r.hid \in [Boards -> SUBSET Class]
  BY Typed
<1>3. PICK h : h = [r.hid EXCEPT ![m] = {}]
  OBVIOUS
<1>4. h \in [Boards -> SUBSET Class] /\ \A n \in Boards : h[n] \subseteq r.hid[n]
  BY <1>2, <1>3
<1>5. PICK s : s = [r EXCEPT !.hid = h]
  OBVIOUS
<1>6. s \in Work(b, y, k)
  BY <1>4, <1>5, HidWorks
<1>7. PICK t : t = Pass(s, addr, "key", FALSE)
  OBVIOUS
<1>8. "key" \in Class /\ "btn" \in Class
  BY DEF Class
<1>9. t \in Work(b, y, k)
  BY <1>6, <1>7, <1>8, PassWorks
<1>10. Mum(r, s)
  BY <1>5, FieldsMum
<1>11. Mum(s, t)
  BY <1>6, <1>7, <1>8, PassMum
<1>12. Mum(t, Pass(t, addr, "btn", FALSE))
  BY <1>8, <1>9, PassMum
<1>13. Mum(r, t)
  BY <1>10, <1>11, MumTrans, Zenon
<1>14. Mum(r, Pass(t, addr, "btn", FALSE))
  BY <1>12, <1>13, MumTrans, Zenon
<1>15. [r EXCEPT !.hid[SlotOf(r, addr)] = {}] = s
  BY <1>1, <1>3, <1>5, Zenon
<1>16. ReleaseMachine(r, addr) = r \/ ReleaseMachine(r, addr) = Pass(t, addr, "btn", FALSE)
  BY <1>7, <1>15, Zenon DEF ReleaseMachine
<1>17. QED
  BY <1>14, <1>16, MumSame, Zenon

\* dhp_router's HELLO
LEMMA SendHelloMum ==
  ASSUME NEW b \in Boards, NEW y \in BOOLEAN, NEW k \in BOOLEAN,
         NEW r \in Work(b, y, k)
  PROVE  Mum(r, SendHello(r))
<1>1. PICK h : h = [caps |-> r.caps, active |-> IsActive(r)]
  OBVIOUS
<1>2. h \in Hello /\ Everyone \in To /\ h.caps = r.caps
  BY <1>1, Typed DEF Hello, To, IsActive
<1>3. [type |-> "HELLO", src |-> b, dst |-> Everyone, arg |-> h] \in From(b)
  BY <1>2, FrameForms
<1>4. Mum(r, Send(r, "HELLO", Everyone, h))
  BY <1>2, <1>3, SendMum
<1>5. QED
  BY <1>1, <1>4, Zenon DEF SendHello

\* The board's own machine lets everything go
LEMMA LetGoMum ==
  ASSUME NEW b \in Boards, NEW y \in BOOLEAN, NEW k \in BOOLEAN,
         NEW r \in Work(b, y, k)
  PROVE  Mum(r, LetGo(r))
<1>1. "key" \in Class
  BY DEF Class
<1>2. PICK s : s = Deliver(r, "key", FALSE)
  OBVIOUS
<1>3. s \in Work(b, y, k)
  BY <1>1, <1>2, DeliverWorks
<1>4. Mum(r, s)
  BY <1>2, DeliverMum
<1>5. Mum(s, Deliver(s, "btn", FALSE))
  BY <1>3, DeliverMum
<1>6. LetGo(r) = Deliver(s, "btn", FALSE)
  BY <1>2, Zenon DEF LetGo
<1>7. QED
  BY <1>4, <1>5, <1>6, MumTrans, Zenon

\* broadcast_release_all
LEMMA ReleaseAllMum ==
  ASSUME NEW b \in Boards, NEW y \in BOOLEAN, NEW k \in BOOLEAN,
         NEW r \in Work(b, y, k)
  PROVE  Mum(r, BroadcastReleaseAll(r))
<1>1. PICK s : s = Send(r, "RELEASE", Everyone, 0)
  OBVIOUS
<1>2. [type |-> "RELEASE", src |-> b, dst |-> Everyone, arg |-> 0] \in From(b)
  BY FrameForms DEF To
<1>3. s \in Work(b, y, k)
  BY <1>1, <1>2, SendWorks
<1>4. Mum(r, s)
  BY <1>1, <1>2, SendMum
<1>5. PICK h : h = [m \in Boards |-> {}]
  OBVIOUS
<1>6. /\ h \in [Boards -> SUBSET Class]
      /\ \A m \in Boards : h[m] \subseteq s.hid[m]
  BY <1>5
<1>7. PICK t : t = [s EXCEPT !.hid = h]
  OBVIOUS
<1>8. t \in Work(b, y, k)
  BY <1>3, <1>6, <1>7, HidWorks
<1>9. Mum(s, t)
  BY <1>3, <1>7, FieldsMum
<1>10. Mum(t, LetGo(t))
  BY <1>8, LetGoMum
<1>11. BroadcastReleaseAll(r) = LetGo(t)
  BY <1>1, <1>5, <1>7, Zenon DEF BroadcastReleaseAll
<1>12. Mum(r, t)
  BY <1>4, <1>9, MumTrans, Zenon
<1>13. QED
  BY <1>10, <1>11, <1>12, MumTrans, Zenon

\* Rule 1
LEMMA ServiceResignMum ==
  ASSUME NEW b \in Boards, NEW y \in BOOLEAN, NEW k \in BOOLEAN,
         NEW r \in Work(b, y, k), NEW deadline \in BOOLEAN
  PROVE  Mum(r, ServiceResign(r, deadline))
<1>1. CASE ~r.resign_pending \/ (r.keys_held /\ ~deadline)
  BY <1>1, MumSame, Zenon DEF ServiceResign
<1>2. CASE ~(~r.resign_pending \/ (r.keys_held /\ ~deadline))
  <2>1. PICK s : s = IF r.keys_held THEN BroadcastReleaseAll(r) ELSE r
    OBVIOUS
  <2>2. s \in Work(b, y, k)
    BY <2>1, ReleaseAllWorks
  <2>3. Mum(r, s)
    <3>1. Mum(r, BroadcastReleaseAll(r)) /\ Mum(r, r)
      BY ReleaseAllMum, MumSame
    <3>2. QED
      BY <2>1, <3>1
  <2>4. PICK t : t = Send(s, "RESIGN", Everyone, 0)
    OBVIOUS
  <2>5. [type |-> "RESIGN", src |-> b, dst |-> Everyone, arg |-> 0] \in From(b)
    BY FrameForms DEF To
  <2>6. t \in Work(b, y, k)
    BY <2>2, <2>4, <2>5, SendWorks
  <2>7. Mum(s, t)
    BY <2>2, <2>4, <2>5, SendMum
  <2>8. PICK u : u = [t EXCEPT !.resign_pending = FALSE, !.active = NoAddr]
    OBVIOUS
  <2>9. Mum(t, u)
    BY <2>6, <2>8, FieldsMum
  <2>10. ServiceResign(r, deadline) = u
    BY <1>2, <2>1, <2>4, <2>8, Zenon DEF ServiceResign
  <2>11. Mum(r, t)
    BY <2>3, <2>7, MumTrans, Zenon
  <2>12. QED
    BY <2>9, <2>10, <2>11, MumTrans, Zenon
<1>3. QED
  BY <1>1, <1>2

\* r becomes t and goes on as the same board of the same chain
Kept(r, t) == t.self = r.self /\ t.up = r.up /\ t.caps = r.caps /\ t.chain = r.chain

\* The frames of a step that ends with the announcement of focus x
LoudFrames(b, c, x) ==
  {Append(o, [type |-> "FOCUS", src |-> b, dst |-> Everyone, arg |-> x]) :
     o \in Seq(Mild(b, c))}

\* t is the record of a board that has just announced its focus
Loud(t) == t.focus \in Boards /\ t.out \in LoudFrames(t.self, t.caps, t.focus)

\* The announcement itself
LEMMA AnnouncementLoud ==
  ASSUME NEW b \in Boards, NEW y \in BOOLEAN, NEW k \in BOOLEAN,
         NEW r \in Work(b, y, k), NEW x \in Boards, r.focus = x,
         r.out \in Seq(Mild(b, r.caps))
  PROVE  Kept(r, Send(r, "FOCUS", Everyone, x)) /\ Loud(Send(r, "FOCUS", Everyone, x))
<1>1. r \in Record(b, y) /\ r.self = b
  BY DEF Work, Record
<1>2. PICK m : m = [type |-> "FOCUS", src |-> b, dst |-> Everyone, arg |-> x]
  OBVIOUS
<1>3. PICK o : o = Append(r.out, m)
  OBVIOUS
<1>4. PICK t : t = [r EXCEPT !.out = o]
  OBVIOUS
<1>5. Send(r, "FOCUS", Everyone, x) = t
  BY <1>1, <1>2, <1>3, <1>4, Zenon DEF Send
<1>6. /\ t.self = r.self /\ t.up = r.up /\ t.caps = r.caps /\ t.chain = r.chain
      /\ t.focus = r.focus /\ t.out = o
  BY <1>1, <1>4 DEF Record
<1>7. o \in LoudFrames(b, r.caps, x)
  BY <1>2, <1>3, Zenon DEF LoudFrames
<1>8. Kept(r, t)
  BY <1>6 DEF Kept
<1>9. Loud(t)
  BY <1>1, <1>6, <1>7, Zenon DEF Loud
<1>10. QED
  BY <1>5, <1>8, <1>9, Zenon

\* apply_focus tells everybody, unless nothing changes
LEMMA ApplyFocusTells ==
  ASSUME NEW b \in Boards, NEW y \in BOOLEAN, NEW k \in BOOLEAN,
         NEW r \in Work(b, y, k), r.out \in Seq(Mild(b, r.caps)),
         NEW target \in Addr, NEW edge \in {-1, 0, 1}
  PROVE  \/ Mum(r, ApplyFocus(r, target, edge))
         \/ Kept(r, ApplyFocus(r, target, edge)) /\ Loud(ApplyFocus(r, target, edge))
<1>1. CASE target \in {NoAddr, r.focus}
  BY <1>1, MumSame DEF ApplyFocus
<1>2. CASE target \notin {NoAddr, r.focus}
  <2>1. target \in Boards /\ r.focus \in Addr
    BY <1>2, Typed DEF Addr
  <2>2. PICK s : s = ReleaseMachine(r, r.focus)
    OBVIOUS
  <2>3. s \in Work(b, y, k)
    BY <2>1, <2>2, ReleaseMachineWorks
  <2>4. Mum(r, s)
    BY <2>1, <2>2, ReleaseMachineMum
  <2>5. PICK p \in Pointers : p = Arrive(edge)
    BY ArriveIn
  <2>6. PICK t : t = [s EXCEPT !.focus = target, !.pointer = p]
    OBVIOUS
  <2>7. t \in Work(b, y, k)
    BY <2>3, <2>6, FieldsWork
  <2>8. s.self = b /\ r.self = b
    <3>1. s.self = b
      BY <2>3, Typed
    <3>2. r.self = b
      BY Typed
    <3>3. QED
      BY <3>1, <3>2
  <2>9. /\ t.self = s.self /\ t.up = s.up /\ t.caps = s.caps /\ t.chain = s.chain
        /\ t.focus = target /\ t.out = s.out
    BY <2>3, <2>6 DEF Work, Record
  <2>10. t.out \in Seq(Mild(b, t.caps)) /\ Kept(r, t)
    BY <2>4, <2>8, <2>9 DEF Mum, Kept
  <2>11. PICK u : u = Send(t, "FOCUS", Everyone, target)
    OBVIOUS
  <2>12. Kept(t, u) /\ Loud(u)
    BY <2>1, <2>7, <2>9, <2>10, <2>11, AnnouncementLoud
  <2>13. ApplyFocus(r, target, edge) = u
    BY <1>2, <2>2, <2>5, <2>6, <2>11, Zenon DEF ApplyFocus
  <2>14. Kept(r, u)
    BY <2>10, <2>12 DEF Kept
  <2>15. QED
    BY <2>12, <2>13, <2>14
<1>3. QED
  BY <1>1, <1>2

\* A report of the devices: the speaker routes it or moves the focus, any
\* other board hands it on
LEMMA LocalInputTells ==
  ASSUME NEW b \in Boards, NEW y \in BOOLEAN, NEW r \in Work(b, y, TRUE),
         r.out \in Seq(Mild(b, r.caps)), NEW i \in Input
  PROVE  \/ Mum(r, LocalInput(r, i))
         \/ /\ r.active = b
            /\ Kept(r, LocalInput(r, i)) /\ Loud(LocalInput(r, i))
<1>1. r.self = b /\ r.focus \in Addr /\ i.down \in BOOLEAN /\ i.dx \in {-1, 0, 1}
  BY Typed DEF Input
<1>2. Mum(r, Forward(r, i))
  <2>1. CASE "HID_IN" \notin r.caps \/ r.active = NoAddr
    BY <2>1, MumSame, Zenon DEF Forward
  <2>2. CASE ~("HID_IN" \notin r.caps \/ r.active = NoAddr)
    <3>1. r.active \in To
      <4>1. r.active \in Addr
        BY Typed
      <4>2. QED
        BY <2>2, <4>1 DEF Addr, To
    <3>2. [type |-> "INPUT", src |-> b, dst |-> r.active, arg |-> i] \in From(b)
      BY <3>1, FrameForms
    <3>3. Mum(r, Send(r, "INPUT", r.active, i))
      BY <3>2, SendMum
    <3>4. QED
      BY <2>2, <3>3, Zenon DEF Forward
  <2>3. QED
    BY <2>1, <2>2
<1>3. CASE ~IsActive(r)
  <2>1. LocalInput(r, i) = Forward(r, i)
    BY <1>3, Zenon DEF LocalInput, LocalKbd, LocalMouse
  <2>2. QED
    BY <1>2, <2>1, Zenon
<1>4. ASSUME NEW s \in Work(b, y, TRUE), Mum(r, s), NEW c \in Class
      PROVE  Mum(r, Noted(SendTo(s, r.focus, c, i.down)))
  <2>1. PICK u : u = SendTo(s, r.focus, c, i.down)
    OBVIOUS
  <2>2. u \in Work(b, y, FALSE)
    BY <1>1, <2>1, SendToWorks
  <2>3. Mum(s, u)
    BY <1>1, <2>1, SendToMum
  <2>4. PICK a : a = AnyHeld(u)
    OBVIOUS
  <2>5. Mum(u, [u EXCEPT !.keys_held = a])
    BY <2>2, FieldsMum
  <2>6. Noted(u) = [u EXCEPT !.keys_held = a]
    BY <2>4, Zenon DEF Noted
  <2>7. Mum(r, u)
    BY <1>4, <2>3, MumTrans, Zenon
  <2>8. QED
    BY <2>1, <2>5, <2>6, <2>7, MumTrans, Zenon
<1>5. "key" \in Class /\ "btn" \in Class
  BY DEF Class
<1>6. CASE IsActive(r) /\ i.kind = "KBD"
  <2>1. LocalInput(r, i) = Noted(SendTo(r, r.focus, "key", i.down))
    BY <1>6, Zenon DEF LocalInput, LocalKbd
  <2>2. Mum(r, Noted(SendTo(r, r.focus, "key", i.down)))
    BY <1>4, <1>5, MumSame
  <2>3. QED
    BY <2>1, <2>2, Zenon
<1>7. CASE IsActive(r) /\ i.kind # "KBD"
  <2>1. r.pointer \in Pointers /\ r.bleed \in {0, 1}
    BY Typed
  <2>2. PICK q \in Pointers : q = Decay(r.pointer, r.bleed)
    BY <2>1, DecayIn
  <2>3. PICK p : p = AxisFeed(q, i.dx)
    OBVIOUS
  <2>4. PICK e \in {-1, 0, 1} : e = Crossing(p) /\ (e = 0 => p \in Pointers)
    BY <1>1, <2>3, AxisFeedIn
  <2>5. PICK a \in Pointers : a = IF e = 0 THEN p ELSE Arrive(e)
    BY <2>4, ArriveIn
  <2>6. PICK s : s = [r EXCEPT !.pointer = a]
    OBVIOUS
  <2>7. s \in Work(b, y, TRUE)
    BY <2>6, FieldsWork
  <2>8. Mum(r, s)
    BY <2>6, FieldsMum
  <2>9. PICK t \in Addr : t = IF e = 0 THEN NoAddr ELSE NeighbourOf(r, r.focus, e)
    <3>1. NoAddr \in Addr /\ NeighbourOf(r, r.focus, e) \in Addr
      BY TargetsIn DEF Addr
    <3>2. QED
      BY <3>1
  <2>10. s.out \in Seq(Mild(b, s.caps))
    BY <1>1, <2>8 DEF Mum
  <2>11. PICK u : u = ApplyFocus(s, t, e)
    OBVIOUS
  <2>12. Mum(s, u) \/ (Kept(s, u) /\ Loud(u))
    BY <2>7, <2>10, <2>11, ApplyFocusTells
  <2>13. Mum(r, u) \/ (Kept(r, u) /\ Loud(u))
    <3>1. CASE Mum(s, u)
      BY <2>8, <3>1, MumTrans, Zenon
    <3>2. CASE Kept(s, u) /\ Loud(u)
      BY <2>8, <3>2 DEF Kept, Mum
    <3>3. QED
      BY <2>12, <3>1, <3>2
  <2>14. Mum(r, Noted(SendTo(s, r.focus, "btn", i.down)))
    BY <1>4, <1>5, <2>7, <2>8
  <2>15. \/ LocalInput(r, i) = u
         \/ LocalInput(r, i) = Noted(SendTo(s, r.focus, "btn", i.down))
    BY <1>7, <2>2, <2>3, <2>4, <2>5, <2>6, <2>9, <2>11, Zenon DEF LocalInput, LocalMouse
  <2>16. QED
    <3>1. r.active = b
      BY <1>1, <1>7 DEF IsActive
    <3>2. QED
      BY <2>13, <2>14, <2>15, <3>1, Zenon
<1>8. QED
  BY <1>3, <1>6, <1>7

\* A takeover: the new speaker announces the focus it starts with, if there
\* is one
LEMMA PromoteTells ==
  ASSUME NEW b \in Boards, NEW y \in BOOLEAN, NEW k \in BOOLEAN,
         NEW r \in Work(b, y, k), NEW t \in Promote(r), r.out \in Seq(Mild(b, r.caps))
  PROVE  /\ Kept(r, t)
         /\ NoAddr \notin PickDefaultFocus(r) => Loud(t)
<1>1. PICK s : s = IF r.active_valid /\ ~r.vacancy_clean THEN BroadcastReleaseAll(r) ELSE r
  OBVIOUS
<1>2. s \in Work(b, y, k)
  BY <1>1, ReleaseAllWorks
<1>3. Mum(r, s)
  <2>1. Mum(r, BroadcastReleaseAll(r)) /\ Mum(r, r)
    BY ReleaseAllMum, MumSame
  <2>2. QED
    BY <1>1, <2>1
<1>4. r.self = b /\ r.self \in Addr
  <2>1. r.self = b
    BY Typed
  <2>2. QED
    BY <2>1 DEF Addr
<1>5. PICK u : u = [s EXCEPT !.active = r.self, !.active_valid = TRUE, !.resign_pending = FALSE]
  OBVIOUS
<1>6. u \in Work(b, y, k)
  BY <1>2, <1>4, <1>5, FieldsWork
<1>7. Kept(s, u) /\ u.out = s.out
  BY <1>2, <1>5 DEF Work, Record, Kept
<1>8. BecomeActive(r) = u
  BY <1>1, <1>5, Zenon DEF BecomeActive
<1>9. PICK v : v = SendHello(u)
  OBVIOUS
<1>10. v \in Work(b, y, k)
  BY <1>6, <1>9, SendHelloWorks
<1>11. Mum(u, v)
  BY <1>6, <1>9, SendHelloMum
<1>12. Kept(r, v) /\ v.out \in Seq(Mild(b, v.caps))
  BY <1>3, <1>4, <1>7, <1>11 DEF Kept, Mum
<1>13. PICK f \in (IF r.focus \in Known(r) THEN {r.focus} ELSE PickDefaultFocus(r)) :
        t = Announce(v, f)
  <2>1. PICK g \in (IF r.focus \in Known(r) THEN {r.focus} ELSE PickDefaultFocus(r)) :
          t = Announce(SendHello(BecomeActive(r)), g)
    BY Zenon DEF Promote
  <2>2. t = Announce(v, g)
    BY <1>8, <1>9, <2>1, Zenon
  <2>3. QED
    BY <2>2
<1>14. f \in Addr
  <2>1. r.focus \in Addr /\ PickDefaultFocus(r) \subseteq Addr
    BY Typed, TargetsIn
  <2>2. QED
    BY <1>13, <2>1
<1>15. CASE f = NoAddr
  <2>1. t = v
    BY <1>13, <1>15, Zenon DEF Announce
  <2>2. NoAddr \in PickDefaultFocus(r)
    <3>1. NoAddr \notin Known(r)
      BY RoutingAssumption DEF Known
    <3>2. QED
      BY <1>13, <1>15, <3>1
  <2>3. QED
    BY <1>12, <2>1, <2>2
<1>16. CASE f # NoAddr
  <2>1. f \in Boards
    BY <1>14, <1>16 DEF Addr
  <2>2. PICK w : w = [v EXCEPT !.focus = f]
    OBVIOUS
  <2>3. w \in Work(b, y, k)
    BY <1>10, <1>14, <2>2, FieldsWork
  <2>4. Kept(v, w) /\ w.out = v.out /\ w.focus = f /\ w.caps = v.caps
    BY <1>10, <2>2 DEF Work, Record, Kept
  <2>5. Kept(w, Send(w, "FOCUS", Everyone, f)) /\ Loud(Send(w, "FOCUS", Everyone, f))
    <3>1. w.out \in Seq(Mild(b, w.caps))
      BY <1>12, <2>4
    <3>2. QED
      BY <2>1, <2>3, <2>4, <3>1, AnnouncementLoud
  <2>6. t = Send(w, "FOCUS", Everyone, f)
    BY <1>13, <1>16, <2>2, Zenon DEF Announce
  <2>7. Kept(w, t) /\ Loud(t)
    BY <2>5, <2>6, Zenon
  <2>8. QED
    BY <1>12, <2>4, <2>7 DEF Kept
<1>17. QED
  BY <1>15, <1>16

\* r learns S of board src, and nothing else changes
Learnt(r, t, src, S) ==
  /\ t.self = r.self /\ t.up = r.up /\ t.caps = r.caps /\ t.active = r.active
  /\ t.focus = r.focus /\ t.out = r.out
  /\ \A d \in Boards : t.chain[d] = IF d = src THEN S ELSE r.chain[d]

LEMMA ChainLearns ==
  ASSUME NEW b \in Boards, NEW y \in BOOLEAN, NEW k \in BOOLEAN,
         NEW r \in Work(b, y, k), NEW src \in Boards, NEW S \in SUBSET (Caps \cup {"used"})
  PROVE  Learnt(r, [r EXCEPT !.chain[src] = S], src, S)
<1>1. r \in Record(b, y) /\ r.chain \in [Boards -> SUBSET (Caps \cup {"used"})]
  BY DEF Work, Record
<1>2. PICK c : c = [r.chain EXCEPT ![src] = S]
  OBVIOUS
<1>3. \A d \in Boards : c[d] = IF d = src THEN S ELSE r.chain[d]
  BY <1>1, <1>2
<1>4. PICK t : t = [r EXCEPT !.chain = c]
  OBVIOUS
<1>5. /\ t.self = r.self /\ t.up = r.up /\ t.caps = r.caps /\ t.active = r.active
      /\ t.focus = r.focus /\ t.out = r.out /\ t.chain = c
  BY <1>1, <1>4 DEF Record
<1>6. [r EXCEPT !.chain[src] = S] = t
  BY <1>2, <1>4, Zenon
<1>7. Learnt(r, t, src, S)
  BY <1>3, <1>5 DEF Learnt
<1>8. QED
  BY <1>6, <1>7

\* What board b with record r has learnt of src from frame f
Lesson(r, f) ==
  IF f.type = "HELLO" THEN f.arg.caps \cup {"used"} ELSE r.chain[f.src] \cup {"used"}

\* dhp_router_rx: the chain table, the role and the focus
Answer(r, f, t) ==
  /\ t.self = r.self /\ t.up = r.up /\ t.caps = r.caps
  /\ \A d \in Boards : t.chain[d] = IF d = f.src THEN Lesson(r, f) ELSE r.chain[d]
  /\ t.active = r.self => r.active = r.self
  /\ \/ /\ t.focus = r.focus /\ t.out \in Seq(Mild(r.self, r.caps))
        /\ f.type = "FOCUS" => r.active = r.self
     \/ r.active = r.self /\ Loud(t) /\ f.type # "FOCUS"
     \/ /\ f.type = "FOCUS" /\ r.active # r.self
        /\ t.focus = f.arg /\ t.out \in Seq(Mild(r.self, r.caps))

LEMMA RxTells ==
  ASSUME NEW b \in Boards, NEW y \in BOOLEAN, NEW r \in Work(b, y, TRUE),
         r.out \in Seq(Mild(b, r.caps)),
         NEW src \in Boards, src # b, NEW f \in From(src)
  PROVE  Answer(r, f, Rx(r, f))
<1>1. f.src = src
  BY DEF From
<1>2. r.self = b /\ r.chain \in [Boards -> SUBSET (Caps \cup {"used"})]
  BY Typed
<1>3. PICK S : S = r.chain[src] \cup {"used"}
  OBVIOUS
<1>4. S \in SUBSET (Caps \cup {"used"})
  BY <1>2, <1>3
<1>5. PICK s : s = [r EXCEPT !.chain[src] = S]
  OBVIOUS
<1>6. [r EXCEPT !.chain[f.src] = @ \cup {"used"}] = s
  BY <1>1, <1>3, <1>5, Zenon
<1>7. s \in Work(b, y, TRUE)
  BY <1>4, <1>5, ChainWorks
<1>8. Learnt(r, s, src, S)
  BY <1>4, <1>5, ChainLearns
<1>9. s.out \in Seq(Mild(b, s.caps)) /\ s.self = b
  BY <1>2, <1>8 DEF Learnt
<1>10. "key" \in Class /\ "btn" \in Class
  BY DEF Class
\* a quiet handler after the chain table
<1>11. ASSUME NEW t, Mum(s, t), f.type # "HELLO", f.type # "FOCUS"
       PROVE  Answer(r, f, t)
  <2>1. Lesson(r, f) = S
    BY <1>1, <1>3, <1>11 DEF Lesson
  <2>2. QED
    BY <1>1, <1>2, <1>8, <1>9, <1>11, <2>1 DEF Answer, Learnt, Mum
<1>12. CASE f.type = "HELLO"
  <2>1. f.arg \in Hello
    BY <1>12 DEF From
  <2>2. PICK h : h = f.arg
    OBVIOUS
  <2>3. PICK Z : Z = h.caps \cup {"used"}
    OBVIOUS
  <2>4. Z \in SUBSET (Caps \cup {"used"}) /\ h.active \in BOOLEAN
    BY <2>1, <2>2, <2>3 DEF Hello
  <2>5. PICK u : u = [s EXCEPT !.chain[src] = Z]
    OBVIOUS
  <2>6. u \in Work(b, y, TRUE)
    BY <1>7, <2>4, <2>5, ChainWorks
  <2>7. Learnt(s, u, src, Z)
    BY <1>7, <2>4, <2>5, ChainLearns
  <2>8. Lesson(r, f) = Z
    BY <1>12, <2>2, <2>3 DEF Lesson
  <2>9. Learnt(r, u, src, Lesson(r, f))
    BY <1>8, <2>7, <2>8 DEF Learnt
  <2>10. ASSUME NEW t, Mum(u, t)
         PROVE  Answer(r, f, t)
    BY <1>1, <1>2, <1>9, <1>12, <2>7, <2>9, <2>10 DEF Answer, Learnt, Mum
  <2>11. PICK p \in BOOLEAN :
           p = (u.resign_pending \/ (/\ src \in Coordinators \/ h.active
                                     /\ Outranks(src, h.caps, s.self, s.caps)))
    OBVIOUS
  <2>12. PICK v : v = [u EXCEPT !.resign_pending = p]
    OBVIOUS
  <2>13. v \in Work(b, y, TRUE)
    BY <2>6, <2>12, FieldsWork
  <2>14. Mum(u, v)
    BY <2>6, <2>12, FieldsMum
  <2>15. Mum(v, ServiceResign(v, FALSE))
    BY <2>13, ServiceResignMum
  <2>16. Mum(u, ServiceResign(v, FALSE))
    BY <2>14, <2>15, MumTrans, Zenon
  <2>17. PICK z : z = (u.vacancy_clean \/ s.active # src)
    OBVIOUS
  <2>18. Mum(u, [u EXCEPT !.active = src, !.active_valid = TRUE, !.vacancy_clean = z])
    BY <2>6, FieldsMum
  <2>19. \/ RxHello(s, src, h) = ServiceResign(v, FALSE)
         \/ RxHello(s, src, h) = [u EXCEPT !.active = src, !.active_valid = TRUE,
                                           !.vacancy_clean = z]
         \/ RxHello(s, src, h) = u
    BY <2>3, <2>5, <2>11, <2>12, <2>17, Zenon DEF RxHello
  <2>20. Rx(r, f) = RxHello(s, src, h)
    BY <1>1, <1>6, <1>12, <2>2 DEF Rx
  <2>21. Mum(u, RxHello(s, src, h))
    BY <2>16, <2>18, <2>19, MumSame, Zenon
  <2>22. QED
    BY <2>10, <2>20, <2>21, Zenon
<1>13. CASE f.type = "RESIGN"
  <2>1. Mum(s, ServiceResign(s, FALSE))
    BY <1>7, ServiceResignMum
  <2>2. Mum(s, [s EXCEPT !.active = NoAddr, !.vacancy_clean = TRUE])
    BY <1>7, FieldsMum
  <2>3. Rx(r, f) = RxResign(s, src)
    BY <1>1, <1>6, <1>13 DEF Rx
  <2>4. Mum(s, RxResign(s, src))
    BY <2>1, <2>2, MumSame, Zenon DEF RxResign
  <2>5. QED
    BY <1>11, <1>13, <2>3, <2>4
<1>14. CASE f.type = "KBD"
  <2>1. Mum(s, Deliver(s, "key", f.arg))
    BY <1>7, DeliverMum
  <2>2. Rx(r, f) = Deliver(s, "key", f.arg)
    BY <1>6, <1>14 DEF Rx
  <2>3. QED
    BY <1>11, <1>14, <2>1, <2>2
<1>15. CASE f.type = "MOUSE"
  <2>1. Mum(s, Deliver(s, "btn", f.arg))
    BY <1>7, DeliverMum
  <2>2. Rx(r, f) = Deliver(s, "btn", f.arg)
    BY <1>6, <1>15 DEF Rx
  <2>3. QED
    BY <1>11, <1>15, <2>1, <2>2
<1>16. CASE f.type = "FOCUS"
  <2>1. PICK x \in Boards : x = f.arg
    BY <1>16 DEF From
  <2>2. Rx(r, f) = RxFocus(s, x)
    BY <1>6, <1>16, <2>1 DEF Rx
  <2>3. Lesson(r, f) = S
    BY <1>1, <1>3, <1>16 DEF Lesson
  <2>4. CASE r.active = b
    <3>1. IsActive(s)
      BY <1>2, <1>8, <2>4 DEF IsActive, Learnt
    <3>2. Rx(r, f) = s
      BY <2>2, <3>1, Zenon DEF RxFocus
    <3>3. Answer(r, f, s)
      BY <1>1, <1>2, <1>8, <1>9, <2>3, <2>4 DEF Answer, Learnt
    <3>4. QED
      BY <3>2, <3>3, Zenon
  <2>5. CASE r.active # b
    <3>1. ~IsActive(s)
      BY <1>2, <1>8, <2>5 DEF IsActive, Learnt
    <3>2. x \in Addr /\ s.self \in Addr
      BY <1>9 DEF Addr
    <3>3. PICK u : u = [s EXCEPT !.focus = x]
      OBVIOUS
    <3>4. u \in Work(b, y, TRUE)
      BY <1>7, <3>2, <3>3, FieldsWork
    <3>5. /\ u.self = s.self /\ u.up = s.up /\ u.caps = s.caps /\ u.chain = s.chain
          /\ u.active = s.active /\ u.out = s.out /\ u.focus = x
      BY <1>7, <3>3 DEF Work, Record
    <3>6. Mum(u, ReleaseMachine(u, s.self))
      BY <3>2, <3>4, ReleaseMachineMum
    <3>7. RxFocus(s, x) = ReleaseMachine(u, s.self) \/ RxFocus(s, x) = u
      BY <3>1, <3>3, Zenon DEF RxFocus
    <3>8. Mum(u, Rx(r, f))
      BY <2>2, <3>6, <3>7, MumSame, Zenon
    <3>9. PICK t : t = Rx(r, f)
      OBVIOUS
    <3>10. Answer(r, f, t)
      BY <1>1, <1>2, <1>8, <1>9, <1>16, <2>1, <2>3, <2>5, <3>5, <3>8, <3>9
         DEF Answer, Learnt, Mum
    <3>11. QED
      BY <3>9, <3>10, Zenon
  <2>6. QED
    BY <2>4, <2>5
<1>17. CASE f.type = "INPUT"
  <2>1. PICK i \in Input : i = f.arg
    BY <1>17 DEF From
  <2>2. PICK t : t = LocalInput(s, i)
    OBVIOUS
  <2>3. Mum(s, t) \/ (s.active = b /\ Kept(s, t) /\ Loud(t))
    BY <1>7, <1>9, <2>2, LocalInputTells
  <2>4. Rx(r, f) = s \/ Rx(r, f) = t
    <3>1. Rx(r, f) = RxInput(s, src, i)
      BY <1>1, <1>6, <1>17, <2>1 DEF Rx
    <3>2. QED
      BY <2>2, <3>1, Zenon DEF RxInput
  <2>5. Lesson(r, f) = S
    BY <1>1, <1>3, <1>17 DEF Lesson
  <2>6. ASSUME s.active = b, Kept(s, t), Loud(t)
        PROVE  Answer(r, f, t)
    BY <1>1, <1>2, <1>8, <1>9, <1>17, <2>5, <2>6 DEF Answer, Learnt, Kept
  <2>7. Answer(r, f, s)
    BY <1>11, <1>17, MumSame
  <2>8. Answer(r, f, t)
    BY <1>11, <1>17, <2>3, <2>6
  <2>9. QED
    BY <2>4, <2>7, <2>8, Zenon
<1>18. CASE f.type = "RELEASE"
  <2>1. PICK h : h = [s.hid EXCEPT ![b] = {}]
    OBVIOUS
  <2>2. s.hid \in [Boards -> SUBSET Class]
    BY <1>7, Typed
  <2>3. h \in [Boards -> SUBSET Class] /\ \A m \in Boards : h[m] \subseteq s.hid[m]
    BY <2>1, <2>2
  <2>4. PICK t : t = [s EXCEPT !.hid = h]
    OBVIOUS
  <2>5. t \in Work(b, y, TRUE)
    BY <1>7, <2>3, <2>4, HidWorks
  <2>6. Mum(s, t)
    BY <1>7, <2>4, FieldsMum
  <2>7. Mum(t, LetGo(t))
    BY <2>5, LetGoMum
  <2>8. [s EXCEPT !.hid[r.self] = {}] = t
    BY <1>2, <2>1, <2>4, Zenon
  <2>9. Rx(r, f) = LetGo([s EXCEPT !.hid[r.self] = {}])
    BY <1>6, <1>18 DEF Rx
  <2>10. Mum(s, LetGo(t))
    BY <2>6, <2>7, MumTrans, Zenon
  <2>11. QED
    BY <1>11, <1>18, <2>8, <2>9, <2>10
<1>19. QED
  BY <1>12, <1>13, <1>14, <1>15, <1>16, <1>17, <1>18 DEF From

-----------------------------------------------------------------------------
(* Announcements on their way.  Frames of board d pass port p of board c    *)
(* on their way from d; while s is the speaker with focus x, whatever else  *)
(* c has heard or is about to hear of a focus, an announcement of x follows *)
(* it.                                                                     *)

\* What reaches the queue of board d at port p when b transmits
LEMMA TransmitAt ==
  ASSUME NEW w, Queues(w), NEW b \in Boards, NEW ps \in SUBSET Port, NEW ms \in Seq(Any),
         NEW d \in Boards, NEW p \in Port
  PROVE  Transmit(b, ps, ms, w)[d][p] =
           IF Opposite(p) \in ps /\ d = Hop(b, Opposite(p)) /\ d \in Up
           THEN w[d][p] \o ms ELSE w[d][p]
<1>1. w \in [Boards -> [Port -> Seq(Any)]] /\ w[d][p] \in Seq(Any)
  BY DEF Queues
<1>2. CASE ms = <<>>
  <2>1. Transmit(b, ps, ms, w) = w
    BY <1>2, Zenon DEF Transmit
  <2>2. w[d][p] \o ms = w[d][p]
    BY <1>1, <1>2, ConcatEmptySeq
  <2>3. QED
    BY <2>1, <2>2, Zenon
<1>3. CASE ms # <<>>
  <2>1. Up \subseteq Boards
    BY DEF Up
  <2>2. ASSUME NEW v \in [Boards -> [Port -> Seq(Any)]], NEW o \in Port
        PROVE  /\ Into(b, ps, o, ms, v) \in [Boards -> [Port -> Seq(Any)]]
               /\ Into(b, ps, o, ms, v)[d][p] =
                    IF o \in ps /\ Hop(b, o) \in Up /\ d = Hop(b, o) /\ p = Opposite(o)
                    THEN v[d][p] \o ms ELSE v[d][p]
    <3>1. CASE ~(o \in ps /\ Hop(b, o) \in Up)
      <4>1. Into(b, ps, o, ms, v) = v
        BY <3>1, Zenon DEF Into
      <4>2. QED
        BY <3>1, <4>1
    <3>2. CASE o \in ps /\ Hop(b, o) \in Up
      <4>1. PICK e \in Boards : e = Hop(b, o)
        BY <2>1, <3>2
      <4>2. PICK z \in Port : z = Opposite(o)
        BY DEF Opposite, Port
      <4>3. PICK u : u = v[e][z] \o ms
        OBVIOUS
      <4>4. u \in Seq(Any)
        BY <4>3, ConcatProperties
      <4>5. PICK n : n = [v EXCEPT ![e][z] = u]
        OBVIOUS
      <4>6. Into(b, ps, o, ms, v) = n
        BY <3>2, <4>1, <4>2, <4>3, <4>5, Zenon DEF Into
      <4>7. n \in [Boards -> [Port -> Seq(Any)]]
        BY <4>4, <4>5
      <4>8. n[d][p] = IF d = e /\ p = z THEN u ELSE v[d][p]
        BY <4>5
      <4>9. QED
        BY <3>2, <4>1, <4>2, <4>3, <4>6, <4>7, <4>8, Zenon
    <3>3. QED
      BY <3>1, <3>2
  <2>3. PICK v : v = Into(b, ps, "DOWN", ms, w)
    OBVIOUS
  <2>4. "UP" \in Port /\ "DOWN" \in Port
    BY DEF Port
  <2>5. /\ v \in [Boards -> [Port -> Seq(Any)]]
        /\ v[d][p] = IF "DOWN" \in ps /\ Hop(b, "DOWN") \in Up /\ d = Hop(b, "DOWN")
                          /\ p = Opposite("DOWN")
                     THEN w[d][p] \o ms ELSE w[d][p]
    BY <1>1, <2>2, <2>3, <2>4
  <2>6. Into(b, ps, "UP", ms, v)[d][p] =
          IF "UP" \in ps /\ Hop(b, "UP") \in Up /\ d = Hop(b, "UP") /\ p = Opposite("UP")
          THEN v[d][p] \o ms ELSE v[d][p]
    BY <2>2, <2>4, <2>5
  <2>7. Transmit(b, ps, ms, w) =
          IF ms = <<>> THEN w ELSE Into(b, ps, "UP", ms, Into(b, ps, "DOWN", ms, w))
    BY Zenon DEF Transmit, Into, Hop
  <2>8. Transmit(b, ps, ms, w) = Into(b, ps, "UP", ms, v)
    BY <1>3, <2>3, <2>7, Zenon
  <2>9. Opposite("DOWN") = "UP" /\ Opposite("UP") = "DOWN" /\ "UP" # "DOWN"
    BY DEF Opposite
  <2>10. p = "UP" \/ p = "DOWN"
    BY DEF Port
  <2>11. QED
    BY <2>5, <2>6, <2>8, <2>9, <2>10, Zenon
<1>4. QED
  BY <1>2, <1>3

\* w2 is w with frames of M added
Grown(w, w2, M) ==
  \A d \in Boards, p \in Port :
    /\ Len(w[d][p]) <= Len(w2[d][p])
    /\ \A i \in 1..Len(w[d][p]) : w2[d][p][i] = w[d][p][i]
    /\ \A i \in 1..Len(w2[d][p]) : i > Len(w[d][p]) => w2[d][p][i] \in M

\* A transmission adds frames
LEMMA TransmitGrows ==
  ASSUME NEW w, Queues(w), NEW b \in Boards, NEW ps \in SUBSET Port,
         NEW M, M \subseteq Any, NEW ms \in Seq(M)
  PROVE  Grown(w, Transmit(b, ps, ms, w), M)
<1>1. PICK v : v = Transmit(b, ps, ms, w)
  OBVIOUS
<1>2. ms \in Seq(Any)
  BY SeqMonotonic
<1>3. ASSUME NEW d \in Boards, NEW p \in Port
      PROVE  /\ Len(w[d][p]) <= Len(v[d][p])
             /\ \A i \in 1..Len(w[d][p]) : v[d][p][i] = w[d][p][i]
             /\ \A i \in 1..Len(v[d][p]) : i > Len(w[d][p]) => v[d][p][i] \in M
  <2>1. w[d][p] \in Seq(Any)
    BY DEF Queues
  <2>2. PICK o : o = w[d][p]
    OBVIOUS
  <2>3. v[d][p] = o \o ms \/ v[d][p] = o
    <3>1. Transmit(b, ps, ms, w)[d][p] =
            IF Opposite(p) \in ps /\ d = Hop(b, Opposite(p)) /\ d \in Up
            THEN w[d][p] \o ms ELSE w[d][p]
      BY <1>2, TransmitAt
    <3>2. QED
      BY <1>1, <2>2, <3>1, Zenon
  <2>4. CASE v[d][p] = o
    BY <2>1, <2>2, <2>4
  <2>5. CASE v[d][p] = o \o ms
    <3>1. PICK u : u = o \o ms
      OBVIOUS
    <3>2. o \in Seq(Any)
      BY <2>1, <2>2
    <3>a. /\ Len(u) = Len(o) + Len(ms)
          /\ \A i \in 1..(Len(o) + Len(ms)) :
               u[i] = IF i <= Len(o) THEN o[i] ELSE ms[i - Len(o)]
      BY <1>2, <3>2, <3>1
    <3>3. \A i \in 1..Len(ms) : ms[i] \in M
      BY ElementOfSeq
    <3>4. Len(o) \in Nat /\ Len(ms) \in Nat
      BY <1>2, <2>1, <2>2, LenProperties
    <3>5. /\ Len(o) <= Len(u)
          /\ \A i \in 1..Len(o) : u[i] = o[i]
          /\ \A i \in 1..Len(u) : i > Len(o) => u[i] \in M
      BY <3>a, <3>3, <3>4
    <3>6. QED
      BY <2>2, <2>5, <3>1, <3>5
  <2>6. QED
    BY <2>3, <2>4, <2>5
<1>4. Grown(w, v, M)
  BY <1>3, Zenon DEF Grown
<1>5. QED
  BY <1>1, <1>4, Zenon

\* Frames of d come to c through its port p
Upstream(d, c, p) == IF p = "UP" THEN d < c ELSE c < d

Tells(f, x) == f.type = "FOCUS" /\ f.arg = x

\* The focus x is announced behind frame i of that queue; frame 0 is what the
\* board itself has heard
Fresh(w, x, c, p, i) ==
  \E d \in Boards : \E j \in 1..Len(w[d][p]) :
    Tells(w[d][p][j], x) /\ (Upstream(d, c, p) \/ (d = c /\ j > i))

\* What is announced stays announced when frames are added
LEMMA FreshGrows ==
  ASSUME NEW w, Queues(w), NEW w2, Queues(w2), NEW M, Grown(w, w2, M),
         NEW x, NEW c \in Boards, NEW p \in Port, NEW i \in Nat, Fresh(w, x, c, p, i)
  PROVE  Fresh(w2, x, c, p, i)
<1>1. PICK d \in Boards : \E j \in 1..Len(w[d][p]) :
        Tells(w[d][p][j], x) /\ (Upstream(d, c, p) \/ (d = c /\ j > i))
  BY Zenon DEF Fresh
<1>2. PICK j \in 1..Len(w[d][p]) :
        Tells(w[d][p][j], x) /\ (Upstream(d, c, p) \/ (d = c /\ j > i))
  BY <1>1, Zenon
<1>3. /\ Len(w[d][p]) <= Len(w2[d][p])
      /\ w2[d][p][j] = w[d][p][j]
  BY <1>2, Zenon DEF Grown
<1>4. Len(w[d][p]) \in Nat /\ Len(w2[d][p]) \in Nat
  <2>1. w[d][p] \in Seq(Any) /\ w2[d][p] \in Seq(Any)
    BY DEF Queues
  <2>2. QED
    BY <2>1, LenProperties
<1>5. j \in 1..Len(w2[d][p])
  BY <1>2, <1>3, <1>4
<1>6. Tells(w2[d][p][j], x)
  BY <1>2, <1>3, Zenon
<1>7. QED
  BY <1>2, <1>5, <1>6, Zenon DEF Fresh

\* The running boards
Running(rs) == {b \in Boards : rs[b].up}

\* The neighbour of a towards a running board is running
LEMMA TowardsRunning ==
  ASSUME NEW rs, Unbroken(Running(rs)), NEW a \in Running(rs), NEW c \in Running(rs),
         NEW p \in Port, Upstream(a, c, p)
  PROVE  /\ Hop(a, Opposite(p)) \in Running(rs)
         /\ Upstream(a, Hop(a, Opposite(p)), p)
         /\ Hop(a, Opposite(p)) = c \/ Upstream(Hop(a, Opposite(p)), c, p)
<1>1. a \in Int /\ c \in Int /\ a \in Boards /\ c \in Boards
  BY RoutingAssumption DEF Running, Boards
<1>2. a..c \subseteq Running(rs) /\ c..a \subseteq Running(rs)
  BY DEF Unbroken
<1>3. CASE p = "UP"
  <2>1. Hop(a, Opposite(p)) = a + 1
    BY <1>3 DEF Hop, Opposite
  <2>2. a < c
    BY <1>3 DEF Upstream
  <2>3. a + 1 \in a..c
    BY <1>1, <2>2
  <2>4. a + 1 = c \/ a + 1 < c
    BY <1>1, <2>2
  <2>5. a < a + 1
    BY <1>1
  <2>6. QED
    BY <1>2, <1>3, <2>1, <2>3, <2>4, <2>5 DEF Upstream
<1>4. CASE p = "DOWN"
  <2>1. Hop(a, Opposite(p)) = a - 1
    BY <1>4 DEF Hop, Opposite
  <2>2. c < a
    BY <1>4 DEF Upstream
  <2>3. a - 1 \in c..a
    BY <1>1, <2>2
  <2>4. a - 1 = c \/ c < a - 1
    BY <1>1, <2>2
  <2>5. a - 1 < a
    BY <1>1
  <2>6. QED
    BY <1>2, <1>4, <2>1, <2>3, <2>4, <2>5 DEF Upstream
<1>5. QED
  BY <1>3, <1>4 DEF Port

\* What c has heard, and what it is about to hear, is brought up to date
Current(rs, w, s) ==
  \A c \in Running(rs), p \in Port : Upstream(s, c, p) =>
    /\ rs[c].focus \in {NoAddr, rs[s].focus} \/ Fresh(w, rs[s].focus, c, p, 0)
    /\ \A i \in 1..Len(w[c][p]) :
         w[c][p][i].type = "FOCUS" /\ w[c][p][i].arg # rs[s].focus
           => Fresh(w, rs[s].focus, c, p, i)

\* An announcement brings everybody up to date, whatever came before it
LEMMA LoudCurrent ==
  ASSUME NEW rs, Unbroken(Running(rs)), Running(rs) = Up, NEW s \in Running(rs), NEW x,
         rs[s].focus = x, NEW C \in SUBSET Caps,
         NEW ms \in LoudFrames(s, C, x), NEW w, Queues(w), x \in Boards
  PROVE  Current(rs, Transmit(s, Port, ms, w), s)
<1>1. PICK v : v = Transmit(s, Port, ms, w)
  OBVIOUS
<1>2. PICK m : m = [type |-> "FOCUS", src |-> s, dst |-> Everyone, arg |-> x]
  OBVIOUS
<1>3. PICK o \in Seq(Mild(s, C)) : ms = Append(o, m)
  BY <1>2, Zenon DEF LoudFrames
<1>4. s \in Boards
  BY DEF Running
<1>5. m \in From(s) /\ Tells(m, x)
  BY <1>2, <1>4, FrameForms DEF To, Tells
<1>6. From(s) \subseteq Any /\ Mild(s, C) \subseteq From(s)
  BY <1>4 DEF Any, Mild
<1>7. /\ ms \in Seq(Any) /\ Len(ms) = Len(o) + 1 /\ Len(o) \in Nat /\ ms[Len(o) + 1] = m
  <2>1. o \in Seq(Any) /\ m \in Any
    BY <1>5, <1>6, SeqMonotonic
  <2>2. QED
    BY <1>3, <2>1, AppendProperties, LenProperties
<1>8. ASSUME NEW c \in Running(rs), NEW p \in Port, Upstream(s, c, p)
      PROVE  /\ Fresh(v, x, c, p, 0)
             /\ \A i \in 1..Len(v[c][p]) : v[c][p][i].type = "FOCUS" /\ v[c][p][i].arg # x
                  => Fresh(v, x, c, p, i)
  <2>1. PICK n : n = Hop(s, Opposite(p))
    OBVIOUS
  <2>2. n \in Running(rs) /\ (n = c \/ Upstream(n, c, p))
    BY <1>8, <2>1, TowardsRunning
  <2>3. n \in Boards /\ n \in Up /\ Opposite(p) \in Port
    BY <2>2 DEF Running, Opposite, Port
  <2>4. v[n][p] = w[n][p] \o ms
    <3>1. v[n][p] = IF Opposite(p) \in Port /\ n = Hop(s, Opposite(p)) /\ n \in Up
                    THEN w[n][p] \o ms ELSE w[n][p]
      <4>1. Transmit(s, Port, ms, w)[n][p] =
              IF Opposite(p) \in Port /\ n = Hop(s, Opposite(p)) /\ n \in Up
              THEN w[n][p] \o ms ELSE w[n][p]
        BY <1>4, <1>7, <2>3, TransmitAt
      <4>2. QED
        BY <1>1, <4>1, Zenon
    <3>2. QED
      BY <2>1, <2>3, <3>1, Zenon
  <2>5. PICK q, L : q = w[n][p] /\ L = Len(q) + Len(ms)
    OBVIOUS
  <2>6. q \in Seq(Any)
    BY <2>3, <2>5 DEF Queues
  <2>7. Len(q) \in Nat
    BY <2>6, LenProperties
  <2>8. L \in Nat /\ L >= 1 /\ L - Len(q) = Len(o) + 1 /\ L > Len(q)
    <3>1. PICK lq \in Nat, lo \in Nat : lq = Len(q) /\ lo = Len(o)
      BY <1>7, <2>7
    <3>2. L = lq + (lo + 1)
      BY <1>7, <2>5, <3>1, Zenon
    <3>3. L \in Nat /\ L >= 1 /\ L - lq = lo + 1 /\ L > lq
      BY <3>2
    <3>4. QED
      BY <3>1, <3>3
  <2>9. Len(q \o ms) = L /\ (q \o ms)[L] = ms[L - Len(q)]
    <3>1. /\ Len(q \o ms) = Len(q) + Len(ms)
          /\ \A i \in 1..(Len(q) + Len(ms)) :
               (q \o ms)[i] = IF i <= Len(q) THEN q[i] ELSE ms[i - Len(q)]
      BY <1>7, <2>6, ConcatProperties
    <3>2. L \in 1..L /\ ~(L <= Len(q))
      BY <2>7, <2>8
    <3>3. QED
      BY <2>5, <3>1, <3>2, Zenon
  <2>10. Len(v[n][p]) = L /\ v[n][p][L] = m
    BY <1>7, <2>4, <2>5, <2>8, <2>9
  <2>11. Tells(v[n][p][L], x) /\ L \in 1..Len(v[n][p])
    BY <1>5, <2>8, <2>10
  <2>12. ASSUME NEW i \in Nat, n = c => i < L
         PROVE  Fresh(v, x, c, p, i)
    <3>1. CASE n = c
      <4>1. L > i
        BY <2>8, <2>12, <3>1
      <4>2. QED
        BY <2>3, <2>11, <3>1, <4>1, Zenon DEF Fresh
    <3>2. CASE Upstream(n, c, p)
      BY <2>3, <2>11, <3>2, Zenon DEF Fresh
    <3>3. QED
      BY <2>2, <3>1, <3>2
  <2>13. Fresh(v, x, c, p, 0)
    BY <2>8, <2>12
  <2>14. ASSUME NEW i \in 1..Len(v[c][p]), v[c][p][i].arg # x
         PROVE  Fresh(v, x, c, p, i)
    <3>1. n = c => i < L
      <4>1. ASSUME n = c
            PROVE  i < L
        <5>1. i # L
          BY <2>10, <2>14, <4>1, <1>2
        <5>2. i \in 1..L
          BY <2>10, <2>14, <4>1
        <5>3. QED
          BY <2>8, <5>1, <5>2
      <4>2. QED
        BY <4>1
    <3>2. i \in Nat
      BY <2>14
    <3>3. QED
      BY <2>12, <3>1, <3>2
  <2>15. QED
    BY <2>13, <2>14
<1>9. Current(rs, v, s)
  BY <1>8, Zenon DEF Current
<1>10. QED
  BY <1>1, <1>9, Zenon

\* Other frames change nothing
LEMMA MildCurrent ==
  ASSUME NEW rs, NEW w, Queues(w), NEW w2, Queues(w2), NEW M, Grown(w, w2, M),
         \A f \in M : f.type # "FOCUS",
         NEW s \in Running(rs), Current(rs, w, s)
  PROVE  Current(rs, w2, s)
<1>1. PICK x : x = rs[s].focus
  OBVIOUS
<1>2. ASSUME NEW c \in Running(rs), NEW p \in Port, Upstream(s, c, p)
      PROVE  /\ rs[c].focus \in {NoAddr, x} \/ Fresh(w2, x, c, p, 0)
             /\ \A i \in 1..Len(w2[c][p]) : w2[c][p][i].type = "FOCUS" /\ w2[c][p][i].arg # x
                  => Fresh(w2, x, c, p, i)
  <2>1. /\ rs[c].focus \in {NoAddr, x} \/ Fresh(w, x, c, p, 0)
        /\ \A i \in 1..Len(w[c][p]) : w[c][p][i].type = "FOCUS" /\ w[c][p][i].arg # x
                  => Fresh(w, x, c, p, i)
    BY <1>1, <1>2, Zenon DEF Current
  <2>2. c \in Boards
    BY DEF Running
  <2>3. \A i \in Nat : Fresh(w, x, c, p, i) => Fresh(w2, x, c, p, i)
    BY <2>2, FreshGrows
  <2>4. ASSUME NEW i \in 1..Len(w2[c][p]), w2[c][p][i].type = "FOCUS", w2[c][p][i].arg # x
        PROVE  Fresh(w2, x, c, p, i)
    <3>1. w[c][p] \in Seq(Any)
      BY <2>2 DEF Queues
    <3>2. Len(w[c][p]) \in Nat
      BY <3>1, LenProperties
    <3>3. ~(i > Len(w[c][p]))
      <4>1. i > Len(w[c][p]) => w2[c][p][i] \in M
        BY <2>2, Zenon DEF Grown
      <4>2. QED
        BY <2>4, <4>1
    <3>4. i \in 1..Len(w[c][p])
      BY <3>2, <3>3
    <3>5. w2[c][p][i] = w[c][p][i]
      BY <2>2, <3>4, Zenon DEF Grown
    <3>6. Fresh(w, x, c, p, i)
      BY <2>1, <2>4, <3>4, <3>5, Zenon
    <3>7. i \in Nat
      BY <2>4
    <3>8. QED
      BY <2>3, <3>6, <3>7
  <2>5. 0 \in Nat
    OBVIOUS
  <2>6. QED
    BY <2>1, <2>3, <2>4, <2>5, Zenon
<1>3. QED
  BY <1>1, <1>2, Zenon DEF Current

\* Board a takes frame f from its port p and relays it, or not
Moved(w, v, a, p, f) ==
  /\ w[a][p] # <<>> /\ f = w[a][p][1]
  /\ Len(v[a][p]) + 1 = Len(w[a][p])
  /\ \A i \in 1..Len(v[a][p]) : v[a][p][i] = w[a][p][i + 1]
  /\ \A d \in Boards, o \in Port : ~(d = a /\ o = p) =>
       /\ Len(w[d][o]) <= Len(v[d][o])
       /\ \A i \in 1..Len(w[d][o]) : v[d][o][i] = w[d][o][i]
       /\ \A i \in 1..Len(v[d][o]) : i > Len(w[d][o]) =>
            v[d][o][i] = f /\ o = p /\ Upstream(a, d, p) /\ i = Len(w[d][o]) + 1
  /\ f.dst # a /\ Hop(a, Opposite(p)) \in Up =>
       /\ Len(v[Hop(a, Opposite(p))][p]) = Len(w[Hop(a, Opposite(p))][p]) + 1
       /\ v[Hop(a, Opposite(p))][p][Len(w[Hop(a, Opposite(p))][p]) + 1] = f

\* The first half of Receive
LEMMA ReceiveMoves ==
  ASSUME NEW w, Queues(w), NEW a \in Boards, NEW p \in Port, w[a][p] # <<>>,
         NEW f, f = Head(w[a][p]), NEW q, q = [w EXCEPT ![a][p] = Tail(@)],
         NEW v, v = IF f.dst = a THEN q ELSE Transmit(a, {Opposite(p)}, <<f>>, q)
  PROVE  Moved(w, v, a, p, f) /\ Queues(v)
<1>1. w \in [Boards -> [Port -> Seq(Any)]] /\ w[a][p] \in Seq(Any)
  BY DEF Queues
<1>2. Queues(q) /\ f \in Inbound(a, p)
  BY TakeWorks
<1>3. Queues(v)
  BY <1>2, RelayedFrame
<1>4. f \in Any
  BY <1>2 DEF Inbound
<1>5. PICK u : u = Tail(w[a][p])
  OBVIOUS
<1>6. PICK z : z = w[a][p]
  OBVIOUS
<1>7. /\ z \in Seq(Any) /\ z # <<>> /\ u = Tail(z) /\ f = Head(z)
  BY <1>1, <1>5, <1>6
<1>8. /\ u \in Seq(Any) /\ Len(u) = Len(z) - 1 /\ Len(z) \in Nat \ {0}
      /\ \A i \in 1..Len(u) : u[i] = z[i + 1]
      /\ f = z[1]
  <2>1. Len(z) \in Nat \ {0}
    BY <1>7, EmptySeq, LenProperties
  <2>2. u \in Seq(Any) /\ Len(u) = Len(z) - 1 /\ \A i \in 1..Len(u) : u[i] = z[i + 1]
    BY <1>7, HeadTailProperties
  <2>3. QED
    BY <1>7, <2>1, <2>2
<1>9. /\ q[a][p] = u
      /\ \A d \in Boards, o \in Port : ~(d = a /\ o = p) => q[d][o] = w[d][o]
  BY <1>1, <1>5
<1>10. PICK n : n = Hop(a, Opposite(p))
  OBVIOUS
<1>11. Upstream(a, n, p) /\ n # a
  BY <1>10, RoutingAssumption DEF Upstream, Hop, Opposite, Port, Boards
<1>12. \A d \in Boards, o \in Port :
         v[d][o] = IF f.dst # a /\ o = p /\ d = n /\ n \in Up THEN q[d][o] \o <<f>> ELSE q[d][o]
  <2>1. CASE f.dst = a
    BY <2>1
  <2>2. CASE f.dst # a
    <3> TAKE d \in Boards, o \in Port
    <3>1. v = Transmit(a, {Opposite(p)}, <<f>>, q)
      BY <2>2
    <3>2. <<f>> \in Seq(Any) /\ {Opposite(p)} \in SUBSET Port
      BY <1>4 DEF Opposite, Port
    <3>3. Transmit(a, {Opposite(p)}, <<f>>, q)[d][o] =
            IF Opposite(o) \in {Opposite(p)} /\ d = Hop(a, Opposite(o)) /\ d \in Up
            THEN q[d][o] \o <<f>> ELSE q[d][o]
      <4>1. PICK ms \in Seq(Any), ps \in SUBSET Port : ms = <<f>> /\ ps = {Opposite(p)}
        BY <3>2
      <4>2. Transmit(a, ps, ms, q)[d][o] =
              IF Opposite(o) \in ps /\ d = Hop(a, Opposite(o)) /\ d \in Up
              THEN q[d][o] \o ms ELSE q[d][o]
        <5>1. Queues(q)
          BY <1>2
        <5>2. ASSUME NEW k, Queues(k)
              PROVE  Transmit(a, ps, ms, k)[d][o] =
                       IF Opposite(o) \in ps /\ d = Hop(a, Opposite(o)) /\ d \in Up
                       THEN k[d][o] \o ms ELSE k[d][o]
          BY <5>2, TransmitAt
        <5>3. QED
          BY <5>1, <5>2, Zenon
      <4>3. QED
        BY <4>1, <4>2, Zenon
    <3>4. Opposite(o) \in {Opposite(p)} <=> o = p
      BY DEF Opposite, Port
    <3>5. QED
      BY <1>10, <2>2, <3>1, <3>3, <3>4, Zenon
  <2>3. QED
    BY <2>1, <2>2
<1>13. v[a][p] = u
  BY <1>9, <1>11, <1>12
<1>14. ASSUME NEW d \in Boards, NEW o \in Port, ~(d = a /\ o = p)
       PROVE  /\ Len(w[d][o]) <= Len(v[d][o])
              /\ \A i \in 1..Len(w[d][o]) : v[d][o][i] = w[d][o][i]
              /\ \A i \in 1..Len(v[d][o]) : i > Len(w[d][o]) =>
                   v[d][o][i] = f /\ o = p /\ d = n /\ i = Len(w[d][o]) + 1
              /\ (f.dst # a /\ o = p /\ d = n /\ n \in Up) =>
                   Len(v[d][o]) = Len(w[d][o]) + 1 /\ v[d][o][Len(w[d][o]) + 1] = f
  <2>1. PICK g : g = w[d][o]
    OBVIOUS
  <2>2. g \in Seq(Any)
    BY <2>1 DEF Queues
  <2>3. q[d][o] = g
    BY <1>9, <1>14, <2>1
  <2>4. CASE f.dst # a /\ o = p /\ d = n /\ n \in Up
    <3>1. v[d][o] = g \o <<f>>
      BY <1>12, <2>3, <2>4, Zenon
    <3>2. PICK h : h = g \o <<f>>
      OBVIOUS
    <3>3. /\ Len(h) = Len(g) + 1 /\ Len(g) \in Nat
          /\ \A i \in 1..Len(g) : h[i] = g[i]
          /\ h[Len(g) + 1] = f
      <4>1. <<f>> \in Seq(Any) /\ Len(<<f>>) = 1 /\ <<f>>[1] = f
        BY <1>4
      <4>2. Len(g) \in Nat
        BY <2>2, LenProperties
      <4>3. /\ Len(h) = Len(g) + Len(<<f>>)
            /\ \A i \in 1..(Len(g) + Len(<<f>>)) :
                 h[i] = IF i <= Len(g) THEN g[i] ELSE <<f>>[i - Len(g)]
        BY <2>2, <3>2, <4>1, ConcatProperties
      <4>4. QED
        BY <4>1, <4>2, <4>3
    <3>4. /\ Len(g) <= Len(h)
          /\ \A i \in 1..Len(g) : h[i] = g[i]
          /\ \A i \in 1..Len(h) : i > Len(g) => h[i] = f /\ i = Len(g) + 1
          /\ Len(h) = Len(g) + 1 /\ h[Len(g) + 1] = f
      BY <3>3
    <3>5. h = v[d][o]
      BY <3>1, <3>2, Zenon
    <3>6. /\ Len(w[d][o]) <= Len(v[d][o])
          /\ \A i \in 1..Len(w[d][o]) : v[d][o][i] = w[d][o][i]
          /\ Len(v[d][o]) = Len(w[d][o]) + 1 /\ v[d][o][Len(w[d][o]) + 1] = f
      BY <2>1, <3>4, <3>5, Zenon
    <3>7. \A i \in 1..Len(v[d][o]) : i > Len(w[d][o]) =>
            v[d][o][i] = f /\ i = Len(w[d][o]) + 1
      BY <2>1, <3>4, <3>5, Zenon
    <3>8. QED
      BY <2>4, <3>6, <3>7, Zenon
  <2>5. CASE ~(f.dst # a /\ o = p /\ d = n /\ n \in Up)
    <3>1. v[d][o] = g
      BY <1>12, <2>3, <2>5, Zenon
    <3>2. Len(g) \in Nat
      BY <2>2, LenProperties
    <3>3. Len(g) <= Len(g) /\ \A i \in 1..Len(g) : ~(i > Len(g))
      BY <3>2
    <3>4. v[d][o] = w[d][o]
      BY <2>1, <3>1
    <3>5. /\ Len(w[d][o]) <= Len(v[d][o])
          /\ \A i \in 1..Len(v[d][o]) : ~(i > Len(w[d][o]))
      BY <2>1, <3>1, <3>3, Zenon
    <3>6. \A i \in 1..Len(w[d][o]) : v[d][o][i] = w[d][o][i]
      BY <3>4, Zenon
    <3>7. QED
      BY <2>5, <3>5, <3>6, Zenon
  <2>6. QED
    BY <2>4, <2>5
<1>15. f.dst # a /\ n \in Up => Len(v[n][p]) = Len(w[n][p]) + 1 /\ v[n][p][Len(w[n][p]) + 1] = f
  <2>1. n \in Up => n \in Boards
    BY DEF Up
  <2>2. QED
    BY <1>11, <1>14, <2>1
<1>16. ASSUME NEW d \in Boards, NEW o \in Port, ~(d = a /\ o = p)
       PROVE  /\ Len(w[d][o]) <= Len(v[d][o])
              /\ \A i \in 1..Len(w[d][o]) : v[d][o][i] = w[d][o][i]
              /\ \A i \in 1..Len(v[d][o]) : i > Len(w[d][o]) =>
                   v[d][o][i] = f /\ o = p /\ Upstream(a, d, p) /\ i = Len(w[d][o]) + 1
  <2>1. /\ Len(w[d][o]) <= Len(v[d][o])
        /\ \A i \in 1..Len(w[d][o]) : v[d][o][i] = w[d][o][i]
        /\ \A i \in 1..Len(v[d][o]) : i > Len(w[d][o]) =>
             v[d][o][i] = f /\ o = p /\ d = n /\ i = Len(w[d][o]) + 1
    BY <1>14, <1>16, Zenon
  <2>2. d = n => Upstream(a, d, p)
    BY <1>11
  <2>3. QED
    BY <2>1, <2>2, Zenon
<1>17. w[a][p] # <<>> /\ f = w[a][p][1] /\ Len(v[a][p]) + 1 = Len(w[a][p])
       /\ \A i \in 1..Len(v[a][p]) : v[a][p][i] = w[a][p][i + 1]
  <2>1. Len(u) + 1 = Len(z)
    <3>1. Len(z) \in Nat
      BY <1>8
    <3>2. QED
      BY <1>8, <3>1
  <2>2. QED
    BY <1>6, <1>7, <1>8, <1>13, <2>1, Zenon
<1>18. Moved(w, v, a, p, f)
  BY <1>10, <1>15, <1>16, <1>17, Zenon DEF Moved
<1>19. QED
  BY <1>3, <1>18

\* The lengths the lemmas below count with
LEMMA QueueLengths ==
  ASSUME NEW w, Queues(w), NEW d \in Boards, NEW p \in Port
  PROVE  w[d][p] \in Seq(Any) /\ Len(w[d][p]) \in Nat
<1>1. w[d][p] \in Seq(Any)
  BY DEF Queues
<1>2. QED
  BY <1>1, LenProperties

\* An announcement that is behind a frame stays behind it while both travel
LEMMA FreshMoves ==
  ASSUME NEW w, Queues(w), NEW v, Queues(v), NEW a \in Up, NEW p \in Port, NEW f,
         Moved(w, v, a, p, f), Unbroken(Up), f.type = "FOCUS" => f.dst # a,
         NEW x, NEW c \in Up, NEW o \in Port, NEW i \in 0..Len(w[c][o]),
         c = a /\ o = p => i >= 1, Fresh(w, x, c, o, i)
  PROVE  Fresh(v, x, c, o, IF c = a /\ o = p THEN i - 1 ELSE i)
<1>1. a \in Boards /\ c \in Boards /\ Running(router) = Up
  BY DEF Up, Running
<1>2. i \in Int /\ Len(w[c][o]) \in Nat
  BY <1>1, QueueLengths
<1>3. PICK k \in Int : k = IF c = a /\ o = p THEN i - 1 ELSE i
  BY <1>2
<1>4. k <= i
  BY <1>2, <1>3
<1>5. PICK d \in Boards : \E j \in 1..Len(w[d][o]) :
        Tells(w[d][o][j], x) /\ (Upstream(d, c, o) \/ (d = c /\ j > i))
  BY Zenon DEF Fresh
<1>6. PICK j \in 1..Len(w[d][o]) :
        Tells(w[d][o][j], x) /\ (Upstream(d, c, o) \/ (d = c /\ j > i))
  BY <1>5, Zenon
<1>7. Len(w[d][o]) \in Nat /\ Len(v[d][o]) \in Nat /\ j \in Nat
  BY <1>6, QueueLengths
\* the announcement stays where it is
<1>8. CASE ~(d = a /\ o = p)
  <2>1. Len(w[d][o]) <= Len(v[d][o]) /\ v[d][o][j] = w[d][o][j]
    BY <1>6, <1>8, Zenon DEF Moved
  <2>2. j \in 1..Len(v[d][o])
    BY <1>6, <1>7, <2>1
  <2>3. d = c /\ j > i => d = c /\ j > k
    BY <1>2, <1>3, <1>4, <1>7
  <2>4. Tells(v[d][o][j], x) /\ (Upstream(d, c, o) \/ (d = c /\ j > k))
    BY <1>6, <2>1, <2>3, Zenon
  <2>5. Fresh(v, x, c, o, k)
    BY <2>2, <2>4, Zenon DEF Fresh
  <2>6. QED
    BY <1>3, <2>5, Zenon
\* it moves up in its queue
<1>9. CASE d = a /\ o = p /\ j # 1
  <2>1. /\ Len(v[a][p]) + 1 = Len(w[a][p])
        /\ \A m \in 1..Len(v[a][p]) : v[a][p][m] = w[a][p][m + 1]
    BY DEF Moved
  <2>2. PICK m \in Nat : m = j - 1 /\ m + 1 = j
    BY <1>6, <1>7, <1>9
  <2>3. m \in 1..Len(v[a][p])
    BY <1>6, <1>7, <1>9, <2>1, <2>2
  <2>4. v[a][p][m] = w[a][p][j]
    BY <2>1, <2>2, <2>3, Zenon
  <2>5. d = c /\ j > i => d = c /\ m > k
    BY <1>2, <1>3, <1>7, <1>9, <2>2
  <2>6. Tells(v[d][o][m], x) /\ (Upstream(d, c, o) \/ (d = c /\ m > k))
    BY <1>6, <1>9, <2>4, <2>5, Zenon
  <2>7. Fresh(v, x, c, o, k)
    BY <1>9, <2>3, <2>6, Zenon DEF Fresh
  <2>8. QED
    BY <1>3, <2>7, Zenon
\* it is the frame that is relayed
<1>10. CASE d = a /\ o = p /\ j = 1
  <2>1. f = w[a][p][1]
    BY DEF Moved
  <2>2. Tells(f, x)
    BY <1>6, <1>10, <2>1, Zenon
  <2>3. f.dst # a
    BY <2>2 DEF Tells
  <2>4. Upstream(a, c, p)
    <3>1. ASSUME d = c, j > i
          PROVE  FALSE
      BY <1>2, <1>10, <3>1
    <3>2. QED
      BY <1>6, <1>10, <3>1
  <2>5. PICK n : n = Hop(a, Opposite(p))
    OBVIOUS
  <2>6. n \in Up /\ (n = c \/ Upstream(n, c, p))
    BY <1>1, <2>4, <2>5, TowardsRunning
  <2>7. n \in Boards
    BY <2>6 DEF Up
  <2>8. PICK L : L = Len(w[n][p]) + 1
    OBVIOUS
  <2>9. Len(v[n][p]) = L /\ v[n][p][L] = f
    BY <2>3, <2>5, <2>6, <2>8, Zenon DEF Moved
  <2>10. Len(w[n][p]) \in Nat
    BY <2>7, QueueLengths
  <2>11. L \in 1..Len(v[n][p])
    BY <2>8, <2>9, <2>10
  <2>12. n = c => L > k
    BY <1>2, <1>3, <1>4, <1>10, <2>8, <2>10
  <2>13. Tells(v[n][p][L], x) /\ (Upstream(n, c, p) \/ (n = c /\ L > k))
    BY <2>2, <2>6, <2>9, <2>12, Zenon
  <2>14. Fresh(v, x, c, o, k)
    BY <1>10, <2>7, <2>11, <2>13, Zenon DEF Fresh
  <2>15. QED
    BY <1>3, <2>14, Zenon
<1>11. QED
  BY <1>8, <1>9, <1>10

\* Boards further down the line than a get from a's side what a gets
LEMMA UpstreamTrans ==
  ASSUME NEW d \in Boards, NEW a \in Boards, NEW c \in Boards, NEW p \in Port,
         d = a \/ Upstream(d, a, p), Upstream(a, c, p)
  PROVE  Upstream(d, c, p)
  BY RoutingAssumption DEF Upstream, Boards

\* Announcements are the speaker's, and they are for everybody
Spoken(w, s) ==
  \A c \in Boards, p \in Port : \A i \in 1..Len(w[c][p]) :
    w[c][p][i].type = "FOCUS" => w[c][p][i].src = s

Proper(f) ==
  /\ f.type = "FOCUS" => f.dst = Everyone
  /\ f.type = "HELLO" /\ f.src \in Machines => "HID_OUT" \in f.arg.caps

Framed(w) == \A c \in Boards, p \in Port : \A i \in 1..Len(w[c][p]) : Proper(w[c][p][i])

\* The second half of Receive, as far as the focus goes: the board that takes
\* an announcement makes it its own
LEMMA MoveCurrent ==
  ASSUME NEW w, Queues(w), NEW v, Queues(v), NEW a \in Up, NEW p \in Port,
         NEW f \in Inbound(a, p), Moved(w, v, a, p, f), Framed(w), Unbroken(Up),
         NEW rs, NEW rs1, Running(rs) = Up, Running(rs1) = Up,
         NEW s \in Up, Spoken(w, s), Current(rs, w, s),
         \A c \in Up : rs1[c].focus = IF c = a /\ f.type = "FOCUS" THEN f.arg ELSE rs[c].focus
  PROVE  Current(rs1, v, s)
<1>1. a \in Boards /\ s \in Boards /\ Up \subseteq Boards
  BY DEF Up
<1>2. Len(w[a][p]) \in Nat /\ w[a][p] # <<>> /\ f = w[a][p][1] /\ w[a][p] \in Seq(Any)
  BY <1>1, QueueLengths DEF Moved
<1>3. 1 \in 1..Len(w[a][p])
  BY <1>2, EmptySeq, LenProperties
<1>4. f.type = "FOCUS" => f.dst = Everyone /\ f.src = s
  <2>1. Proper(w[a][p][1])
    BY <1>1, <1>3, Zenon DEF Framed
  <2>2. w[a][p][1].type = "FOCUS" => w[a][p][1].src = s
    BY <1>1, <1>3, Zenon DEF Spoken
  <2>3. QED
    BY <1>2, <2>1, <2>2, Zenon DEF Proper
<1>5. f.type = "FOCUS" => f.dst # a /\ Upstream(s, a, p) /\ s # a
  <2>1. ASSUME f.type = "FOCUS"
        PROVE  f.dst # a /\ Upstream(s, a, p) /\ s # a
    <3>1. f.dst = 0 /\ f.src = s
      BY <1>4, <2>1 DEF Everyone
    <3>2. IF p = "UP" THEN f.src < a ELSE f.src > a
      BY DEF Inbound
    <3>3. QED
      BY <1>1, <3>1, <3>2, RoutingAssumption DEF Upstream, Boards
  <2>2. QED
    BY <2>1
<1>6. PICK x : x = rs[s].focus
  OBVIOUS
<1>7. rs1[s].focus = x
  BY <1>5, <1>6
<1>8. ASSUME NEW c \in Up, NEW o \in Port, Upstream(s, c, o)
      PROVE  /\ rs[c].focus \in {NoAddr, x} \/ Fresh(w, x, c, o, 0)
             /\ \A i \in 1..Len(w[c][o]) : w[c][o][i].type = "FOCUS" /\ w[c][o][i].arg # x
                  => Fresh(w, x, c, o, i)
  BY <1>6, <1>8, Zenon DEF Current
<1>9. ASSUME NEW c \in Up, NEW o \in Port, NEW i \in 0..Len(w[c][o]),
             c = a /\ o = p => i >= 1, Fresh(w, x, c, o, i)
      PROVE  Fresh(v, x, c, o, IF c = a /\ o = p THEN i - 1 ELSE i)
  BY <1>5, <1>9, FreshMoves
<1>10. ASSUME NEW c \in Up, NEW o \in Port, Upstream(s, c, o)
       PROVE  rs1[c].focus \in {NoAddr, x} \/ Fresh(v, x, c, o, 0)
  <2>1. Len(w[c][o]) \in Nat
    BY <1>1, QueueLengths
  <2>2. CASE ~(c = a /\ o = p)
    <3>1. 0 \in 0..Len(w[c][o])
      BY <2>1
    <3>2. Fresh(w, x, c, o, 0) => Fresh(v, x, c, o, 0)
      BY <1>9, <2>2, <3>1
    <3>3. ~(c = a /\ f.type = "FOCUS")
      <4>1. ASSUME c = a, f.type = "FOCUS"
            PROVE  FALSE
        <5>1. Upstream(s, a, p) /\ Upstream(s, a, o) /\ o # p
          BY <1>5, <1>10, <2>2, <4>1
        <5>2. QED
          BY <1>1, <5>1, RoutingAssumption DEF Upstream, Port, Boards
      <4>2. QED
        BY <4>1
    <3>4. rs1[c].focus = rs[c].focus
      BY <3>3
    <3>5. QED
      BY <1>8, <1>10, <3>2, <3>4, Zenon
  <2>3. CASE c = a /\ o = p
    <3>1. Fresh(w, x, a, p, 1) => Fresh(v, x, a, p, 0)
      <4>1. 1 \in 0..Len(w[a][p]) /\ 1 >= 1 /\ 1 - 1 = 0
        BY <1>2, <1>3
      <4>2. ASSUME Fresh(w, x, a, p, 1)
            PROVE  Fresh(v, x, a, p, IF a = a /\ p = p THEN 1 - 1 ELSE 1)
        BY <1>9, <4>1, <4>2
      <4>3. QED
        BY <4>1, <4>2
    <3>2. CASE Tells(f, x)
      BY <2>3, <3>2 DEF Tells
    <3>3. CASE ~Tells(f, x) /\ f.type = "FOCUS"
      <4>1. Fresh(w, x, a, p, 1)
        BY <1>2, <1>3, <1>8, <1>10, <2>3, <3>3 DEF Tells
      <4>2. QED
        BY <2>3, <3>1, <4>1
    <3>4. CASE ~Tells(f, x) /\ f.type # "FOCUS"
      <4>1. rs1[c].focus = rs[c].focus
        BY <3>4
      <4>2. Fresh(w, x, a, p, 0) => Fresh(w, x, a, p, 1)
        <5>1. ASSUME Fresh(w, x, a, p, 0)
              PROVE  Fresh(w, x, a, p, 1)
          <6>1. PICK d \in Boards : \E j \in 1..Len(w[d][p]) :
                  Tells(w[d][p][j], x) /\ (Upstream(d, a, p) \/ (d = a /\ j > 0))
            BY <5>1, Zenon DEF Fresh
          <6>2. PICK j \in 1..Len(w[d][p]) :
                  Tells(w[d][p][j], x) /\ (Upstream(d, a, p) \/ (d = a /\ j > 0))
            BY <6>1, Zenon
          <6>3. d = a => j # 1
            BY <1>2, <3>4, <6>2
          <6>4. d = a => j > 1
            BY <6>2, <6>3
          <6>5. Upstream(d, a, p) \/ (d = a /\ j > 1)
            BY <6>2, <6>4
          <6>6. QED
            BY <6>2, <6>5, Zenon DEF Fresh
        <5>2. QED
          BY <5>1
      <4>3. rs[a].focus \in {NoAddr, x} \/ Fresh(w, x, a, p, 0)
        BY <1>8, <1>10, <2>3
      <4>4. QED
        BY <2>3, <3>1, <4>1, <4>2, <4>3
    <3>5. QED
      BY <3>2, <3>3, <3>4
  <2>4. QED
    BY <2>2, <2>3
<1>11. ASSUME NEW c \in Up, NEW o \in Port, Upstream(s, c, o), NEW i \in 1..Len(v[c][o]),
              v[c][o][i].type = "FOCUS", v[c][o][i].arg # x
       PROVE  Fresh(v, x, c, o, i)
  <2>1. Len(w[c][o]) \in Nat /\ Len(v[c][o]) \in Nat
    BY <1>1, QueueLengths
  <2>2. CASE c = a /\ o = p
    <3>1. v[a][p][i] = w[a][p][i + 1] /\ Len(v[a][p]) + 1 = Len(w[a][p])
      BY <1>11, <2>2, Zenon DEF Moved
    <3>2. PICK k \in Nat : k = i + 1
      OBVIOUS
    <3>3. k \in 1..Len(w[a][p]) /\ k \in 0..Len(w[a][p]) /\ k >= 1 /\ k - 1 = i
      BY <2>1, <2>2, <3>1, <3>2
    <3>4. Fresh(w, x, a, p, k)
      BY <1>8, <1>11, <2>2, <3>1, <3>2, <3>3, Zenon
    <3>5. Fresh(v, x, a, p, IF a = a /\ p = p THEN k - 1 ELSE k)
      BY <1>9, <3>3, <3>4
    <3>6. QED
      BY <2>2, <3>3, <3>5
  <2>3. CASE ~(c = a /\ o = p) /\ i <= Len(w[c][o])
    <3>1. i \in 1..Len(w[c][o]) /\ i \in 0..Len(w[c][o])
      BY <2>1, <2>3
    <3>2. v[c][o][i] = w[c][o][i]
      BY <1>1, <2>3, <3>1, Zenon DEF Moved
    <3>3. Fresh(w, x, c, o, i)
      BY <1>8, <1>11, <3>1, <3>2, Zenon
    <3>4. Fresh(v, x, c, o, IF c = a /\ o = p THEN i - 1 ELSE i)
      BY <1>9, <2>3, <3>1, <3>3
    <3>5. QED
      BY <2>3, <3>4, Zenon
  <2>4. CASE ~(c = a /\ o = p) /\ i > Len(w[c][o])
    <3>1. v[c][o][i] = f /\ o = p /\ Upstream(a, c, p) /\ i = Len(w[c][o]) + 1
      BY <1>1, <2>4, Zenon DEF Moved
    <3>2. f.type = "FOCUS" /\ f.arg # x
      BY <1>11, <3>1
    <3>3. Upstream(s, a, p)
      BY <1>5, <3>2
    <3>4. f.type = "FOCUS" => Fresh(w, x, a, p, 1)
      BY <1>2, <1>3, <1>8, <3>2, <3>3
    <3>5. Fresh(v, x, a, p, 0)
      <4>1. 1 \in 0..Len(w[a][p]) /\ 1 >= 1 /\ 1 - 1 = 0
        BY <1>2, <1>3
      <4>2. Fresh(v, x, a, p, IF a = a /\ p = p THEN 1 - 1 ELSE 1)
        BY <1>9, <3>2, <3>4, <4>1
      <4>3. QED
        BY <4>1, <4>2
    <3>6. PICK d \in Boards : \E j \in 1..Len(v[d][p]) :
            Tells(v[d][p][j], x) /\ (Upstream(d, a, p) \/ (d = a /\ j > 0))
      BY <3>5, Zenon DEF Fresh
    <3>7. PICK j \in 1..Len(v[d][p]) :
            Tells(v[d][p][j], x) /\ (Upstream(d, a, p) \/ (d = a /\ j > 0))
      BY <3>6, Zenon
    <3>8. Upstream(d, c, p)
      BY <1>1, <3>1, <3>7, UpstreamTrans
    <3>9. QED
      BY <3>1, <3>7, <3>8, Zenon DEF Fresh
  <2>5. QED
    BY <2>1, <2>2, <2>3, <2>4
<1>12. QED
  <2>1. \A c \in Running(rs1), o \in Port : Upstream(s, c, o) =>
          /\ rs1[c].focus \in {NoAddr, x} \/ Fresh(v, x, c, o, 0)
          /\ \A i \in 1..Len(v[c][o]) : v[c][o][i].type = "FOCUS" /\ v[c][o][i].arg # x
               => Fresh(v, x, c, o, i)
    BY <1>10, <1>11, Zenon
  <2>2. QED
    BY <1>7, <2>1, Zenon DEF Current

-----------------------------------------------------------------------------
(* The invariant of the focus                                              *)

\* What a board knows of the others' screens, of which every machine is one
Table(ch, b) ==
  \A d \in Boards \ {b} :
    /\ ch[d] # {} => "used" \in ch[d]
    /\ d \in Machines /\ ch[d] \notin {{}, {"used"}} => "HID_OUT" \in ch[d]

Seen(r, b) == (b \in Machines => "HID_OUT" \in r.caps) /\ Table(r.chain, b)

\* There are never two speakers
OneSpeaker(rs) ==
  \A a, b \in Running(rs) : rs[a].active = a /\ rs[b].active = b => a = b

Announced(rs, w) ==
  /\ OneSpeaker(rs) /\ Unbroken(Running(rs))
  /\ \A b \in Boards : Seen(rs[b], b)
  /\ Framed(w)
  /\ \A s \in Running(rs) : rs[s].active = s => Spoken(w, s) /\ Current(rs, w, s)

\* The part of a record it is about
SameRole(r, t) ==
  /\ t.up = r.up /\ t.caps = r.caps /\ t.chain = r.chain
  /\ t.active = r.active /\ t.focus = r.focus

\* Frames that are proper stay so
LEMMA GrownFramed ==
  ASSUME NEW w, Queues(w), NEW w2, NEW M, Grown(w, w2, M), Framed(w),
         \A f \in M : Proper(f), Queues(w2)
  PROVE  Framed(w2)
<1>1. ASSUME NEW c \in Boards, NEW p \in Port, NEW i \in 1..Len(w2[c][p])
      PROVE  Proper(w2[c][p][i])
  <2>1. Len(w[c][p]) \in Nat
    BY QueueLengths
  <2>2. CASE i > Len(w[c][p])
    <3>1. w2[c][p][i] \in M
      BY <1>1, <2>2, Zenon DEF Grown
    <3>2. QED
      BY <3>1
  <2>3. CASE ~(i > Len(w[c][p]))
    <3>1. i \in 1..Len(w[c][p])
      BY <1>1, <2>1, <2>3
    <3>2. w2[c][p][i] = w[c][p][i]
      BY <3>1, Zenon DEF Grown
    <3>3. Proper(w[c][p][i])
      BY <3>1, Zenon DEF Framed
    <3>4. QED
      BY <3>2, <3>3
  <2>4. QED
    BY <2>2, <2>3
<1>2. QED
  BY <1>1, Zenon DEF Framed

\* and announcements the speaker's
LEMMA GrownSpoken ==
  ASSUME NEW w, Queues(w), NEW w2, NEW M, Grown(w, w2, M), NEW s, Spoken(w, s),
         \A f \in M : f.type = "FOCUS" => f.src = s, Queues(w2)
  PROVE  Spoken(w2, s)
<1>1. ASSUME NEW c \in Boards, NEW p \in Port, NEW i \in 1..Len(w2[c][p])
      PROVE  w2[c][p][i].type = "FOCUS" => w2[c][p][i].src = s
  <2>1. Len(w[c][p]) \in Nat
    BY QueueLengths
  <2>2. CASE i > Len(w[c][p])
    <3>1. w2[c][p][i] \in M
      BY <1>1, <2>2, Zenon DEF Grown
    <3>2. QED
      BY <3>1
  <2>3. CASE ~(i > Len(w[c][p]))
    <3>1. i \in 1..Len(w[c][p])
      BY <1>1, <2>1, <2>3
    <3>2. w2[c][p][i] = w[c][p][i]
      BY <3>1, Zenon DEF Grown
    <3>3. w[c][p][i].type = "FOCUS" => w[c][p][i].src = s
      BY <3>1, Zenon DEF Spoken
    <3>4. QED
      BY <3>2, <3>3
  <2>4. QED
    BY <2>2, <2>3
<1>2. QED
  BY <1>1, Zenon DEF Spoken

\* also while a frame moves on
LEMMA MovedFrames ==
  ASSUME NEW w, Queues(w), NEW v, Queues(v), NEW a \in Boards, NEW p \in Port, NEW f,
         Moved(w, v, a, p, f), NEW c \in Boards, NEW o \in Port, NEW i \in 1..Len(v[c][o])
  PROVE  \E d \in Boards : \E j \in 1..Len(w[d][o]) : v[c][o][i] = w[d][o][j]
<1>1. Len(w[c][o]) \in Nat /\ Len(w[a][p]) \in Nat /\ Len(v[c][o]) \in Nat
  BY QueueLengths
<1>2. 1 \in 1..Len(w[a][p]) /\ f = w[a][p][1]
  <2>1. w[a][p] # <<>> /\ w[a][p] \in Seq(Any) /\ f = w[a][p][1]
    BY QueueLengths DEF Moved
  <2>2. QED
    BY <2>1, EmptySeq, LenProperties
<1>3. CASE c = a /\ o = p
  <2>1. v[a][p][i] = w[a][p][i + 1] /\ Len(v[a][p]) + 1 = Len(w[a][p])
    BY <1>3, Zenon DEF Moved
  <2>2. i + 1 \in 1..Len(w[a][p])
    BY <1>1, <1>3, <2>1
  <2>3. QED
    BY <1>3, <2>1, <2>2, Zenon
<1>4. CASE ~(c = a /\ o = p) /\ i > Len(w[c][o])
  <2>1. v[c][o][i] = f /\ o = p
    BY <1>4, Zenon DEF Moved
  <2>2. QED
    BY <1>2, <2>1, Zenon
<1>5. CASE ~(c = a /\ o = p) /\ ~(i > Len(w[c][o]))
  <2>1. i \in 1..Len(w[c][o])
    BY <1>1, <1>5
  <2>2. v[c][o][i] = w[c][o][i]
    BY <1>5, <2>1, Zenon DEF Moved
  <2>3. QED
    BY <2>1, <2>2, Zenon
<1>6. QED
  BY <1>3, <1>4, <1>5

LEMMA MovedFramed ==
  ASSUME NEW w, Queues(w), NEW v, Queues(v), NEW a \in Boards, NEW p \in Port, NEW f,
         Moved(w, v, a, p, f), Framed(w)
  PROVE  Framed(v) /\ \A s : Spoken(w, s) => Spoken(v, s)
<1>1. ASSUME NEW c \in Boards, NEW o \in Port, NEW i \in 1..Len(v[c][o])
      PROVE  /\ Proper(v[c][o][i])
             /\ \A s : Spoken(w, s) => (v[c][o][i].type = "FOCUS" => v[c][o][i].src = s)
  <2>1. \E d \in Boards : \E j \in 1..Len(w[d][o]) : v[c][o][i] = w[d][o][j]
    BY <1>1, MovedFrames
  <2>2. PICK d \in Boards : \E j \in 1..Len(w[d][o]) : v[c][o][i] = w[d][o][j]
    BY <2>1, Zenon
  <2>3. PICK j \in 1..Len(w[d][o]) : v[c][o][i] = w[d][o][j]
    BY <2>2, Zenon
  <2>4. Proper(w[d][o][j])
    BY <2>3, Zenon DEF Framed
  <2>5. \A s : Spoken(w, s) => (w[d][o][j].type = "FOCUS" => w[d][o][j].src = s)
    BY <2>3, Zenon DEF Spoken
  <2>6. QED
    BY <2>3, <2>4, <2>5, Zenon
<1>2. Framed(v)
  BY <1>1, Zenon DEF Framed
<1>3. \A s : Spoken(w, s) => Spoken(v, s)
  BY <1>1, Zenon DEF Spoken
<1>4. QED
  BY <1>2, <1>3

\* Only the focus of the running boards counts
LEMMA CurrentSame ==
  ASSUME NEW rs, NEW rs2, Running(rs2) = Running(rs),
         \A c \in Running(rs) : rs2[c].focus = rs[c].focus,
         NEW w, NEW s \in Running(rs), Current(rs, w, s)
  PROVE  Current(rs2, w, s)
<1>1. rs2[s].focus = rs[s].focus
  OBVIOUS
<1>2. ASSUME NEW c \in Running(rs2), NEW p \in Port, Upstream(s, c, p)
      PROVE  /\ rs2[c].focus \in {NoAddr, rs2[s].focus} \/ Fresh(w, rs2[s].focus, c, p, 0)
             /\ \A i \in 1..Len(w[c][p]) :
                  w[c][p][i].type = "FOCUS" /\ w[c][p][i].arg # rs2[s].focus
                    => Fresh(w, rs2[s].focus, c, p, i)
  <2>1. c \in Running(rs) /\ rs2[c].focus = rs[c].focus
    BY <1>2
  <2>2. /\ rs[c].focus \in {NoAddr, rs[s].focus} \/ Fresh(w, rs[s].focus, c, p, 0)
        /\ \A i \in 1..Len(w[c][p]) :
             w[c][p][i].type = "FOCUS" /\ w[c][p][i].arg # rs[s].focus
               => Fresh(w, rs[s].focus, c, p, i)
    BY <1>2, <2>1, Zenon DEF Current
  <2>3. QED
    BY <1>1, <2>1, <2>2, Zenon
<1>3. QED
  BY <1>2, Zenon DEF Current

\* A step of a running board that announces nothing
LEMMA MildAnnounced ==
  ASSUME NEW rs, NEW w, Queues(w), Announced(rs, w), NEW b \in Running(rs), NEW t,
         NEW rs2, SameRole(t, rs2[b]), \A d \in Boards : d # b => SameRole(rs[d], rs2[d]),
         t.up, Seen(t, b), t.focus = rs[b].focus, t.active = b => rs[b].active = b,
         t.out \in Seq(Mild(b, t.caps))
  PROVE  Announced(rs2, Transmit(b, Port, t.out, w))
<1>1. b \in Boards /\ rs[b].up
  BY DEF Running
<1>2. Running(rs2) = Running(rs)
  BY <1>1 DEF Running, SameRole
<1>3. \A c \in Running(rs) : rs2[c].focus = rs[c].focus /\ (rs2[c].active = c => rs[c].active = c)
  BY DEF Running, SameRole
<1>a. PICK M : M = Mild(b, t.caps)
  OBVIOUS
<1>4. PICK ms \in Seq(M) : ms = t.out
  BY <1>a
<1>5. M \subseteq Any /\ M \subseteq From(b)
  BY <1>1, <1>a DEF Mild, Any
<1>6. PICK w2 : w2 = Transmit(b, Port, ms, w)
  OBVIOUS
<1>7. Grown(w, w2, M)
  <2>1. Port \in SUBSET Port
    OBVIOUS
  <2>2. Grown(w, Transmit(b, Port, ms, w), M)
    BY <1>1, <1>5, <2>1, TransmitGrows
  <2>3. QED
    BY <1>6, <2>2, Zenon
<1>8. Queues(w2)
  <2>1. ms \in Seq(From(b))
    BY <1>5, SeqMonotonic
  <2>2. Queues(Transmit(b, Port, ms, w))
    BY <1>1, <2>1, OwnFrames
  <2>3. QED
    BY <1>6, <2>2, Zenon
<1>9. \A f \in M : f.type # "FOCUS" /\ Proper(f)
  BY <1>a DEF Mild, Proper, Seen, From
<1>10. Framed(w2)
  BY <1>7, <1>8, <1>9, GrownFramed DEF Announced
<1>11. ASSUME NEW s \in Running(rs2), rs2[s].active = s
       PROVE  Spoken(w2, s) /\ Current(rs2, w2, s)
  <2>1. s \in Running(rs) /\ rs[s].active = s
    BY <1>2, <1>3, <1>11
  <2>2. Spoken(w, s) /\ Current(rs, w, s)
    BY <2>1 DEF Announced
  <2>3. Spoken(w2, s)
    BY <1>7, <1>8, <1>9, <2>2, GrownSpoken
  <2>4. Current(rs, w2, s)
    BY <1>7, <1>8, <1>9, <2>1, <2>2, MildCurrent
  <2>5. Current(rs2, w2, s)
    BY <1>2, <1>3, <2>1, <2>4, CurrentSame
  <2>6. QED
    BY <2>3, <2>5
<1>12. \A d \in Boards : Seen(rs2[d], d)
  BY DEF Announced, Seen, SameRole
<1>13. OneSpeaker(rs2)
  BY <1>2, <1>3 DEF Announced, OneSpeaker
<1>14. Announced(rs2, w2)
  BY <1>2, <1>10, <1>11, <1>12, <1>13 DEF Announced
<1>15. QED
  BY <1>4, <1>6, <1>14, Zenon

\* A step of the speaker, or of a board that becomes it, that announces a focus
LEMMA LoudAnnounced ==
  ASSUME NEW rs, NEW w, Queues(w), Announced(rs, w), Running(rs) = Up, NEW b \in Up, NEW t,
         NEW rs2, SameRole(t, rs2[b]), \A d \in Boards : d # b => SameRole(rs[d], rs2[d]),
         t.self = b, t.up, Seen(t, b), t.caps \in SUBSET Caps, Loud(t), Spoken(w, b),
         \A s \in Up : rs[s].active = s => s = b
  PROVE  Announced(rs2, Transmit(b, Port, t.out, w))
<1>1. b \in Boards /\ rs[b].up
  BY DEF Running
<1>2. Running(rs2) = Up
  BY <1>1 DEF Running, SameRole
<1>3. \A c \in Up : rs2[c].active = c => c = b
  BY <1>2 DEF Up, SameRole
<1>4. PICK x \in Boards : x = t.focus
  BY DEF Loud
<1>5. PICK m : m = [type |-> "FOCUS", src |-> b, dst |-> Everyone, arg |-> x]
  OBVIOUS
<1>6. PICK C \in SUBSET Caps : C = t.caps
  OBVIOUS
<1>7. PICK ms \in LoudFrames(b, C, x) : ms = t.out
  BY <1>4, <1>6, Zenon DEF Loud
<1>8. PICK o \in Seq(Mild(b, C)) : ms = Append(o, m)
  BY <1>5, <1>7, Zenon DEF LoudFrames
<1>9. PICK M : M = Mild(b, C) \cup {m}
  OBVIOUS
<1>10. m \in From(b) /\ m.type = "FOCUS" /\ m.src = b /\ m.dst = Everyone
  BY <1>1, <1>5, FrameForms DEF To
<1>11. M \subseteq Any /\ M \subseteq From(b)
  BY <1>1, <1>9, <1>10 DEF Mild, Any
<1>12. ms \in Seq(M)
  <2>1. Mild(b, C) \subseteq M /\ m \in M
    BY <1>9
  <2>2. o \in Seq(M)
    BY <2>1, SeqMonotonic
  <2>3. QED
    BY <1>8, <2>1, <2>2, AppendProperties
<1>13. PICK w2 : w2 = Transmit(b, Port, ms, w)
  OBVIOUS
<1>14. Grown(w, w2, M)
  <2>1. Port \in SUBSET Port
    OBVIOUS
  <2>2. Grown(w, Transmit(b, Port, ms, w), M)
    BY <1>1, <1>11, <1>12, <2>1, TransmitGrows
  <2>3. QED
    BY <1>13, <2>2, Zenon
<1>15. Queues(w2)
  <2>1. ms \in Seq(From(b))
    BY <1>11, <1>12, SeqMonotonic
  <2>2. Queues(Transmit(b, Port, ms, w))
    BY <1>1, <2>1, OwnFrames
  <2>3. QED
    BY <1>13, <2>2, Zenon
<1>16. \A f \in M : Proper(f) /\ f.src = b
  <2>1. \A f \in Mild(b, C) : Proper(f) /\ f.src = b
    BY <1>6 DEF Mild, Proper, Seen, From
  <2>2. Proper(m)
    BY <1>10 DEF Proper
  <2>3. QED
    BY <1>9, <1>10, <2>1, <2>2
<1>17. Framed(w2)
  BY <1>14, <1>15, <1>16, GrownFramed DEF Announced
<1>18. Spoken(w2, b)
  BY <1>14, <1>15, <1>16, GrownSpoken
<1>19. Current(rs2, w2, b)
  <2>1. rs2[b].focus = x
    BY <1>4 DEF SameRole
  <2>2. Unbroken(Running(rs2)) /\ b \in Running(rs2)
    BY <1>2 DEF Announced
  <2>3. Current(rs2, Transmit(b, Port, ms, w), b)
    BY <1>2, <2>1, <2>2, LoudCurrent
  <2>4. QED
    BY <1>13, <2>3, Zenon
<1>20. \A d \in Boards : Seen(rs2[d], d)
  BY DEF Announced, Seen, SameRole
<1>21. OneSpeaker(rs2)
  BY <1>2, <1>3 DEF OneSpeaker
<1>22. Announced(rs2, w2)
  BY <1>2, <1>3, <1>17, <1>18, <1>19, <1>20, <1>21 DEF Announced
<1>23. QED
  BY <1>7, <1>13, <1>22, Zenon

\* With nothing on the wires all that counts is what the boards have heard
Void(w) == \A d \in Boards, p \in Port : w[d][p] = <<>>

LEMMA VoidAgrees ==
  ASSUME NEW rs, NEW w, Void(w), NEW s \in Running(rs), Current(rs, w, s)
  PROVE  \A c \in Running(rs) : rs[c].focus \in {NoAddr, rs[s].focus}
<1> SUFFICES ASSUME NEW c \in Running(rs)
             PROVE  rs[c].focus \in {NoAddr, rs[s].focus}
  OBVIOUS
<1>1. CASE c = s
  BY <1>1
<1>2. CASE c # s
  <2>1. \E p \in Port : Upstream(s, c, p)
    <3>1. c \in Int /\ s \in Int
      BY RoutingAssumption DEF Running, Boards
    <3>2. s < c \/ c < s
      BY <1>2, <3>1
    <3>3. "UP" \in Port /\ "DOWN" \in Port /\ "DOWN" # "UP"
      BY DEF Port
    <3>4. QED
      BY <3>2, <3>3 DEF Upstream
  <2>2. PICK p \in Port : Upstream(s, c, p)
    BY <2>1
  <2>3. rs[c].focus \in {NoAddr, rs[s].focus} \/ Fresh(w, rs[s].focus, c, p, 0)
    BY <2>2, Zenon DEF Current
  <2>4. ~Fresh(w, rs[s].focus, c, p, 0)
    <3>1. \A d \in Boards : w[d][p] = <<>>
      BY DEF Void
    <3>2. \A d \in Boards : 1..Len(w[d][p]) = {}
      BY <3>1
    <3>3. QED
      BY <3>2, Zenon DEF Fresh
  <2>5. QED
    BY <2>3, <2>4
<1>3. QED
  BY <1>1, <1>2

LEMMA VoidAnnounced ==
  ASSUME NEW rs, NEW w, Void(w), OneSpeaker(rs), Unbroken(Running(rs)),
         \A b \in Boards : Seen(rs[b], b),
         \A s \in Running(rs) : rs[s].active = s =>
           \A c \in Running(rs) : rs[c].focus \in {NoAddr, rs[s].focus}
  PROVE  Announced(rs, w)
<1>1. \A d \in Boards, p \in Port : 1..Len(w[d][p]) = {}
  BY DEF Void
<1>2. Framed(w) /\ \A s : Spoken(w, s)
  BY <1>1, Zenon DEF Framed, Spoken
<1>3. \A s \in Running(rs) : rs[s].active = s => Current(rs, w, s)
  <2>1. Running(rs) \subseteq Boards
    BY DEF Running
  <2>2. QED
    BY <1>1, <2>1, Zenon DEF Current
<1>4. QED
  BY <1>2, <1>3 DEF Announced

FocusInv == Announced(router, wire)

\* A record as a handler finds it
Fresher(b, r) == SameRole(router[b], r) /\ r.self = b /\ r.out = <<>>

LEMMA RunningIsUp == Running(router) = Up
  BY DEF Running, Up

LEMMA PreparedRole ==
  ASSUME IInv, NEW b \in Boards, NEW r \in Prepared(b)
  PROVE  Fresher(b, r)
<1>1. PICK z, c : r = [router[b] EXCEPT !.ready = z, !.bleed = c]
  <2>1. PICK z \in Ready, c \in {0, 1} : r = Found(b, z, c)
    BY DEF Prepared
  <2>2. QED
    BY <2>1, Zenon DEF Found
<1>2. PICK s \in Record(b, TRUE) : s = router[b] /\ s.out = <<>>
  BY DEF IInv, Records, Rest, Work
<1>3. r = [s EXCEPT !.ready = z, !.bleed = c]
  BY <1>1, <1>2
<1>4. /\ r.up = s.up /\ r.caps = s.caps /\ r.chain = s.chain
      /\ r.active = s.active /\ r.focus = s.focus /\ r.self = s.self /\ r.out = s.out
  BY <1>3 DEF Record
<1>5. s.self = b
  BY DEF Record
<1>6. QED
  BY <1>2, <1>4, <1>5, Zenon DEF Fresher, SameRole

LEMMA RestRole ==
  ASSUME IInv, NEW b \in Boards
  PROVE  Fresher(b, router[b])
  BY DEF Fresher, SameRole, IInv, Records, Rest, Work, Record

\* What a step leaves of the records
LEMMA StepRoles ==
  ASSUME IInv, NEW b \in Boards, NEW y \in BOOLEAN, NEW t \in Work(b, y, TRUE), NEW q,
         Step(b, t, q)
  PROVE  /\ SameRole(t, router'[b])
         /\ \A d \in Boards : d # b => router'[d] = router[d]
         /\ wire' = Transmit(b, Port, t.out, q)
<1>1. PICK u : u = [t EXCEPT !.out = <<>>, !.bleed = 0, !.ready = TRUE, !.dropped = FALSE]
  OBVIOUS
<1>2. SameRole(t, u)
  BY <1>1 DEF Work, Record, SameRole
<1>3. router' = [router EXCEPT ![b] = u] /\ wire' = Transmit(b, Port, t.out, q)
  BY <1>1, Zenon DEF Step
<1>4. router = [d \in Boards |-> router[d]]
  BY DEF IInv, Records
<1>5. router'[b] = u /\ \A d \in Boards : d # b => router'[d] = router[d]
  BY <1>3, <1>4
<1>6. QED
  BY <1>2, <1>3, <1>5

\* Two records that agree on the role
LEMMA RoleReflexive ==
  ASSUME NEW r
  PROVE  SameRole(r, r)
  BY DEF SameRole

\* A handler that says nothing of the focus, or the speaker's that does
LEMMA HandlerAnnounces ==
  ASSUME IInv, FocusInv, NEW b \in Up, NEW r, Fresher(b, r),
         NEW y \in BOOLEAN, NEW t \in Work(b, y, TRUE),
         Mum(r, t) \/ (r.active = b /\ Kept(r, t) /\ Loud(t)),
         Step(b, t, wire)
  PROVE  FocusInv'
<1>1. b \in Boards /\ router[b].up
  BY DEF Up
<1>2. /\ SameRole(t, router'[b]) /\ wire' = Transmit(b, Port, t.out, wire)
      /\ \A d \in Boards : d # b => router'[d] = router[d]
  BY <1>1, StepRoles
<1>3. \A d \in Boards : d # b => SameRole(router[d], router'[d])
  BY <1>2, RoleReflexive
<1>4. Queues(wire) /\ Announced(router, wire) /\ b \in Running(router)
  BY RunningIsUp DEF IInv, FocusInv
<1>5. Seen(router[b], b)
  BY <1>1 DEF FocusInv, Announced
<1>6. CASE Mum(r, t)
  <2>1. t.up /\ t.focus = router[b].focus /\ (t.active = b => router[b].active = b)
    BY <1>1, <1>6 DEF Mum, Fresher, SameRole
  <2>2. Seen(t, b)
    BY <1>5, <1>6 DEF Mum, Fresher, SameRole, Seen
  <2>3. t.out \in Seq(Mild(b, t.caps))
    <3>1. r.out \in Seq(Mild(b, r.caps)) /\ r.self = b /\ t.caps = r.caps
      BY <1>6, EmptySeq DEF Fresher, Mum
    <3>2. QED
      BY <1>6, <3>1 DEF Mum
  <2>4. Announced(router', Transmit(b, Port, t.out, wire))
    BY <1>2, <1>3, <1>4, <2>1, <2>2, <2>3, MildAnnounced
  <2>5. QED
    BY <1>2, <2>4, Zenon DEF FocusInv
<1>7. CASE r.active = b /\ Kept(r, t) /\ Loud(t)
  <2>1. router[b].active = b
    BY <1>7 DEF Fresher, SameRole
  <2>2. Spoken(wire, b) /\ \A s \in Up : router[s].active = s => s = b
    BY <1>4, <2>1, RunningIsUp DEF Announced, OneSpeaker
  <2>3. t.up /\ t.self = b
    BY <1>1, <1>7 DEF Kept, Fresher, SameRole
  <2>4. Seen(t, b)
    BY <1>5, <1>7 DEF Kept, Fresher, SameRole, Seen
  <2>5. t.caps \in SUBSET Caps
    BY <1>1, Typed
  <2>6. Announced(router', Transmit(b, Port, t.out, wire))
    BY <1>2, <1>3, <1>4, <1>7, <2>2, <2>3, <2>4, <2>5, RunningIsUp, LoudAnnounced
  <2>7. QED
    BY <1>2, <2>6, Zenon DEF FocusInv
<1>8. QED
  BY <1>6, <1>7

\* The frames a handler starts with
LEMMA FresherOut ==
  ASSUME NEW b \in Boards, NEW r, Fresher(b, r)
  PROVE  r.out \in Seq(Mild(b, r.caps))
  BY EmptySeq DEF Fresher

\* Receive
LEMMA ReceiveAnnounces ==
  ASSUME IInv, FocusInv, NEW b \in Boards, NEW p \in Port, Receive(b, p)
  PROVE  FocusInv'
<1>1. b \in Up /\ wire[b][p] # <<>> /\ Queues(wire) /\ Announced(router, wire)
  BY DEF Receive, IInv, FocusInv
<1>2. PICK f : f = Head(wire[b][p])
  OBVIOUS
<1>3. PICK q : q = [wire EXCEPT ![b][p] = Tail(@)]
  OBVIOUS
<1>4. f \in Inbound(b, p)
  BY <1>1, <1>2, TakeWorks
<1>5. PICK v : v = IF f.dst = b THEN q ELSE Transmit(b, {Opposite(p)}, <<f>>, q)
  OBVIOUS
<1>6. Moved(wire, v, b, p, f) /\ Queues(v)
  BY <1>1, <1>2, <1>3, <1>5, ReceiveMoves
<1>7. PICK r \in Prepared(b) : Step(b, IF f.dst \in {b, Everyone} THEN Rx(r, f) ELSE r, v)
  BY <1>2, <1>3, <1>5, Zenon DEF Receive
<1>8. PICK y \in BOOLEAN : r \in Work(b, y, TRUE)
  BY PreparedWorks
<1>9. Fresher(b, r)
  BY PreparedRole
<1>10. PICK t : t = IF f.dst \in {b, Everyone} THEN Rx(r, f) ELSE r
  OBVIOUS
<1>11. PICK src \in Boards : f \in From(src) /\ src # b /\ f.src = src
  <2>1. PICK d \in Boards : f \in From(d)
    BY <1>4 DEF Inbound, Any
  <2>2. f.src = d
    BY <2>1 DEF From
  <2>3. d # b
    BY <1>4, <2>2, RoutingAssumption DEF Inbound, Boards
  <2>4. QED
    BY <2>1, <2>2, <2>3
<1>12. t \in Work(b, y, TRUE)
  <2>1. Rx(r, f) \in Work(b, y, TRUE)
    BY <1>8, <1>11, RxWorks
  <2>2. QED
    BY <1>8, <1>10, <2>1
<1>13. Step(b, t, v)
  BY <1>7, <1>10, Zenon
<1>14. /\ SameRole(t, router'[b]) /\ wire' = Transmit(b, Port, t.out, v)
       /\ \A d \in Boards : d # b => router'[d] = router[d]
  BY <1>12, <1>13, StepRoles
<1>15. Running(router) = Up
  BY RunningIsUp
<1>16. Proper(f) /\ \A s : Spoken(wire, s) => (f.type = "FOCUS" => f.src = s)
  <2>1. f = wire[b][p][1] /\ wire[b][p] \in Seq(Any)
    BY <1>1, <1>6, QueueLengths DEF Moved
  <2>2. 1 \in 1..Len(wire[b][p])
    BY <1>1, <2>1, EmptySeq, LenProperties
  <2>3. Proper(wire[b][p][1])
    BY <1>1, <2>2, Zenon DEF Announced, Framed
  <2>4. \A s : Spoken(wire, s) => (wire[b][p][1].type = "FOCUS" => wire[b][p][1].src = s)
    BY <2>2, Zenon DEF Spoken
  <2>5. QED
    BY <2>1, <2>3, <2>4, Zenon
<1>17. f.type = "FOCUS" => router[b].active # b
  BY <1>1, <1>11, <1>15, <1>16 DEF Announced
\* the chain with the frame on its way and b's focus up to date
<1>18. PICK x : x = IF f.type = "FOCUS" THEN f.arg ELSE router[b].focus
  OBVIOUS
<1>19. PICK n : n = [router[b] EXCEPT !.focus = x]
  OBVIOUS
<1>20. PICK rs : rs = [d \in Boards |-> IF d = b THEN n ELSE router[d]]
  OBVIOUS
<1>21. /\ n.up = router[b].up /\ n.caps = router[b].caps /\ n.chain = router[b].chain
       /\ n.active = router[b].active /\ n.focus = x
  BY <1>19 DEF IInv, Records, Rest, Work, Record
<1>22. rs[b] = n /\ \A d \in Boards : d # b => rs[d] = router[d]
  BY <1>20
<1>23. Running(rs) = Up
  BY <1>15, <1>21, <1>22 DEF Running
<1>24. \A d \in Boards : rs[d].active = router[d].active
  BY <1>21, <1>22
<1>25. Announced(rs, v)
  <2>1. OneSpeaker(rs) /\ Unbroken(Running(rs))
    <3>1. OneSpeaker(router) /\ Unbroken(Up)
      BY <1>1, <1>15 DEF Announced
    <3>2. Up \subseteq Boards
      BY DEF Up
    <3>3. QED
      BY <1>15, <1>23, <1>24, <3>1, <3>2 DEF OneSpeaker
  <2>2. \A d \in Boards : Seen(rs[d], d)
    BY <1>1, <1>21, <1>22 DEF Announced, Seen
  <2>3. Framed(v) /\ \A s : Spoken(wire, s) => Spoken(v, s)
    BY <1>1, <1>6, MovedFramed DEF Announced
  <2>4. ASSUME NEW s \in Running(rs), rs[s].active = s
        PROVE  Spoken(v, s) /\ Current(rs, v, s)
    <3>1. s \in Up /\ s \in Boards /\ router[s].active = s
      BY <1>23, <1>24, <2>4 DEF Up
    <3>2. Spoken(wire, s) /\ Current(router, wire, s)
      BY <1>1, <1>15, <3>1 DEF Announced
    <3>3. \A c \in Up : rs[c].focus = IF c = b /\ f.type = "FOCUS" THEN f.arg ELSE router[c].focus
      BY <1>18, <1>21, <1>22 DEF Up
    <3>4. Framed(wire) /\ Unbroken(Up)
      BY <1>1, <1>15 DEF Announced
    <3>5. Current(rs, v, s)
      BY <1>1, <1>4, <1>6, <1>15, <1>23, <3>1, <3>2, <3>3, <3>4, MoveCurrent
    <3>6. QED
      BY <2>3, <3>2, <3>5
  <2>5. QED
    BY <2>1, <2>2, <2>3, <2>4 DEF Announced
\* and then what b makes of it
<1>26. SameRole(router[b], r) /\ r.self = b
  BY <1>9 DEF Fresher
<1>27. r.out \in Seq(Mild(b, r.caps))
  BY <1>9, FresherOut
<1>28. Answer(r, f, t) \/ (t = r /\ f.type # "FOCUS")
  <2>1. CASE f.dst \in {b, Everyone}
    <3>1. Answer(r, f, Rx(r, f))
      BY <1>8, <1>11, <1>27, RxTells
    <3>2. QED
      BY <1>10, <2>1, <3>1, Zenon
  <2>2. CASE f.dst \notin {b, Everyone}
    BY <1>10, <1>16, <2>2 DEF Proper
  <2>3. QED
    BY <2>1, <2>2
<1>29. Seen(r, b)
  BY <1>1, <1>26 DEF Announced, Seen, SameRole
<1>30. t.self = b /\ t.up = router[b].up /\ t.caps = r.caps /\ (t.active = b => router[b].active = b)
  BY <1>26, <1>28 DEF Answer, SameRole
<1>31. Seen(t, b)
  <2>1. CASE t = r
    BY <1>29, <2>1
  <2>2. CASE Answer(r, f, t)
    <3>1. \A d \in Boards : t.chain[d] = IF d = src THEN Lesson(r, f) ELSE r.chain[d]
      BY <1>11, <2>2 DEF Answer
    <3>2. "used" \in Lesson(r, f)
      BY DEF Lesson
    <3>3. src \in Machines /\ Lesson(r, f) \notin {{}, {"used"}} => "HID_OUT" \in Lesson(r, f)
      <4>1. CASE f.type = "HELLO"
        BY <1>11, <1>16, <4>1 DEF Lesson, Proper
      <4>2. CASE f.type # "HELLO"
        <5>1. Lesson(r, f) = r.chain[src] \cup {"used"}
          BY <1>11, <4>2 DEF Lesson
        <5>2. src \in Machines /\ r.chain[src] \notin {{}, {"used"}} => "HID_OUT" \in r.chain[src]
          BY <1>11, <1>29 DEF Seen, Table
        <5>3. r.chain[src] \in {{}, {"used"}} => Lesson(r, f) = {"used"}
          BY <5>1
        <5>4. QED
          BY <5>1, <5>2, <5>3
      <4>3. QED
        BY <4>1, <4>2
    <3>4. Table(t.chain, b)
      BY <1>29, <3>1, <3>2, <3>3 DEF Seen, Table
    <3>5. QED
      BY <1>29, <1>30, <3>4 DEF Seen
  <2>3. QED
    BY <1>28, <2>1, <2>2
<1>32. \A d \in Boards : d # b => SameRole(rs[d], router'[d])
  BY <1>14, <1>22, RoleReflexive
<1>33. b \in Running(rs) /\ router[b].up
  BY <1>1, <1>23 DEF Up
<1>34. \/ t.focus = x /\ t.out \in Seq(Mild(b, t.caps))
       \/ router[b].active = b /\ Loud(t)
  <2>1. CASE t = r /\ f.type # "FOCUS"
    BY <1>18, <1>26, <1>27, <2>1 DEF SameRole
  <2>2. CASE Answer(r, f, t)
    BY <1>17, <1>18, <1>26, <1>30, <2>2 DEF Answer, SameRole
  <2>3. QED
    BY <1>28, <2>1, <2>2
<1>35. CASE t.focus = x /\ t.out \in Seq(Mild(b, t.caps))
  <2>1. t.focus = rs[b].focus /\ (t.active = b => rs[b].active = b)
    BY <1>21, <1>22, <1>30, <1>35
  <2>2. Announced(router', Transmit(b, Port, t.out, v))
    BY <1>6, <1>14, <1>25, <1>30, <1>31, <1>32, <1>33, <1>35, <2>1, MildAnnounced
  <2>3. QED
    BY <1>14, <2>2, Zenon DEF FocusInv
<1>36. CASE router[b].active = b /\ Loud(t)
  <2>1. rs[b].active = b
    BY <1>24, <1>36
  <2>2. Spoken(v, b) /\ \A s \in Up : rs[s].active = s => s = b
    BY <1>23, <1>25, <1>33, <2>1 DEF Announced, OneSpeaker
  <2>3. t.caps \in SUBSET Caps
    BY <1>12, Typed
  <2>4. Announced(router', Transmit(b, Port, t.out, v))
    BY <1>1, <1>6, <1>14, <1>23, <1>25, <1>30, <1>31, <1>32, <1>33, <1>36, <2>2, <2>3, LoudAnnounced
  <2>5. QED
    BY <1>14, <2>4, Zenon DEF FocusInv
<1>37. QED
  BY <1>34, <1>35, <1>36

\* Key, Mouse: a report of the real devices
LEMMA InputAnnounces ==
  ASSUME IInv, FocusInv, Keyboard \in Up, NEW i \in Input, NEW r \in Prepared(Keyboard),
         Step(Keyboard, LocalInput(r, i), wire)
  PROVE  FocusInv'
<1>1. Keyboard \in Boards
  BY RoutingAssumption
<1>2. PICK y \in BOOLEAN : r \in Work(Keyboard, y, TRUE)
  BY <1>1, PreparedWorks
<1>3. Fresher(Keyboard, r)
  BY <1>1, PreparedRole
<1>4. PICK t : t = LocalInput(r, i)
  OBVIOUS
<1>5. t \in Work(Keyboard, y, TRUE)
  <2>1. LocalInput(r, i) \in Work(Keyboard, y, TRUE)
    BY <1>1, <1>2, LocalInputWorks
  <2>2. QED
    BY <1>4, <2>1, Zenon
<1>6. Mum(r, t) \/ (r.active = Keyboard /\ Kept(r, t) /\ Loud(t))
  <2>1. r.out \in Seq(Mild(Keyboard, r.caps))
    BY <1>1, <1>3, FresherOut
  <2>2. \/ Mum(r, LocalInput(r, i))
        \/ /\ r.active = Keyboard
           /\ Kept(r, LocalInput(r, i)) /\ Loud(LocalInput(r, i))
    BY <1>1, <1>2, <2>1, LocalInputTells
  <2>3. QED
    BY <1>4, <2>2, Zenon
<1>7. Step(Keyboard, t, wire)
  BY <1>4, Zenon
<1>8. QED
  BY <1>3, <1>5, <1>6, <1>7, HandlerAnnounces

\* Key
LEMMA KeyAnnounces ==
  ASSUME IInv, FocusInv, Key
  PROVE  FocusInv'
<1>1. PICK down \in BOOLEAN : down = ("key" \notin phys)
  OBVIOUS
<1>2. PICK i : i = [kind |-> "KBD", down |-> down, dx |-> 0]
  OBVIOUS
<1>3. i \in Input
  BY <1>2 DEF Input
<1>4. PICK r \in Prepared(Keyboard) : Step(Keyboard, LocalInput(r, i), wire)
  BY <1>1, <1>2, Zenon DEF Key
<1>5. Keyboard \in Up
  BY DEF Key
<1>6. QED
  BY <1>3, <1>4, <1>5, InputAnnounces

\* Mouse
LEMMA MouseAnnounces ==
  ASSUME IInv, FocusInv, NEW down \in BOOLEAN, NEW dx \in {-1, 0, 1}, Mouse(down, dx)
  PROVE  FocusInv'
<1>1. PICK i : i = [kind |-> "MOUSE", down |-> down, dx |-> dx]
  OBVIOUS
<1>2. i \in Input
  BY <1>1 DEF Input
<1>3. PICK r \in Prepared(Keyboard) : Step(Keyboard, LocalInput(r, i), wire)
  BY <1>1, Zenon DEF Mouse
<1>4. Keyboard \in Up
  BY DEF Mouse
<1>5. QED
  BY <1>2, <1>3, <1>4, InputAnnounces

\* A focus the speaker chooses
LEMMA ApplyAnnounces ==
  ASSUME IInv, FocusInv, NEW b \in Up, IsActive(router[b]), NEW y \in BOOLEAN,
         NEW r \in Work(b, y, TRUE), Fresher(b, r), NEW target \in Addr,
         Step(b, ApplyFocus(r, target, 0), wire)
  PROVE  FocusInv'
<1>1. b \in Boards
  BY DEF Up
<1>2. PICK t : t = ApplyFocus(r, target, 0)
  OBVIOUS
<1>3. t \in Work(b, y, TRUE)
  <2>1. ApplyFocus(r, target, 0) \in Work(b, y, TRUE)
    BY <1>1, ApplyFocusWorks
  <2>2. QED
    BY <1>2, <2>1, Zenon
<1>4. Mum(r, t) \/ (Kept(r, t) /\ Loud(t))
  <2>1. r.out \in Seq(Mild(b, r.caps))
    BY <1>1, FresherOut
  <2>2. \/ Mum(r, ApplyFocus(r, target, 0))
        \/ Kept(r, ApplyFocus(r, target, 0)) /\ Loud(ApplyFocus(r, target, 0))
    BY <1>1, <2>1, ApplyFocusTells
  <2>3. QED
    BY <1>2, <2>2, Zenon
<1>5. r.active = b
  <2>1. PICK s \in Work(b, TRUE, TRUE) : s = router[b]
    BY <1>1, AtRest
  <2>2. s.self = b
    BY <1>1, Typed
  <2>3. QED
    BY <2>1, <2>2 DEF IsActive, Fresher, SameRole
<1>6. Step(b, t, wire)
  BY <1>2, Zenon
<1>7. QED
  BY <1>3, <1>4, <1>5, <1>6, HandlerAnnounces

\* Button
LEMMA ButtonAnnounces ==
  ASSUME IInv, FocusInv, NEW b \in Boards, Button(b)
  PROVE  FocusInv'
<1>1. PICK r \in Prepared(b) : Step(b, ApplyFocus(r, ButtonTarget(r), 0), wire)
  BY Zenon DEF Button
<1>2. PICK y \in BOOLEAN : r \in Work(b, y, TRUE)
  BY PreparedWorks
<1>3. ButtonTarget(r) \in Addr
  BY <1>2, TargetsIn
<1>4. Fresher(b, r)
  BY PreparedRole
<1>5. b \in Up /\ IsActive(router[b])
  BY DEF Button
<1>6. QED
  BY <1>1, <1>2, <1>3, <1>4, <1>5, ApplyAnnounces

\* CtlFocus
LEMMA CtlFocusAnnounces ==
  ASSUME IInv, FocusInv, NEW b \in Boards, NEW target \in Boards, CtlFocus(b, target)
  PROVE  FocusInv'
<1>1. PICK r \in Work(b, TRUE, TRUE) : r = router[b]
  BY AtRest
<1>2. target \in Addr
  BY DEF Addr
<1>3. Fresher(b, r)
  BY <1>1, RestRole
<1>4. b \in Up /\ IsActive(router[b]) /\ Step(b, ApplyFocus(r, target, 0), wire)
  BY <1>1 DEF CtlFocus
<1>5. QED
  BY <1>2, <1>3, <1>4, ApplyAnnounces

\* Tick
LEMMA TickAnnounces ==
  ASSUME IInv, FocusInv, NEW b \in Boards, Tick(b)
  PROVE  FocusInv'
<1>1. PICK deadline \in BOOLEAN : \E r \in Prepared(b) : Step(b, ServiceResign(r, deadline), wire)
  BY Zenon DEF Tick
<1>2. PICK r \in Prepared(b) : Step(b, ServiceResign(r, deadline), wire)
  BY <1>1, Zenon
<1>3. PICK y \in BOOLEAN : r \in Work(b, y, TRUE)
  BY PreparedWorks
<1>4. PICK t : t = ServiceResign(r, deadline)
  OBVIOUS
<1>5. t \in Work(b, y, TRUE)
  <2>1. ServiceResign(r, deadline) \in Work(b, y, TRUE)
    BY <1>3, ServiceResignWorks
  <2>2. QED
    BY <1>4, <2>1, Zenon
<1>6. Mum(r, t)
  <2>1. Mum(r, ServiceResign(r, deadline))
    BY <1>3, ServiceResignMum
  <2>2. QED
    BY <1>4, <2>1, Zenon
<1>7. Fresher(b, r) /\ Step(b, t, wire)
  BY <1>2, <1>4, PreparedRole
<1>8. b \in Up
  BY DEF Tick
<1>9. QED
  BY <1>5, <1>6, <1>7, <1>8, HandlerAnnounces

\* Advertise
LEMMA AdvertiseAnnounces ==
  ASSUME IInv, FocusInv, NEW b \in Boards, Advertise(b)
  PROVE  FocusInv'
<1>1. PICK r \in Work(b, TRUE, TRUE) : r = router[b]
  BY AtRest
<1>2. PICK t : t = SendHello(r)
  OBVIOUS
<1>3. t \in Work(b, TRUE, TRUE)
  <2>1. SendHello(r) \in Work(b, TRUE, TRUE)
    BY SendHelloWorks
  <2>2. QED
    BY <1>2, <2>1, Zenon
<1>4. Mum(r, t)
  <2>1. Mum(r, SendHello(r))
    BY SendHelloMum
  <2>2. QED
    BY <1>2, <2>1, Zenon
<1>5. Fresher(b, r)
  BY <1>1, RestRole
<1>6. b \in Up /\ Step(b, t, wire)
  BY <1>1, <1>2, Zenon DEF Advertise
<1>7. QED
  BY <1>3, <1>4, <1>5, <1>6, HandlerAnnounces

\* Expire
LEMMA ExpireAnnounces ==
  ASSUME IInv, FocusInv, NEW b \in Boards, Expire(b)
  PROVE  FocusInv'
<1>1. PICK r \in Work(b, TRUE, TRUE) : r = router[b]
  BY AtRest
<1>2. PICK t : t = [r EXCEPT !.active = NoAddr, !.vacancy_clean = FALSE]
  OBVIOUS
<1>3. t \in Work(b, TRUE, TRUE)
  <2>1. NoAddr \in Addr
    BY DEF Addr
  <2>2. QED
    BY <1>2, <2>1, FieldsWork
<1>4. Mum(r, t)
  <2>1. Mum(r, [r EXCEPT !.active = NoAddr, !.vacancy_clean = FALSE])
    BY FieldsMum
  <2>2. QED
    BY <1>2, <2>1, Zenon
<1>5. Fresher(b, r)
  BY <1>1, RestRole
<1>6. b \in Up /\ Step(b, t, wire)
  <2>1. b \in Up
    BY DEF Expire, Vanished
  <2>2. QED
    BY <1>1, <1>2, <2>1, Zenon DEF Expire
<1>7. QED
  BY <1>3, <1>4, <1>5, <1>6, HandlerAnnounces

\* At most one board, the coordinator, has no machine of its own
OneScreenless == \A a, b \in Boards \ Machines : a = b

LEMMA VoidSpoken ==
  ASSUME NEW w, Void(w), NEW s
  PROVE  Spoken(w, s)
<1>1. \A d \in Boards, p \in Port : 1..Len(w[d][p]) = {}
  BY DEF Void
<1>2. QED
  BY <1>1, Zenon DEF Spoken

\* A new speaker that knows of no screen is alone
LEMMA ScreenlessAlone ==
  ASSUME IInv, OneScreenless, NEW b \in Boards, Candidate(b), NEW r,
         r.self = b, r.caps = router[b].caps, r.chain = router[b].chain,
         Seen(r, b), NoAddr \in PickDefaultFocus(r)
  PROVE  Up = {b}
<1>1. "HID_OUT" \notin r.caps /\ Screens(r) \ {b} = {}
  <2>1. r.self # NoAddr
    BY RoutingAssumption
  <2>2. "HID_OUT" \notin r.caps
    BY <2>1 DEF PickDefaultFocus
  <2>3. PICK others : others = Screens(r) \ {b}
    OBVIOUS
  <2>4. NoAddr \notin others
    BY <2>3, RoutingAssumption DEF Screens, Known
  <2>5. others = {}
    BY <2>2, <2>3, <2>4 DEF PickDefaultFocus
  <2>6. QED
    BY <2>2, <2>3, <2>5
<1>2. b \notin Machines
  BY <1>1 DEF Seen
<1>3. ASSUME NEW d \in Up, d # b
      PROVE  FALSE
  <2>1. d \in Boards
    BY DEF Up
  <2>2. d \in Machines
    BY <1>2, <1>3, <2>1 DEF OneScreenless
  <2>3. r.chain[d] \notin {{}, {"used"}}
    BY <1>3 DEF Candidate
  <2>4. "HID_OUT" \in r.chain[d] /\ "used" \in r.chain[d]
    BY <1>3, <2>1, <2>2, <2>3 DEF Seen, Table
  <2>5. d \in Screens(r)
    BY <2>1, <2>4 DEF Screens, Known
  <2>6. QED
    BY <1>1, <1>3, <2>5
<1>4. b \in Up
  BY DEF Candidate
<1>5. QED
  BY <1>3, <1>4

\* and nobody hears it
LEMMA AloneUnheard ==
  ASSUME NEW w, Queues(w), Void(w), NEW b \in Boards, Up = {b}, NEW ms \in Seq(Any)
  PROVE  Void(Transmit(b, Port, ms, w))
<1>1. PICK w2 : w2 = Transmit(b, Port, ms, w)
  OBVIOUS
<1>2. ASSUME NEW d \in Boards, NEW p \in Port
      PROVE  w2[d][p] = <<>>
  <2>1. Port \in SUBSET Port
    OBVIOUS
  <2>2. Transmit(b, Port, ms, w)[d][p] =
          IF Opposite(p) \in Port /\ d = Hop(b, Opposite(p)) /\ d \in Up
          THEN w[d][p] \o ms ELSE w[d][p]
    BY <2>1, TransmitAt
  <2>3. b \in Int
    BY DEF Boards
  <2>4. Hop(b, Opposite(p)) # b
    BY <2>3 DEF Hop
  <2>5. ~(d = Hop(b, Opposite(p)) /\ d \in Up)
    BY <2>4
  <2>6. w2[d][p] = w[d][p]
    BY <1>1, <2>2, <2>5, Zenon
  <2>7. QED
    BY <2>6 DEF Void
<1>3. Void(w2)
  BY <1>2 DEF Void
<1>4. QED
  BY <1>1, <1>3, Zenon

\* A takeover: the new speaker announces the focus it starts with, or it is
\* alone
LEMMA PromotionAnnounces ==
  ASSUME IInv, FocusInv, OneScreenless, NEW b \in Boards, Candidate(b),
         router[b].active # b,
         NEW y \in BOOLEAN, NEW r \in Work(b, y, TRUE), r.self = b, r.up = router[b].up,
         r.caps = router[b].caps, r.chain = router[b].chain, r.out = <<>>,
         NEW t \in Promote(r), NEW rs2, SameRole(t, rs2[b]),
         \A d \in Boards : d # b => SameRole(router[d], rs2[d])
  PROVE  Announced(rs2, Transmit(b, Port, t.out, wire))
<1>1. Queues(wire) /\ Announced(router, wire) /\ Running(router) = Up
  BY RunningIsUp DEF IInv, FocusInv
<1>2. b \in Up /\ router[b].up /\ Void(wire)
  BY DEF Candidate, Up, Quiet, Void
<1>3. ASSUME NEW s \in Up
      PROVE  router[s].active # s
  <2>1. CASE s = b
    BY <2>1
  <2>2. CASE s # b
    <3>1. ~IsActive(router[s]) /\ s \in Boards
      BY <2>2 DEF Candidate, Up
    <3>2. PICK z \in Work(s, TRUE, TRUE) : z = router[s]
      BY <3>1, AtRest
    <3>3. z.self = s
      BY <3>1, Typed
    <3>4. QED
      BY <3>1, <3>2, <3>3 DEF IsActive
  <2>3. QED
    BY <2>1, <2>2
<1>4. r.out \in Seq(Mild(b, r.caps))
  BY EmptySeq
<1>5. Kept(r, t) /\ (NoAddr \notin PickDefaultFocus(r) => Loud(t))
  BY <1>4, PromoteTells
<1>6. t \in Work(b, y, TRUE)
  BY PromoteWorks
<1>7. t.caps \in SUBSET Caps /\ t.out \in Seq(From(b))
  BY <1>6, Typed
<1>8. t.self = b /\ t.up /\ t.caps = r.caps /\ t.chain = r.chain
  BY <1>2, <1>5 DEF Kept
<1>9. Seen(r, b) /\ Seen(t, b)
  BY <1>1, <1>8 DEF Announced, Seen
<1>10. CASE NoAddr \notin PickDefaultFocus(r)
  <2>1. Loud(t) /\ Spoken(wire, b)
    BY <1>2, <1>5, <1>10, VoidSpoken
  <2>2. QED
    BY <1>1, <1>2, <1>3, <1>7, <1>8, <1>9, <2>1, LoudAnnounced
<1>11. CASE NoAddr \in PickDefaultFocus(r)
  <2>1. Up = {b}
    BY <1>9, <1>11, ScreenlessAlone
  <2>2. PICK ms : ms = t.out
    OBVIOUS
  <2>3. ms \in Seq(Any)
    <3>1. From(b) \subseteq Any
      BY DEF Any
    <3>2. QED
      BY <1>7, <2>2, <3>1, SeqMonotonic
  <2>4. PICK w2 : w2 = Transmit(b, Port, ms, wire)
    OBVIOUS
  <2>5. Void(w2)
    <3>1. Void(Transmit(b, Port, ms, wire))
      BY <1>1, <1>2, <2>1, <2>3, AloneUnheard
    <3>2. QED
      BY <2>4, <3>1, Zenon
  <2>6. Running(rs2) = {b}
    <3>1. Running(router) = {b}
      BY <1>1, <2>1
    <3>2. rs2[b].up
      BY <1>8 DEF SameRole
    <3>3. \A d \in Boards : d # b => rs2[d].up = router[d].up
      BY DEF SameRole
    <3>4. QED
      BY <3>1, <3>2, <3>3 DEF Running
  <2>7. OneSpeaker(rs2) /\ Unbroken(Running(rs2))
    <3>1. b \in Int
      BY DEF Boards
    <3>2. QED
      BY <2>6, <3>1 DEF OneSpeaker, Unbroken
  <2>8. \A d \in Boards : Seen(rs2[d], d)
    BY <1>1, <1>9 DEF Announced, Seen, SameRole
  <2>9. \A s \in Running(rs2) : rs2[s].active = s =>
          \A c \in Running(rs2) : rs2[c].focus \in {NoAddr, rs2[s].focus}
    BY <2>6
  <2>10. Announced(rs2, w2)
    BY <2>5, <2>7, <2>8, <2>9, VoidAnnounced
  <2>11. QED
    BY <2>2, <2>4, <2>10, Zenon
<1>12. QED
  BY <1>10, <1>11

\* Takeover
LEMMA TakeoverAnnounces ==
  ASSUME IInv, FocusInv, OneScreenless, NEW b \in Boards, Takeover(b)
  PROVE  FocusInv'
<1>1. PICK r \in Prepared(b) : \E t \in Promote(r) : Step(b, t, wire)
  BY Zenon DEF Takeover
<1>2. PICK t \in Promote(r) : Step(b, t, wire)
  BY <1>1, Zenon
<1>3. PICK y \in BOOLEAN : r \in Work(b, y, TRUE)
  BY PreparedWorks
<1>4. Fresher(b, r)
  BY PreparedRole
<1>5. r.self = b /\ r.up = router[b].up /\ r.caps = router[b].caps
      /\ r.chain = router[b].chain /\ r.out = <<>>
  BY <1>4 DEF Fresher, SameRole
<1>6. Candidate(b) /\ router[b].active # b
  BY RoutingAssumption DEF Takeover
<1>7. t \in Work(b, y, TRUE)
  BY <1>2, <1>3, PromoteWorks
<1>8. /\ SameRole(t, router'[b]) /\ wire' = Transmit(b, Port, t.out, wire)
      /\ \A d \in Boards : d # b => router'[d] = router[d]
  BY <1>2, <1>7, StepRoles
<1>9. \A d \in Boards : d # b => SameRole(router[d], router'[d])
  BY <1>8, RoleReflexive
<1>10. Announced(router', Transmit(b, Port, t.out, wire))
  BY <1>2, <1>3, <1>5, <1>6, <1>8, <1>9, PromotionAnnounces
<1>11. QED
  BY <1>8, <1>10, Zenon DEF FocusInv

\* What is lost at the machines changes no role
LEMMA OrphanedRole ==
  ASSUME IInv, NEW d \in Boards
  PROVE  Fresher(d, Orphaned(router)[d]) /\ SameRole(router[d], Orphaned(router)[d])
<1>1. PICK l : l = router[d].lost \cup router[d].held
  OBVIOUS
<1>2. Orphaned(router)[d] = [router[d] EXCEPT !.lost = l]
  BY <1>1 DEF Orphaned
<1>3. PICK s \in Record(d, TRUE) : s = router[d] /\ s.out = <<>>
  BY DEF IInv, Records, Rest, Work
<1>4. PICK r : r = Orphaned(router)[d]
  OBVIOUS
<1>5. r = [s EXCEPT !.lost = l]
  BY <1>2, <1>3, <1>4
<1>6. /\ r.up = s.up /\ r.caps = s.caps /\ r.chain = s.chain
      /\ r.active = s.active /\ r.focus = s.focus /\ r.self = s.self /\ r.out = s.out
  BY <1>5 DEF Record
<1>7. s.self = d
  BY DEF Record
<1>8. Fresher(d, r) /\ SameRole(router[d], r)
  BY <1>3, <1>6, <1>7, Zenon DEF Fresher, SameRole
<1>9. QED
  BY <1>4, <1>8, Zenon

\* ExpireUnnoticed
LEMMA ExpireUnnoticedAnnounces ==
  ASSUME IInv, FocusInv, OneScreenless, NEW b \in Boards, ExpireUnnoticed(b)
  PROVE  FocusInv'
<1>1. PICK o : o = Orphaned(router)
  OBVIOUS
<1>2. Records(o)
  <2>1. Records(Orphaned(router))
    BY OrphanedWorks DEF IInv
  <2>2. QED
    BY <1>1, <2>1, Zenon
<1>3. PICK z \in Work(b, TRUE, TRUE) : z = o[b] /\ z.out = <<>>
  BY <1>2 DEF Records, Rest
<1>4. PICK s : s = [z EXCEPT !.active = NoAddr]
  OBVIOUS
<1>5. s \in Work(b, TRUE, TRUE)
  <2>1. NoAddr \in Addr
    BY DEF Addr
  <2>2. QED
    BY <1>4, <2>1, FieldsWork
<1>6. s.self = z.self /\ s.up = z.up /\ s.caps = z.caps /\ s.chain = z.chain /\ s.out = z.out
  BY <1>4 DEF Work, Record
<1>7. PICK r \in Promote(s) :
        /\ router' = [o EXCEPT ![b] = [r EXCEPT !.out = <<>>]]
        /\ wire' = Transmit(b, Port, r.out, wire)
  <2>1. s = [o[b] EXCEPT !.active = NoAddr]
    BY <1>3, <1>4
  <2>2. QED
    BY <1>1, <2>1, Zenon DEF ExpireUnnoticed
<1>8. r \in Work(b, TRUE, TRUE)
  BY <1>5, <1>7, PromoteWorks
<1>9. PICK t : t = [r EXCEPT !.out = <<>>]
  OBVIOUS
<1>10. SameRole(r, t)
  BY <1>8, <1>9 DEF Work, Record, SameRole
<1>11. \A d \in Boards : SameRole(router[d], o[d]) /\ Fresher(d, o[d])
  BY <1>1, OrphanedRole
<1>12. router' = [o EXCEPT ![b] = t]
  BY <1>7, <1>9, Zenon
<1>13. o = [d \in Boards |-> o[d]]
  BY <1>2 DEF Records
<1>14. router'[b] = t /\ \A d \in Boards : d # b => router'[d] = o[d]
  BY <1>12, <1>13
<1>15. SameRole(r, router'[b]) /\ \A d \in Boards : d # b => SameRole(router[d], router'[d])
  BY <1>10, <1>11, <1>14
<1>16. s.self = b /\ s.up = router[b].up /\ s.caps = router[b].caps
       /\ s.chain = router[b].chain /\ s.out = <<>>
  BY <1>3, <1>6, <1>11 DEF Fresher, SameRole
<1>17. Candidate(b) /\ router[b].active # b
  BY DEF ExpireUnnoticed, Vanished
<1>18. Announced(router', Transmit(b, Port, r.out, wire))
  BY <1>5, <1>7, <1>15, <1>16, <1>17, PromotionAnnounces
<1>19. QED
  BY <1>7, <1>18, Zenon DEF FocusInv

\* A booted board knows of no focus and no screen but its own
LEMMA BootRole ==
  ASSUME NEW b \in Boards
  PROVE  /\ Boot(b).self = b /\ Boot(b).up = FALSE /\ Boot(b).out = <<>>
         /\ Boot(b).active = NoAddr /\ Boot(b).focus = NoAddr /\ Seen(Boot(b), b)
<1>1. PICK c : c = [d \in Boards |-> IF d = b THEN CapsOf(b) \cup {"used"} ELSE {}]
  OBVIOUS
<1>2. /\ Boot(b).self = b /\ Boot(b).up = FALSE /\ Boot(b).out = <<>>
      /\ Boot(b).active = NoAddr /\ Boot(b).focus = NoAddr
      /\ Boot(b).caps = CapsOf(b) /\ Boot(b).chain = c
  BY <1>1 DEF Boot
<1>3. b \in Machines => "HID_OUT" \in CapsOf(b)
  BY DEF CapsOf
<1>4. \A d \in Boards \ {b} : c[d] = {}
  BY <1>1
<1>5. Table(c, b)
  BY <1>4 DEF Table
<1>6. QED
  BY <1>2, <1>3, <1>5 DEF Seen

\* Between two bursts of frames: boards come, go, and change their
\* capabilities, but nobody becomes the speaker or takes up a focus
LEMMA QuietAnnounced ==
  ASSUME FocusInv, Quiet, NEW rs, NEW w, Void(w), Unbroken(Running(rs)),
         \A b \in Boards : Seen(rs[b], b),
         \A b \in Running(rs) :
           rs[b].active = b => b \in Up /\ router[b].active = b /\ rs[b].focus = router[b].focus,
         \A c \in Running(rs) :
           rs[c].focus = NoAddr \/ (c \in Up /\ rs[c].focus = router[c].focus)
  PROVE  Announced(rs, w)
<1>1. Announced(router, wire) /\ Running(router) = Up /\ Void(wire)
  BY RunningIsUp DEF FocusInv, Quiet, Void
<1>2. OneSpeaker(rs)
  BY <1>1 DEF Announced, OneSpeaker
<1>3. ASSUME NEW s \in Running(rs), rs[s].active = s, NEW c \in Running(rs)
      PROVE  rs[c].focus \in {NoAddr, rs[s].focus}
  <2>1. s \in Up /\ router[s].active = s /\ rs[s].focus = router[s].focus
    BY <1>3
  <2>2. Current(router, wire, s)
    BY <1>1, <2>1 DEF Announced
  <2>3. \A d \in Up : router[d].focus \in {NoAddr, router[s].focus}
    BY <1>1, <2>1, <2>2, VoidAgrees
  <2>4. QED
    BY <1>3, <2>1, <2>3
<1>4. QED
  BY <1>2, <1>3, VoidAnnounced

\* PowerOn
LEMMA PowerOnAnnounces ==
  ASSUME IInv, FocusInv, NEW b \in Boards, PowerOn(b)
  PROVE  FocusInv'
<1>1. PICK r : r = [Boot(b) EXCEPT !.up = TRUE]
  OBVIOUS
<1>2. r \in Work(b, TRUE, TRUE)
  BY <1>1, StartWorks
<1>3. /\ r.self = b /\ r.up /\ r.out = <<>> /\ r.active = NoAddr /\ r.focus = NoAddr
      /\ Seen(r, b)
  <2>1. PICK s \in Work(b, TRUE, TRUE) : s = Boot(b)
    BY BootRests, RestWorks
  <2>2. r = [s EXCEPT !.up = TRUE]
    BY <1>1, <2>1
  <2>3. /\ r.self = s.self /\ r.up /\ r.out = s.out /\ r.active = s.active
        /\ r.focus = s.focus /\ r.caps = s.caps /\ r.chain = s.chain
    BY <2>2 DEF Work, Record
  <2>4. /\ s.self = b /\ s.out = <<>> /\ s.active = NoAddr /\ s.focus = NoAddr
        /\ Seen(s, b)
    BY <2>1, BootRole
  <2>5. QED
    BY <2>3, <2>4 DEF Seen
<1>4. PICK t : t = SendHello(r)
  OBVIOUS
<1>5. t \in Work(b, TRUE, TRUE) /\ Mum(r, t)
  <2>1. SendHello(r) \in Work(b, TRUE, TRUE)
    BY <1>2, SendHelloWorks
  <2>2. Mum(r, SendHello(r))
    BY <1>2, SendHelloMum
  <2>3. QED
    BY <1>4, <2>1, <2>2, Zenon
<1>6. Step(b, t, wire)
  BY <1>1, <1>4, Zenon DEF PowerOn
<1>7. /\ SameRole(t, router'[b]) /\ wire' = Transmit(b, Port, t.out, wire)
      /\ \A d \in Boards : d # b => router'[d] = router[d]
  BY <1>5, <1>6, StepRoles
\* the chain with the board on it
<1>8. PICK rs : rs = [d \in Boards |-> IF d = b THEN r ELSE router[d]]
  OBVIOUS
<1>9. rs[b] = r /\ \A d \in Boards : d # b => rs[d] = router[d]
  BY <1>8
<1>10. b \notin Up /\ Quiet /\ Unbroken(Up \cup {b})
  BY DEF PowerOn
<1>11. Running(rs) = Up \cup {b}
  BY <1>3, <1>9 DEF Running, Up
<1>12. Announced(rs, wire)
  <2>1. Void(wire)
    BY <1>10 DEF Quiet, Void
  <2>2. \A d \in Boards : Seen(rs[d], d)
    BY <1>3, <1>9 DEF FocusInv, Announced
  <2>3. r.active # b
    BY <1>3, RoutingAssumption
  <2>4. \A d \in Running(rs) :
          /\ rs[d].active = d =>
               d \in Up /\ router[d].active = d /\ rs[d].focus = router[d].focus
          /\ rs[d].focus = NoAddr \/ (d \in Up /\ rs[d].focus = router[d].focus)
    <3>1. Up \subseteq Boards
      BY DEF Up
    <3>2. QED
      BY <1>3, <1>9, <1>11, <2>3, <3>1
  <2>5. QED
    BY <1>10, <1>11, <2>1, <2>2, <2>4, QuietAnnounced
<1>13. /\ t.up /\ t.focus = rs[b].focus /\ (t.active = b => rs[b].active = b)
       /\ Seen(t, b) /\ t.caps = r.caps
  BY <1>3, <1>5, <1>9 DEF Mum, Seen
<1>14. t.out \in Seq(Mild(b, t.caps))
  <2>1. r.out \in Seq(Mild(b, r.caps))
    BY <1>3, EmptySeq
  <2>2. QED
    BY <1>3, <1>5, <1>13, <2>1 DEF Mum
<1>15. \A d \in Boards : d # b => SameRole(rs[d], router'[d])
  BY <1>7, <1>9, RoleReflexive
<1>16. Queues(wire) /\ b \in Running(rs)
  BY <1>11 DEF IInv
<1>17. Announced(router', Transmit(b, Port, t.out, wire))
  BY <1>7, <1>12, <1>13, <1>14, <1>15, <1>16, MildAnnounced
<1>18. QED
  BY <1>7, <1>17, Zenon DEF FocusInv

\* A board is off
LEMMA PowerOffRoles ==
  ASSUME IInv, NEW b \in Boards, NEW rs, rs = router \/ rs = Orphaned(router),
         NEW rs2, rs2 = PowerOff(b, rs)
  PROVE  /\ Running(rs2) = Up \ {b}
         /\ \A d \in Boards : Seen(router[d], d) => Seen(rs2[d], d)
         /\ \A d \in Boards \ {b} : SameRole(router[d], rs2[d])
<1>1. Records(rs)
  <2>1. Records(router) /\ Records(Orphaned(router))
    BY OrphanedWorks DEF IInv
  <2>2. QED
    BY <2>1
<1>2. \A d \in Boards : SameRole(router[d], rs[d])
  <2>1. \A d \in Boards : SameRole(router[d], Orphaned(router)[d])
    BY OrphanedRole
  <2>2. QED
    BY <2>1, RoleReflexive
<1>3. rs = [d \in Boards |-> rs[d]]
  BY <1>1 DEF Records
<1>4. PICK z : z = Boot(b)
  OBVIOUS
<1>5. rs2 = [rs EXCEPT ![b] = z]
  BY <1>4, Zenon DEF PowerOff
<1>6. rs2[b] = z /\ \A d \in Boards : d # b => rs2[d] = rs[d]
  BY <1>3, <1>5
<1>7. z.up = FALSE /\ Seen(z, b)
  BY <1>4, BootRole
<1>8. \A d \in Boards \ {b} : SameRole(router[d], rs2[d])
  BY <1>2, <1>6
<1>9. Running(rs2) = Up \ {b}
  BY <1>6, <1>7, <1>8 DEF Running, Up, SameRole
<1>10. \A d \in Boards : Seen(router[d], d) => Seen(rs2[d], d)
  BY <1>6, <1>7, <1>8 DEF SameRole, Seen
<1>11. QED
  BY <1>8, <1>9, <1>10

\* Crash
LEMMA CrashAnnounces ==
  ASSUME IInv, FocusInv, NEW b \in Boards, Crash(b)
  PROVE  FocusInv'
<1>1. router' = PowerOff(b, router) \/ router' = PowerOff(b, Orphaned(router))
  BY Zenon DEF Crash
<1>2. PICK rs : (rs = router \/ rs = Orphaned(router)) /\ router' = PowerOff(b, rs)
  BY <1>1
<1>3. PICK rs2 : rs2 = router'
  OBVIOUS
<1>4. /\ Running(rs2) = Up \ {b}
      /\ \A d \in Boards : Seen(router[d], d) => Seen(rs2[d], d)
      /\ \A d \in Boards \ {b} : SameRole(router[d], rs2[d])
  <2>1. rs2 = PowerOff(b, rs)
    BY <1>2, <1>3
  <2>2. QED
    BY <1>2, <2>1, PowerOffRoles
<1>5. Quiet /\ Unbroken(Up \ {b}) /\ wire' = Unplugged(b, wire)
  BY Zenon DEF Crash
<1>6. Void(wire')
  <2>1. PICK e : e = [p \in Port |-> <<>>]
    OBVIOUS
  <2>2. wire' = [wire EXCEPT ![b] = e]
    BY <1>5, <2>1, Zenon DEF Unplugged
  <2>3. wire = [d \in Boards |-> wire[d]]
    BY DEF IInv, Queues
  <2>4. wire'[b] = e /\ \A d \in Boards : d # b => wire'[d] = wire[d]
    BY <2>2, <2>3
  <2>5. QED
    BY <1>5, <2>1, <2>4 DEF Void, Quiet
<1>7. \A d \in Boards : Seen(rs2[d], d)
  BY <1>4 DEF FocusInv, Announced
<1>8. \A d \in Running(rs2) :
        d \in Up /\ rs2[d].active = router[d].active /\ rs2[d].focus = router[d].focus
  BY <1>4 DEF Up, SameRole
<1>9. Announced(rs2, wire')
  BY <1>4, <1>5, <1>6, <1>7, <1>8, QuietAnnounced
<1>10. QED
  BY <1>3, <1>9, Zenon DEF FocusInv

\* Exit: the only speaker leaves
LEMMA ExitAnnounces ==
  ASSUME IInv, FocusInv, NEW b \in Boards, Exit(b)
  PROVE  FocusInv'
<1>1. PICK rs2 : rs2 = router' /\ rs2 = PowerOff(b, Orphaned(router))
  BY Zenon DEF Exit
<1>2. PICK o : o = Orphaned(router)
  OBVIOUS
<1>3. /\ Running(rs2) = Up \ {b}
      /\ \A d \in Boards : Seen(router[d], d) => Seen(rs2[d], d)
      /\ \A d \in Boards \ {b} : SameRole(router[d], rs2[d])
  <2>1. rs2 = PowerOff(b, o)
    BY <1>1, <1>2
  <2>2. QED
    BY <1>2, <2>1, PowerOffRoles
<1>4. b \in Up /\ IsActive(router[b]) /\ Unbroken(Up \ {b}) /\ Quiet
  BY DEF Exit
<1>5. PICK r \in Work(b, TRUE, TRUE) : r = router[b] /\ r.out = <<>>
  <2>1. router[b] \in Rest(b)
    BY DEF IInv, Records
  <2>2. QED
    BY <2>1 DEF Rest
<1>6. r.self = b /\ r.active = b
  BY <1>4, <1>5, Typed DEF IsActive
<1>7. Announced(router, wire) /\ Running(router) = Up /\ Queues(wire)
  BY RunningIsUp DEF IInv, FocusInv
<1>8. \A s \in Running(rs2) : rs2[s].active # s
  <2>1. \A s \in Up : router[s].active = s => s = b
    BY <1>4, <1>5, <1>6, <1>7 DEF Announced, OneSpeaker
  <2>2. QED
    BY <1>3, <2>1 DEF SameRole, Up
<1>9. PICK M : M = Mild(b, r.caps)
  OBVIOUS
<1>10. PICK t : t = Send(r, "RESIGN", Everyone, 0)
  OBVIOUS
<1>11. PICK ms \in Seq(M) : ms = t.out
  <2>1. [type |-> "RESIGN", src |-> b, dst |-> Everyone, arg |-> 0] \in From(b)
    BY FrameForms DEF To
  <2>2. Mum(r, Send(r, "RESIGN", Everyone, 0))
    BY <2>1, SendMum
  <2>3. r.out \in Seq(Mild(b, r.caps))
    BY <1>5, EmptySeq
  <2>4. QED
    BY <1>6, <1>9, <1>10, <2>2, <2>3 DEF Mum
<1>12. wire' = Transmit(b, Port, ms, wire)
  BY <1>5, <1>10, <1>11, Zenon DEF Exit
<1>13. M \subseteq Any /\ M \subseteq From(b) /\ \A f \in M : f.type # "FOCUS" /\ Proper(f)
  <2>1. Seen(r, b)
    BY <1>5, <1>7 DEF Announced
  <2>2. QED
    BY <1>9, <2>1 DEF Mild, Any, Proper, Seen, From
<1>14. PICK w2 : w2 = Transmit(b, Port, ms, wire)
  OBVIOUS
<1>15. Grown(wire, w2, M)
  <2>1. Port \in SUBSET Port
    OBVIOUS
  <2>2. Grown(wire, Transmit(b, Port, ms, wire), M)
    BY <1>7, <1>13, <2>1, TransmitGrows
  <2>3. QED
    BY <1>14, <2>2, Zenon
<1>16. Queues(w2)
  <2>1. ms \in Seq(From(b))
    BY <1>13, SeqMonotonic
  <2>2. Queues(Transmit(b, Port, ms, wire))
    BY <1>7, <2>1, OwnFrames
  <2>3. QED
    BY <1>14, <2>2, Zenon
<1>17. Framed(w2)
  BY <1>7, <1>13, <1>15, <1>16, GrownFramed DEF Announced
<1>18. OneSpeaker(rs2) /\ \A d \in Boards : Seen(rs2[d], d)
  BY <1>3, <1>7, <1>8 DEF OneSpeaker, Announced
<1>19. Announced(rs2, w2)
  BY <1>3, <1>4, <1>8, <1>17, <1>18 DEF Announced
<1>20. QED
  BY <1>1, <1>12, <1>14, <1>19, Zenon DEF FocusInv

\* dhp_router_set_caps leaves the screens alone
LEMMA SetCapsRoles ==
  ASSUME IInv, FocusInv, Quiet, NEW rs, rs = router \/ rs = Orphaned(router),
         Keyboard \in Boards, NEW c, NEW S, "HID_OUT" \in router[Keyboard].caps => "HID_OUT" \in c,
         NEW rs2, rs2 = SetCaps(rs, Keyboard, c, S)
  PROVE  Announced(rs2, wire)
<1>1. Records(rs)
  <2>1. Records(router) /\ Records(Orphaned(router))
    BY OrphanedWorks DEF IInv
  <2>2. QED
    BY <2>1
<1>2. \A d \in Boards : SameRole(router[d], rs[d])
  <2>1. \A d \in Boards : SameRole(router[d], Orphaned(router)[d])
    BY OrphanedRole
  <2>2. QED
    BY <2>1, RoleReflexive
<1>3. rs = [d \in Boards |-> rs[d]]
  BY <1>1 DEF Records
<1>4. PICK r \in Record(Keyboard, TRUE) : r = rs[Keyboard]
  BY <1>1 DEF Records, Rest, Work
<1>5. PICK h : h = [r.chain EXCEPT ![Keyboard] = S]
  OBVIOUS
<1>6. PICK z : z = [r EXCEPT !.caps = c, !.chain = h]
  OBVIOUS
<1>7. rs2 = [rs EXCEPT ![Keyboard] = z]
  <2>1. SetCaps(rs, Keyboard, c, S) = [rs EXCEPT ![Keyboard] = NewCaps(rs[Keyboard], Keyboard, c, S)]
    BY <1>1, SetCapsIs
  <2>2. z = NewCaps(rs[Keyboard], Keyboard, c, S)
    BY <1>4, <1>5, <1>6, Zenon DEF NewCaps
  <2>3. QED
    BY <2>1, <2>2, Zenon
<1>8. rs2[Keyboard] = z /\ \A d \in Boards : d # Keyboard => rs2[d] = rs[d]
  BY <1>3, <1>7
<1>9. /\ z.up = r.up /\ z.active = r.active /\ z.focus = r.focus
      /\ z.caps = c /\ z.chain = h
  BY <1>6 DEF Record
<1>10. \A d \in Boards \ {Keyboard} : h[d] = r.chain[d]
  BY <1>5 DEF Record
<1>11. \A d \in Boards :
         /\ rs2[d].up = router[d].up /\ rs2[d].active = router[d].active
         /\ rs2[d].focus = router[d].focus
  BY <1>2, <1>4, <1>8, <1>9 DEF SameRole
<1>12. Running(rs2) = Up
  BY <1>11 DEF Running, Up
<1>13. \A d \in Boards : Seen(router[d], d)
  BY DEF FocusInv, Announced
<1>14. \A d \in Boards : Seen(rs2[d], d)
  <2>1. r.chain = router[Keyboard].chain
    BY <1>2, <1>4 DEF SameRole
  <2>2. Table(h, Keyboard)
    BY <1>10, <1>13, <2>1 DEF Seen, Table
  <2>3. Seen(z, Keyboard)
    BY <1>9, <1>13, <2>2 DEF Seen
  <2>4. \A d \in Boards : d # Keyboard => Seen(rs2[d], d)
    BY <1>2, <1>8, <1>13 DEF Seen, SameRole
  <2>5. QED
    BY <1>8, <2>3, <2>4
<1>15. Void(wire)
  BY DEF Quiet, Void
<1>16. Unbroken(Up) /\ Up \subseteq Boards
  BY RunningIsUp DEF FocusInv, Announced, Up
<1>17. QED
  BY <1>11, <1>12, <1>14, <1>15, <1>16, QuietAnnounced

\* Unplug
LEMMA UnplugAnnounces ==
  ASSUME IInv, FocusInv, Unplug
  PROVE  FocusInv'
<1>1. PICK o : o = Orphaned(router)
  OBVIOUS
<1>2. PICK c \in SUBSET Caps, S \in SUBSET (Caps \cup {"used"}) :
        /\ c = o[Keyboard].caps \ {"HID_IN"}
        /\ router' = SetCaps(o, Keyboard, c, S)
  BY <1>1, UnplugSets
<1>3. Keyboard \in Boards /\ Quiet /\ wire' = wire
  BY RoutingAssumption DEF Unplug
<1>4. "HID_OUT" \in router[Keyboard].caps => "HID_OUT" \in c
  <2>1. SameRole(router[Keyboard], o[Keyboard])
    BY <1>1, <1>3, OrphanedRole
  <2>2. QED
    BY <1>2, <2>1 DEF SameRole
<1>5. PICK rs2 : rs2 = router'
  OBVIOUS
<1>6. rs2 = SetCaps(o, Keyboard, c, S)
  BY <1>2, <1>5
<1>7. Announced(rs2, wire)
  BY <1>1, <1>3, <1>4, <1>6, SetCapsRoles
<1>8. QED
  BY <1>3, <1>5, <1>7, Zenon DEF FocusInv

\* Plug
LEMMA PlugAnnounces ==
  ASSUME IInv, FocusInv, Plug
  PROVE  FocusInv'
<1>1. PICK o : o = router
  OBVIOUS
<1>2. PICK c \in SUBSET Caps, S \in SUBSET (Caps \cup {"used"}) :
        /\ c = o[Keyboard].caps \cup {"HID_IN"}
        /\ router' = SetCaps(o, Keyboard, c, S)
  BY <1>1, PlugSets
<1>3. Keyboard \in Boards /\ Quiet /\ wire' = wire
  BY RoutingAssumption DEF Plug
<1>4. "HID_OUT" \in router[Keyboard].caps => "HID_OUT" \in c
  BY <1>1, <1>2
<1>5. PICK rs2 : rs2 = router'
  OBVIOUS
<1>6. rs2 = SetCaps(o, Keyboard, c, S)
  BY <1>2, <1>5
<1>7. Announced(rs2, wire)
  BY <1>1, <1>3, <1>4, <1>6, SetCapsRoles
<1>8. QED
  BY <1>3, <1>5, <1>7, Zenon DEF FocusInv

\* The invariant holds when every board is off
LEMMA InitFocusInv ==
  ASSUME Init
  PROVE  FocusInv
<1>1. \A b \in Boards : router[b] = Boot(b)
  BY Zenon DEF Init
<1>2. \A b \in Boards : Seen(router[b], b) /\ router[b].up = FALSE
  <2>1. \A b \in Boards : Seen(Boot(b), b) /\ Boot(b).up = FALSE
    BY BootRole
  <2>2. QED
    BY <1>1, <2>1
<1>3. Running(router) = {}
  BY <1>2 DEF Running
<1>4. Void(wire)
  BY DEF Init, Void
<1>5. OneSpeaker(router) /\ Unbroken(Running(router))
  BY <1>3 DEF OneSpeaker, Unbroken
<1>6. Announced(router, wire)
  BY <1>2, <1>3, <1>4, <1>5, VoidAnnounced
<1>7. QED
  BY <1>6 DEF FocusInv

\* and every step keeps it
LEMMA NextFocusInv ==
  ASSUME IInv, FocusInv, OneScreenless, [Next]_vars
  PROVE  FocusInv'
<1>1. ASSUME NEW b \in Boards, NEW p \in Port, Receive(b, p)
      PROVE  FocusInv'
  BY <1>1, ReceiveAnnounces
<1>2. ASSUME NEW b \in Boards, Button(b)
      PROVE  FocusInv'
  BY <1>2, ButtonAnnounces
<1>3. ASSUME NEW b \in Boards, NEW t \in Boards, CtlFocus(b, t)
      PROVE  FocusInv'
  BY <1>3, CtlFocusAnnounces
<1>4. ASSUME NEW b \in Boards, Tick(b)
      PROVE  FocusInv'
  BY <1>4, TickAnnounces
<1>5. ASSUME NEW b \in Boards, Advertise(b)
      PROVE  FocusInv'
  BY <1>5, AdvertiseAnnounces
<1>6. ASSUME NEW b \in Boards, PowerOn(b)
      PROVE  FocusInv'
  BY <1>6, PowerOnAnnounces
<1>7. ASSUME NEW b \in Boards, Takeover(b)
      PROVE  FocusInv'
  BY <1>7, TakeoverAnnounces
<1>8. ASSUME NEW b \in Boards, Expire(b)
      PROVE  FocusInv'
  BY <1>8, ExpireAnnounces
<1>9. ASSUME NEW b \in Boards, ExpireUnnoticed(b)
      PROVE  FocusInv'
  BY <1>9, ExpireUnnoticedAnnounces
<1>10. ASSUME NEW b \in Boards, Crash(b)
       PROVE  FocusInv'
  BY <1>10, CrashAnnounces
<1>11. ASSUME NEW b \in Boards, Exit(b)
       PROVE  FocusInv'
  BY <1>11, ExitAnnounces
<1>12. ASSUME NEW down \in BOOLEAN, NEW dx \in {-1, 0, 1}, Mouse(down, dx)
       PROVE  FocusInv'
  BY <1>12, MouseAnnounces
<1>13. CASE UNCHANGED vars
  <2>1. router' = router /\ wire' = wire
    BY <1>13 DEF vars
  <2>2. QED
    BY <2>1, Zenon DEF FocusInv
<1>14. QED
  BY <1>1, <1>2, <1>3, <1>4, <1>5, <1>6, <1>7, <1>8, <1>9, <1>10, <1>11, <1>12, <1>13,
     KeyAnnounces, UnplugAnnounces, PlugAnnounces, Zenon DEF Next

\* On a quiet chain it is what FocusAgrees says
LEMMA QuietAgrees ==
  ASSUME FocusInv
  PROVE  FocusAgrees
<1> SUFFICES ASSUME Quiet, NEW s \in Up, Settled(s), NEW b \in Up
             PROVE  router[b].focus \in {NoAddr, router[s].focus}
  BY DEF FocusAgrees
<1>1. Announced(router, wire) /\ Running(router) = Up /\ Void(wire)
  BY RunningIsUp DEF FocusInv, Quiet, Void
<1>2. router[s].active = s
  BY DEF Settled
<1>3. Current(router, wire, s)
  BY <1>1, <1>2 DEF Announced
<1>4. QED
  BY <1>1, <1>3, VoidAgrees

(* Every board that has heard of a focus shows the speaker's, on a chain of  *)
(* any length on which no two boards are without a machine (a coordinator    *)
(* is): the focus moves only with an announcement (apply_focus), a new       *)
(* speaker announces the one it starts with (drain_uhrp), and as links keep  *)
(* frames in order a newer announcement follows every older one, on the      *)
(* wires and in the boards that have heard it (dhp_router_rx).               *)
THEOREM OneFocus == OneScreenless => (Spec => []FocusAgrees)
  <1> SUFFICES ASSUME OneScreenless PROVE Spec => []FocusAgrees
    OBVIOUS
  <1>1. Init => FocusInv
    BY InitFocusInv
  <1>2. IInv /\ FocusInv /\ [Next]_vars => FocusInv'
    BY NextFocusInv
  <1>3. FocusInv => FocusAgrees
    BY QuietAgrees
  <1>4. QED
    BY <1>1, <1>2, <1>3, IInvHolds, PTL DEF Spec
=============================================================================
