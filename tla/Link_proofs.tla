---------------------------- MODULE Link_proofs ----------------------------
(***************************************************************************)
(* Proofs about the chain link, for any number of boards, any length of    *)
(* the counter and any sequence of sends, losses, restarts and re-keyings. *)
(* The argument follows the number a frame was sent under: a frame carries *)
(* the count of its sender since the sender's last boot, modulo the width  *)
(* of the counter, and a window holds the same of the newest frame         *)
(* accepted; JUMP is less than half the counter, so that the signed        *)
(* difference of two such numbers tells which frame is the older one.      *)
(***************************************************************************)
EXTENDS Link, SequenceTheorems, FiniteSetTheorems, TLAPS

\* No more boards talk than a replay table has slots
FewSenders == IsFiniteSet(Senders) /\ Cardinality(Senders) <= MaxSeen

\* On a line, the hops a frame has made are the way it has come
Placed(d, p, f) ==
  ~ring => TTL - f.ttl + 1 = (IF p = "UP" THEN d - f.src ELSE f.src - d)

\* base[s] is how many frames s had sent when it last booted
Fresh(base, f) ==
  /\ f.src \in Senders
  /\ base[f.src] < f.id
  /\ f.id <= sent[f.src]
  /\ sent[f.src] - f.id <= JUMP
  /\ f.seq = (f.id - 1 - base[f.src]) % SEQ

\* The frames that may be on their way to port p of d
Good(base, d, p) == {f \in Frame : Fresh(base, f) /\ Placed(d, p, f)}

Wires(base) == \A d \in Boards, p \in Port : wire[d][p] \in Seq(Good(base, d, p))

Counter(base) ==
  \A s \in Boards : base[s] <= sent[s] /\ tx_seq[s] = (sent[s] - base[s]) % SEQ

\* A window in use holds the number of a frame a, none older than the last
\* handed up, or of a frame of an earlier boot
Window(base, b, s) ==
  IF seen[b][s].used
  THEN /\ s \in Senders
       /\ \E a \in last[b][s]..sent[s] :
            \/ a <= base[s]
            \/ seen[b][s].high_seq = (a - 1 - base[s]) % SEQ
  ELSE last[b][s] = 0

Windows(base) == FewSenders => \A b, s \in Boards : Window(base, b, s)

\* Each port carries at most one copy of a frame, wherever it is by now
Single(w) ==
  \A p \in Port : \A d, e \in Boards :
    \A i \in DOMAIN w[d][p], j \in DOMAIN w[e][p] :
      w[d][p][i].src = w[e][p][j].src /\ w[d][p][i].id = w[e][p][j].id
        => d = e /\ i = j

IInv ==
  /\ TypeOK
  /\ MapIsTrue
  /\ Single(wire)
  /\ \E base \in [Boards -> Nat] : Counter(base) /\ Wires(base) /\ Windows(base)

-----------------------------------------------------------------------------
(* Arithmetic of the counter *)

\* Quotient and remainder
LEMMA DivMod ==
  ASSUME NEW a \in Int, NEW m \in Nat \ {0}
  PROVE  /\ a \div m \in Int
         /\ a % m \in 0..(m - 1)
         /\ a = m * (a \div m) + (a % m)
  OBVIOUS

\* The remainder is the only one that fits
LEMMA ModUnique ==
  ASSUME NEW a \in Int, NEW m \in Nat \ {0}, NEW q \in Int, NEW r \in 0..(m - 1),
         a = m * q + r
  PROVE  a % m = r
  OBVIOUS

\* A remainder two turns up at most
LEMMA ModShift ==
  ASSUME NEW a \in Int, NEW m \in Nat \ {0}, NEW r \in 0..(m - 1),
         a = m + r \/ a = 2 * m + r \/ a = r
  PROVE  a % m = r
  OBVIOUS

\* A counter that advances by less than a turn wraps at most once
LEMMA ModAdd ==
  ASSUME NEW x \in Int, NEW m \in Nat \ {0}, NEW k \in 0..(m - 1)
  PROVE  (x + k) % m = (x % m) + k \/ (x + k) % m = (x % m) + k - m
<1>1. PICK q, r \in Int : q = x \div m /\ r = x % m
  BY DivMod
<1>2. r \in 0..(m - 1) /\ x = m * q + r
  BY <1>1, DivMod
<1>3. CASE r + k < m
  <2>1. r + k \in 0..(m - 1) /\ x + k = m * q + (r + k) /\ x + k \in Int
    BY <1>2, <1>3
  <2>2. (x + k) % m = r + k
    BY <2>1, ModUnique
  <2>3. QED
    BY <1>1, <2>2
<1>4. CASE r + k >= m
  <2>1. r + k - m \in 0..(m - 1) /\ x + k = m * q + (r + k) /\ x + k \in Int
    BY <1>2, <1>4
  <2>2. m * (q + 1) = m * q + m
    OBVIOUS
  <2>3. x + k = m * (q + 1) + (r + k - m) /\ q + 1 \in Int
    BY <2>1, <2>2
  <2>4. (x + k) % m = r + k - m
    BY <2>1, <2>3, ModUnique
  <2>5. QED
    BY <1>1, <2>4
<1>5. QED
  BY <1>2, <1>3, <1>4

\* The counter as dhp_link_send steps it counts modulo its width
LEMMA ModStep ==
  ASSUME NEW x \in Nat, NEW m \in Nat \ {0, 1}
  PROVE  ((x % m) + 1) % m = (x + 1) % m
<1>0. m \in Nat \ {0} /\ 1 \in 0..(m - 1)
  OBVIOUS
<1>1. PICK r \in 0..(m - 1) : r = x % m
  BY <1>0, DivMod
<1>2. (x + 1) % m = r + 1 \/ (x + 1) % m = r + 1 - m
  <2>1. PICK y \in Int, k \in 0..(m - 1) : y = x /\ k = 1
    BY <1>0
  <2>2. (y + k) % m = (y % m) + k \/ (y + k) % m = (y % m) + k - m
    BY <1>0, ModAdd
  <2>3. QED
    BY <1>1, <2>1, <2>2
<1>3. PICK z \in 0..(m - 1) : z = (x + 1) % m
  BY <1>0, DivMod
<1>4. (r + 1) % m = z
  <2>1. r + 1 = z \/ r + 1 = m + z
    BY <1>2, <1>3
  <2>2. QED
    BY <2>1, <1>3, ModShift
<1>5. QED
  BY <1>1, <1>3, <1>4

\* What the constants give
LEMMA SeqWidth ==
  /\ SEQ \in Nat \ {0, 1}
  /\ JUMP \in Nat
  /\ SEQ \div 2 \in Nat
  /\ SEQ = 2 * (SEQ \div 2)
  /\ JUMP < SEQ \div 2
<1>1. JUMP \in Nat \ {0} /\ SEQ \in Nat /\ SEQ % 2 = 0 /\ 2 * JUMP < SEQ
  BY LinkAssumption
<1>2. /\ SEQ \div 2 \in Int
      /\ SEQ = 2 * (SEQ \div 2) + (SEQ % 2)
  BY <1>1
<1>3. PICK h \in Int : h = SEQ \div 2
  BY <1>2
<1>4. SEQ = 2 * h
  BY <1>1, <1>2, <1>3
<1>5. QED
  BY <1>1, <1>3, <1>4

\* The signed difference of the numbers of a frame and of one sent up to JUMP
\* later is how much older it is: seq_is_fresh calls it a replay
LEMMA OlderIsNegative ==
  ASSUME NEW x \in Nat, NEW k \in 0..JUMP
  PROVE  Signed((x % SEQ) - ((x + k) % SEQ)) = -k
<1>1. PICK h \in Nat : h = SEQ \div 2
  BY SeqWidth
<1>a. SEQ = 2 * h /\ JUMP < h /\ SEQ \in Nat \ {0} /\ JUMP \in Nat
  BY <1>1, SeqWidth
<1>2. SEQ = 2 * h /\ k < h /\ SEQ \in Nat \ {0} /\ k \in 0..(SEQ - 1) /\ h - k \in 0..(SEQ - 1)
  BY <1>a
<1>b. x % SEQ \in 0..(SEQ - 1) /\ (x + k) % SEQ \in 0..(SEQ - 1)
  <2>1. x \in Int /\ x + k \in Int
    BY <1>2
  <2>2. QED
    BY <2>1, <1>2, DivMod
<1>3. PICK r, z \in 0..(SEQ - 1) : r = x % SEQ /\ z = (x + k) % SEQ
  BY <1>b
<1>4. z = r + k \/ z = r + k - SEQ
  <2>1. PICK y \in Int, m \in Nat \ {0} : y = x /\ m = SEQ
    BY <1>2
  <2>2. k \in 0..(m - 1)
    BY <1>2, <2>1
  <2>3. (y + k) % m = (y % m) + k \/ (y + k) % m = (y % m) + k - m
    BY <2>2, ModAdd
  <2>4. QED
    BY <1>3, <2>1, <2>3
<1>5. r - z + SEQ + h = SEQ + (h - k) \/ r - z + SEQ + h = 2 * SEQ + (h - k)
  BY <1>4, <1>2
<1>6. (r - z + SEQ + h) % SEQ = h - k
  BY <1>5, <1>2, ModShift
<1>7. Signed(r - z) = ((r - z + SEQ + h) % SEQ) - h
  <2>1. Signed(r - z) = ((r - z + SEQ + SEQ \div 2) % SEQ) - SEQ \div 2
    BY DEF Signed
  <2>2. QED
    BY <2>1, <1>1
<1>8. Signed(r - z) = -k
  BY <1>6, <1>7, <1>2
<1>9. QED
  BY <1>8, <1>3

-----------------------------------------------------------------------------
(* Wires *)

Typed(w) == w \in [Boards -> [Port -> Seq(Frame)]]
Fits(w, S) == \A d \in Boards, p \in Port : w[d][p] \in Seq(S[d][p])
Put(w, d, p, f) == [w EXCEPT ![d][p] = Append(@, f)]
Take(w, d, p) == [w EXCEPT ![d][p] = Tail(@)]
Into(b, ps, p, f, w) ==
  IF p \in ps /\ Neighbour(b, p) \in Boards
  THEN Put(w, Neighbour(b, p), Opposite(p), f) ELSE w

\* No copy of frame n of s is under way to a port p
Absent(w, p, s, n) ==
  \A d \in Boards : \A i \in DOMAIN w[d][p] :
    ~(w[d][p][i].src = s /\ w[d][p][i].id = n)

\* A sequence whose members all lie in a set is a sequence over it
LEMMA Rebuild ==
  ASSUME NEW S, NEW T, NEW u \in Seq(S), \A i \in DOMAIN u : u[i] \in T
  PROVE  u \in Seq(T)
<1>1. Len(u) \in Nat /\ DOMAIN u = 1..Len(u) /\ u = [i \in 1..Len(u) |-> u[i]]
  BY LenProperties
<1>2. [i \in 1..Len(u) |-> u[i]] \in Seq(T)
  BY <1>1, IsASeq
<1>3. QED
  BY <1>1, <1>2

\* Appending to one queue
LEMMA PutIs ==
  ASSUME NEW w, Typed(w), NEW d \in Boards, NEW p \in Port, NEW f \in Frame
  PROVE  /\ Typed(Put(w, d, p, f))
         /\ Put(w, d, p, f)[d][p] = Append(w[d][p], f)
         /\ \A e \in Boards, q \in Port :
              ~(e = d /\ q = p) => Put(w, d, p, f)[e][q] = w[e][q]
<1>1. w[d][p] \in Seq(Frame) /\ Append(w[d][p], f) \in Seq(Frame)
  BY AppendProperties DEF Typed
<1>2. QED
  BY <1>1 DEF Typed, Put

\* Taking the head off one queue
LEMMA TakeIs ==
  ASSUME NEW w, Typed(w), NEW d \in Boards, NEW p \in Port, w[d][p] # <<>>
  PROVE  /\ Typed(Take(w, d, p))
         /\ Take(w, d, p)[d][p] = Tail(w[d][p])
         /\ \A e \in Boards, q \in Port :
              ~(e = d /\ q = p) => Take(w, d, p)[e][q] = w[e][q]
<1>1. w[d][p] \in Seq(Frame) /\ Tail(w[d][p]) \in Seq(Frame)
  BY HeadTailProperties DEF Typed
<1>2. QED
  BY <1>1 DEF Typed, Take

\* Good frames stay good frames
LEMMA PutFits ==
  ASSUME NEW S, NEW w, Typed(w), Fits(w, S), NEW d \in Boards, NEW p \in Port,
         NEW f \in Frame, f \in S[d][p]
  PROVE  Fits(Put(w, d, p, f), S)
<1>1. SUFFICES ASSUME NEW e \in Boards, NEW q \in Port
               PROVE  Put(w, d, p, f)[e][q] \in Seq(S[e][q])
  BY DEF Fits
<1>2. CASE e = d /\ q = p
  <2>1. w[d][p] \in Seq(S[d][p])
    BY DEF Fits
  <2>2. Append(w[d][p], f) \in Seq(S[d][p])
    BY <2>1, AppendProperties
  <2>3. Put(w, d, p, f)[d][p] = Append(w[d][p], f)
    BY PutIs
  <2>4. Put(w, d, p, f)[d][p] \in Seq(S[d][p])
    BY <2>2, <2>3, Zenon
  <2>5. QED
    BY <1>2, <2>4
<1>3. CASE ~(e = d /\ q = p)
  BY <1>3, PutIs DEF Fits
<1>4. QED
  BY <1>2, <1>3

\* and so does what is left of a queue
LEMMA TakeFits ==
  ASSUME NEW S, NEW w, Typed(w), Fits(w, S), NEW d \in Boards, NEW p \in Port,
         w[d][p] # <<>>
  PROVE  Fits(Take(w, d, p), S) /\ Head(w[d][p]) \in S[d][p]
<1>1. w[d][p] \in Seq(S[d][p])
  BY DEF Fits
<1>2. Tail(w[d][p]) \in Seq(S[d][p]) /\ Head(w[d][p]) \in S[d][p]
  BY <1>1, HeadTailProperties
<1>3. SUFFICES ASSUME NEW e \in Boards, NEW q \in Port
               PROVE  Take(w, d, p)[e][q] \in Seq(S[e][q])
  BY <1>2 DEF Fits
<1>4. CASE e = d /\ q = p
  BY <1>4, <1>2, TakeIs
<1>5. CASE ~(e = d /\ q = p)
  BY <1>5, TakeIs DEF Fits
<1>6. QED
  BY <1>4, <1>5

\* A frame not under way on a port may be put there once
LEMMA PutSingle ==
  ASSUME NEW w, Typed(w), Single(w), NEW d \in Boards, NEW p \in Port,
         NEW f \in Frame, Absent(w, p, f.src, f.id)
  PROVE  Single(Put(w, d, p, f))
<1> DEFINE v == Put(w, d, p, f)
<1>1. /\ v[d][p] = Append(w[d][p], f)
      /\ \A e \in Boards, q \in Port : ~(e = d /\ q = p) => v[e][q] = w[e][q]
  BY PutIs
<1>2. w[d][p] \in Seq(Frame)
  BY DEF Typed
<1>3. PICK n \in Nat : n = Len(w[d][p])
  BY <1>2, LenProperties
<1>4. /\ DOMAIN v[d][p] = 1..(n + 1) /\ DOMAIN w[d][p] = 1..n
      /\ v[d][p][n + 1] = f
      /\ \A i \in 1..n : v[d][p][i] = w[d][p][i]
  BY <1>1, <1>2, <1>3
<1> HIDE DEF v
<1>5. ASSUME NEW e \in Boards, NEW i \in DOMAIN v[e][p], ~(e = d /\ i = n + 1)
      PROVE  i \in DOMAIN w[e][p] /\ v[e][p][i] = w[e][p][i]
  BY <1>1, <1>4, <1>5
<1>6. ASSUME NEW q \in Port, NEW e \in Boards, NEW g \in Boards,
             NEW i \in DOMAIN v[e][q], NEW j \in DOMAIN v[g][q],
             v[e][q][i].src = v[g][q][j].src, v[e][q][i].id = v[g][q][j].id
      PROVE  e = g /\ i = j
  <2>1. CASE q # p
    <3>1. v[e][q] = w[e][q] /\ v[g][q] = w[g][q]
      BY <1>1, <2>1
    <3>2. QED
      BY <3>1, <1>6 DEF Single
  <2>2. CASE q = p /\ (e = d /\ i = n + 1) /\ (g = d /\ j = n + 1)
    BY <2>2
  <2>3. CASE q = p /\ (e = d /\ i = n + 1) /\ ~(g = d /\ j = n + 1)
    <3>1. j \in DOMAIN w[g][p] /\ v[g][p][j] = w[g][p][j]
      BY <1>5, <2>3
    <3>2. v[e][q][i] = f
      BY <1>4, <2>3
    <3>3. w[g][p][j].src = f.src /\ w[g][p][j].id = f.id
      BY <3>1, <3>2, <1>6, <2>3
    <3>4. QED
      BY <3>1, <3>3 DEF Absent
  <2>4. CASE q = p /\ ~(e = d /\ i = n + 1) /\ (g = d /\ j = n + 1)
    <3>1. i \in DOMAIN w[e][p] /\ v[e][p][i] = w[e][p][i]
      BY <1>5, <2>4
    <3>2. v[g][q][j] = f
      BY <1>4, <2>4
    <3>3. w[e][p][i].src = f.src /\ w[e][p][i].id = f.id
      BY <3>1, <3>2, <1>6, <2>4
    <3>4. QED
      BY <3>1, <3>3 DEF Absent
  <2>5. CASE q = p /\ ~(e = d /\ i = n + 1) /\ ~(g = d /\ j = n + 1)
    <3>1. j \in DOMAIN w[g][p] /\ v[g][p][j] = w[g][p][j]
      BY <1>5, <2>5
    <3>2. i \in DOMAIN w[e][p] /\ v[e][p][i] = w[e][p][i]
      BY <1>5, <2>5
    <3>3. QED
      BY <3>1, <3>2, <1>6, <2>5 DEF Single
  <2>6. QED
    BY <2>1, <2>2, <2>3, <2>4, <2>5
<1>7. Single(v)
  BY <1>6 DEF Single
<1>8. QED
  BY <1>7 DEF v

\* and a port is not concerned by what is put on the other
LEMMA PutAbsent ==
  ASSUME NEW w, Typed(w), NEW d \in Boards, NEW p \in Port, NEW q \in Port,
         p # q, NEW f \in Frame, NEW s, NEW n, Absent(w, q, s, n)
  PROVE  Absent(Put(w, d, p, f), q, s, n)
<1>1. \A e \in Boards : Put(w, d, p, f)[e][q] = w[e][q]
  BY PutIs
<1>2. QED
  BY <1>1 DEF Absent

\* A frame taken off a port is nowhere else on it
LEMMA TakeSingle ==
  ASSUME NEW w, Typed(w), Single(w), NEW d \in Boards, NEW p \in Port,
         w[d][p] # <<>>
  PROVE  /\ Single(Take(w, d, p))
         /\ Absent(Take(w, d, p), p, Head(w[d][p]).src, Head(w[d][p]).id)
<1> DEFINE v == Take(w, d, p)
<1>1. /\ v[d][p] = Tail(w[d][p])
      /\ \A e \in Boards, q \in Port : ~(e = d /\ q = p) => v[e][q] = w[e][q]
  BY TakeIs
<1>2. w[d][p] \in Seq(Frame)
  BY DEF Typed
<1>3. PICK n \in Nat : n = Len(w[d][p])
  BY <1>2, LenProperties
<1>4. n > 0
  BY <1>2, <1>3, EmptySeq
<1>5. /\ DOMAIN v[d][p] = 1..(n - 1) /\ DOMAIN w[d][p] = 1..n
      /\ w[d][p][1] = Head(w[d][p])
      /\ \A i \in 1..(n - 1) : v[d][p][i] = w[d][p][i + 1]
  BY <1>1, <1>2, <1>3, <1>4
<1> HIDE DEF v
\* where the i-th frame of v was in w
<1> DEFINE at(e, q, i) == IF e = d /\ q = p THEN i + 1 ELSE i
<1>6. ASSUME NEW e \in Boards, NEW q \in Port, NEW i \in DOMAIN v[e][q]
      PROVE  at(e, q, i) \in DOMAIN w[e][q] /\ v[e][q][i] = w[e][q][at(e, q, i)]
  <2>1. CASE e = d /\ q = p
    <3>1. i \in 1..(n - 1)
      BY <1>5, <1>6, <2>1
    <3>2. i + 1 \in 1..n /\ v[d][p][i] = w[d][p][i + 1]
      BY <1>5, <3>1
    <3>3. at(e, q, i) = i + 1
      BY <2>1
    <3>4. QED
      BY <3>2, <3>3, <2>1, <1>5
  <2>2. CASE ~(e = d /\ q = p)
    <3>1. at(e, q, i) = i /\ v[e][q] = w[e][q]
      BY <1>1, <2>2
    <3>2. QED
      BY <3>1, <1>6
  <2>3. QED
    BY <2>1, <2>2
<1>7. ASSUME NEW e \in Boards, NEW q \in Port, NEW i \in DOMAIN v[e][q],
             NEW j \in DOMAIN v[e][q], at(e, q, i) = at(e, q, j)
      PROVE  i = j
  <2>1. CASE e = d /\ q = p
    <3>1. i \in 1..(n - 1) /\ j \in 1..(n - 1)
      BY <1>5, <1>7, <2>1
    <3>2. i + 1 = j + 1
      BY <1>7, <2>1
    <3>3. QED
      BY <3>1, <3>2
  <2>2. CASE ~(e = d /\ q = p)
    BY <1>7, <2>2
  <2>3. QED
    BY <2>1, <2>2
<1>8. ASSUME NEW i \in DOMAIN v[d][p]
      PROVE  at(d, p, i) # 1
  BY <1>5, <1>8
<1>9. 1 \in DOMAIN w[d][p]
  BY <1>4, <1>5
<1> HIDE DEF at
<1>10. Single(v)
  <2>1. ASSUME NEW q \in Port, NEW e \in Boards, NEW g \in Boards,
               NEW i \in DOMAIN v[e][q], NEW j \in DOMAIN v[g][q],
               v[e][q][i].src = v[g][q][j].src, v[e][q][i].id = v[g][q][j].id
        PROVE  e = g /\ i = j
    <3>1. e = g /\ at(e, q, i) = at(g, q, j)
      BY <1>6, <2>1 DEF Single
    <3>2. QED
      BY <3>1, <1>7
  <2>2. QED
    BY <2>1 DEF Single
<1>11. Absent(v, p, Head(w[d][p]).src, Head(w[d][p]).id)
  <2>1. ASSUME NEW e \in Boards, NEW i \in DOMAIN v[e][p],
               v[e][p][i].src = Head(w[d][p]).src, v[e][p][i].id = Head(w[d][p]).id
        PROVE  FALSE
    <3>0. /\ at(e, p, i) \in DOMAIN w[e][p]
          /\ w[e][p][at(e, p, i)].src = w[d][p][1].src
          /\ w[e][p][at(e, p, i)].id = w[d][p][1].id
      BY <1>5, <1>6, <2>1
    <3>1. e = d /\ at(e, p, i) = 1
      BY <3>0, <1>9 DEF Single
    <3>2. QED
      BY <3>1, <1>8
  <2>2. QED
    BY <2>1 DEF Absent
<1>12. QED
  BY <1>10, <1>11 DEF v

\* Transmit puts the frame on each of the ports in turn
LEMMA TransmitIs ==
  ASSUME NEW w, NEW b, NEW ps, NEW f
  PROVE  Transmit(b, ps, f, w) = Into(b, ps, "UP", f, Into(b, ps, "DOWN", f, w))
  BY Zenon DEF Transmit, Into, Put

\* One port of a board
LEMMA IntoKeeps ==
  ASSUME NEW w, Typed(w), NEW b \in Boards, NEW ps, NEW p \in Port, NEW f \in Frame
  PROVE  Typed(Into(b, ps, p, f, w))
<1>1. Opposite(p) \in Port
  BY DEF Opposite, Port
<1>2. CASE p \in ps /\ Neighbour(b, p) \in Boards
  <2>1. Into(b, ps, p, f, w) = Put(w, Neighbour(b, p), Opposite(p), f)
    BY <1>2, Zenon DEF Into
  <2>2. PICK d \in Boards : d = Neighbour(b, p)
    BY <1>2
  <2>3. Typed(Put(w, d, Opposite(p), f))
    BY <1>1, PutIs
  <2>4. QED
    BY <2>1, <2>2, <2>3, Zenon
<1>3. CASE ~(p \in ps /\ Neighbour(b, p) \in Boards)
  BY <1>3, Zenon DEF Into
<1>4. QED
  BY <1>2, <1>3

\* and what it puts there fits
LEMMA IntoFits ==
  ASSUME NEW S, NEW w, Typed(w), Fits(w, S), NEW b \in Boards, NEW ps,
         NEW p \in Port, NEW f \in Frame,
         p \in ps /\ Neighbour(b, p) \in Boards
           => f \in S[Neighbour(b, p)][Opposite(p)]
  PROVE  Fits(Into(b, ps, p, f, w), S)
<1>1. Opposite(p) \in Port
  BY DEF Opposite, Port
<1>2. CASE p \in ps /\ Neighbour(b, p) \in Boards
  <2>1. Into(b, ps, p, f, w) = Put(w, Neighbour(b, p), Opposite(p), f)
    BY <1>2, Zenon DEF Into
  <2>2. PICK d \in Boards : d = Neighbour(b, p)
    BY <1>2
  <2>3. f \in S[d][Opposite(p)]
    BY <1>2, <2>2, Zenon
  <2>4. Fits(Put(w, d, Opposite(p), f), S)
    BY <1>1, <2>3, PutFits
  <2>5. QED
    BY <2>1, <2>2, <2>4, Zenon
<1>3. CASE ~(p \in ps /\ Neighbour(b, p) \in Boards)
  BY <1>3, Zenon DEF Into
<1>4. QED
  BY <1>2, <1>3

\* once, leaving the other port alone
LEMMA IntoSingle ==
  ASSUME NEW w, Typed(w), Single(w), NEW b \in Boards, NEW ps, NEW p \in Port,
         NEW f \in Frame, p \in ps => Absent(w, Opposite(p), f.src, f.id)
  PROVE  /\ Single(Into(b, ps, p, f, w))
         /\ \A q \in Port : q # Opposite(p) /\ Absent(w, q, f.src, f.id)
                              => Absent(Into(b, ps, p, f, w), q, f.src, f.id)
<1>1. Opposite(p) \in Port
  BY DEF Opposite, Port
<1>2. CASE p \in ps /\ Neighbour(b, p) \in Boards
  <2>1. Into(b, ps, p, f, w) = Put(w, Neighbour(b, p), Opposite(p), f)
    BY <1>2, Zenon DEF Into
  <2>2. PICK d \in Boards : d = Neighbour(b, p)
    BY <1>2
  <2>3. Single(Put(w, d, Opposite(p), f))
    BY <1>1, <1>2, PutSingle
  <2>4. \A q \in Port : q # Opposite(p) /\ Absent(w, q, f.src, f.id)
                          => Absent(Put(w, d, Opposite(p), f), q, f.src, f.id)
    BY <1>1, PutAbsent
  <2>5. QED
    BY <2>1, <2>2, <2>3, <2>4, Zenon
<1>3. CASE ~(p \in ps /\ Neighbour(b, p) \in Boards)
  <2>1. Into(b, ps, p, f, w) = w
    BY <1>3, Zenon DEF Into
  <2>2. QED
    BY <2>1, Zenon
<1>4. QED
  BY <1>2, <1>3

\* What leaves a board by some of its ports
LEMMA TransmitKeeps ==
  ASSUME NEW w, Typed(w), NEW b \in Boards, NEW ps, NEW f \in Frame
  PROVE  Typed(Transmit(b, ps, f, w))
<1>0. "UP" \in Port /\ "DOWN" \in Port
  BY DEF Port
<1>1. PICK v : v = Into(b, ps, "DOWN", f, w)
  OBVIOUS
<1>2. Typed(v)
  BY <1>0, <1>1, IntoKeeps, Zenon
<1>3. Typed(Into(b, ps, "UP", f, v))
  BY <1>0, <1>2, IntoKeeps, Zenon
<1>4. Transmit(b, ps, f, w) = Into(b, ps, "UP", f, v)
  BY <1>1, TransmitIs, Zenon
<1>5. QED
  BY <1>3, <1>4, Zenon

\* fits where it goes
LEMMA TransmitFits ==
  ASSUME NEW S, NEW w, Typed(w), Fits(w, S), NEW b \in Boards, NEW ps,
         NEW f \in Frame,
         \A q \in Port : q \in ps /\ Neighbour(b, q) \in Boards
                           => f \in S[Neighbour(b, q)][Opposite(q)]
  PROVE  Fits(Transmit(b, ps, f, w), S)
<1>0. "UP" \in Port /\ "DOWN" \in Port
  BY DEF Port
<1>1. PICK v : v = Into(b, ps, "DOWN", f, w)
  OBVIOUS
<1>2. Typed(v)
  BY <1>0, <1>1, IntoKeeps, Zenon
<1>3. Fits(v, S)
  <2>1. Fits(Into(b, ps, "DOWN", f, w), S)
    BY <1>0, IntoFits
  <2>2. QED
    BY <2>1, <1>1, Zenon
<1>4. Fits(Into(b, ps, "UP", f, v), S)
  BY <1>0, <1>2, <1>3, IntoFits
<1>5. Transmit(b, ps, f, w) = Into(b, ps, "UP", f, v)
  BY <1>1, TransmitIs, Zenon
<1>6. QED
  BY <1>4, <1>5, Zenon

\* and is there once
LEMMA TransmitSingle ==
  ASSUME NEW w, Typed(w), Single(w), NEW b \in Boards, NEW ps, NEW f \in Frame,
         \A q \in Port : q \in ps => Absent(w, Opposite(q), f.src, f.id)
  PROVE  Single(Transmit(b, ps, f, w))
<1>0. /\ "UP" \in Port /\ "DOWN" \in Port
      /\ Opposite("UP") = "DOWN" /\ Opposite("DOWN") = "UP"
  BY DEF Port, Opposite
<1>1. PICK v : v = Into(b, ps, "DOWN", f, w)
  OBVIOUS
<1>2. Typed(v)
  BY <1>0, <1>1, IntoKeeps, Zenon
<1>3. /\ Single(Into(b, ps, "DOWN", f, w))
      /\ \A q \in Port : q # Opposite("DOWN") /\ Absent(w, q, f.src, f.id)
                           => Absent(Into(b, ps, "DOWN", f, w), q, f.src, f.id)
  BY <1>0, IntoSingle
<1>4. "UP" \in ps => Absent(Into(b, ps, "DOWN", f, w), "DOWN", f.src, f.id)
  BY <1>0, <1>3
<1>5. Single(v) /\ ("UP" \in ps => Absent(v, Opposite("UP"), f.src, f.id))
  <2>1. "UP" \in ps => Absent(Into(b, ps, "DOWN", f, w), Opposite("UP"), f.src, f.id)
    BY <1>0, <1>4, Zenon
  <2>2. QED
    BY <1>1, <1>3, <2>1, Zenon
<1>6. Single(Into(b, ps, "UP", f, v))
  BY <1>0, <1>2, <1>5, IntoSingle
<1>7. Transmit(b, ps, f, w) = Into(b, ps, "UP", f, v)
  BY <1>1, TransmitIs, Zenon
<1>8. QED
  BY <1>6, <1>7, Zenon

-----------------------------------------------------------------------------
(* The invariant, part by part *)

\* The parts of the invariant beyond the types, and its witness
Books == \E base \in [Boards -> Nat] : Counter(base) /\ Wires(base) /\ Windows(base)
Room(base) == [d \in Boards |-> [p \in Port |-> Good(base, d, p)]]

\* Wires with the set of frames for each port as one function
LEMMA WiresFit ==
  ASSUME NEW base
  PROVE  Wires(base) <=> Fits(wire, Room(base))
  BY DEF Wires, Fits, Room

\* The same, after a step
LEMMA WiresFitNext ==
  ASSUME NEW CONSTANT base
  PROVE  Wires(base)' <=> Fits(wire', Room(base)')
  BY DEF Wires, Fits, Room

\* Every frame on a wire counts among its sender's
LEMMA OnWireHolds ==
  ASSUME NEW d \in Boards, NEW p \in Port, NEW i \in DOMAIN wire[d][p]
  PROVE  wire[d][p][i].id \in OnWire(wire[d][p][i].src)
<1> DEFINE s == wire[d][p][i].src
           ids(e, q) == {wire[e][q][k].id : k \in {j \in DOMAIN wire[e][q] :
                                                    wire[e][q][j].src = s}}
<1>1. wire[d][p][i].id \in ids(d, p)
  OBVIOUS
<1>2. OnWire(s) = UNION {ids(e, q) : e \in Boards, q \in Port}
  BY DEF OnWire
<1> HIDE DEF ids, s
<1>3. wire[d][p][i].id \in OnWire(s)
  BY <1>1, <1>2
<1>4. QED
  BY <1>3 DEF s

\* A frame that only leaves the wire disturbs nothing else
LEMMA DropKeeps ==
  ASSUME TypeOK, MapIsTrue, Single(wire), Books,
         NEW b \in Boards, NEW p \in Port, wire[b][p] # <<>>,
         wire' = Take(wire, b, p),
         UNCHANGED <<ring, tx_seq, seen, rel_pos, sent, last>>
  PROVE  Typed(wire') /\ MapIsTrue' /\ Single(wire)' /\ Books'
<1>1. Typed(wire)
  BY DEF TypeOK, Typed
<1>2. Typed(wire')
  BY <1>1, TakeIs, Zenon
<1>3. MapIsTrue'
  BY DEF MapIsTrue
<1>4. Single(wire')
  BY <1>1, TakeSingle, Zenon
<1>5. Books'
  <2>1. PICK base \in [Boards -> Nat] : Counter(base) /\ Wires(base) /\ Windows(base)
    BY DEF Books
  <2>2. Counter(base)' /\ Windows(base)'
    BY <2>1 DEF Counter, Windows, Window
  <2>3. Room(base)' = Room(base)
    BY DEF Room, Good, Fresh, Placed
  <2>4. Fits(wire, Room(base))
    BY <2>1, WiresFit
  <2>5. Fits(Take(wire, b, p), Room(base))
    BY <1>1, <2>4, TakeFits
  <2>6. Fits(wire', Room(base)')
    BY <2>3, <2>5, Zenon
  <2>7. Wires(base)'
    BY <2>6, WiresFitNext
  <2>8. QED
    BY <2>1, <2>2, <2>7 DEF Books
<1>6. QED
  BY <1>2, <1>3, <1>4, <1>5

\* Nor does a step that leaves the wires, the counters and the windows alone
LEMMA StillKeeps ==
  ASSUME MapIsTrue, Single(wire), Books,
         UNCHANGED <<ring, tx_seq, seen, rel_pos, wire, sent, last>>
  PROVE  MapIsTrue' /\ Single(wire)' /\ Books'
<1>1. MapIsTrue' /\ Single(wire)'
  BY DEF MapIsTrue, Single
<1>2. PICK base \in [Boards -> Nat] : Counter(base) /\ Wires(base) /\ Windows(base)
  BY DEF Books
<1>3. Counter(base)' /\ Windows(base)'
  BY <1>2 DEF Counter, Windows, Window
<1>4. Room(base)' = Room(base)
  BY DEF Room, Good, Fresh, Placed
<1>5. Fits(wire', Room(base)')
  BY <1>2, <1>4, WiresFit, Zenon
<1>6. QED
  BY <1>1, <1>2, <1>3, <1>5, WiresFitNext DEF Books

\* Refuse: the frame goes, unheard
LEMMA RefuseKeeps ==
  ASSUME IInv, NEW b \in Boards, NEW p \in Port, Refuse(b, p)
  PROVE  IInv'
<1>1. TypeOK /\ MapIsTrue /\ Single(wire) /\ Books
  BY DEF IInv, Books
<1>2. wire' = Take(wire, b, p) /\ wire[b][p] # <<>>
  BY DEF Refuse, Take
<1>3. Typed(wire') /\ MapIsTrue' /\ Single(wire)' /\ Books'
  BY <1>1, <1>2, DropKeeps DEF Refuse
<1>4. TypeOK'
  BY <1>1, <1>3 DEF TypeOK, Typed, Refuse
<1>5. QED
  BY <1>3, <1>4 DEF IInv, Books

\* Lose: the frame goes, unseen
LEMMA LoseKeeps ==
  ASSUME IInv, NEW b \in Boards, NEW p \in Port, Lose(b, p)
  PROVE  IInv'
<1>1. TypeOK /\ MapIsTrue /\ Single(wire) /\ Books
  BY DEF IInv, Books
<1>2. wire' = Take(wire, b, p) /\ wire[b][p] # <<>>
  BY DEF Lose, Take
<1>3. Typed(wire') /\ MapIsTrue' /\ Single(wire)' /\ Books'
  BY <1>1, <1>2, DropKeeps DEF Lose
<1>4. faults' \in 0..MaxFaults
  BY <1>1, LinkAssumption DEF TypeOK, Lose, Budget
<1>5. TypeOK'
  BY <1>1, <1>3, <1>4 DEF TypeOK, Typed, Lose
<1>6. QED
  BY <1>3, <1>5 DEF IInv, Books

\* Replayed: the frame goes, counted as refused
LEMMA ReplayedKeeps ==
  ASSUME IInv, NEW b \in Boards, NEW p \in Port, Replayed(b, p)
  PROVE  IInv'
<1>1. TypeOK /\ MapIsTrue /\ Single(wire) /\ Books
  BY DEF IInv, Books
<1>2. wire' = Take(wire, b, p) /\ wire[b][p] # <<>>
  BY DEF Replayed, Take
<1>3. Typed(wire') /\ MapIsTrue' /\ Single(wire)' /\ Books'
  BY <1>1, <1>2, DropKeeps DEF Replayed
<1>4. missed' \in [Boards -> [Boards -> Seq(1..MaxSend)]]
  <2>1. PICK f : f = Head(wire[b][p])
    OBVIOUS
  <2>2. wire[b][p] \in Seq(Frame)
    BY <1>1 DEF TypeOK
  <2>3. f \in Frame
    BY <2>1, <2>2, <1>2, HeadTailProperties
  <2>4. f.src \in Boards /\ f.id \in 1..MaxSend
    BY <2>3 DEF Frame
  <2>5. missed' = [missed EXCEPT ![b][f.src] = Append(@, f.id)]
    BY <2>1, Zenon DEF Replayed
  <2>6. missed \in [Boards -> [Boards -> Seq(1..MaxSend)]]
    BY <1>1 DEF TypeOK
  <2>7. Append(missed[b][f.src], f.id) \in Seq(1..MaxSend)
    BY <2>4, <2>6, AppendProperties
  <2>8. QED
    BY <2>4, <2>5, <2>6, <2>7
<1>5. TypeOK'
  BY <1>1, <1>3, <1>4 DEF TypeOK, Typed, Replayed
<1>6. QED
  BY <1>3, <1>5 DEF IInv, Books

\* Rekey: only who holds the key changes
LEMMA RekeyKeeps ==
  ASSUME IInv, NEW b \in Boards, Rekey(b)
  PROVE  IInv'
<1>1. TypeOK /\ MapIsTrue /\ Single(wire) /\ Books
  BY DEF IInv, Books
<1>2. MapIsTrue' /\ Single(wire)' /\ Books'
  BY <1>1, StillKeeps DEF Rekey
<1>3. faults' \in 0..MaxFaults
  BY <1>1, LinkAssumption DEF TypeOK, Rekey, Budget
<1>4. TypeOK'
  BY <1>1, <1>3 DEF TypeOK, Rekey
<1>5. QED
  BY <1>2, <1>4 DEF IInv, Books

\* Counts are numbers
LEMMA Counts ==
  ASSUME TypeOK
  PROVE  /\ sent \in [Boards -> 0..MaxSend] /\ MaxSend \in Nat
         /\ last \in [Boards -> [Boards -> 0..MaxSend]]
         /\ \A b \in Boards : sent[b] \in Nat
         /\ \A b, s \in Boards : last[b][s] \in Nat
<1>1. /\ sent \in [Boards -> 0..MaxSend] /\ MaxSend \in Nat
      /\ last \in [Boards -> [Boards -> 0..MaxSend]]
  BY LinkAssumption DEF TypeOK
<1>2. QED
  BY <1>1

\* Where a frame gets to that leaves b by port q
LEMMA NextPlace ==
  ASSUME NEW b \in Boards, NEW q \in Port, ~ring
  PROVE  Neighbour(b, q) = (IF q = "UP" THEN b - 1 ELSE b + 1)
  BY Zenon DEF Neighbour

\* The frame that b sends next fits where it goes
LEMMA NewFrameFits ==
  ASSUME TypeOK, NEW CONSTANT base \in [Boards -> Nat], Counter(base),
         NEW b \in Senders, NEW q \in Port, NEW f \in Frame,
         f.src = b, f.seq = tx_seq[b], f.ttl = TTL, f.id = sent[b] + 1,
         sent' = [sent EXCEPT ![b] = @ + 1], ring' = ring,
         Neighbour(b, q) \in Boards
  PROVE  f \in Room(base)'[Neighbour(b, q)][Opposite(q)]
<1>0. b \in Boards /\ Opposite(q) \in Port
  BY LinkAssumption DEF Boards, Opposite, Port
<1>1. /\ sent[b] \in Nat /\ base[b] \in Nat /\ base[b] <= sent[b]
      /\ tx_seq[b] = (sent[b] - base[b]) % SEQ
  BY <1>0 DEF TypeOK, Counter
<1>2. sent'[b] = sent[b] + 1
  BY <1>0 DEF TypeOK
<1>3. Fresh(base, f)'
  <2>1. sent[b] + 1 - 1 - base[b] = sent[b] - base[b]
    BY <1>1
  <2>2. f.seq = (f.id - 1 - base[f.src]) % SEQ
    BY <1>1, <2>1
  <2>3. sent'[b] - f.id <= JUMP
    BY <1>1, <1>2, LinkAssumption
  <2>4. QED
    BY <1>1, <1>2, <2>2, <2>3 DEF Fresh
<1>4. PICK d \in Boards : d = Neighbour(b, q)
  OBVIOUS
<1>5. Placed(d, Opposite(q), f)'
  <2>1. SUFFICES ASSUME ~ring
                 PROVE  TTL - f.ttl + 1 = (IF Opposite(q) = "UP" THEN d - f.src ELSE f.src - d)
    BY DEF Placed
  <2>2. d = (IF q = "UP" THEN b - 1 ELSE b + 1)
    BY <2>1, <1>0, <1>4, NextPlace
  <2>3. (Opposite(q) = "UP") <=> (q # "UP")
    BY DEF Opposite, Port
  <2>4. TTL \in Int /\ b \in Int
    BY <1>0, LinkAssumption DEF Boards
  <2>5. QED
    BY <2>2, <2>3, <2>4
<1>6. f \in Good(base, d, Opposite(q))'
  BY <1>3, <1>5 DEF Good, Frame, Boards
<1>7. Room(base)'[d][Opposite(q)] = Good(base, d, Opposite(q))'
  BY <1>0 DEF Room
<1>8. QED
  BY <1>4, <1>6, <1>7, Zenon

\* What is under way stays good while its sender goes on
LEMMA OldFramesFit ==
  ASSUME TypeOK, NEW CONSTANT base \in [Boards -> Nat], Wires(base),
         NEW b \in Boards, \A id \in OnWire(b) : sent[b] + 1 - id <= JUMP,
         sent' = [sent EXCEPT ![b] = @ + 1], ring' = ring
  PROVE  Fits(wire, Room(base)')
<1>1. SUFFICES ASSUME NEW d \in Boards, NEW p \in Port
               PROVE  wire[d][p] \in Seq(Good(base, d, p)')
  BY DEF Fits, Room
<1>2. wire[d][p] \in Seq(Good(base, d, p))
  BY DEF Wires
<1>3. ASSUME NEW i \in DOMAIN wire[d][p]
      PROVE  wire[d][p][i] \in Good(base, d, p)'
  <2>1. PICK f : f = wire[d][p][i]
    OBVIOUS
  <2>2. f \in Good(base, d, p)
    BY <1>2, <1>3, <2>1, ElementOfSeq
  <2>3. f \in Frame /\ Fresh(base, f) /\ Placed(d, p, f)
    BY <2>2 DEF Good
  <2>4. f.src \in Boards /\ f.id \in Nat
    BY <2>3 DEF Frame
  <2>5. /\ sent[f.src] \in Nat /\ sent[b] \in Nat
        /\ sent'[f.src] = (IF f.src = b THEN sent[b] + 1 ELSE sent[f.src])
    <3>1. sent \in [Boards -> 0..MaxSend] /\ sent[f.src] \in Nat /\ sent[b] \in Nat
      BY <2>4, Counts
    <3>2. QED
      BY <2>4, <3>1
  <2>6. f.src = b => sent[b] + 1 - f.id <= JUMP
    BY <1>3, <2>1, OnWireHolds
  <2>7. f.id <= sent'[f.src] /\ sent'[f.src] - f.id <= JUMP
    BY <2>3, <2>4, <2>5, <2>6 DEF Fresh
  <2>8. Fresh(base, f)'
    BY <2>3, <2>7 DEF Fresh
  <2>9. Placed(d, p, f)'
    BY <2>3 DEF Placed
  <2>10. QED
    BY <2>1, <2>3, <2>8, <2>9 DEF Good, Frame, Boards
<1>4. QED
  BY <1>2, <1>3, Rebuild

\* The next number of b is on no wire yet
LEMMA NewFrameAbsent ==
  ASSUME TypeOK, NEW base, Wires(base), NEW b \in Boards, NEW p \in Port
  PROVE  Absent(wire, p, b, sent[b] + 1)
<1>1. SUFFICES ASSUME NEW d \in Boards, NEW i \in DOMAIN wire[d][p],
                      wire[d][p][i].src = b, wire[d][p][i].id = sent[b] + 1
               PROVE  FALSE
  BY DEF Absent
<1>2. wire[d][p] \in Seq(Good(base, d, p))
  BY DEF Wires
<1>3. wire[d][p][i] \in Good(base, d, p)
  BY <1>1, <1>2, ElementOfSeq
<1>4. sent[b] + 1 <= sent[b]
  BY <1>1, <1>3 DEF Good, Fresh
<1>5. QED
  BY <1>4, Counts

\* Send: dhp_link_send
LEMMA SendKeeps ==
  ASSUME IInv, NEW b \in Boards, NEW type \in Types, NEW dst \in Dsts \ {b},
         b \in Senders, Send(b, type, dst)
  PROVE  IInv'
<1>1. TypeOK /\ MapIsTrue /\ Single(wire) /\ Books
  BY DEF IInv, Books
<1>2. PICK base \in [Boards -> Nat] : Counter(base) /\ Wires(base) /\ Windows(base)
  BY <1>1 DEF Books
<1>3. PICK f : f = [type |-> type, src |-> b, dst |-> dst, seq |-> tx_seq[b],
                    ttl |-> TTL, id |-> sent[b] + 1]
  OBVIOUS
<1>4. /\ sent[b] \in Nat /\ sent[b] < MaxSend
      /\ sent' = [sent EXCEPT ![b] = @ + 1]
      /\ ring' = ring
      /\ \A id \in OnWire(b) : sent[b] + 1 - id <= JUMP
  BY <1>1 DEF Send, TypeOK
<1>5. f \in Frame
  <2>1. /\ type \in {"PAIR", "OTHER"} /\ dst \in Boards \cup {Broadcast}
        /\ TTL \in 1..TTL /\ sent[b] + 1 \in 1..MaxSend /\ tx_seq[b] \in 0..(SEQ - 1)
    <3>1. type \in {"PAIR", "OTHER"} /\ dst \in Boards \cup {Broadcast}
      BY LinkAssumption DEF Boards
    <3>2. TTL \in 1..TTL /\ sent[b] + 1 \in 1..MaxSend
      BY <1>4, LinkAssumption
    <3>3. tx_seq[b] \in 0..(SEQ - 1)
      BY <1>1 DEF TypeOK
    <3>4. QED
      BY <3>1, <3>2, <3>3
  <2>2. QED
    BY <1>3, <2>1 DEF Frame
<1>6. f.src = b /\ f.seq = tx_seq[b] /\ f.ttl = TTL /\ f.id = sent[b] + 1
  BY <1>3
<1>7. wire' = IF b \notin keyed THEN wire ELSE Transmit(b, Port, f, wire)
  BY <1>3, Zenon DEF Send
<1>8. Typed(wire)
  BY <1>1 DEF TypeOK, Typed
<1>9. Typed(wire')
  <2>1. Typed(Transmit(b, Port, f, wire))
    BY <1>5, <1>8, TransmitKeeps
  <2>2. QED
    BY <1>7, <1>8, <2>1, Zenon
<1>10. Single(wire')
  <2>1. \A q \in Port : Absent(wire, Opposite(q), f.src, f.id)
    <3>1. \A q \in Port : Opposite(q) \in Port
      BY DEF Opposite, Port
    <3>2. \A q \in Port : Absent(wire, Opposite(q), b, sent[b] + 1)
      BY <1>1, <1>2, <3>1, NewFrameAbsent
    <3>3. QED
      BY <1>6, <3>2, Zenon
  <2>2. Single(Transmit(b, Port, f, wire))
    BY <1>1, <1>5, <1>8, <2>1, TransmitSingle
  <2>3. QED
    BY <1>1, <1>7, <2>2, Zenon
<1>11. Wires(base)'
  <2>1. Fits(wire, Room(base)')
    BY <1>1, <1>2, <1>4, OldFramesFit
  <2>2. \A q \in Port : Neighbour(b, q) \in Boards
                          => f \in Room(base)'[Neighbour(b, q)][Opposite(q)]
    BY <1>1, <1>2, <1>4, <1>5, <1>6, NewFrameFits
  <2>3. Fits(Transmit(b, Port, f, wire), Room(base)')
    BY <1>5, <1>8, <2>1, <2>2, TransmitFits
  <2>4. Fits(wire', Room(base)')
    BY <1>7, <2>1, <2>3, Zenon
  <2>5. QED
    BY <2>4, WiresFitNext
<1>12. tx_seq' = [tx_seq EXCEPT ![b] = (@ + 1) % SEQ]
  BY DEF Send
<1>13. Counter(base)'
  <2>1. SUFFICES ASSUME NEW s \in Boards
                 PROVE  base[s] <= sent'[s] /\ tx_seq'[s] = (sent'[s] - base[s]) % SEQ
    BY DEF Counter
  <2>2. /\ base[s] \in Nat /\ sent[s] \in Nat /\ base[s] <= sent[s]
        /\ tx_seq[s] = (sent[s] - base[s]) % SEQ
    BY <1>1, <1>2 DEF Counter, TypeOK
  <2>3. CASE s = b
    <3>1. sent'[s] = sent[s] + 1 /\ tx_seq'[s] = (tx_seq[s] + 1) % SEQ
      BY <1>1, <1>4, <1>12, <2>3 DEF TypeOK
    <3>2. PICK x \in Nat : x = sent[s] - base[s]
      BY <2>2
    <3>3. tx_seq[s] = x % SEQ
      BY <2>2, <3>2
    <3>4. ((x % SEQ) + 1) % SEQ = (x + 1) % SEQ
      BY SeqWidth, ModStep
    <3>5. sent'[s] - base[s] = x + 1 /\ base[s] <= sent'[s]
      BY <2>2, <3>1, <3>2
    <3>6. QED
      BY <3>1, <3>3, <3>4, <3>5
  <2>4. CASE s # b
    <3>1. sent'[s] = sent[s] /\ tx_seq'[s] = tx_seq[s]
      BY <1>1, <1>4, <1>12, <2>4 DEF TypeOK
    <3>2. QED
      BY <2>2, <3>1
  <2>5. QED
    BY <2>3, <2>4
<1>14. Windows(base)'
  <2>1. SUFFICES ASSUME FewSenders, NEW d \in Boards, NEW s \in Boards
                 PROVE  Window(base, d, s)'
    BY DEF Windows, FewSenders, Boards
  <2>2. Window(base, d, s)
    BY <1>2, <2>1 DEF Windows
  <2>3. seen' = seen /\ last' = last
    BY DEF Send
  <2>4. last[d][s] \in Nat /\ sent[s] \in Nat /\ sent'[s] \in Nat /\ sent[s] <= sent'[s]
    <3>1. last[d][s] \in Nat /\ sent \in [Boards -> 0..MaxSend] /\ sent[s] \in Nat
      BY <1>1, Counts
    <3>2. QED
      BY <1>4, <3>1
  <2>5. \A a \in last[d][s]..sent[s] : a \in last[d][s]..sent'[s]
    BY <2>4
  <2>6. QED
    BY <2>2, <2>3, <2>5 DEF Window
<1>15. MapIsTrue'
  BY <1>1 DEF MapIsTrue, Send
<1>16. TypeOK'
  <2>1. tx_seq' \in [Boards -> 0..(SEQ - 1)]
    <3>1. tx_seq[b] + 1 \in Int
      BY <1>1 DEF TypeOK
    <3>2. (tx_seq[b] + 1) % SEQ \in 0..(SEQ - 1)
      BY <3>1, SeqWidth, DivMod
    <3>3. QED
      BY <1>1, <1>12, <3>2 DEF TypeOK
  <2>2. sent' \in [Boards -> 0..MaxSend]
    <3>1. sent \in [Boards -> 0..MaxSend] /\ MaxSend \in Nat
      BY <1>1, Counts
    <3>2. sent[b] + 1 \in 0..MaxSend
      BY <1>4, <3>1
    <3>3. QED
      BY <1>4, <3>1, <3>2
  <2>3. owed' \in [Boards -> [Boards -> Int]]
    <3>1. owed \in [Boards -> [Boards -> Int]]
      BY <1>1 DEF TypeOK
    <3>2. owed' = [d \in Boards |-> [s \in Boards |->
                     IF s = b /\ d # b /\ dst \in {d, Broadcast}
                     THEN owed[d][s] + 1 ELSE owed[d][s]]]
      BY DEF Send
    <3>3. QED
      BY <3>1, <3>2
  <2>4. QED
    BY <1>1, <1>9, <2>1, <2>2, <2>3 DEF TypeOK, Typed, Send
<1>17. Books'
  BY <1>2, <1>11, <1>13, <1>14 DEF Books
<1>18. QED
  BY <1>10, <1>15, <1>16, <1>17 DEF IInv, Books

\* Reboot: the counter starts over once the board's last frames are gone
LEMMA RebootKeeps ==
  ASSUME IInv, NEW b \in Boards, Reboot(b)
  PROVE  IInv'
<1>1. TypeOK /\ MapIsTrue /\ Single(wire) /\ Books
  BY DEF IInv, Books
<1>2. PICK old \in [Boards -> Nat] : Counter(old) /\ Wires(old) /\ Windows(old)
  BY <1>1 DEF Books
<1>3. PICK base : base = [old EXCEPT ![b] = sent[b]]
  OBVIOUS
<1>4. /\ base \in [Boards -> Nat] /\ base[b] = sent[b]
      /\ \A s \in Boards : s # b => base[s] = old[s]
  BY <1>1, <1>2, <1>3, Counts
<1>5. /\ ring' = ring /\ sent' = sent
      /\ tx_seq' = [tx_seq EXCEPT ![b] = 0]
      /\ seen' = [seen EXCEPT ![b] = [s \in Boards |-> Unseen]]
      /\ rel_pos' = [rel_pos EXCEPT ![b] = [s \in Boards |-> 0]]
      /\ wire' = [wire EXCEPT ![b] = [p \in Port |-> <<>>]]
      /\ last' = [last EXCEPT ![b] = [s \in Boards |-> 0]]
      /\ OnWire(b) = {}
  BY DEF Reboot
<1>6. Typed(wire) /\ Typed(wire')
  <2>1. Typed(wire)
    BY <1>1 DEF TypeOK, Typed
  <2>2. <<>> \in Seq(Frame)
    BY EmptySeq
  <2>3. [p \in Port |-> <<>>] \in [Port -> Seq(Frame)]
    BY <2>2
  <2>4. QED
    BY <1>5, <2>1, <2>3 DEF Typed
<1>7. \A d \in Boards, p \in Port :
        /\ d = b => wire'[d][p] = <<>>
        /\ d # b => wire'[d][p] = wire[d][p]
  BY <1>5, <1>6 DEF Typed
<1>8. Single(wire')
  <2>1. ASSUME NEW p \in Port, NEW d \in Boards, NEW i \in DOMAIN wire'[d][p]
        PROVE  d # b /\ wire'[d][p] = wire[d][p]
    BY <1>7, <2>1
  <2>2. QED
    BY <1>1, <2>1 DEF Single
<1>9. Wires(base)'
  <2>1. SUFFICES ASSUME NEW d \in Boards, NEW p \in Port
                 PROVE  wire'[d][p] \in Seq(Good(base, d, p)')
    BY DEF Wires
  <2>2. CASE d = b
    BY <1>7, <2>2, EmptySeq
  <2>3. CASE d # b
    <3>1. wire'[d][p] = wire[d][p] /\ wire[d][p] \in Seq(Good(old, d, p))
      BY <1>2, <1>7, <2>3 DEF Wires
    <3>2. ASSUME NEW i \in DOMAIN wire[d][p]
          PROVE  wire[d][p][i] \in Good(base, d, p)'
      <4>1. PICK f : f = wire[d][p][i]
        OBVIOUS
      <4>2. f \in Good(old, d, p)
        BY <3>1, <3>2, <4>1, ElementOfSeq
      <4>3. f \in Frame /\ Fresh(old, f) /\ Placed(d, p, f)
        BY <4>2 DEF Good
      <4>4. f.src \in Boards
        BY <4>3 DEF Frame
      <4>5. f.src # b
        BY <1>5, <3>2, <4>1, OnWireHolds
      <4>6. base[f.src] = old[f.src]
        BY <1>4, <4>4, <4>5
      <4>7. Fresh(base, f)' /\ Placed(d, p, f)'
        BY <1>5, <4>3, <4>6 DEF Fresh, Placed
      <4>8. QED
        BY <4>1, <4>3, <4>7 DEF Good, Frame, Boards
    <3>3. QED
      BY <3>1, <3>2, Rebuild
  <2>4. QED
    BY <2>2, <2>3
<1>10. Counter(base)'
  <2>1. SUFFICES ASSUME NEW s \in Boards
                 PROVE  base[s] <= sent'[s] /\ tx_seq'[s] = (sent'[s] - base[s]) % SEQ
    BY DEF Counter
  <2>2. sent[s] \in Nat /\ tx_seq \in [Boards -> 0..(SEQ - 1)]
    BY <1>1, Counts DEF TypeOK
  <2>3. CASE s = b
    <3>1. sent[s] - base[s] = 0 /\ tx_seq'[s] = 0 /\ base[s] <= sent[s]
      BY <1>4, <1>5, <2>2, <2>3
    <3>2. 0 % SEQ = 0
      BY SeqWidth
    <3>3. QED
      BY <1>5, <3>1, <3>2
  <2>4. CASE s # b
    <3>1. tx_seq'[s] = tx_seq[s] /\ base[s] = old[s] /\ sent'[s] = sent[s]
      BY <1>4, <1>5, <2>2, <2>4
    <3>2. old[s] <= sent[s] /\ tx_seq[s] = (sent[s] - old[s]) % SEQ
      BY <1>2 DEF Counter
    <3>3. QED
      BY <3>1, <3>2
  <2>5. QED
    BY <2>3, <2>4
<1>11. Windows(base)'
  <2>1. SUFFICES ASSUME FewSenders, NEW d \in Boards, NEW s \in Boards
                 PROVE  Window(base, d, s)'
    BY DEF Windows, FewSenders, Boards
  <2>2. Window(old, d, s)
    BY <1>2, <2>1 DEF Windows
  <2>3. seen \in [Boards -> [Boards -> [used : BOOLEAN, high_seq : 0..(SEQ - 1)]]]
    BY <1>1 DEF TypeOK
  <2>4. last \in [Boards -> [Boards -> 0..MaxSend]] /\ sent[s] \in Nat /\ last[d][s] \in Nat
    BY <1>1, Counts
  <2>5. CASE d = b
    <3>1. seen'[d][s] = Unseen
      BY <1>5, <2>3, <2>5
    <3>2. last'[d][s] = 0
      BY <1>5, <2>4, <2>5
    <3>3. ~Unseen.used
      BY DEF Unseen
    <3>4. QED
      BY <3>1, <3>2, <3>3 DEF Window
  <2>6. CASE d # b
    <3>1. seen'[d][s] = seen[d][s] /\ last'[d][s] = last[d][s] /\ sent'[s] = sent[s]
      BY <1>5, <2>3, <2>4, <2>6
    <3>2. CASE s # b
      BY <1>4, <2>2, <3>1, <3>2 DEF Window
    <3>3. CASE s = b
      <4>1. \A a \in last[d][s]..sent[s] : a <= base[s]
        BY <1>4, <2>4, <3>3
      <4>2. QED
        BY <2>2, <3>1, <4>1 DEF Window
    <3>4. QED
      BY <3>2, <3>3
  <2>7. QED
    BY <2>5, <2>6
<1>12. Books'
  BY <1>4, <1>9, <1>10, <1>11 DEF Books
<1>13. MapIsTrue'
  <2>1. SUFFICES ASSUME ~ring, NEW d \in Boards, NEW s \in Boards, rel_pos'[d][s] # 0
                 PROVE  rel_pos'[d][s] = s - d
    BY <1>5 DEF MapIsTrue
  <2>2. rel_pos \in [Boards -> [Boards -> -TTL..TTL]]
    BY <1>1 DEF TypeOK
  <2>3. d # b /\ rel_pos'[d][s] = rel_pos[d][s]
    BY <1>5, <2>1, <2>2
  <2>4. QED
    BY <1>1, <2>1, <2>3 DEF MapIsTrue
<1>14. TypeOK'
  <2>1. tx_seq' \in [Boards -> 0..(SEQ - 1)]
    BY <1>1, <1>5, SeqWidth DEF TypeOK
  <2>2. seen' \in [Boards -> [Boards -> [used : BOOLEAN, high_seq : 0..(SEQ - 1)]]]
    <3>1. seen \in [Boards -> [Boards -> [used : BOOLEAN, high_seq : 0..(SEQ - 1)]]]
      BY <1>1 DEF TypeOK
    <3>2. Unseen \in [used : BOOLEAN, high_seq : 0..(SEQ - 1)]
      BY SeqWidth DEF Unseen
    <3>3. QED
      BY <1>5, <3>1, <3>2
  <2>3. rel_pos' \in [Boards -> [Boards -> -TTL..TTL]]
    <3>1. rel_pos \in [Boards -> [Boards -> -TTL..TTL]] /\ 0 \in -TTL..TTL
      BY <1>1, LinkAssumption DEF TypeOK
    <3>2. QED
      BY <1>5, <3>1
  <2>4. last' \in [Boards -> [Boards -> 0..MaxSend]]
    <3>1. last \in [Boards -> [Boards -> 0..MaxSend]] /\ 0 \in 0..MaxSend
      BY <1>1, Counts
    <3>2. QED
      BY <1>5, <3>1
  <2>5. missed' \in [Boards -> [Boards -> Seq(1..MaxSend)]]
    <3>1. missed \in [Boards -> [Boards -> Seq(1..MaxSend)]]
      BY <1>1 DEF TypeOK
    <3>2. missed' = [d \in Boards |-> [s \in Boards |->
                       IF d = b \/ s = b THEN <<>> ELSE missed[d][s]]]
      BY DEF Reboot
    <3>3. <<>> \in Seq(1..MaxSend)
      BY EmptySeq
    <3>4. QED
      BY <3>1, <3>2, <3>3
  <2>6. faults' \in 0..MaxFaults
    BY <1>1, LinkAssumption DEF TypeOK, Reboot, Budget
  <2>7. QED
    BY <1>1, <1>6, <2>1, <2>2, <2>3, <2>4, <2>5, <2>6 DEF TypeOK, Typed, Reboot
<1>15. QED
  BY <1>8, <1>12, <1>13, <1>14 DEF IInv, Books

-----------------------------------------------------------------------------
(* A frame accepted *)

\* With few senders the table has a slot for each of them
LEMMA TableHasRoom ==
  ASSUME FewSenders, NEW b \in Boards, NEW s \in Senders,
         \A t \in Boards : seen[b][t].used => t \in Senders
  PROVE  SeenGet(b, s)
<1>1. SUFFICES ASSUME ~seen[b][s].used
               PROVE  Cardinality({t \in Boards : seen[b][t].used}) < MaxSeen
  BY DEF SeenGet
<1> DEFINE U == {t \in Boards : seen[b][t].used}
<1>2. U \subseteq Senders \ {s}
  BY <1>1
<1> HIDE DEF U
<1>3. IsFiniteSet(Senders) /\ Cardinality(Senders) <= MaxSeen /\ MaxSeen \in Nat
  BY LinkAssumption DEF FewSenders
<1>4. /\ IsFiniteSet(Senders \ {s})
      /\ Cardinality(Senders \ {s}) = Cardinality(Senders) - 1
  BY <1>3, FS_RemoveElement
<1>5. Cardinality(U) <= Cardinality(Senders \ {s})
  BY <1>2, <1>4, FS_Subset
<1>6. Cardinality(Senders) \in Nat /\ Cardinality(U) \in Nat
  BY <1>2, <1>3, <1>4, FS_Subset, FS_CardinalityType
<1>7. Cardinality(U) < MaxSeen
  BY <1>3, <1>4, <1>5, <1>6
<1>8. QED
  BY <1>7 DEF U

\* A frame the window lets pass is newer than the last one handed up
LEMMA FreshIsNewer ==
  ASSUME TypeOK, NEW base \in [Boards -> Nat], NEW b \in Boards,
         NEW f \in Frame, Fresh(base, f), Window(base, b, f.src),
         SeenGet(b, f.src), SeqIsFresh(b, f.src, f.seq)
  PROVE  f.id > last[b][f.src]
<1>1. PICK s \in Boards : s = f.src
  BY DEF Frame
<1>2. f.id \in Nat \ {0} /\ f.seq \in Nat
  BY DEF Frame
<1>3. last[b][s] \in Nat /\ sent[s] \in Nat /\ base[s] \in Nat
  BY Counts
<1>4. CASE ~seen[b][s].used
  BY <1>1, <1>2, <1>4 DEF Window
<1>5. CASE seen[b][s].used
  <2>1. PICK a \in last[b][s]..sent[s] :
          \/ a <= base[s]
          \/ seen[b][s].high_seq = (a - 1 - base[s]) % SEQ
    BY <1>1, <1>5 DEF Window
  <2>2. base[s] < f.id /\ f.id <= sent[s] /\ sent[s] - f.id <= JUMP
        /\ f.seq = (f.id - 1 - base[s]) % SEQ
    BY <1>1 DEF Fresh
  <2>3. SUFFICES ASSUME f.id <= a
                 PROVE  FALSE
    BY <1>1, <1>2, <1>3, <2>1
  <2>4. seen[b][s].high_seq = (a - 1 - base[s]) % SEQ
    BY <1>2, <1>3, <2>1, <2>2, <2>3
  <2>5. PICK x \in Nat, k \in 0..JUMP : x = f.id - 1 - base[s] /\ k = a - f.id
    <3>1. f.id - 1 - base[s] \in Nat
      BY <1>2, <1>3, <2>2
    <3>2. a - f.id \in 0..JUMP
      BY <1>2, <1>3, <2>1, <2>2, <2>3, LinkAssumption
    <3>3. QED
      BY <3>1, <3>2
  <2>6. a - 1 - base[s] = x + k
    BY <1>2, <1>3, <2>1, <2>5
  <2>7. Signed((x % SEQ) - ((x + k) % SEQ)) = -k
    BY OlderIsNegative
  <2>8. Signed(f.seq - seen[b][s].high_seq) = -k
    <3>1. f.seq = x % SEQ /\ seen[b][s].high_seq = (x + k) % SEQ
      BY <2>2, <2>4, <2>5, <2>6
    <3>2. QED
      BY <2>7, <3>1, Zenon
  <2>9. \/ Signed(f.seq - seen[b][s].high_seq) > 0
        \/ Signed(f.seq - seen[b][s].high_seq) < -JUMP
    BY <1>1, <1>5, Zenon DEF SeqIsFresh
  <2>10. -k > 0 \/ -k < -JUMP
    BY <2>8, <2>9, Zenon
  <2>11. QED
    BY <2>10, LinkAssumption
<1>6. QED
  BY <1>4, <1>5

\* A relayed frame, one hop short, fits where it goes
LEMMA RelayedFits ==
  ASSUME TypeOK, NEW base, NEW b \in Boards, NEW p \in Port,
         NEW f \in Good(base, b, p), f.ttl # 1,
         Neighbour(b, Opposite(p)) \in Boards
  PROVE  /\ [f EXCEPT !.ttl = @ - 1] \in Frame
         /\ [f EXCEPT !.ttl = @ - 1] \in
              Room(base)[Neighbour(b, Opposite(p))][Opposite(Opposite(p))]
<1>1. f \in Frame /\ Fresh(base, f) /\ Placed(b, p, f)
  BY DEF Good
<1>2. PICK g : g = [f EXCEPT !.ttl = @ - 1]
  OBVIOUS
<1>3. /\ g.src = f.src /\ g.id = f.id /\ g.seq = f.seq /\ g.ttl = f.ttl - 1
      /\ g \in Frame
  <2>1. f.ttl - 1 \in 1..TTL
    BY <1>1, LinkAssumption DEF Frame
  <2>2. QED
    BY <1>1, <1>2, <2>1 DEF Frame
<1>4. Opposite(Opposite(p)) = p /\ Opposite(p) \in Port
  BY DEF Opposite, Port
<1>5. PICK d \in Boards : d = Neighbour(b, Opposite(p))
  OBVIOUS
<1>6. Placed(d, p, g)
  <2>1. SUFFICES ASSUME ~ring
                 PROVE  TTL - g.ttl + 1 = (IF p = "UP" THEN d - g.src ELSE g.src - d)
    BY DEF Placed
  <2>2. d = (IF Opposite(p) = "UP" THEN b - 1 ELSE b + 1)
    BY <1>4, <1>5, <2>1, NextPlace
  <2>3. (Opposite(p) = "UP") <=> (p # "UP")
    BY DEF Opposite, Port
  <2>4. TTL - f.ttl + 1 = (IF p = "UP" THEN b - f.src ELSE f.src - b)
    BY <1>1, <2>1 DEF Placed
  <2>5. TTL \in Int /\ b \in Int /\ f.src \in Int /\ f.ttl \in Int
    BY <1>1, LinkAssumption DEF Boards, Frame
  <2>6. QED
    BY <1>3, <2>2, <2>3, <2>4, <2>5
<1>7. Fresh(base, g)
  BY <1>1, <1>3 DEF Fresh
<1>8. g \in Room(base)[d][p]
  BY <1>3, <1>6, <1>7 DEF Room, Good
<1>9. QED
  BY <1>2, <1>3, <1>4, <1>5, <1>8, Zenon

\* Relay: the queues after a frame was accepted
LEMMA RelayKeeps ==
  ASSUME TypeOK, NEW base, NEW b \in Boards, NEW p \in Port,
         NEW f \in Good(base, b, p), NEW w, Typed(w), Single(w),
         Fits(w, Room(base)), Absent(w, p, f.src, f.id)
  PROVE  /\ Typed(Relay(b, p, f, w))
         /\ Single(Relay(b, p, f, w))
         /\ Fits(Relay(b, p, f, w), Room(base))
<1>1. CASE f.dst = b \/ f.ttl = 1
  <2>1. Relay(b, p, f, w) = w
    BY <1>1, Zenon DEF Relay
  <2>2. QED
    BY <2>1, Zenon
<1>2. CASE ~(f.dst = b \/ f.ttl = 1)
  <2>1. PICK g : g = [f EXCEPT !.ttl = @ - 1]
    OBVIOUS
  <2>2. Relay(b, p, f, w) = Transmit(b, {Opposite(p)}, g, w)
    BY <1>2, <2>1, Zenon DEF Relay
  <2>3. f \in Frame /\ f.ttl # 1
    BY <1>2 DEF Good
  <2>4. g \in Frame /\ g.src = f.src /\ g.id = f.id
    <3>1. f.ttl - 1 \in 1..TTL
      BY <2>3, LinkAssumption DEF Frame
    <3>2. QED
      BY <2>1, <2>3, <3>1 DEF Frame
  <2>5. Neighbour(b, Opposite(p)) \in Boards
          => g \in Room(base)[Neighbour(b, Opposite(p))][Opposite(Opposite(p))]
    BY <2>1, <2>3, RelayedFits
  <2>6. \A q \in Port : q \in {Opposite(p)} /\ Neighbour(b, q) \in Boards
                          => g \in Room(base)[Neighbour(b, q)][Opposite(q)]
    BY <2>5, Zenon
  <2>7. \A q \in Port : q \in {Opposite(p)} => Absent(w, Opposite(q), g.src, g.id)
    <3>1. Opposite(Opposite(p)) = p
      BY DEF Opposite, Port
    <3>2. Absent(w, Opposite(Opposite(p)), g.src, g.id)
      BY <2>4, <3>1, Zenon
    <3>3. QED
      BY <3>2, Zenon
  <2>8. Typed(Transmit(b, {Opposite(p)}, g, w))
    BY <2>4, TransmitKeeps
  <2>9. Single(Transmit(b, {Opposite(p)}, g, w))
    BY <2>4, <2>7, TransmitSingle
  <2>10. Fits(Transmit(b, {Opposite(p)}, g, w), Room(base))
    BY <2>4, <2>6, TransmitFits
  <2>11. QED
    BY <2>2, <2>8, <2>9, <2>10, Zenon
<1>3. QED
  BY <1>1, <1>2

\* What Accept does, with the frame named
LEMMA AcceptParts ==
  ASSUME TypeOK, NEW b \in Boards, NEW p \in Port, Accept(b, p), NEW base, Wires(base)
  PROVE  \E f \in Good(base, b, p) :
           /\ f = Head(wire[b][p]) /\ wire[b][p] # <<>>
           /\ SeqIsFresh(b, f.src, f.seq)
           /\ seen' = Accepted(b, f.src, f.seq)
           /\ last' = [last EXCEPT ![b][f.src] = f.id]
           /\ missed' = [missed EXCEPT ![b][f.src] = <<>>]
           /\ wire' = Relay(b, p, f, Take(wire, b, p))
           /\ \/ /\ f.dst \in {b, Broadcast}
                 /\ owed' = [owed EXCEPT ![b][f.src] = @ - 1]
                 /\ \/ rel_pos' = [rel_pos EXCEPT ![b][f.src] = RelPosFromFrame(f, p)]
                    \/ rel_pos' = rel_pos
              \/ f.dst \notin {b, Broadcast} /\ UNCHANGED <<owed, rel_pos>>
           /\ UNCHANGED <<ring, tx_seq, keyed, sent, faults>>
<1>1. wire[b][p] # <<>> /\ wire[b][p] \in Seq(Good(base, b, p))
  BY DEF Accept, Wires
<1>2. PICK f : f = Head(wire[b][p])
  OBVIOUS
<1>3. f \in Good(base, b, p)
  BY <1>1, <1>2, HeadTailProperties
<1>4. /\ SeqIsFresh(b, f.src, f.seq)
      /\ seen' = Accepted(b, f.src, f.seq)
      /\ last' = [last EXCEPT ![b][f.src] = f.id]
      /\ missed' = [missed EXCEPT ![b][f.src] = <<>>]
      /\ wire' = Relay(b, p, f, Take(wire, b, p))
      /\ UNCHANGED <<ring, tx_seq, keyed, sent, faults>>
  BY <1>2, Zenon DEF Accept, Take
<1>5. \/ /\ f.dst \in {b, Broadcast}
         /\ owed' = [owed EXCEPT ![b][f.src] = @ - 1]
         /\ \/ rel_pos' = [rel_pos EXCEPT ![b][f.src] = RelPosFromFrame(f, p)]
            \/ rel_pos' = rel_pos
      \/ f.dst \notin {b, Broadcast} /\ UNCHANGED <<owed, rel_pos>>
  <2>1. /\ owed' = IF f.dst \in {b, Broadcast} THEN [owed EXCEPT ![b][f.src] = @ - 1] ELSE owed
        /\ rel_pos' = IF f.dst \in {b, Broadcast} /\ f.type # "PAIR"
                      THEN [rel_pos EXCEPT ![b][f.src] = RelPosFromFrame(f, p)]
                      ELSE rel_pos
    BY <1>2, Zenon DEF Accept
  <2>2. QED
    BY <2>1, Zenon
<1>6. QED
  BY <1>1, <1>2, <1>3, <1>4, <1>5

\* The replay table after a frame was accepted
LEMMA AcceptedIs ==
  ASSUME TypeOK, NEW b \in Boards, NEW s \in Boards, NEW seq \in 0..(SEQ - 1)
  PROVE  /\ Accepted(b, s, seq) \in
              [Boards -> [Boards -> [used : BOOLEAN, high_seq : 0..(SEQ - 1)]]]
         /\ \A d, t \in Boards : ~(d = b /\ t = s)
              => Accepted(b, s, seq)[d][t] = seen[d][t]
         /\ SeenGet(b, s) => /\ Accepted(b, s, seq)[b][s].used
                             /\ Accepted(b, s, seq)[b][s].high_seq = seq
<1>1. seen \in [Boards -> [Boards -> [used : BOOLEAN, high_seq : 0..(SEQ - 1)]]]
  BY DEF TypeOK
<1>2. PICK e : e = [used |-> TRUE, high_seq |-> seq]
  OBVIOUS
<1>3. e \in [used : BOOLEAN, high_seq : 0..(SEQ - 1)] /\ e.used /\ e.high_seq = seq
  BY <1>2
<1>4. Accepted(b, s, seq) = IF SeenGet(b, s) THEN [seen EXCEPT ![b][s] = e] ELSE seen
  BY <1>2, Zenon DEF Accepted
<1>5. CASE SeenGet(b, s)
  <2>1. Accepted(b, s, seq) = [seen EXCEPT ![b][s] = e]
    BY <1>4, <1>5, Zenon
  <2>2. QED
    BY <1>1, <1>3, <2>1
<1>6. CASE ~SeenGet(b, s)
  <2>1. Accepted(b, s, seq) = seen
    BY <1>4, <1>6, Zenon
  <2>2. QED
    BY <1>1, <1>6, <2>1
<1>7. QED
  BY <1>5, <1>6

\* and it is about that source alone
LEMMA AcceptedElsewhere ==
  ASSUME TypeOK, NEW b \in Boards, NEW s \in Boards, NEW seq \in 0..(SEQ - 1),
         NEW d \in Boards, NEW t \in Boards, ~(d = b /\ t = s)
  PROVE  Accepted(b, s, seq)[d][t] = seen[d][t]
  BY AcceptedIs, SMTT(40)

\* Under way to a board that accepts it, a frame tells where its sender is
LEMMA PositionIsTrue ==
  ASSUME NEW base, NEW b \in Boards, NEW p \in Port, NEW f \in Good(base, b, p)
  PROVE  /\ RelPosFromFrame(f, p) \in -TTL..TTL
         /\ ~ring => RelPosFromFrame(f, p) = f.src - b
<1>1. f \in Frame /\ Placed(b, p, f)
  BY DEF Good
<1>2. /\ TTL \in Nat /\ f.ttl \in 1..TTL /\ f.src \in Int /\ b \in Int
      /\ f.ttl \in Int
  BY <1>1, LinkAssumption DEF Frame, Boards
<1>3. RelPosFromFrame(f, p) = IF p = "UP" THEN -(TTL - f.ttl + 1) ELSE TTL - f.ttl + 1
  BY DEF RelPosFromFrame
<1>4. RelPosFromFrame(f, p) \in -TTL..TTL
  BY <1>2, <1>3
<1>5. ASSUME ~ring
      PROVE  RelPosFromFrame(f, p) = f.src - b
  <2>1. TTL - f.ttl + 1 = (IF p = "UP" THEN b - f.src ELSE f.src - b)
    BY <1>1, <1>5 DEF Placed
  <2>2. QED
    BY <1>2, <1>3, <2>1
<1>6. QED
  BY <1>4, <1>5

\* Accept: the frame is taken, marked, relayed and handed up
LEMMA AcceptKeeps ==
  ASSUME IInv, NEW b \in Boards, NEW p \in Port, Accept(b, p)
  PROVE  IInv'
<1>1. TypeOK /\ MapIsTrue /\ Single(wire) /\ Books
  BY DEF IInv, Books
<1>2. PICK base \in [Boards -> Nat] : Counter(base) /\ Wires(base) /\ Windows(base)
  BY <1>1 DEF Books
<1>3. PICK f \in Good(base, b, p) :
           /\ f = Head(wire[b][p]) /\ wire[b][p] # <<>>
           /\ SeqIsFresh(b, f.src, f.seq)
           /\ seen' = Accepted(b, f.src, f.seq)
           /\ last' = [last EXCEPT ![b][f.src] = f.id]
           /\ missed' = [missed EXCEPT ![b][f.src] = <<>>]
           /\ wire' = Relay(b, p, f, Take(wire, b, p))
           /\ \/ /\ f.dst \in {b, Broadcast}
                 /\ owed' = [owed EXCEPT ![b][f.src] = @ - 1]
                 /\ \/ rel_pos' = [rel_pos EXCEPT ![b][f.src] = RelPosFromFrame(f, p)]
                    \/ rel_pos' = rel_pos
              \/ f.dst \notin {b, Broadcast} /\ UNCHANGED <<owed, rel_pos>>
           /\ UNCHANGED <<ring, tx_seq, keyed, sent, faults>>
  BY <1>1, <1>2, AcceptParts
<1>4. f \in Frame /\ Fresh(base, f)
  BY DEF Good
<1>5. /\ f.src \in Boards /\ f.seq \in 0..(SEQ - 1) /\ f.id \in 1..MaxSend
      /\ f.src \in Senders /\ f.id <= sent[f.src]
      /\ f.seq = (f.id - 1 - base[f.src]) % SEQ
  BY <1>4 DEF Frame, Fresh
<1>a. /\ \A d, t \in Boards : ~(d = b /\ t = f.src) => seen'[d][t] = seen[d][t]
      /\ SeenGet(b, f.src) => seen'[b][f.src].used /\ seen'[b][f.src].high_seq = f.seq
  <2>1. /\ \A d, t \in Boards : ~(d = b /\ t = f.src)
              => Accepted(b, f.src, f.seq)[d][t] = seen[d][t]
        /\ SeenGet(b, f.src) => /\ Accepted(b, f.src, f.seq)[b][f.src].used
                                /\ Accepted(b, f.src, f.seq)[b][f.src].high_seq = f.seq
    <3>1. PICK src \in Boards, seq \in 0..(SEQ - 1) : src = f.src /\ seq = f.seq
      BY <1>5
    <3>2. /\ \A d, t \in Boards : ~(d = b /\ t = src)
                => Accepted(b, src, seq)[d][t] = seen[d][t]
          /\ SeenGet(b, src) => /\ Accepted(b, src, seq)[b][src].used
                                /\ Accepted(b, src, seq)[b][src].high_seq = seq
      <4>1. TypeOK
        BY <1>1
      <4>2. \A d, t \in Boards : ~(d = b /\ t = src)
                => Accepted(b, src, seq)[d][t] = seen[d][t]
        BY <4>1, AcceptedIs
      <4>3. SeenGet(b, src) => Accepted(b, src, seq)[b][src].used
        BY <4>1, AcceptedIs
      <4>4. SeenGet(b, src) => Accepted(b, src, seq)[b][src].high_seq = seq
        BY <4>1, AcceptedIs
      <4>5. QED
        BY <4>2, <4>3, <4>4
    <3>3. Accepted(b, f.src, f.seq) = Accepted(b, src, seq)
      BY <3>1, Zenon
    <3>4. QED
      BY <3>1, <3>2, <3>3
  <2>2. seen' = Accepted(b, f.src, f.seq)
    BY <1>3
  <2>3. QED
    BY <2>1, <2>2, Zenon
<1>b. sent' = sent /\ ring' = ring
  BY <1>3
<1>6. Typed(wire') /\ Single(wire') /\ Wires(base)'
  <2>1. Typed(wire) /\ Fits(wire, Room(base))
    BY <1>1, <1>2, WiresFit DEF TypeOK, Typed
  <2>2. PICK w : w = Take(wire, b, p)
    OBVIOUS
  <2>3. Typed(Take(wire, b, p))
    BY <1>3, <2>1, TakeIs
  <2>4. /\ Single(Take(wire, b, p))
        /\ Absent(Take(wire, b, p), p, Head(wire[b][p]).src, Head(wire[b][p]).id)
    BY <1>1, <1>3, <2>1, TakeSingle
  <2>5. Fits(Take(wire, b, p), Room(base))
    BY <1>3, <2>1, TakeFits
  <2>6. Typed(w) /\ Single(w) /\ Fits(w, Room(base)) /\ Absent(w, p, f.src, f.id)
    BY <1>3, <2>2, <2>3, <2>4, <2>5, Zenon
  <2>7. /\ Typed(Relay(b, p, f, w)) /\ Single(Relay(b, p, f, w))
        /\ Fits(Relay(b, p, f, w), Room(base))
    BY <1>1, <2>6, RelayKeeps
  <2>8. wire' = Relay(b, p, f, w)
    BY <1>3, <2>2, Zenon
  <2>9. Room(base)' = Room(base)
    BY <1>b, ZenonT(40) DEF Room, Good, Fresh, Placed
  <2>10. Typed(wire') /\ Single(wire') /\ Fits(wire', Room(base)')
    BY <2>7, <2>8, <2>9, Zenon
  <2>11. QED
    BY <2>10, WiresFitNext
<1>7. Counter(base)'
  BY <1>2, <1>3 DEF Counter
<1>8. last \in [Boards -> [Boards -> 0..MaxSend]] /\ sent[f.src] \in Nat
  BY <1>1, <1>5, Counts
<1>9. /\ last' \in [Boards -> [Boards -> 0..MaxSend]]
      /\ last'[b][f.src] = f.id
      /\ \A d, t \in Boards : ~(d = b /\ t = f.src) => last'[d][t] = last[d][t]
  <2>1. f.id \in 0..MaxSend
    BY <1>5
  <2>2. QED
    BY <1>3, <1>5, <1>8, <2>1
<1>10. Windows(base)'
  <2>1. SUFFICES ASSUME FewSenders, NEW d \in Boards, NEW s \in Boards
                 PROVE  Window(base, d, s)'
    BY DEF Windows, FewSenders, Boards
  <2>2. \A c, t \in Boards : Window(base, c, t)
    BY <1>2, <2>1 DEF Windows
  <2>3. CASE ~(d = b /\ s = f.src)
    <3>1. seen'[d][s] = seen[d][s]
      BY <1>a, <2>3
    <3>2. last'[d][s] = last[d][s] /\ sent'[s] = sent[s]
      BY <1>3, <1>9, <2>3
    <3>3. QED
      BY <2>2, <3>1, <3>2 DEF Window
  <2>4. CASE d = b /\ s = f.src
    <3>1. SeenGet(b, f.src)
      <4>1. \A t \in Boards : seen[b][t].used => t \in Senders
        BY <2>2 DEF Window
      <4>2. QED
        BY <1>5, <2>1, <4>1, TableHasRoom
    <3>2. seen'[b][f.src].used /\ seen'[b][f.src].high_seq = f.seq
      BY <1>a, <3>1
    <3>3. f.id \in last'[b][f.src]..sent'[f.src]
      <4>1. sent'[f.src] = sent[f.src] /\ f.id \in Nat /\ f.id <= sent[f.src]
        BY <1>b, <1>5
      <4>2. QED
        BY <1>8, <1>9, <4>1
    <3>4. QED
      BY <1>5, <2>4, <3>2, <3>3 DEF Window
  <2>5. QED
    BY <2>3, <2>4
<1>11. Books'
  BY <1>2, <1>6, <1>7, <1>10 DEF Books
<1>12. /\ rel_pos' \in [Boards -> [Boards -> -TTL..TTL]]
       /\ MapIsTrue'
  <2>1. rel_pos \in [Boards -> [Boards -> -TTL..TTL]]
    BY <1>1 DEF TypeOK
  <2>2. PICK r : r = RelPosFromFrame(f, p)
    OBVIOUS
  <2>3. r \in -TTL..TTL /\ (~ring => r = f.src - b)
    BY <2>2, PositionIsTrue
  <2>4. CASE rel_pos' = [rel_pos EXCEPT ![b][f.src] = r]
    <3>1. /\ rel_pos' \in [Boards -> [Boards -> -TTL..TTL]]
          /\ rel_pos'[b][f.src] = r
          /\ \A d, s \in Boards : ~(d = b /\ s = f.src) => rel_pos'[d][s] = rel_pos[d][s]
      BY <1>5, <2>1, <2>3, <2>4
    <3>2. ASSUME ~ring', NEW d \in Boards, NEW s \in Boards, rel_pos'[d][s] # 0
          PROVE  rel_pos'[d][s] = s - d
      <4>1. CASE d = b /\ s = f.src
        BY <1>3, <2>3, <3>1, <3>2, <4>1
      <4>2. CASE ~(d = b /\ s = f.src)
        BY <1>1, <1>3, <3>1, <3>2, <4>2 DEF MapIsTrue
      <4>3. QED
        BY <4>1, <4>2
    <3>3. MapIsTrue'
      BY <3>2 DEF MapIsTrue
    <3>4. QED
      BY <3>1, <3>3
  <2>5. CASE rel_pos' = rel_pos
    BY <1>1, <1>3, <2>1, <2>5 DEF MapIsTrue
  <2>6. QED
    BY <1>3, <2>2, <2>4, <2>5
<1>13. seen' \in [Boards -> [Boards -> [used : BOOLEAN, high_seq : 0..(SEQ - 1)]]]
  BY <1>1, <1>3, <1>5, AcceptedIs
<1>14. owed' \in [Boards -> [Boards -> Int]]
  <2>1. owed \in [Boards -> [Boards -> Int]]
    BY <1>1 DEF TypeOK
  <2>2. owed[b][f.src] - 1 \in Int
    BY <1>5, <2>1
  <2>3. owed' = [owed EXCEPT ![b][f.src] = @ - 1] \/ owed' = owed
    BY <1>3
  <2>4. QED
    BY <1>5, <2>1, <2>2, <2>3
<1>15. missed' \in [Boards -> [Boards -> Seq(1..MaxSend)]]
  <2>1. missed \in [Boards -> [Boards -> Seq(1..MaxSend)]]
    BY <1>1 DEF TypeOK
  <2>2. <<>> \in Seq(1..MaxSend)
    BY EmptySeq
  <2>3. QED
    BY <1>3, <1>5, <2>1, <2>2
<1>16. TypeOK'
  <2>1. /\ ring' \in BOOLEAN /\ tx_seq' \in [Boards -> 0..(SEQ - 1)]
        /\ keyed' \subseteq Boards /\ sent' \in [Boards -> 0..MaxSend]
        /\ faults' \in 0..MaxFaults
    BY <1>1, <1>3 DEF TypeOK
  <2>2. QED
    BY <1>6, <1>9, <1>12, <1>13, <1>14, <1>15, <2>1 DEF TypeOK, Typed
<1>17. QED
  BY <1>6, <1>11, <1>12, <1>16 DEF IInv, Books

-----------------------------------------------------------------------------
(* The theorems *)

\* It holds when the chain is switched on
LEMMA InitIInv ==
  ASSUME Init
  PROVE  IInv
<1>1. TypeOK
  <2>1. <<>> \in Seq(Frame)
    BY EmptySeq
  <2>2. /\ 0 \in 0..(SEQ - 1) /\ 0 \in -TTL..TTL /\ 0 \in 0..MaxSend
        /\ 0 \in 0..MaxFaults /\ ring \in BOOLEAN
    BY SeqWidth, LinkAssumption DEF Init
  <2>3. Unseen \in [used : BOOLEAN, high_seq : 0..(SEQ - 1)]
    BY <2>2 DEF Unseen
  <2>4. <<>> \in Seq(1..MaxSend)
    BY EmptySeq
  <2>5. QED
    BY <2>1, <2>2, <2>3, <2>4 DEF Init, TypeOK
<1>2. MapIsTrue
  BY DEF Init, MapIsTrue
<1>3. \A d \in Boards, p \in Port : wire[d][p] = <<>>
  BY DEF Init
<1>4. Single(wire)
  BY <1>3 DEF Single
<1>5. Books
  <2>1. PICK base : base = [s \in Boards |-> 0]
    OBVIOUS
  <2>2. base \in [Boards -> Nat] /\ \A s \in Boards : base[s] = 0
    BY <2>1
  <2>3. Wires(base)
    BY <1>3, EmptySeq DEF Wires
  <2>4. 0 % SEQ = 0
    BY SeqWidth
  <2>5. \A s \in Boards : sent[s] = 0 /\ tx_seq[s] = 0
    BY DEF Init
  <2>6. Counter(base)
    BY <2>2, <2>4, <2>5 DEF Counter
  <2>7. \A b, s \in Boards : ~seen[b][s].used /\ last[b][s] = 0
    BY DEF Init, Unseen
  <2>8. Windows(base)
    BY <2>7 DEF Windows, Window
  <2>9. QED
    BY <2>2, <2>3, <2>6, <2>8 DEF Books
<1>6. QED
  BY <1>1, <1>2, <1>4, <1>5 DEF IInv, Books

\* and every step keeps it
LEMMA NextIInv ==
  ASSUME IInv, [Next]_vars
  PROVE  IInv'
<1>1. CASE UNCHANGED vars
  <2>1. TypeOK /\ MapIsTrue /\ Single(wire) /\ Books
    BY DEF IInv, Books
  <2>2. MapIsTrue' /\ Single(wire)' /\ Books'
    BY <1>1, <2>1, StillKeeps DEF vars
  <2>3. TypeOK'
    BY <1>1, <2>1 DEF TypeOK, vars
  <2>4. QED
    BY <2>2, <2>3 DEF IInv, Books
<1>2. CASE Next
  <2>1. PICK b \in Boards :
          \/ \E type \in Types, dst \in Dsts \ {b} :
               b \in Senders /\ Send(b, type, dst)
          \/ \E p \in Port : Receive(b, p) \/ Lose(b, p)
          \/ Reboot(b)
          \/ Rekey(b)
    BY <1>2 DEF Next
  <2>2. CASE \E type \in Types, dst \in Dsts \ {b} :
               b \in Senders /\ Send(b, type, dst)
    BY <2>2, SendKeeps
  <2>3. CASE \E p \in Port : Receive(b, p) \/ Lose(b, p)
    BY <2>3, RefuseKeeps, ReplayedKeeps, AcceptKeeps, LoseKeeps DEF Receive
  <2>4. CASE Reboot(b)
    BY <2>4, RebootKeeps
  <2>5. CASE Rekey(b)
    BY <2>5, RekeyKeeps
  <2>6. QED
    BY <2>1, <2>2, <2>3, <2>4, <2>5
<1>3. QED
  BY <1>1, <1>2

\* so that it holds throughout
LEMMA IInvHolds == Spec => []IInv
<1>1. Init => IInv
  BY InitIInv
<1>2. IInv /\ [Next]_vars => IInv'
  BY NextIInv
<1>3. QED
  BY <1>1, <1>2, PTL DEF Spec

\* Every state a run of the chain reaches is well typed: the counters stay
\* within 16 bits, the hop limit never falls below one on a wire
\* (dhp_frame_forward_prepare) and the map stays within it.
THEOREM TypeCorrect == Spec => []TypeOK
<1>1. IInv => TypeOK
  BY DEF IInv
<1>2. QED
  BY <1>1, IInvHolds, PTL

\* On a line of any length, whatever is lost, restarted or re-keyed, a board
\* that has placed another (rel_pos_from_frame) has placed it right.
THEOREM MapCorrect == Spec => []MapIsTrue
<1>1. IInv => MapIsTrue
  BY DEF IInv
<1>2. QED
  BY <1>1, IInvHolds, PTL

\* A set whose members are all equal has at most one
LEMMA LoneMember ==
  ASSUME NEW S, \A x, y \in S : x = y
  PROVE  IsFiniteSet(S) /\ Cardinality(S) \in Nat /\ Cardinality(S) <= 1
<1>1. CASE S = {}
  BY <1>1, FS_EmptySet
<1>2. CASE S # {}
  <2>1. PICK x : x \in S
    BY <1>2
  <2>2. S = {x}
    BY <2>1
  <2>3. IsFiniteSet({x}) /\ Cardinality({x}) = 1
    BY FS_Singleton
  <2>4. QED
    BY <2>2, <2>3
<1>3. QED
  BY <1>1, <1>2

\* With one copy on each port there are two copies in all
LEMMA TwoCopies ==
  ASSUME Single(wire), NEW s, NEW id
  PROVE  Cardinality(Copies(s, id)) <= 2
<1> DEFINE at(d, p) == {<<d, p, i>> : i \in {j \in DOMAIN wire[d][p] :
                                               /\ wire[d][p][j].src = s
                                               /\ wire[d][p][j].id = id}}
           on(p) == UNION {at(d, p) : d \in Boards}
<1>1. Copies(s, id) = UNION {at(d, p) : d \in Boards, p \in Port}
  BY DEF Copies
<1>2. ASSUME NEW p \in Port
      PROVE  IsFiniteSet(on(p)) /\ Cardinality(on(p)) \in Nat /\ Cardinality(on(p)) <= 1
  <2>1. ASSUME NEW c \in on(p)
        PROVE  \E d \in Boards : \E i \in DOMAIN wire[d][p] :
                 c = <<d, p, i>> /\ wire[d][p][i].src = s /\ wire[d][p][i].id = id
    BY <2>1
  <2> HIDE DEF on, at
  <2>2. ASSUME NEW c \in on(p), NEW e \in on(p)
        PROVE  c = e
    <3>1. PICK d \in Boards : \E i \in DOMAIN wire[d][p] :
             c = <<d, p, i>> /\ wire[d][p][i].src = s /\ wire[d][p][i].id = id
      BY <2>1
    <3>2. PICK i \in DOMAIN wire[d][p] :
             c = <<d, p, i>> /\ wire[d][p][i].src = s /\ wire[d][p][i].id = id
      BY <3>1
    <3>3. PICK g \in Boards : \E j \in DOMAIN wire[g][p] :
             e = <<g, p, j>> /\ wire[g][p][j].src = s /\ wire[g][p][j].id = id
      BY <2>1
    <3>4. PICK j \in DOMAIN wire[g][p] :
             e = <<g, p, j>> /\ wire[g][p][j].src = s /\ wire[g][p][j].id = id
      BY <3>3
    <3>5. d = g /\ i = j
      BY <3>2, <3>4 DEF Single
    <3>6. QED
      BY <3>2, <3>4, <3>5
  <2>3. QED
    BY <2>2, LoneMember
<1> HIDE DEF at
<1>3. Copies(s, id) = on("UP") \cup on("DOWN")
  <2>1. ASSUME NEW c
        PROVE  c \in Copies(s, id) <=> \E d \in Boards, p \in Port : c \in at(d, p)
    BY <1>1
  <2>2. ASSUME NEW c, NEW p
        PROVE  c \in on(p) <=> \E d \in Boards : c \in at(d, p)
    OBVIOUS
  <2> HIDE DEF on
  <2>3. ASSUME NEW c
        PROVE  c \in Copies(s, id) <=> c \in on("UP") \/ c \in on("DOWN")
    BY <2>1, <2>2 DEF Port
  <2>4. QED
    BY <2>3
<1> HIDE DEF on
<1>4. "UP" \in Port /\ "DOWN" \in Port
  BY DEF Port
<1>5. /\ IsFiniteSet(on("UP")) /\ Cardinality(on("UP")) \in Nat /\ Cardinality(on("UP")) <= 1
      /\ IsFiniteSet(on("DOWN")) /\ Cardinality(on("DOWN")) \in Nat /\ Cardinality(on("DOWN")) <= 1
  BY <1>2, <1>4
<1>6. IsFiniteSet(on("UP") \cap on("DOWN"))
  BY <1>5, FS_Intersection
<1>7. Cardinality(on("UP") \cap on("DOWN")) \in Nat
  BY <1>6, FS_CardinalityType
<1>8. Cardinality(on("UP") \cup on("DOWN")) =
        Cardinality(on("UP")) + Cardinality(on("DOWN")) - Cardinality(on("UP") \cap on("DOWN"))
  BY <1>5, FS_Union
<1>9. Cardinality(on("UP") \cup on("DOWN")) <= 2
  BY <1>5, <1>7, <1>8
<1>10. QED
  BY <1>3, <1>9

\* However a chain is wired, a frame is never on its wires more often than it
\* left its sender: relaying (relay) moves the copies and adds none.
THEOREM StormFree == Spec => []NoStorm
<1>1. IInv => NoStorm
  BY TwoCopies DEF IInv, NoStorm
<1>2. QED
  BY <1>1, IInvHolds, PTL

\* A step hands a frame up only if it is newer than the last one
LEMMA StepInOrder ==
  ASSUME FewSenders, IInv, [Next]_vars,
         NEW b \in Boards, NEW s \in Boards, owed'[b][s] < owed[b][s]
  PROVE  last'[b][s] > last[b][s]
<1>1. TypeOK /\ Books
  BY DEF IInv, Books
<1>2. owed \in [Boards -> [Boards -> Int]] /\ owed[b][s] \in Int
  BY <1>1 DEF TypeOK
<1>3. owed' # owed
  BY <1>2
<1>4. CASE Next
  <2>1. PICK c \in Boards :
          \/ \E type \in Types, dst \in Dsts \ {c} : Send(c, type, dst)
          \/ \E p \in Port : Receive(c, p) \/ Lose(c, p)
          \/ Reboot(c)
          \/ Rekey(c)
    BY <1>4 DEF Next
  <2>2. ~(Reboot(c) \/ Rekey(c))
    BY <1>3 DEF Reboot, Rekey
  <2>3. ASSUME NEW type, NEW dst, Send(c, type, dst)
        PROVE  FALSE
    <3>1. owed' = [d \in Boards |-> [t \in Boards |->
                     IF t = c /\ d # c /\ dst \in {d, Broadcast}
                     THEN owed[d][t] + 1 ELSE owed[d][t]]]
      BY <2>3 DEF Send
    <3>2. owed'[b][s] = owed[b][s] \/ owed'[b][s] = owed[b][s] + 1
      BY <3>1
    <3>3. QED
      BY <1>2, <3>2
  <2>4. PICK p \in Port : Receive(c, p) \/ Lose(c, p)
    BY <2>1, <2>2, <2>3
  <2>5. Accept(c, p)
    BY <1>3, <2>4 DEF Receive, Refuse, Replayed, Lose
  <2>6. PICK base \in [Boards -> Nat] : Counter(base) /\ Wires(base) /\ Windows(base)
    BY <1>1 DEF Books
  <2>7. PICK f \in Good(base, c, p) :
           /\ f = Head(wire[c][p]) /\ wire[c][p] # <<>>
           /\ SeqIsFresh(c, f.src, f.seq)
           /\ seen' = Accepted(c, f.src, f.seq)
           /\ last' = [last EXCEPT ![c][f.src] = f.id]
           /\ missed' = [missed EXCEPT ![c][f.src] = <<>>]
           /\ wire' = Relay(c, p, f, Take(wire, c, p))
           /\ \/ /\ f.dst \in {c, Broadcast}
                 /\ owed' = [owed EXCEPT ![c][f.src] = @ - 1]
                 /\ \/ rel_pos' = [rel_pos EXCEPT ![c][f.src] = RelPosFromFrame(f, p)]
                    \/ rel_pos' = rel_pos
              \/ f.dst \notin {c, Broadcast} /\ UNCHANGED <<owed, rel_pos>>
           /\ UNCHANGED <<ring, tx_seq, keyed, sent, faults>>
    BY <1>1, <2>5, <2>6, AcceptParts
  <2>8. /\ owed' = [owed EXCEPT ![c][f.src] = @ - 1]
        /\ last' = [last EXCEPT ![c][f.src] = f.id]
        /\ SeqIsFresh(c, f.src, f.seq)
    BY <1>3, <2>7
  <2>9. f \in Frame /\ Fresh(base, f) /\ f.src \in Boards /\ f.src \in Senders
    BY DEF Good, Fresh, Frame
  <2>10. c = b /\ f.src = s
    BY <1>2, <2>8, <2>9
  <2>11. SeenGet(c, f.src)
    <3>1. \A t \in Boards : seen[c][t].used => t \in Senders
      BY <2>6 DEF Windows, Window
    <3>2. QED
      BY <2>9, <3>1, TableHasRoom
  <2>12. Window(base, c, f.src)
    BY <2>6, <2>9 DEF Windows
  <2>13. f.id > last[c][f.src]
    BY <1>1, <2>8, <2>9, <2>11, <2>12, FreshIsNewer
  <2>14. last \in [Boards -> [Boards -> 0..MaxSend]]
    BY <1>1, Counts
  <2>15. last'[c][f.src] = f.id
    BY <2>8, <2>9, <2>14
  <2>16. QED
    BY <2>10, <2>13, <2>15
<1>5. CASE UNCHANGED vars
  BY <1>3, <1>5 DEF vars
<1>6. QED
  BY <1>4, <1>5

\* As long as no more boards talk than the replay table has slots
\* (DHP_MAX_BOARDS), no frame is handed up twice or behind a later one of its
\* source: through losses, counter wrap, restarts and a ring, seq_is_fresh
\* lets only newer frames pass.
THEOREM InOrder == FewSenders => (Spec => DeliveredOnceInOrder)
<1> SUFFICES ASSUME FewSenders
             PROVE  Spec => DeliveredOnceInOrder
  OBVIOUS
<1>1. IInv /\ [Next]_vars
        => [\A b, s \in Boards : owed'[b][s] < owed[b][s]
                                   => last'[b][s] > last[b][s]]_vars
  BY StepInOrder
<1>2. QED
  BY <1>1, IInvHolds, PTL DEF Spec, DeliveredOnceInOrder

-----------------------------------------------------------------------------
(* A line of boards: nothing overtakes *)

\* Of two frames on their way to ports p, the i-th of d's queue is nearer its
\* end of the chain than the j-th of e's
Ahead(p, d, i, e, j) ==
  (IF p = "UP" THEN d > e ELSE d < e) \/ (d = e /\ i < j)

\* The frames of a source keep the order they were sent in
Ordered(w) ==
  \A p \in Port : \A d, e \in Boards :
    \A i \in DOMAIN w[d][p], j \in DOMAIN w[e][p] :
      w[d][p][i].src = w[e][p][j].src /\ Ahead(p, d, i, e, j)
        => w[d][p][i].id < w[e][p][j].id

\* A frame on its way to port p of e has b still to come, or gets there now
Toward(b, p, e) == IF p = "UP" THEN e <= b ELSE e >= b

\* What b has still to see of s is newer than frame r
Behind(w, b, s, r) ==
  \A p \in Port : \A e \in Boards : \A i \in DOMAIN w[e][p] :
    w[e][p][i].src = s /\ Toward(b, p, e) => w[e][p][i].id > r

\* Frame n of s is for d and on its way there
Owes(w, d, s, n) ==
  \E p \in Port : \E e \in Boards : \E i \in DOMAIN w[e][p] :
    /\ w[e][p][i].src = s
    /\ w[e][p][i].id = n
    /\ w[e][p][i].dst \in {d, Broadcast}
    /\ Toward(d, p, e)

\* Behind all of its source that went before, ahead of all that follows
Fitting(w, d, p, f) ==
  \A e \in Boards : \A i \in DOMAIN w[e][p] :
    w[e][p][i].src = f.src
      => IF Toward(d, p, e) /\ e # d THEN w[e][p][i].id > f.id
                                     ELSE w[e][p][i].id < f.id

\* Boards are numbered
LEMMA BoardsAreInt == \A b \in Boards : b \in Int /\ 1 <= b /\ b <= N
  BY LinkAssumption DEF Boards

\* Where the frames of a queue that gained one were
LEMMA PutFrom ==
  ASSUME NEW w, Typed(w), NEW d \in Boards, NEW p \in Port, NEW f \in Frame
  PROVE  /\ \A e \in Boards, q \in Port : \A i \in DOMAIN Put(w, d, p, f)[e][q] :
              \/ /\ i \in DOMAIN w[e][q]
                 /\ Put(w, d, p, f)[e][q][i] = w[e][q][i]
              \/ /\ e = d /\ q = p /\ i = Len(w[d][p]) + 1
                 /\ Put(w, d, p, f)[e][q][i] = f
         /\ \A e \in Boards, q \in Port : \A i \in DOMAIN w[e][q] :
              /\ i \in DOMAIN Put(w, d, p, f)[e][q]
              /\ Put(w, d, p, f)[e][q][i] = w[e][q][i]
         /\ Len(w[d][p]) + 1 \in DOMAIN Put(w, d, p, f)[d][p]
         /\ Put(w, d, p, f)[d][p][Len(w[d][p]) + 1] = f
         /\ DOMAIN w[d][p] = 1..Len(w[d][p]) /\ Len(w[d][p]) \in Nat
<1> DEFINE v == Put(w, d, p, f)
<1>1. /\ v[d][p] = Append(w[d][p], f)
      /\ \A e \in Boards, q \in Port : ~(e = d /\ q = p) => v[e][q] = w[e][q]
  BY PutIs
<1>2. w[d][p] \in Seq(Frame)
  BY DEF Typed
<1>3. PICK n \in Nat : n = Len(w[d][p])
  BY <1>2, LenProperties
<1>4. /\ DOMAIN v[d][p] = 1..(n + 1) /\ DOMAIN w[d][p] = 1..n
      /\ v[d][p][n + 1] = f
      /\ \A i \in 1..n : v[d][p][i] = w[d][p][i]
  BY <1>1, <1>2, <1>3
<1> HIDE DEF v
<1>5. ASSUME NEW e \in Boards, NEW q \in Port, NEW i \in DOMAIN v[e][q]
      PROVE  \/ i \in DOMAIN w[e][q] /\ v[e][q][i] = w[e][q][i]
             \/ e = d /\ q = p /\ i = n + 1 /\ v[e][q][i] = f
  <2>1. CASE ~(e = d /\ q = p)
    BY <1>1, <2>1
  <2>2. CASE e = d /\ q = p
    <3>1. i \in 1..(n + 1)
      BY <1>4, <2>2
    <3>2. i \in 1..n \/ i = n + 1
      BY <3>1
    <3>3. QED
      BY <1>4, <2>2, <3>2
  <2>3. QED
    BY <2>1, <2>2
<1>6. ASSUME NEW e \in Boards, NEW q \in Port, NEW i \in DOMAIN w[e][q]
      PROVE  i \in DOMAIN v[e][q] /\ v[e][q][i] = w[e][q][i]
  <2>1. CASE ~(e = d /\ q = p)
    BY <1>1, <2>1
  <2>2. CASE e = d /\ q = p
    BY <1>4, <2>2
  <2>3. QED
    BY <2>1, <2>2
<1>7. n + 1 \in DOMAIN v[d][p] /\ v[d][p][n + 1] = f
  BY <1>4
<1>8. QED
  BY <1>3, <1>4, <1>5, <1>6, <1>7, ZenonT(40) DEF v

\* and of one that lost its head
LEMMA TakeFrom ==
  ASSUME NEW w, Typed(w), NEW d \in Boards, NEW p \in Port, w[d][p] # <<>>
  PROVE  /\ \A e \in Boards, q \in Port : \A i \in DOMAIN Take(w, d, p)[e][q] :
              IF e = d /\ q = p
              THEN /\ i \in Nat \ {0} /\ i + 1 \in DOMAIN w[e][q]
                   /\ Take(w, d, p)[e][q][i] = w[e][q][i + 1]
              ELSE /\ i \in DOMAIN w[e][q]
                   /\ Take(w, d, p)[e][q][i] = w[e][q][i]
         /\ \A e \in Boards, q \in Port : \A i \in DOMAIN w[e][q] :
              IF e = d /\ q = p
              THEN \/ i = 1
                   \/ /\ i - 1 \in DOMAIN Take(w, d, p)[e][q]
                      /\ Take(w, d, p)[e][q][i - 1] = w[e][q][i]
              ELSE /\ i \in DOMAIN Take(w, d, p)[e][q]
                   /\ Take(w, d, p)[e][q][i] = w[e][q][i]
         /\ 1 \in DOMAIN w[d][p] /\ w[d][p][1] = Head(w[d][p])
         /\ w[d][p][1] \in Frame
<1> DEFINE v == Take(w, d, p)
<1>1. /\ v[d][p] = Tail(w[d][p])
      /\ \A e \in Boards, q \in Port : ~(e = d /\ q = p) => v[e][q] = w[e][q]
  BY TakeIs
<1>2. w[d][p] \in Seq(Frame)
  BY DEF Typed
<1>3. PICK n \in Nat : n = Len(w[d][p])
  BY <1>2, LenProperties
<1>4. n > 0
  BY <1>2, <1>3, EmptySeq
<1>5. /\ DOMAIN v[d][p] = 1..(n - 1) /\ DOMAIN w[d][p] = 1..n
      /\ w[d][p][1] = Head(w[d][p])
      /\ \A i \in 1..(n - 1) : v[d][p][i] = w[d][p][i + 1]
  BY <1>1, <1>2, <1>3, <1>4
<1> HIDE DEF v
<1>6. ASSUME NEW e \in Boards, NEW q \in Port, NEW i \in DOMAIN v[e][q]
      PROVE  IF e = d /\ q = p
             THEN i \in Nat \ {0} /\ i + 1 \in DOMAIN w[e][q] /\ v[e][q][i] = w[e][q][i + 1]
             ELSE i \in DOMAIN w[e][q] /\ v[e][q][i] = w[e][q][i]
  <2>1. CASE e = d /\ q = p
    <3>1. i \in 1..(n - 1)
      BY <1>5, <1>6, <2>1
    <3>2. i \in Nat \ {0} /\ i + 1 \in 1..n /\ v[d][p][i] = w[d][p][i + 1]
      BY <1>5, <3>1
    <3>3. QED
      BY <3>2, <2>1, <1>5
  <2>2. CASE ~(e = d /\ q = p)
    BY <1>1, <1>6, <2>2
  <2>3. QED
    BY <2>1, <2>2
<1>7. ASSUME NEW e \in Boards, NEW q \in Port, NEW i \in DOMAIN w[e][q]
      PROVE  IF e = d /\ q = p
             THEN \/ i = 1
                  \/ i - 1 \in DOMAIN v[e][q] /\ v[e][q][i - 1] = w[e][q][i]
             ELSE i \in DOMAIN v[e][q] /\ v[e][q][i] = w[e][q][i]
  <2>1. CASE e = d /\ q = p
    <3>1. i \in 1..n
      BY <1>5, <1>7, <2>1
    <3>2. CASE i # 1
      <4>1. i - 1 \in 1..(n - 1) /\ (i - 1) + 1 = i
        BY <3>1, <3>2
      <4>2. v[d][p][i - 1] = w[d][p][(i - 1) + 1]
        BY <4>1, <1>5
      <4>3. QED
        BY <4>1, <4>2, <1>5, <2>1
    <3>3. QED
      BY <3>2, <2>1
  <2>2. CASE ~(e = d /\ q = p)
    BY <1>1, <1>7, <2>2
  <2>3. QED
    BY <2>1, <2>2
<1>8. 1 \in DOMAIN w[d][p] /\ w[d][p][1] = Head(w[d][p]) /\ w[d][p][1] \in Frame
  BY <1>2, <1>4, <1>5, ElementOfSeq
<1>9. QED
  BY <1>6, <1>7, <1>8, Zenon DEF v

\* Taking a frame off disturbs no order
LEMMA TakeOrdered ==
  ASSUME NEW w, Typed(w), Ordered(w), NEW d \in Boards, NEW p \in Port, w[d][p] # <<>>
  PROVE  Ordered(Take(w, d, p))
<1> DEFINE v == Take(w, d, p)
           at(e, q, i) == IF e = d /\ q = p THEN i + 1 ELSE i
<1>1. \A e \in Boards, q \in Port : \A i \in DOMAIN v[e][q] :
        /\ at(e, q, i) \in DOMAIN w[e][q] /\ v[e][q][i] = w[e][q][at(e, q, i)]
        /\ e = d /\ q = p => i \in Nat
  BY TakeFrom
<1> HIDE DEF v
<1>2. SUFFICES ASSUME NEW q \in Port, NEW e \in Boards, NEW g \in Boards,
                      NEW i \in DOMAIN v[e][q], NEW j \in DOMAIN v[g][q],
                      v[e][q][i].src = v[g][q][j].src, Ahead(q, e, i, g, j)
               PROVE  v[e][q][i].id < v[g][q][j].id
  BY DEF Ordered, v
<1>3. Ahead(q, e, at(e, q, i), g, at(g, q, j))
  <2>1. CASE e = d /\ q = p /\ g = e
    BY <1>1, <1>2, <2>1 DEF Ahead
  <2>2. CASE ~(e = d /\ q = p /\ g = e)
    <3>1. CASE g = e
      BY <1>2, <2>2, <3>1 DEF Ahead
    <3>2. CASE g # e
      BY <1>2, <3>2 DEF Ahead
    <3>3. QED
      BY <3>1, <3>2
  <2>3. QED
    BY <2>1, <2>2
<1>4. /\ at(e, q, i) \in DOMAIN w[e][q] /\ v[e][q][i] = w[e][q][at(e, q, i)]
      /\ at(g, q, j) \in DOMAIN w[g][q] /\ v[g][q][j] = w[g][q][at(g, q, j)]
  BY <1>1
<1> HIDE DEF at
<1>5. QED
  BY <1>2, <1>3, <1>4 DEF Ordered

\* nor does putting one in its place
LEMMA PutOrdered ==
  ASSUME NEW w, Typed(w), Ordered(w), NEW d \in Boards, NEW p \in Port,
         NEW f \in Frame, Fitting(w, d, p, f)
  PROVE  Ordered(Put(w, d, p, f))
<1> DEFINE v == Put(w, d, p, f)
<1>0. PICK n : n = Len(w[d][p])
  OBVIOUS
<1>1. /\ n \in Nat /\ DOMAIN w[d][p] = 1..n
      /\ \A e \in Boards, q \in Port : \A i \in DOMAIN v[e][q] :
           \/ i \in DOMAIN w[e][q] /\ v[e][q][i] = w[e][q][i]
           \/ e = d /\ q = p /\ i = n + 1 /\ v[e][q][i] = f
  BY <1>0, PutFrom
<1> HIDE DEF v
<1>2. SUFFICES ASSUME NEW q \in Port, NEW e \in Boards, NEW g \in Boards,
                      NEW i \in DOMAIN v[e][q], NEW j \in DOMAIN v[g][q],
                      v[e][q][i].src = v[g][q][j].src, Ahead(q, e, i, g, j)
               PROVE  v[e][q][i].id < v[g][q][j].id
  BY DEF Ordered, v
<1>a. d \in Int /\ e \in Int /\ g \in Int
  BY BoardsAreInt
<1>3. CASE /\ i \in DOMAIN w[e][q] /\ v[e][q][i] = w[e][q][i]
           /\ j \in DOMAIN w[g][q] /\ v[g][q][j] = w[g][q][j]
  BY <1>2, <1>3 DEF Ordered
<1>4. CASE /\ e = d /\ q = p /\ i = n + 1 /\ v[e][q][i] = f
           /\ j \in DOMAIN w[g][q] /\ v[g][q][j] = w[g][q][j]
  <2>1. g # d
    <3>1. SUFFICES ASSUME g = d PROVE FALSE
      OBVIOUS
    <3>2. j \in 1..n /\ n + 1 < j
      BY <1>1, <1>2, <1>4, <3>1, <1>a DEF Ahead
    <3>3. QED
      BY <1>1, <3>2
  <2>2. Toward(d, p, g)
    BY <1>2, <1>4, <1>a, <2>1 DEF Ahead, Toward
  <2>3. w[g][p][j].src = f.src
    BY <1>2, <1>4
  <2>4. w[g][p][j].id > f.id
    BY <1>4, <2>1, <2>2, <2>3 DEF Fitting
  <2>5. w[g][p][j].id \in Int /\ f.id \in Int
    <3>1. w[g][p] \in Seq(Frame) /\ j \in DOMAIN w[g][p]
      BY <1>4 DEF Typed
    <3>2. w[g][p][j] \in Frame
      BY <3>1, ElementOfSeq
    <3>3. QED
      BY <3>2, LinkAssumption DEF Frame
  <2>6. QED
    BY <1>4, <2>4, <2>5
<1>5. CASE /\ i \in DOMAIN w[e][q] /\ v[e][q][i] = w[e][q][i]
           /\ g = d /\ q = p /\ j = n + 1 /\ v[g][q][j] = f
  <2>1. ~(Toward(d, p, e) /\ e # d)
    BY <1>2, <1>5, <1>a DEF Ahead, Toward
  <2>2. w[e][p][i].src = f.src
    BY <1>2, <1>5
  <2>3. QED
    BY <1>5, <2>1, <2>2 DEF Fitting
<1>6. CASE e = d /\ q = p /\ i = n + 1 /\ g = d /\ j = n + 1
  BY <1>1, <1>2, <1>6, <1>a DEF Ahead
<1>7. QED
  BY <1>1, <1>3, <1>4, <1>5, <1>6

\* What is still to come stays newer when a frame goes
LEMMA TakeBehind ==
  ASSUME NEW w, Typed(w), NEW d \in Boards, NEW p \in Port, w[d][p] # <<>>,
         NEW b, NEW s, NEW r, Behind(w, b, s, r)
  PROVE  Behind(Take(w, d, p), b, s, r)
<1>1. \A e \in Boards, q \in Port : \A i \in DOMAIN Take(w, d, p)[e][q] :
        \E k \in DOMAIN w[e][q] : Take(w, d, p)[e][q][i] = w[e][q][k]
  BY TakeFrom
<1>2. QED
  BY <1>1 DEF Behind

\* or a newer one comes
LEMMA PutBehind ==
  ASSUME NEW w, Typed(w), NEW d \in Boards, NEW p \in Port, NEW f \in Frame,
         NEW b, NEW s, NEW r, Behind(w, b, s, r),
         f.src = s /\ Toward(b, p, d) => f.id > r
  PROVE  Behind(Put(w, d, p, f), b, s, r)
<1>1. \A e \in Boards, q \in Port : \A i \in DOMAIN Put(w, d, p, f)[e][q] :
        \/ \E k \in DOMAIN w[e][q] : Put(w, d, p, f)[e][q][i] = w[e][q][k]
        \/ e = d /\ q = p /\ Put(w, d, p, f)[e][q][i] = f
  BY PutFrom
<1>2. QED
  BY <1>1 DEF Behind

\* A frame counts as under way until it is taken
LEMMA TakeOwes ==
  ASSUME NEW w, Typed(w), NEW b \in Boards, NEW p \in Port, w[b][p] # <<>>,
         NEW d, NEW s, NEW n
  PROVE  Owes(w, d, s, n) <=>
           \/ Owes(Take(w, b, p), d, s, n)
           \/ LET f == Head(w[b][p])
              IN  /\ f.src = s /\ f.id = n /\ f.dst \in {d, Broadcast}
                  /\ Toward(d, p, b)
<1> DEFINE v == Take(w, b, p)
<1>1. PICK f : f = Head(w[b][p])
  OBVIOUS
<1>2. /\ \A e \in Boards, q \in Port : \A i \in DOMAIN v[e][q] :
           \E k \in DOMAIN w[e][q] : v[e][q][i] = w[e][q][k]
      /\ \A e \in Boards, q \in Port : \A i \in DOMAIN w[e][q] :
           \/ e = b /\ q = p /\ w[e][q][i] = f
           \/ \E k \in DOMAIN v[e][q] : v[e][q][k] = w[e][q][i]
      /\ \E k \in DOMAIN w[b][p] : w[b][p][k] = f
  BY <1>1, TakeFrom
<1> HIDE DEF v
<1>3. Owes(v, d, s, n) => Owes(w, d, s, n)
  BY <1>2 DEF Owes
<1>4. f.src = s /\ f.id = n /\ f.dst \in {d, Broadcast} /\ Toward(d, p, b)
        => Owes(w, d, s, n)
  BY <1>2, Zenon DEF Owes
<1>5. Owes(w, d, s, n) =>
        \/ Owes(v, d, s, n)
        \/ f.src = s /\ f.id = n /\ f.dst \in {d, Broadcast} /\ Toward(d, p, b)
  BY <1>2 DEF Owes
<1>6. QED
  BY <1>1, <1>3, <1>4, <1>5 DEF v

\* and from when it is put there
LEMMA PutOwes ==
  ASSUME NEW w, Typed(w), NEW b \in Boards, NEW p \in Port, NEW f \in Frame,
         NEW d, NEW s, NEW n
  PROVE  Owes(Put(w, b, p, f), d, s, n) <=>
           \/ Owes(w, d, s, n)
           \/ f.src = s /\ f.id = n /\ f.dst \in {d, Broadcast} /\ Toward(d, p, b)
<1> DEFINE v == Put(w, b, p, f)
<1>2. /\ \A e \in Boards, q \in Port : \A i \in DOMAIN w[e][q] :
           \E k \in DOMAIN v[e][q] : v[e][q][k] = w[e][q][i]
      /\ \A e \in Boards, q \in Port : \A i \in DOMAIN v[e][q] :
           \/ e = b /\ q = p /\ v[e][q][i] = f
           \/ \E k \in DOMAIN w[e][q] : v[e][q][i] = w[e][q][k]
      /\ \E k \in DOMAIN v[b][p] : v[b][p][k] = f
  BY PutFrom, SMTT(40)
<1> HIDE DEF v
<1>3. Owes(w, d, s, n) => Owes(v, d, s, n)
  BY <1>2 DEF Owes
<1>4. f.src = s /\ f.id = n /\ f.dst \in {d, Broadcast} /\ Toward(d, p, b)
        => Owes(v, d, s, n)
  BY <1>2, Zenon DEF Owes
<1>5. Owes(v, d, s, n) =>
        \/ Owes(w, d, s, n)
        \/ f.src = s /\ f.id = n /\ f.dst \in {d, Broadcast} /\ Toward(d, p, b)
  BY <1>2 DEF Owes
<1>6. QED
  BY <1>3, <1>4, <1>5 DEF v

\* The copy that leaves b by port p, if there is a board there
Leaves(b, ps, p) == p \in ps /\ Neighbour(b, p) \in Boards

\* One port, as Into has it
LEMMA IntoCases ==
  ASSUME NEW w, NEW b, NEW ps, NEW p \in Port, NEW f
  PROVE  /\ Opposite(p) \in Port
         /\ Leaves(b, ps, p) =>
              /\ Neighbour(b, p) \in Boards
              /\ Into(b, ps, p, f, w) = Put(w, Neighbour(b, p), Opposite(p), f)
         /\ ~Leaves(b, ps, p) => Into(b, ps, p, f, w) = w
<1>1. Opposite(p) \in Port
  BY DEF Opposite, Port
<1>2. QED
  BY <1>1, Zenon DEF Into, Leaves

\* What a transmission adds to what is under way
LEMMA TransmitOwes ==
  ASSUME NEW w, Typed(w), NEW b \in Boards, NEW ps, NEW f \in Frame,
         NEW d, NEW s, NEW n
  PROVE  Owes(Transmit(b, ps, f, w), d, s, n) <=>
           \/ Owes(w, d, s, n)
           \/ /\ f.src = s /\ f.id = n /\ f.dst \in {d, Broadcast}
              /\ \E q \in Port : /\ Leaves(b, ps, q)
                                 /\ Toward(d, Opposite(q), Neighbour(b, q))
<1> DEFINE mine == f.src = s /\ f.id = n /\ f.dst \in {d, Broadcast}
           hit(q) == Leaves(b, ps, q) /\ Toward(d, Opposite(q), Neighbour(b, q))
<1>1. ASSUME NEW q \in Port, NEW v, Typed(v)
      PROVE  /\ Typed(Into(b, ps, q, f, v))
             /\ Owes(Into(b, ps, q, f, v), d, s, n) <=>
                  Owes(v, d, s, n) \/ (mine /\ hit(q))
  <2>1. Typed(Into(b, ps, q, f, v))
    BY <1>1, IntoKeeps
  <2>2. CASE Leaves(b, ps, q)
    <3>1. /\ Opposite(q) \in Port /\ Neighbour(b, q) \in Boards
          /\ Into(b, ps, q, f, v) = Put(v, Neighbour(b, q), Opposite(q), f)
      BY <2>2, IntoCases
    <3>2. PICK c \in Boards, o \in Port : c = Neighbour(b, q) /\ o = Opposite(q)
      BY <3>1
    <3>3. Owes(Put(v, c, o, f), d, s, n) <=>
            Owes(v, d, s, n) \/ (mine /\ Toward(d, o, c))
      BY <1>1, PutOwes
    <3>4. QED
      BY <2>1, <2>2, <3>1, <3>2, <3>3, Zenon
  <2>3. CASE ~Leaves(b, ps, q)
    <3>1. Into(b, ps, q, f, v) = v
      BY <2>3, IntoCases
    <3>2. QED
      BY <1>1, <2>3, <3>1, Zenon
  <2>4. QED
    BY <2>2, <2>3
<1> HIDE DEF mine, hit
<1>2. "UP" \in Port /\ "DOWN" \in Port /\ \A q \in Port : q \in {"UP", "DOWN"}
  BY DEF Port
<1>3. PICK v : v = Into(b, ps, "DOWN", f, w)
  OBVIOUS
<1>4. Typed(v) /\ (Owes(v, d, s, n) <=> Owes(w, d, s, n) \/ (mine /\ hit("DOWN")))
  BY <1>1, <1>2, <1>3, Zenon
<1>5. Owes(Into(b, ps, "UP", f, v), d, s, n) <=>
        Owes(v, d, s, n) \/ (mine /\ hit("UP"))
  BY <1>1, <1>2, <1>4, Zenon
<1>6. Transmit(b, ps, f, w) = Into(b, ps, "UP", f, v)
  BY <1>3, TransmitIs, Zenon
<1>7. (\E q \in Port : hit(q)) <=> hit("UP") \/ hit("DOWN")
  BY <1>2, Zenon
<1>8. Owes(Transmit(b, ps, f, w), d, s, n) <=>
        Owes(w, d, s, n) \/ (mine /\ \E q \in Port : hit(q))
  BY <1>4, <1>5, <1>6, <1>7, Zenon
<1>9. QED
  BY <1>8, Zenon DEF mine, hit

\* What is still to come stays newer when a newer frame is sent after it
LEMMA TransmitBehind ==
  ASSUME NEW w, Typed(w), NEW b \in Boards, NEW ps, NEW f \in Frame,
         NEW d, NEW s, NEW r, Behind(w, d, s, r),
         \A q \in Port : Leaves(b, ps, q) /\ f.src = s
                           => (Toward(d, Opposite(q), Neighbour(b, q)) => f.id > r)
  PROVE  Behind(Transmit(b, ps, f, w), d, s, r)
<1>1. ASSUME NEW q \in Port, NEW v, Typed(v), Behind(v, d, s, r)
      PROVE  Typed(Into(b, ps, q, f, v)) /\ Behind(Into(b, ps, q, f, v), d, s, r)
  <2>1. Typed(Into(b, ps, q, f, v))
    BY <1>1, IntoKeeps
  <2>2. CASE Leaves(b, ps, q)
    <3>1. /\ Opposite(q) \in Port /\ Neighbour(b, q) \in Boards
          /\ Into(b, ps, q, f, v) = Put(v, Neighbour(b, q), Opposite(q), f)
      BY <2>2, IntoCases
    <3>2. PICK c \in Boards, o \in Port : c = Neighbour(b, q) /\ o = Opposite(q)
      BY <3>1
    <3>3. f.src = s /\ Toward(d, o, c) => f.id > r
      BY <2>2, <3>2, Zenon
    <3>4. Behind(Put(v, c, o, f), d, s, r)
      BY <1>1, <3>3, PutBehind
    <3>5. QED
      BY <2>1, <3>1, <3>2, <3>4, Zenon
  <2>3. CASE ~Leaves(b, ps, q)
    <3>1. Into(b, ps, q, f, v) = v
      BY <2>3, IntoCases
    <3>2. QED
      BY <1>1, <3>1, Zenon
  <2>4. QED
    BY <2>2, <2>3
<1>2. "UP" \in Port /\ "DOWN" \in Port
  BY DEF Port
<1>3. PICK v : v = Into(b, ps, "DOWN", f, w)
  OBVIOUS
<1>4. Typed(v) /\ Behind(v, d, s, r)
  BY <1>1, <1>2, <1>3, Zenon
<1>5. Behind(Into(b, ps, "UP", f, v), d, s, r)
  BY <1>1, <1>2, <1>4, Zenon
<1>6. Transmit(b, ps, f, w) = Into(b, ps, "UP", f, v)
  BY <1>3, TransmitIs, Zenon
<1>7. QED
  BY <1>5, <1>6, Zenon

\* and the order of a source's frames when each copy fits where it goes
LEMMA TransmitOrdered ==
  ASSUME NEW w, Typed(w), Ordered(w), NEW b \in Boards, NEW ps, NEW f \in Frame,
         \A q \in Port : Leaves(b, ps, q)
                           => Fitting(w, Neighbour(b, q), Opposite(q), f)
  PROVE  Ordered(Transmit(b, ps, f, w))
<1>1. ASSUME NEW q \in Port, NEW v, Typed(v), Ordered(v),
             Leaves(b, ps, q) => Fitting(v, Neighbour(b, q), Opposite(q), f)
      PROVE  Typed(Into(b, ps, q, f, v)) /\ Ordered(Into(b, ps, q, f, v))
  <2>1. Typed(Into(b, ps, q, f, v))
    BY <1>1, IntoKeeps
  <2>2. CASE Leaves(b, ps, q)
    <3>1. /\ Opposite(q) \in Port /\ Neighbour(b, q) \in Boards
          /\ Into(b, ps, q, f, v) = Put(v, Neighbour(b, q), Opposite(q), f)
      BY <2>2, IntoCases
    <3>2. PICK c \in Boards, o \in Port : c = Neighbour(b, q) /\ o = Opposite(q)
      BY <3>1
    <3>3. Fitting(v, c, o, f)
      BY <1>1, <2>2, <3>2, Zenon
    <3>4. Ordered(Put(v, c, o, f))
      BY <1>1, <3>3, PutOrdered
    <3>5. QED
      BY <2>1, <3>1, <3>2, <3>4, Zenon
  <2>3. CASE ~Leaves(b, ps, q)
    <3>1. Into(b, ps, q, f, v) = v
      BY <2>3, IntoCases
    <3>2. QED
      BY <1>1, <3>1, Zenon
  <2>4. QED
    BY <2>2, <2>3
<1>2. /\ "UP" \in Port /\ "DOWN" \in Port
      /\ Opposite("UP") = "DOWN" /\ Opposite("DOWN") = "UP" /\ "UP" # "DOWN"
  BY DEF Port, Opposite
<1>3. PICK v : v = Into(b, ps, "DOWN", f, w)
  OBVIOUS
<1>4. Typed(v) /\ Ordered(v)
  BY <1>1, <1>2, <1>3, Zenon
<1>5. \A e \in Boards : v[e]["DOWN"] = w[e]["DOWN"]
  <2>1. CASE Leaves(b, ps, "DOWN")
    <3>0. /\ Neighbour(b, "DOWN") \in Boards
          /\ Into(b, ps, "DOWN", f, w) = Put(w, Neighbour(b, "DOWN"), Opposite("DOWN"), f)
      BY <1>2, <2>1, IntoCases
    <3>1. Neighbour(b, "DOWN") \in Boards /\ v = Put(w, Neighbour(b, "DOWN"), "UP", f)
      BY <1>2, <1>3, <3>0, Zenon
    <3>2. PICK c \in Boards : c = Neighbour(b, "DOWN")
      BY <3>1
    <3>3. \A e \in Boards : Put(w, c, "UP", f)[e]["DOWN"] = w[e]["DOWN"]
      BY <1>2, PutIs
    <3>4. QED
      BY <3>1, <3>2, <3>3, Zenon
  <2>2. CASE ~Leaves(b, ps, "DOWN")
    <3>1. Into(b, ps, "DOWN", f, w) = w
      BY <1>2, <2>2, IntoCases
    <3>2. QED
      BY <1>3, <3>1, Zenon
  <2>3. QED
    BY <2>1, <2>2
<1>6. Leaves(b, ps, "UP") => Fitting(v, Neighbour(b, "UP"), "DOWN", f)
  <2>1. SUFFICES ASSUME Leaves(b, ps, "UP")
                 PROVE  Fitting(v, Neighbour(b, "UP"), "DOWN", f)
    OBVIOUS
  <2>2. PICK c : c = Neighbour(b, "UP")
    OBVIOUS
  <2>3. Fitting(w, c, "DOWN", f)
    BY <1>2, <2>1, <2>2, Zenon
  <2>4. Fitting(v, c, "DOWN", f)
    BY <1>5, <2>3 DEF Fitting
  <2>5. QED
    BY <2>2, <2>4, Zenon
<1>7. Ordered(Into(b, ps, "UP", f, v))
  BY <1>1, <1>2, <1>4, <1>6, Zenon
<1>8. Transmit(b, ps, f, w) = Into(b, ps, "UP", f, v)
  BY <1>3, TransmitIs, Zenon
<1>9. QED
  BY <1>7, <1>8, Zenon

\* On a line a frame leaves b by q for the next board, and is on its way to
\* every board beyond
LEMMA LineWays ==
  ASSUME ~ring, NEW b \in Boards, NEW d \in Boards
  PROVE  /\ Leaves(b, Port, "UP") <=> b > 1
         /\ Leaves(b, Port, "DOWN") <=> b < N
         /\ Neighbour(b, "UP") = b - 1 /\ Neighbour(b, "DOWN") = b + 1
         /\ Opposite("UP") = "DOWN" /\ Opposite("DOWN") = "UP"
         /\ Toward(d, "DOWN", b - 1) <=> d < b
         /\ Toward(d, "UP", b + 1) <=> d > b
<1>1. "UP" \in Port /\ "DOWN" \in Port /\ "UP" # "DOWN"
  BY DEF Port
<1>2. Neighbour(b, "UP") = b - 1 /\ Neighbour(b, "DOWN") = b + 1
  BY <1>1, NextPlace
<1>3. b \in Int /\ d \in Int /\ 1 <= b /\ b <= N /\ N \in Nat
  BY BoardsAreInt, LinkAssumption
<1>4. b - 1 \in Boards <=> b > 1
  BY <1>3 DEF Boards
<1>5. b + 1 \in Boards <=> b < N
  BY <1>3 DEF Boards
<1>6. /\ Leaves(b, Port, "UP") <=> b > 1
      /\ Leaves(b, Port, "DOWN") <=> b < N
  BY <1>1, <1>2, <1>4, <1>5, Zenon DEF Leaves
<1>7. Opposite("UP") = "DOWN" /\ Opposite("DOWN") = "UP"
  BY DEF Opposite
<1>8. /\ Toward(d, "DOWN", b - 1) <=> d < b
      /\ Toward(d, "UP", b + 1) <=> d > b
  BY <1>1, <1>3 DEF Toward
<1>9. QED
  BY <1>2, <1>6, <1>7, <1>8

\* A frame comes from the side it was sent on
Sided(w) ==
  \A p \in Port : \A e \in Boards : \A i \in DOMAIN w[e][p] :
    IF p = "UP" THEN w[e][p][i].src < e ELSE w[e][p][i].src > e

\* The next board in the direction of a frame that arrived at port p
Onward(b, p) == IF p = "UP" THEN b + 1 ELSE b - 1

\* It is one board further
LEMMA OnwardIs ==
  ASSUME ~ring, NEW b \in Boards, NEW p \in Port
  PROVE  /\ Opposite(p) \in Port /\ Opposite(Opposite(p)) = p
         /\ Neighbour(b, Opposite(p)) = Onward(b, p)
         /\ \A d \in Boards : /\ Toward(d, p, Onward(b, p)) <=> Toward(d, p, b) /\ d # b
                              /\ Toward(d, p, b) \/ d # b
                              /\ d # b /\ Toward(d, p, b) => Onward(b, p) \in Boards
         /\ Toward(b, p, b)
<1>1. p = "UP" \/ p = "DOWN"
  BY DEF Port
<1>2. "UP" # "DOWN"
  OBVIOUS
<1>3. /\ b \in Int /\ N \in Nat
      /\ \A d \in Boards : d \in Int /\ 1 <= d /\ d <= N
  BY BoardsAreInt, LinkAssumption
<1>4. Opposite(p) \in Port /\ Opposite(Opposite(p)) = p
  BY <1>1 DEF Opposite, Port
<1>5. Neighbour(b, Opposite(p)) = Onward(b, p)
  <2>1. Neighbour(b, Opposite(p)) = IF Opposite(p) = "UP" THEN b - 1 ELSE b + 1
    BY <1>4, NextPlace
  <2>2. QED
    BY <1>1, <2>1 DEF Opposite, Onward
<1>6. ASSUME NEW d \in Boards
      PROVE  /\ Toward(d, p, Onward(b, p)) <=> Toward(d, p, b) /\ d # b
             /\ Toward(d, p, b) \/ d # b
  <2>1. d \in Int
    BY <1>3
  <2>2. QED
    BY <1>1, <1>3, <2>1 DEF Toward, Onward
<1>7. ASSUME NEW d \in Boards, d # b, Toward(d, p, b)
      PROVE  Onward(b, p) \in Boards
  <2>1. d \in Int /\ 1 <= d /\ d <= N /\ 1 <= b /\ b <= N
    BY <1>3
  <2>2. QED
    BY <1>1, <1>3, <1>7, <2>1 DEF Toward, Onward, Boards
<1>8. Toward(b, p, b)
  BY <1>3 DEF Toward
<1>9. QED
  BY <1>4, <1>5, <1>6, <1>7, <1>8

\* Whether dhp_link_rx_byte passes a frame on
Passes(b, p, f) == f.dst # b /\ f.ttl # 1 /\ Onward(b, p) \in Boards

\* What a frame that may go on becomes
LEMMA RelayIs ==
  ASSUME NEW b \in Boards, NEW p \in Port, NEW f \in Frame, NEW w,
         f.dst # b, f.ttl # 1
  PROVE  \E g \in Frame :
           /\ g.src = f.src /\ g.id = f.id /\ g.dst = f.dst
           /\ Relay(b, p, f, w) = Transmit(b, {Opposite(p)}, g, w)
<1>1. PICK g : g = [f EXCEPT !.ttl = @ - 1]
  OBVIOUS
<1>2. Relay(b, p, f, w) = Transmit(b, {Opposite(p)}, g, w)
  BY <1>1, Zenon DEF Relay
<1>3. f.ttl - 1 \in 1..TTL
  BY LinkAssumption DEF Frame
<1>4. g \in Frame /\ g.src = f.src /\ g.id = f.id /\ g.dst = f.dst
  BY <1>1, <1>3 DEF Frame
<1>5. QED
  BY <1>2, <1>4

\* The port a relayed frame leaves by
LEMMA LeavesOnward ==
  ASSUME ~ring, NEW b \in Boards, NEW p \in Port, NEW q \in Port
  PROVE  Leaves(b, {Opposite(p)}, q) <=> q = Opposite(p) /\ Onward(b, p) \in Boards
<1>1. Opposite(p) \in Port /\ Neighbour(b, Opposite(p)) = Onward(b, p)
  BY OnwardIs
<1>2. QED
  BY <1>1, Zenon DEF Leaves

\* A frame relayed keeps its place among those of its source
LEMMA RelayOrdered ==
  ASSUME ~ring, NEW w, Typed(w), Ordered(w), NEW b \in Boards, NEW p \in Port,
         w[b][p] # <<>>
  PROVE  Ordered(Relay(b, p, Head(w[b][p]), Take(w, b, p)))
<1>1. PICK f : f = Head(w[b][p])
  OBVIOUS
<1>2. PICK v : v = Take(w, b, p)
  OBVIOUS
<1>3. f \in Frame /\ 1 \in DOMAIN w[b][p] /\ w[b][p][1] = f
  BY <1>1, TakeFrom
<1>4. Typed(v) /\ Ordered(v)
  <2>1. Typed(Take(w, b, p)) /\ Ordered(Take(w, b, p))
    BY TakeIs, TakeOrdered
  <2>2. QED
    BY <1>2, <2>1, Zenon
<1>5. CASE ~(f.dst # b /\ f.ttl # 1)
  <2>1. Relay(b, p, f, v) = v
    BY <1>5, Zenon DEF Relay
  <2>2. QED
    BY <1>1, <1>2, <1>4, <2>1, Zenon
<1>6. CASE f.dst # b /\ f.ttl # 1
  <2>0. f \in Frame
    BY <1>3
  <2>1. PICK g \in Frame :
          /\ g.src = f.src /\ g.id = f.id /\ g.dst = f.dst
          /\ Relay(b, p, f, v) = Transmit(b, {Opposite(p)}, g, v)
    BY <2>0, <1>6, RelayIs
  <2>2. ASSUME NEW c \in Boards, c = Onward(b, p)
        PROVE  Fitting(v, c, p, g)
    <3>1. SUFFICES ASSUME NEW e \in Boards, NEW i \in DOMAIN v[e][p],
                          v[e][p][i].src = f.src
                   PROVE  IF Toward(c, p, e) /\ e # c THEN v[e][p][i].id > f.id
                                                      ELSE v[e][p][i].id < f.id
      BY <2>1 DEF Fitting
    <3>2. PICK k \in DOMAIN w[e][p] : v[e][p][i] = w[e][p][k] /\ (e = b => 1 < k)
      <4>1. CASE e = b
        <5>1. i \in Nat \ {0} /\ i + 1 \in DOMAIN w[e][p] /\ v[e][p][i] = w[e][p][i + 1]
          BY <1>2, <4>1, TakeFrom
        <5>2. 1 < i + 1
          BY <5>1
        <5>3. QED
          BY <5>1, <5>2
      <4>2. CASE e # b
        BY <1>2, <4>2, TakeFrom
      <4>3. QED
        BY <4>1, <4>2
    <3>3. w[e][p][k].id \in Int /\ f.id \in Int
      <4>1. w[e][p] \in Seq(Frame)
        BY DEF Typed
      <4>2. w[e][p][k] \in Frame
        BY <4>1, ElementOfSeq
      <4>3. QED
        BY <1>3, <4>2 DEF Frame
    <3>4. e \in Int /\ b \in Int /\ c \in Int
      BY BoardsAreInt
    <3>5. CASE Toward(c, p, e) /\ e # c
      <4>1. Ahead(p, b, 1, e, k)
        BY <2>2, <3>2, <3>4, <3>5 DEF Toward, Onward, Ahead
      <4>2. w[b][p][1].src = w[e][p][k].src
        BY <1>3, <3>1, <3>2
      <4>3. w[b][p][1].id < w[e][p][k].id
        BY <1>3, <3>2, <4>1, <4>2 DEF Ordered
      <4>4. QED
        BY <1>3, <3>2, <3>3, <3>5, <4>3
    <3>6. CASE ~(Toward(c, p, e) /\ e # c)
      <4>1. Ahead(p, e, k, b, 1)
        BY <2>2, <3>4, <3>6 DEF Toward, Onward, Ahead
      <4>2. w[b][p][1].src = w[e][p][k].src
        BY <1>3, <3>1, <3>2
      <4>3. w[e][p][k].id < w[b][p][1].id
        BY <1>3, <3>2, <4>1, <4>2 DEF Ordered
      <4>4. QED
        BY <1>3, <3>2, <3>6, <4>3
    <3>7. QED
      BY <3>5, <3>6
  <2>3. \A q \in Port : Leaves(b, {Opposite(p)}, q)
          => Fitting(v, Neighbour(b, q), Opposite(q), g)
    <3>1. SUFFICES ASSUME NEW q \in Port, Leaves(b, {Opposite(p)}, q)
                   PROVE  Fitting(v, Neighbour(b, q), Opposite(q), g)
      OBVIOUS
    <3>2. q = Opposite(p) /\ Onward(b, p) \in Boards
      BY <3>1, LeavesOnward
    <3>3. Neighbour(b, Opposite(p)) = Onward(b, p) /\ Opposite(Opposite(p)) = p
      BY OnwardIs
    <3>4. PICK c \in Boards : c = Onward(b, p)
      BY <3>2
    <3>5. Fitting(v, c, p, g)
      BY <2>2, <3>4
    <3>6. QED
      BY <3>2, <3>3, <3>4, <3>5, Zenon
  <2>4. Ordered(Transmit(b, {Opposite(p)}, g, v))
    BY <1>4, <2>3, TransmitOrdered
  <2>5. QED
    BY <1>1, <1>2, <2>1, <2>4, Zenon
<1>7. QED
  BY <1>5, <1>6

\* Relaying brings no board an older frame than it was to see anyway,
LEMMA OnwardBehind ==
  ASSUME ~ring, NEW v, Typed(v), NEW b \in Boards, NEW p \in Port, NEW f \in Frame,
         NEW d \in Boards, NEW s, NEW r, Behind(v, d, s, r),
         f.src = s /\ d # b => (Toward(d, p, b) => f.id > r)
  PROVE  Behind(Relay(b, p, f, v), d, s, r)
<1>1. CASE ~(f.dst # b /\ f.ttl # 1)
  <2>1. Relay(b, p, f, v) = v
    BY <1>1, Zenon DEF Relay
  <2>2. QED
    BY <2>1, Zenon
<1>2. CASE f.dst # b /\ f.ttl # 1
  <2>1. PICK g \in Frame :
          /\ g.src = f.src /\ g.id = f.id /\ g.dst = f.dst
          /\ Relay(b, p, f, v) = Transmit(b, {Opposite(p)}, g, v)
    BY <1>2, RelayIs
  <2>2. \A q \in Port : Leaves(b, {Opposite(p)}, q) /\ g.src = s
                          => (Toward(d, Opposite(q), Neighbour(b, q)) => g.id > r)
    <3>1. SUFFICES ASSUME NEW q \in Port, Leaves(b, {Opposite(p)}, q), g.src = s,
                          Toward(d, Opposite(q), Neighbour(b, q))
                   PROVE  g.id > r
      OBVIOUS
    <3>2. q = Opposite(p)
      BY <3>1, LeavesOnward
    <3>3. Neighbour(b, Opposite(p)) = Onward(b, p) /\ Opposite(Opposite(p)) = p
      BY OnwardIs
    <3>4. Toward(d, p, Onward(b, p))
      BY <3>1, <3>2, <3>3, Zenon
    <3>5. Toward(d, p, b) /\ d # b
      BY <3>4, OnwardIs
    <3>6. QED
      BY <2>1, <3>1, <3>5
  <2>3. Behind(Transmit(b, {Opposite(p)}, g, v), d, s, r)
    BY <2>2, TransmitBehind
  <2>4. QED
    BY <2>1, <2>3, Zenon
<1>3. QED
  BY <1>1, <1>2

\* all that is taken and relayed included,
LEMMA RelayBehind ==
  ASSUME ~ring, NEW w, Typed(w), NEW b \in Boards, NEW p \in Port, w[b][p] # <<>>,
         NEW d \in Boards, NEW s, NEW r, Behind(w, d, s, r)
  PROVE  Behind(Relay(b, p, Head(w[b][p]), Take(w, b, p)), d, s, r)
<1>1. PICK f : f = Head(w[b][p])
  OBVIOUS
<1>2. PICK v : v = Take(w, b, p)
  OBVIOUS
<1>3. f \in Frame /\ 1 \in DOMAIN w[b][p] /\ w[b][p][1] = f
  BY <1>1, TakeFrom
<1>4. Typed(v) /\ Behind(v, d, s, r)
  <2>1. Typed(Take(w, b, p)) /\ Behind(Take(w, b, p), d, s, r)
    BY TakeIs, TakeBehind
  <2>2. QED
    BY <1>2, <2>1, Zenon
<1>5. f.src = s /\ d # b => (Toward(d, p, b) => f.id > r)
  BY <1>3 DEF Behind
<1>6. f \in Frame
  BY <1>3
<1>7. Behind(Relay(b, p, f, v), d, s, r)
  BY <1>4, <1>5, <1>6, OnwardBehind
<1>8. QED
  BY <1>1, <1>2, <1>7, Zenon

\* takes no frame away from a board it can still reach,
LEMMA RelayOwes ==
  ASSUME ~ring, NEW w, Typed(w), NEW b \in Boards, NEW p \in Port, w[b][p] # <<>>,
         NEW d \in Boards, NEW s, NEW n
  PROVE  LET f == Head(w[b][p])
         IN  Owes(Relay(b, p, f, Take(w, b, p)), d, s, n) <=>
               \/ Owes(Take(w, b, p), d, s, n)
               \/ /\ f.src = s /\ f.id = n /\ f.dst \in {d, Broadcast}
                  /\ Passes(b, p, f) /\ d # b /\ Toward(d, p, b)
<1>1. PICK f : f = Head(w[b][p])
  OBVIOUS
<1>2. PICK v : v = Take(w, b, p)
  OBVIOUS
<1>3. f \in Frame
  BY <1>1, TakeFrom
<1>4. Typed(v)
  BY <1>2, TakeIs
<1>5. Owes(Relay(b, p, f, v), d, s, n) <=>
        \/ Owes(v, d, s, n)
        \/ /\ f.src = s /\ f.id = n /\ f.dst \in {d, Broadcast}
           /\ Passes(b, p, f) /\ d # b /\ Toward(d, p, b)
  <2>1. CASE ~(f.dst # b /\ f.ttl # 1)
    <3>1. Relay(b, p, f, v) = v
      BY <2>1, Zenon DEF Relay
    <3>2. ~Passes(b, p, f)
      BY <2>1 DEF Passes
    <3>3. QED
      BY <3>1, <3>2, Zenon
  <2>2. CASE f.dst # b /\ f.ttl # 1
    <3>0. f \in Frame
      BY <1>3
    <3>1. PICK g \in Frame :
            /\ g.src = f.src /\ g.id = f.id /\ g.dst = f.dst
            /\ Relay(b, p, f, v) = Transmit(b, {Opposite(p)}, g, v)
      BY <3>0, <2>2, RelayIs
    <3>2. Owes(Transmit(b, {Opposite(p)}, g, v), d, s, n) <=>
            \/ Owes(v, d, s, n)
            \/ /\ g.src = s /\ g.id = n /\ g.dst \in {d, Broadcast}
               /\ \E q \in Port : /\ Leaves(b, {Opposite(p)}, q)
                                  /\ Toward(d, Opposite(q), Neighbour(b, q))
      BY <1>4, TransmitOwes
    <3>3. (\E q \in Port : /\ Leaves(b, {Opposite(p)}, q)
                           /\ Toward(d, Opposite(q), Neighbour(b, q)))
            <=> Onward(b, p) \in Boards /\ Toward(d, p, Onward(b, p))
      <4>1. /\ Neighbour(b, Opposite(p)) = Onward(b, p) /\ Opposite(Opposite(p)) = p
            /\ Opposite(p) \in Port
        BY OnwardIs
      <4>2. \A q \in Port : Leaves(b, {Opposite(p)}, q)
                              <=> q = Opposite(p) /\ Onward(b, p) \in Boards
        BY LeavesOnward
      <4>3. QED
        BY <4>1, <4>2, Zenon
    <3>4. Toward(d, p, Onward(b, p)) <=> Toward(d, p, b) /\ d # b
      BY OnwardIs
    <3>5. Passes(b, p, f) <=> Onward(b, p) \in Boards
      BY <2>2 DEF Passes
    <3>6. QED
      BY <3>1, <3>2, <3>3, <3>4, <3>5, Zenon
  <2>3. QED
    BY <2>1, <2>2
<1>6. QED
  BY <1>1, <1>2, <1>5, Zenon

\* and once b has taken a frame, all it has still to see of its source is newer
LEMMA TakenIsOldest ==
  ASSUME NEW w, Typed(w), Ordered(w), Sided(w), NEW b \in Boards, NEW p \in Port,
         w[b][p] # <<>>
  PROVE  Behind(Take(w, b, p), b, Head(w[b][p]).src, Head(w[b][p]).id)
<1>1. PICK f : f = Head(w[b][p])
  OBVIOUS
<1>2. PICK v : v = Take(w, b, p)
  OBVIOUS
<1>3. f \in Frame /\ 1 \in DOMAIN w[b][p] /\ w[b][p][1] = f
  BY <1>1, TakeFrom
<1>4. ASSUME NEW q \in Port, NEW e \in Boards, NEW i \in DOMAIN v[e][q],
             v[e][q][i].src = f.src, Toward(b, q, e)
      PROVE  v[e][q][i].id > f.id
  <2>1. PICK k \in DOMAIN w[e][q] : v[e][q][i] = w[e][q][k] /\ (e = b /\ q = p => 1 < k)
    <3>1. CASE e = b /\ q = p
      <4>1. i \in Nat \ {0} /\ i + 1 \in DOMAIN w[e][q] /\ v[e][q][i] = w[e][q][i + 1]
        BY <1>2, <3>1, TakeFrom
      <4>2. 1 < i + 1
        BY <4>1
      <4>3. QED
        BY <4>1, <4>2
    <3>2. CASE ~(e = b /\ q = p)
      BY <1>2, <3>2, TakeFrom
    <3>3. QED
      BY <3>1, <3>2
  <2>2. e \in Int /\ b \in Int
    BY BoardsAreInt
  <2>3. w[e][q][k] \in Frame
    <3>1. w[e][q] \in Seq(Frame)
      BY DEF Typed
    <3>2. QED
      BY <3>1, ElementOfSeq
  <2>4. /\ IF p = "UP" THEN f.src < b ELSE f.src > b
        /\ IF q = "UP" THEN f.src < e ELSE f.src > e
    BY <1>3, <1>4, <2>1 DEF Sided
  <2>5. f.src \in Int /\ f.id \in Int /\ w[e][q][k].id \in Int
    BY <1>3, <2>3, BoardsAreInt DEF Frame
  <2>6. q = p
    <3>1. p \in {"UP", "DOWN"} /\ q \in {"UP", "DOWN"} /\ "UP" # "DOWN"
      BY DEF Port
    <3>2. QED
      BY <1>4, <2>2, <2>4, <2>5, <3>1 DEF Toward
  <2>7. Ahead(p, b, 1, e, k)
    BY <1>4, <2>1, <2>2, <2>6 DEF Toward, Ahead
  <2>8. w[b][p][1].id < w[e][p][k].id
    BY <1>3, <1>4, <2>1, <2>6, <2>7 DEF Ordered
  <2>9. QED
    BY <1>3, <2>1, <2>5, <2>6, <2>8
<1>5. Behind(v, b, f.src, f.id)
  BY <1>4 DEF Behind
<1>6. QED
  BY <1>1, <1>2, <1>5, Zenon

-----------------------------------------------------------------------------
(* Numbers of frames, counted back from the next one *)

\* A remainder may be taken first
LEMMA ModCong ==
  ASSUME NEW a \in Int, NEW x \in Int, NEW m \in Nat \ {0}
  PROVE  (a + (x % m)) % m = (a + x) % m
<1>1. PICK q, r \in Int : q = x \div m /\ r = x % m
  BY DivMod
<1>2. x = m * q + r
  BY <1>1, DivMod
<1>3. a + r \in Int
  BY <1>1
<1>4. PICK k, z \in Int : k = (a + r) \div m /\ z = (a + r) % m
  BY <1>3, DivMod
<1>5. z \in 0..(m - 1) /\ a + r = m * k + z
  BY <1>3, <1>4, DivMod
<1>6. q + k \in Int /\ a + x \in Int /\ m * (q + k) = m * q + m * k
  OBVIOUS
<1>7. a + x = m * (q + k) + z
  <2>1. PICK mq, mk \in Int : mq = m * q /\ mk = m * k
    OBVIOUS
  <2>2. QED
    BY <1>2, <1>5, <1>6, <2>1
<1>8. (a + x) % m = z
  BY <1>5, <1>6, <1>7, ModUnique
<1>9. QED
  BY <1>1, <1>4, <1>8

\* The number frame r of s carries, if s sent it since its last boot
Num(s, r) == (r - 1 - sent[s] + tx_seq[s]) % SEQ

\* What the int16_t difference of two numbers can be
LEMMA SignedIs ==
  ASSUME NEW x \in 0..(SEQ - 1), NEW y \in 0..(SEQ - 1)
  PROVE  /\ Signed(x - y) \in Int
         /\ 2 * Signed(x - y) >= -SEQ /\ 2 * Signed(x - y) < SEQ
         /\ \/ Signed(x - y) = x - y
            \/ Signed(x - y) = x - y + SEQ
            \/ Signed(x - y) = x - y - SEQ
<1>1. PICK h \in Nat : h = SEQ \div 2
  BY SeqWidth
<1>2. SEQ = 2 * h /\ SEQ \in Nat \ {0} /\ h > 0
  BY <1>1, SeqWidth
<1>3. Signed(x - y) = ((x - y + SEQ + h) % SEQ) - h
  <2>1. Signed(x - y) = ((x - y + SEQ + SEQ \div 2) % SEQ) - SEQ \div 2
    BY DEF Signed
  <2>2. QED
    BY <2>1, <1>1
<1>4. PICK a \in Int : a = x - y + SEQ + h
  BY <1>2
<1>5. \E z \in 0..(SEQ - 1) : a = z \/ a = SEQ + z \/ a = 2 * SEQ + z
  <2>1. a > 0 /\ a < 3 * SEQ
    BY <1>2, <1>4
  <2>2. CASE a < SEQ
    BY <2>1, <2>2, <1>2
  <2>3. CASE a >= SEQ /\ a < 2 * SEQ
    <3>1. a - SEQ \in 0..(SEQ - 1) /\ a = SEQ + (a - SEQ)
      BY <2>3, <1>2
    <3>2. QED
      BY <3>1
  <2>4. CASE a >= 2 * SEQ
    <3>1. a - 2 * SEQ \in 0..(SEQ - 1) /\ a = 2 * SEQ + (a - 2 * SEQ)
      BY <2>1, <2>4, <1>2
    <3>2. QED
      BY <3>1
  <2>5. QED
    BY <2>2, <2>3, <2>4, <1>2
<1>6. PICK z \in 0..(SEQ - 1) : a = z \/ a = SEQ + z \/ a = 2 * SEQ + z
  BY <1>5
<1>7. a % SEQ = z
  BY <1>2, <1>6, ModShift
<1>8. Signed(x - y) = z - h
  BY <1>3, <1>4, <1>7
<1>9. QED
  BY <1>2, <1>4, <1>6, <1>8

\* Of two frames that both count as replays the later one counts as the less
\* old, unless nearly a turn of the counter lies between them
LEMMA LessStale ==
  ASSUME NEW a \in Int, NEW k \in 1..(SEQ - JUMP - 1), NEW h \in 0..(SEQ - 1),
         Signed((a % SEQ) - h) \in -JUMP..0,
         Signed(((a + k) % SEQ) - h) \in -JUMP..0
  PROVE  Signed(((a + k) % SEQ) - h) = Signed((a % SEQ) - h) + k
<1>1. SEQ \in Nat \ {0} /\ JUMP \in Nat /\ k \in 0..(SEQ - 1) /\ a + k \in Int
  BY SeqWidth
<1>2. a % SEQ \in 0..(SEQ - 1) /\ (a + k) % SEQ \in 0..(SEQ - 1)
  BY <1>1, DivMod
<1>3. PICK x, y \in 0..(SEQ - 1) : x = a % SEQ /\ y = (a + k) % SEQ
  BY <1>2
<1>4. y = x + k \/ y = x + k - SEQ
  BY <1>1, <1>3, ModAdd
<1>5. PICK dx, dy \in Int : dx = Signed(x - h) /\ dy = Signed(y - h)
  BY SignedIs
<1>6. /\ dx = x - h \/ dx = x - h + SEQ \/ dx = x - h - SEQ
      /\ dy = y - h \/ dy = y - h + SEQ \/ dy = y - h - SEQ
  BY <1>5, SignedIs
<1>7. dx \in -JUMP..0 /\ dy \in -JUMP..0
  BY <1>3, <1>5
<1>8. dy = dx + k
  BY <1>1, <1>4, <1>6, <1>7
<1>9. QED
  BY <1>3, <1>5, <1>8

\* A frame less than half a turn later than the window's is newer
LEMMA NewerIsPositive ==
  ASSUME NEW a \in Int, NEW k \in Nat, 1 <= k, k < SEQ \div 2
  PROVE  Signed(((a + k) % SEQ) - (a % SEQ)) > 0
<1>1. PICK h \in Nat : h = SEQ \div 2
  BY SeqWidth
<1>a. SEQ = 2 * h /\ SEQ \in Nat \ {0} /\ k < h
  BY <1>1, SeqWidth
<1>2. SEQ \in Nat \ {0} /\ k \in 0..(SEQ - 1) /\ a + k \in Int /\ 2 * k < SEQ
  BY <1>a
<1>3. a % SEQ \in 0..(SEQ - 1) /\ (a + k) % SEQ \in 0..(SEQ - 1)
  BY <1>2, DivMod
<1>4. PICK x, y \in 0..(SEQ - 1) : x = a % SEQ /\ y = (a + k) % SEQ
  BY <1>3
<1>5. y = x + k \/ y = x + k - SEQ
  BY <1>2, <1>4, ModAdd
<1>6. PICK d \in Int : d = Signed(y - x)
  BY SignedIs
<1>7. /\ 2 * d >= -SEQ /\ 2 * d < SEQ
      /\ d = y - x \/ d = y - x + SEQ \/ d = y - x - SEQ
  BY <1>6, SignedIs
<1>8. d = k
  BY <1>2, <1>5, <1>7
<1>9. QED
  BY <1>4, <1>6, <1>8

\* What the invariant says of a frame on a wire
LEMMA FrameFacts ==
  ASSUME IInv, NEW d \in Boards, NEW p \in Port, NEW i \in DOMAIN wire[d][p]
  PROVE  LET f == wire[d][p][i]
         IN  /\ f \in Frame /\ f.src \in Boards
             /\ f.id \in Nat /\ 1 <= f.id /\ f.id <= sent[f.src]
             /\ f.seq = Num(f.src, f.id)
             /\ ~ring => IF p = "UP" THEN f.src < d ELSE f.src > d
             /\ ~ring => TTL - f.ttl + 1 = (IF p = "UP" THEN d - f.src ELSE f.src - d)
<1>1. TypeOK /\ Books
  BY DEF IInv, Books
<1>2. PICK base \in [Boards -> Nat] : Counter(base) /\ Wires(base)
  BY <1>1 DEF Books
<1>3. PICK f : f = wire[d][p][i]
  OBVIOUS
<1>4. f \in Good(base, d, p)
  <2>1. wire[d][p] \in Seq(Good(base, d, p))
    BY <1>2 DEF Wires
  <2>2. QED
    BY <1>3, <2>1, ElementOfSeq
<1>5. f \in Frame /\ Fresh(base, f) /\ Placed(d, p, f)
  BY <1>4 DEF Good
<1>6. f.src \in Boards /\ f.id \in 1..MaxSend /\ f.ttl \in 1..TTL
  BY <1>5 DEF Frame
<1>7. /\ f.id <= sent[f.src] /\ f.seq = (f.id - 1 - base[f.src]) % SEQ
  BY <1>5 DEF Fresh
<1>8. f.seq = Num(f.src, f.id)
  <2>1. PICK x, a \in Int : x = sent[f.src] - base[f.src] /\ a = f.id - 1 - sent[f.src]
    BY <1>1, <1>6, Counts
  <2>2. tx_seq[f.src] = x % SEQ
    BY <1>2, <1>6, <2>1 DEF Counter
  <2>3. (a + (x % SEQ)) % SEQ = (a + x) % SEQ
    BY SeqWidth, ModCong
  <2>4. a + x = f.id - 1 - base[f.src]
    BY <1>1, <1>6, <2>1, Counts
  <2>5. Num(f.src, f.id) = (a + tx_seq[f.src]) % SEQ
    BY <2>1 DEF Num
  <2>6. QED
    BY <1>7, <2>2, <2>3, <2>4, <2>5
<1>9. ASSUME ~ring
      PROVE  /\ IF p = "UP" THEN f.src < d ELSE f.src > d
             /\ TTL - f.ttl + 1 = (IF p = "UP" THEN d - f.src ELSE f.src - d)
  <2>1. TTL - f.ttl + 1 = (IF p = "UP" THEN d - f.src ELSE f.src - d)
    BY <1>5, <1>9 DEF Placed
  <2>2. f.src \in Int /\ d \in Int /\ TTL \in Nat
    BY <1>6, BoardsAreInt, LinkAssumption
  <2>3. QED
    BY <1>6, <2>1, <2>2
<1>10. f.id \in Nat /\ 1 <= f.id
  BY <1>6
<1>11. QED
  BY <1>3, <1>5, <1>6, <1>7, <1>8, <1>9, <1>10

\* and what it says of the head of a queue
LEMMA HeadFacts ==
  ASSUME IInv, NEW b \in Boards, NEW p \in Port, wire[b][p] # <<>>
  PROVE  LET f == Head(wire[b][p])
         IN  /\ f \in Frame /\ f.src \in Boards
             /\ f.id \in Nat /\ 1 <= f.id /\ f.id <= sent[f.src]
             /\ f.seq = Num(f.src, f.id)
             /\ ~ring => IF p = "UP" THEN f.src < b ELSE f.src > b
             /\ ~ring => TTL - f.ttl + 1 = (IF p = "UP" THEN b - f.src ELSE f.src - b)
             /\ 1 \in DOMAIN wire[b][p] /\ wire[b][p][1] = f
<1>1. Typed(wire)
  BY DEF IInv, TypeOK, Typed
<1>2. 1 \in DOMAIN wire[b][p] /\ wire[b][p][1] = Head(wire[b][p])
  BY <1>1, TakeFrom
<1>3. PICK f : f = wire[b][p][1]
  OBVIOUS
<1>4. /\ f \in Frame /\ f.src \in Boards
      /\ f.id \in Nat /\ 1 <= f.id /\ f.id <= sent[f.src]
      /\ f.seq = Num(f.src, f.id)
      /\ ~ring => IF p = "UP" THEN f.src < b ELSE f.src > b
      /\ ~ring => TTL - f.ttl + 1 = (IF p = "UP" THEN b - f.src ELSE f.src - b)
  BY <1>2, <1>3, FrameFacts
<1>5. QED
  BY <1>2, <1>3, <1>4, Zenon

\* On a line every frame comes from its side
LEMMA LineSided ==
  ASSUME IInv, ~ring
  PROVE  Sided(wire)
<1>1. SUFFICES ASSUME NEW p \in Port, NEW e \in Boards, NEW i \in DOMAIN wire[e][p]
               PROVE  IF p = "UP" THEN wire[e][p][i].src < e ELSE wire[e][p][i].src > e
  BY DEF Sided
<1>2. QED
  BY FrameFacts

\* The numbers of frames already sent do not change until their sender boots
LEMMA NumKeeps ==
  ASSUME TypeOK, NEW s \in Boards, NEW r \in Int,
         \/ tx_seq'[s] = tx_seq[s] /\ sent'[s] = sent[s]
         \/ tx_seq'[s] = (tx_seq[s] + 1) % SEQ /\ sent'[s] = sent[s] + 1
  PROVE  Num(s, r)' = Num(s, r)
<1>1. CASE tx_seq'[s] = tx_seq[s] /\ sent'[s] = sent[s]
  BY <1>1 DEF Num
<1>2. CASE tx_seq'[s] = (tx_seq[s] + 1) % SEQ /\ sent'[s] = sent[s] + 1
  <2>1. sent[s] \in Int /\ tx_seq[s] \in Int
    BY DEF TypeOK
  <2>2. PICK a, x \in Int : a = r - 1 - (sent[s] + 1) /\ x = tx_seq[s] + 1
    BY <2>1
  <2>3. (a + (x % SEQ)) % SEQ = (a + x) % SEQ
    BY SeqWidth, ModCong
  <2>4. a + x = r - 1 - sent[s] + tx_seq[s]
    BY <2>1, <2>2
  <2>5. Num(s, r)' = (a + (x % SEQ)) % SEQ
    BY <1>2, <2>2 DEF Num
  <2>6. QED
    BY <2>3, <2>4, <2>5 DEF Num
<1>3. QED
  BY <1>1, <1>2

-----------------------------------------------------------------------------
(* Deafness *)

\* What b refused of s since it last listened: each one looks less stale than
\* the one before, and all that is still to come is newer
Deaf(b, s) ==
  missed[b][s] # <<>> =>
    LET n == Len(missed[b][s])
        r == missed[b][s][n]
    IN  /\ seen[b][s].used
        /\ r <= sent[s]
        /\ Behind(wire, b, s, r)
        /\ Signed(Num(s, r) - seen[b][s].high_seq) \in (n - 1 - JUMP)..0

DInv == ~ring => Ordered(wire) /\ \A b, s \in Boards : Deaf(b, s)

\* A frame does not come within JUMP of a full turn of the counter after the
\* last one the board refused
NoLap ==
  \A b \in Boards, p \in Port : wire[b][p] # <<>> =>
    LET f == Head(wire[b][p])
        m == missed[b][f.src]
    IN  m # <<>> => f.id - m[Len(m)] < SEQ - JUMP

\* The last of a sequence of refused frames
LEMMA LastMissed ==
  ASSUME TypeOK, NEW b \in Boards, NEW s \in Boards, missed[b][s] # <<>>
  PROVE  /\ Len(missed[b][s]) \in Nat /\ Len(missed[b][s]) >= 1
         /\ missed[b][s][Len(missed[b][s])] \in Int
<1>1. missed[b][s] \in Seq(1..MaxSend)
  BY DEF TypeOK
<1>2. PICK u \in Seq(1..MaxSend) : u = missed[b][s]
  BY <1>1
<1>3. u # <<>>
  BY <1>2
<1>4. Len(u) \in Nat /\ Len(u) >= 1 /\ DOMAIN u = 1..Len(u)
  BY <1>2, <1>3, EmptySeq, LenProperties
<1>5. u[Len(u)] \in 1..MaxSend
  <2>1. PICK i \in 1..Len(u) : i = Len(u)
    BY <1>4
  <2>2. u[i] \in 1..MaxSend
    BY ElementOfSeq
  <2>3. QED
    BY <2>1, <2>2
<1>6. QED
  BY <1>2, <1>4, <1>5

\* Nothing happened between b and s but that frames moved or were sent
LEMMA DeafKeeps ==
  ASSUME TypeOK, NEW b \in Boards, NEW s \in Boards, Deaf(b, s),
         missed'[b][s] = missed[b][s], seen'[b][s] = seen[b][s],
         \/ tx_seq'[s] = tx_seq[s] /\ sent'[s] = sent[s]
         \/ tx_seq'[s] = (tx_seq[s] + 1) % SEQ /\ sent'[s] = sent[s] + 1,
         \A r \in Int : r <= sent[s] /\ Behind(wire, b, s, r) => Behind(wire', b, s, r)
  PROVE  Deaf(b, s)'
<1>1. SUFFICES ASSUME missed[b][s] # <<>>
               PROVE  LET n == Len(missed[b][s])
                          r == missed[b][s][n]
                      IN  /\ seen[b][s].used
                          /\ r <= sent'[s]
                          /\ Behind(wire', b, s, r)
                          /\ Signed(Num(s, r)' - seen[b][s].high_seq) \in (n - 1 - JUMP)..0
  BY DEF Deaf
<1>2. PICK n, r : n = Len(missed[b][s]) /\ r = missed[b][s][n]
  OBVIOUS
<1>3. n \in Nat /\ r \in Int
  BY <1>1, <1>2, LastMissed
<1>4. /\ seen[b][s].used /\ r <= sent[s] /\ Behind(wire, b, s, r)
      /\ Signed(Num(s, r) - seen[b][s].high_seq) \in (n - 1 - JUMP)..0
  BY <1>1, <1>2, Zenon DEF Deaf
<1>5. Num(s, r)' = Num(s, r)
  BY <1>3, NumKeeps
<1>6. r <= sent'[s]
  <2>1. sent[s] \in Int
    BY DEF TypeOK
  <2>2. QED
    BY <1>3, <1>4, <2>1
<1>7. Behind(wire', b, s, r)
  BY <1>3, <1>4
<1>8. QED
  BY <1>2, <1>4, <1>5, <1>6, <1>7, Zenon

\* The frame dhp_link_send puts on the wire
LEMMA SendParts ==
  ASSUME TypeOK, NEW b \in Boards, NEW type \in Types, NEW dst \in Dsts \ {b},
         Send(b, type, dst)
  PROVE  \/ b \notin keyed /\ wire' = wire
         \/ \E f \in Frame :
              /\ f.src = b /\ f.id = sent[b] + 1 /\ f.dst = dst
              /\ wire' = Transmit(b, Port, f, wire)
<1>1. PICK f : f = [type |-> type, src |-> b, dst |-> dst, seq |-> tx_seq[b],
                    ttl |-> TTL, id |-> sent[b] + 1]
  OBVIOUS
<1>2. wire' = IF b \notin keyed THEN wire ELSE Transmit(b, Port, f, wire)
  BY <1>1, Zenon DEF Send
<1>3. f \in Frame
  <2>1. sent[b] \in 0..MaxSend /\ sent[b] < MaxSend /\ MaxSend \in Nat
    BY LinkAssumption DEF Send, TypeOK
  <2>2. sent[b] + 1 \in 1..MaxSend
    BY <2>1
  <2>3. tx_seq[b] \in 0..(SEQ - 1)
    BY DEF TypeOK
  <2>4. TTL \in 1..TTL /\ type \in {"PAIR", "OTHER"} /\ dst \in Boards \cup {Broadcast}
    BY LinkAssumption DEF Boards
  <2>5. QED
    BY <1>1, <2>2, <2>3, <2>4 DEF Frame
<1>4. f.src = b /\ f.id = sent[b] + 1 /\ f.dst = dst
  BY <1>1
<1>5. CASE b \notin keyed
  BY <1>2, <1>5
<1>6. CASE b \in keyed
  BY <1>2, <1>3, <1>4, <1>6
<1>7. QED
  BY <1>5, <1>6

\* It goes behind all of its source
LEMMA SendOrdered ==
  ASSUME IInv, ~ring, Ordered(wire), NEW b \in Boards, NEW f \in Frame,
         f.src = b, f.id = sent[b] + 1
  PROVE  Ordered(Transmit(b, Port, f, wire))
<1>1. Typed(wire) /\ TypeOK
  BY DEF IInv, TypeOK, Typed
<1>2. ASSUME NEW q \in Port, NEW c \in Boards, NEW o \in Port,
             IF q = "UP" THEN c = b - 1 /\ o = "DOWN" ELSE c = b + 1 /\ o = "UP"
      PROVE  Fitting(wire, c, o, f)
  <2>1. SUFFICES ASSUME NEW e \in Boards, NEW i \in DOMAIN wire[e][o],
                        wire[e][o][i].src = b
                 PROVE  /\ ~(Toward(c, o, e) /\ e # c)
                        /\ wire[e][o][i].id < f.id
    BY DEF Fitting
  <2>2. PICK g : g = wire[e][o][i]
    OBVIOUS
  <2>3. /\ g.id \in Nat /\ g.id <= sent[b]
        /\ IF o = "UP" THEN b < e ELSE b > e
    BY <2>1, <2>2, FrameFacts
  <2>4. sent[b] \in Nat
    BY <1>1, Counts
  <2>5. b \in Int /\ c \in Int /\ e \in Int
    BY BoardsAreInt
  <2>6. ~(Toward(c, o, e) /\ e # c)
    BY <1>2, <2>3, <2>5 DEF Toward
  <2>7. QED
    BY <2>2, <2>3, <2>4, <2>6
<1>3. ASSUME NEW q \in Port, Leaves(b, Port, q)
      PROVE  Fitting(wire, Neighbour(b, q), Opposite(q), f)
  <2>1. PICK c \in Boards, o \in Port : c = Neighbour(b, q) /\ o = Opposite(q)
    BY <1>3 DEF Leaves, Opposite, Port
  <2>2. IF q = "UP" THEN c = b - 1 /\ o = "DOWN" ELSE c = b + 1 /\ o = "UP"
    BY <2>1, NextPlace DEF Opposite
  <2>3. Fitting(wire, c, o, f)
    BY <1>2, <2>2
  <2>4. QED
    BY <2>1, <2>3, Zenon
<1>4. QED
  BY <1>1, <1>3, TransmitOrdered

\* and is newer than all a board waits for
LEMMA SendBehind ==
  ASSUME TypeOK, NEW b \in Boards, NEW f \in Frame, f.src = b, f.id = sent[b] + 1,
         NEW d \in Boards, NEW s \in Boards, NEW r \in Int, r <= sent[s], Behind(wire, d, s, r)
  PROVE  Behind(Transmit(b, Port, f, wire), d, s, r)
<1>1. Typed(wire)
  BY DEF TypeOK, Typed
<1>2. f.src = s => f.id > r
  BY Counts
<1>3. QED
  BY <1>1, <1>2, TransmitBehind

\* The order holds throughout, the board's own steps first
LEMMA OrderKeeps ==
  ASSUME IInv, ~ring, Ordered(wire), [Next]_vars
  PROVE  Ordered(wire)'
<1>1. Typed(wire) /\ TypeOK
  BY DEF IInv, TypeOK, Typed
<1>2. ASSUME NEW b \in Boards, NEW p \in Port, wire[b][p] # <<>>, wire' = Take(wire, b, p)
      PROVE  Ordered(wire')
  BY <1>1, <1>2, TakeOrdered, Zenon
<1>3. ASSUME NEW b \in Boards, NEW p \in Port, Accept(b, p)
      PROVE  Ordered(wire')
  <2>1. /\ wire[b][p] # <<>>
        /\ wire' = Relay(b, p, Head(wire[b][p]), Take(wire, b, p))
    BY <1>3, Zenon DEF Accept, Take
  <2>2. QED
    BY <1>1, <2>1, RelayOrdered, Zenon
<1>4. ASSUME NEW b \in Boards, NEW type \in Types, NEW dst \in Dsts \ {b}, Send(b, type, dst)
      PROVE  Ordered(wire')
  BY <1>1, <1>4, SendParts, SendOrdered
<1>5. ASSUME NEW b \in Boards, Reboot(b)
      PROVE  Ordered(wire')
  <2>1. \A e \in Boards, p \in Port : \A i \in DOMAIN wire'[e][p] :
          i \in DOMAIN wire[e][p] /\ wire'[e][p][i] = wire[e][p][i]
    BY <1>1, <1>5 DEF Reboot, Typed
  <2>2. QED
    BY <2>1 DEF Ordered
<1>6. CASE UNCHANGED wire
  BY <1>6 DEF Ordered
<1>7. CASE Next
  <2>1. PICK b \in Boards :
          \/ \E type \in Types, dst \in Dsts \ {b} : Send(b, type, dst)
          \/ \E p \in Port : Receive(b, p) \/ Lose(b, p)
          \/ Reboot(b)
          \/ Rekey(b)
    BY <1>7 DEF Next
  <2>2. CASE \E p \in Port : Receive(b, p) \/ Lose(b, p)
    <3>1. PICK p \in Port : Refuse(b, p) \/ Replayed(b, p) \/ Accept(b, p) \/ Lose(b, p)
      BY <2>2 DEF Receive
    <3>2. CASE Refuse(b, p) \/ Replayed(b, p) \/ Lose(b, p)
      BY <1>2, <3>2 DEF Refuse, Replayed, Lose, Take
    <3>3. QED
      BY <1>3, <3>1, <3>2
  <2>3. Rekey(b) => UNCHANGED wire
    BY DEF Rekey
  <2>4. QED
    BY <1>4, <1>5, <1>6, <2>1, <2>2, <2>3
<1>8. QED
  BY <1>6, <1>7 DEF vars

\* A frame that seq_is_fresh calls stale
LEMMA StaleIs ==
  ASSUME NEW b, NEW s, NEW seq, ~SeqIsFresh(b, s, seq),
         Signed(seq - seen[b][s].high_seq) \in Int
  PROVE  seen[b][s].used /\ Signed(seq - seen[b][s].high_seq) \in -JUMP..0
<1>1. PICK delta \in Int : delta = Signed(seq - seen[b][s].high_seq)
  OBVIOUS
<1>2. seen[b][s].used /\ ~(delta > 0) /\ ~(delta < -JUMP)
  BY <1>1, Zenon DEF SeqIsFresh
<1>3. delta \in -JUMP..0
  BY <1>2, SeqWidth
<1>4. QED
  BY <1>1, <1>2, <1>3

\* Replayed: the frame refused looks less stale than the one before
LEMMA ReplayedDeaf ==
  ASSUME IInv, ~ring, Ordered(wire), NoLap, NEW b \in Boards, NEW p \in Port,
         Replayed(b, p), \A d, t \in Boards : Deaf(d, t),
         NEW d \in Boards, NEW s \in Boards
  PROVE  Deaf(d, s)'
<1>1. Typed(wire) /\ TypeOK
  BY DEF IInv, TypeOK, Typed
<1>2. PICK f : f = Head(wire[b][p])
  OBVIOUS
<1>3. /\ wire[b][p] # <<>> /\ wire' = Take(wire, b, p)
      /\ missed' = [missed EXCEPT ![b][f.src] = Append(@, f.id)]
      /\ ~SeqIsFresh(b, f.src, f.seq)
      /\ UNCHANGED <<tx_seq, seen, sent>>
  BY <1>2, Zenon DEF Replayed, Take
<1>4. /\ f \in Frame /\ f.src \in Boards
      /\ f.id \in Nat /\ 1 <= f.id /\ f.id <= sent[f.src]
      /\ f.seq = Num(f.src, f.id)
      /\ 1 \in DOMAIN wire[b][p] /\ wire[b][p][1] = f
  BY <1>2, <1>3, HeadFacts
<1>5. missed \in [Boards -> [Boards -> Seq(1..MaxSend)]]
  BY <1>1 DEF TypeOK
<1>6. CASE ~(d = b /\ s = f.src)
  <2>1. missed'[d][s] = missed[d][s]
    BY <1>3, <1>4, <1>5, <1>6
  <2>2. \A r \in Int : r <= sent[s] /\ Behind(wire, d, s, r) => Behind(wire', d, s, r)
    BY <1>1, <1>3, TakeBehind, Zenon
  <2>3. /\ seen'[d][s] = seen[d][s] /\ tx_seq'[s] = tx_seq[s] /\ sent'[s] = sent[s]
        /\ Deaf(d, s)
    BY <1>3
  <2>4. QED
    BY <1>1, <2>1, <2>2, <2>3, DeafKeeps
<1>7. CASE d = b /\ s = f.src
  <2>1. PICK u \in Seq(1..MaxSend) : u = missed[b][s]
    BY <1>5, <1>7
  <2>2. missed'[b][s] = Append(u, f.id)
    BY <1>3, <1>5, <1>7, <2>1
  <2>3. f.id \in 1..MaxSend
    BY <1>4 DEF Frame
  <2>4. PICK n \in Nat : n = Len(u)
    BY <2>1, LenProperties
  <2>5. /\ missed'[b][s] # <<>> /\ Len(missed'[b][s]) = n + 1
        /\ missed'[b][s][n + 1] = f.id
    BY <2>1, <2>2, <2>3, <2>4, AppendProperties, EmptySeq
  <2>6. PICK h : h = seen[b][s].high_seq
    OBVIOUS
  <2>7. h \in 0..(SEQ - 1)
    <3>1. seen \in [Boards -> [Boards -> [used : BOOLEAN, high_seq : 0..(SEQ - 1)]]]
      BY <1>1 DEF TypeOK
    <3>2. seen[b][s] \in [used : BOOLEAN, high_seq : 0..(SEQ - 1)]
      BY <3>1
    <3>3. QED
      BY <2>6, <3>2
  <2>8. SEQ \in Nat \ {0} /\ JUMP \in Nat /\ tx_seq[s] \in Int /\ sent[s] \in Int
    BY <1>1, <1>7, SeqWidth DEF TypeOK
  <2>9. \A r \in Int : Num(s, r) \in 0..(SEQ - 1)
    <3>1. SUFFICES ASSUME NEW r \in Int
                   PROVE  Num(s, r) \in 0..(SEQ - 1)
      OBVIOUS
    <3>2. r - 1 - sent[s] + tx_seq[s] \in Int
      BY <2>8
    <3>3. QED
      BY <2>8, <3>2, DivMod DEF Num
  <2>10. seen[b][s].used /\ Signed(Num(s, f.id) - h) \in -JUMP..0
    <3>1. Signed(Num(s, f.id) - h) \in Int
      BY <1>4, <2>7, <2>9, SignedIs
    <3>2. f.seq = Num(s, f.id) /\ ~SeqIsFresh(b, s, f.seq)
      BY <1>3, <1>4, <1>7
    <3>3. Signed(f.seq - seen[b][s].high_seq) \in Int
      BY <2>6, <3>1, <3>2
    <3>4. seen[b][s].used /\ Signed(f.seq - seen[b][s].high_seq) \in -JUMP..0
      BY <3>2, <3>3, StaleIs
    <3>5. QED
      BY <2>6, <3>2, <3>4
  <2>11. Behind(wire', b, s, f.id)
    <3>1. Sided(wire)
      BY LineSided
    <3>2. Behind(Take(wire, b, p), b, Head(wire[b][p]).src, Head(wire[b][p]).id)
      BY <1>1, <1>3, <3>1, TakenIsOldest
    <3>3. QED
      BY <1>2, <1>3, <1>7, <3>2, Zenon
  <2>12. Signed(Num(s, f.id) - h) \in (n - JUMP)..0
    <3>1. CASE u = <<>>
      BY <2>4, <2>8, <2>10, <3>1, EmptySeq
    <3>2. CASE u # <<>>
      <4>1. PICK r : r = u[n]
        OBVIOUS
      <4>2. r \in Int /\ n >= 1
        BY <1>1, <1>7, <2>1, <2>4, <3>2, <4>1, LastMissed
      <4>3. /\ r <= sent[s] /\ Behind(wire, b, s, r)
            /\ Signed(Num(s, r) - h) \in (n - 1 - JUMP)..0
        <5>1. Deaf(b, s)
          BY <1>7
        <5>2. QED
          BY <2>1, <2>4, <2>6, <3>2, <4>1, <5>1, Zenon DEF Deaf
      <4>4. f.id > r
        <5>1. Toward(b, p, b)
          BY BoardsAreInt DEF Toward
        <5>2. QED
          BY <1>4, <1>7, <4>3, <5>1 DEF Behind
      <4>5. f.id - r < SEQ - JUMP
        BY <1>2, <1>3, <1>7, <2>1, <2>4, <3>2, <4>1, Zenon DEF NoLap
      <4>6. PICK k \in Int : k = f.id - r
        BY <1>4, <4>2
      <4>7. k \in 1..(SEQ - JUMP - 1)
        BY <1>4, <2>8, <4>2, <4>4, <4>5, <4>6
      <4>8. PICK a \in Int : a = r - 1 - sent[s] + tx_seq[s]
        BY <2>8, <4>2
      <4>9. a + k = f.id - 1 - sent[s] + tx_seq[s]
        <5>1. f.id \in Int
          BY <1>4
        <5>2. PICK x, y, z \in Int : x = f.id /\ y = sent[s] /\ z = tx_seq[s]
          BY <2>8, <5>1
        <5>3. k = x - r /\ a = r - 1 - y + z
          BY <4>6, <4>8, <5>2
        <5>4. a + k = x - 1 - y + z
          BY <4>2, <5>3
        <5>5. QED
          BY <5>2, <5>4
      <4>10. Num(s, r) = a % SEQ /\ Num(s, f.id) = (a + k) % SEQ
        BY <4>8, <4>9 DEF Num
      <4>11. /\ Signed((a % SEQ) - h) \in (n - 1 - JUMP)..0
             /\ Signed(((a + k) % SEQ) - h) \in -JUMP..0
        BY <2>10, <4>3, <4>10
      <4>12. Signed((a % SEQ) - h) \in -JUMP..0
        BY <2>8, <4>2, <4>11
      <4>13. Signed(((a + k) % SEQ) - h) = Signed((a % SEQ) - h) + k
        BY <2>7, <4>7, <4>11, <4>12, LessStale
      <4>14. PICK x, y \in Int : x = Signed((a % SEQ) - h) /\ y = Signed(((a + k) % SEQ) - h)
        BY <4>11
      <4>15. y = x + k /\ x \in (n - 1 - JUMP)..0 /\ y \in -JUMP..0
        BY <4>11, <4>13, <4>14
      <4>16. y \in (n - JUMP)..0
        BY <2>8, <4>7, <4>15
      <4>17. QED
        BY <4>10, <4>14, <4>16
    <3>3. QED
      BY <3>1, <3>2
  <2>13. Num(s, f.id)' = Num(s, f.id)
    BY <1>3 DEF Num
  <2>14. (n + 1) - 1 - JUMP = n - JUMP
    BY <2>8
  <2>15. sent' = sent /\ seen' = seen
    BY <1>3
  <2>16. /\ seen'[b][s].used /\ f.id <= sent'[s] /\ Behind(wire', b, s, f.id)
         /\ Signed(Num(s, f.id)' - seen'[b][s].high_seq) \in ((n + 1) - 1 - JUMP)..0
    BY <1>4, <1>7, <2>6, <2>10, <2>11, <2>12, <2>13, <2>14, <2>15
  <2>17. Deaf(b, s)'
    BY <2>5, <2>16, Zenon DEF Deaf
  <2>18. QED
    BY <1>7, <2>17
<1>8. QED
  BY <1>6, <1>7

\* The other steps of a board and of its surroundings
LEMMA OthersDeaf ==
  ASSUME IInv, ~ring, [Next]_vars, \A d, t \in Boards : Deaf(d, t),
         ~(\E b \in Boards, p \in Port : Replayed(b, p)),
         NEW d \in Boards, NEW s \in Boards
  PROVE  Deaf(d, s)'
<1>1. Typed(wire) /\ TypeOK /\ Books
  BY DEF IInv, TypeOK, Typed, Books
<1>2. Deaf(d, s)
  OBVIOUS
<1>3. missed \in [Boards -> [Boards -> Seq(1..MaxSend)]]
  BY <1>1 DEF TypeOK
<1>4. ASSUME NEW b \in Boards, NEW p \in Port, wire[b][p] # <<>>, wire' = Take(wire, b, p),
             UNCHANGED <<tx_seq, seen, sent, missed>>
      PROVE  Deaf(d, s)'
  <2>1. \A r \in Int : r <= sent[s] /\ Behind(wire, d, s, r) => Behind(wire', d, s, r)
    BY <1>1, <1>4, TakeBehind, Zenon
  <2>2. /\ missed'[d][s] = missed[d][s] /\ seen'[d][s] = seen[d][s]
        /\ tx_seq'[s] = tx_seq[s] /\ sent'[s] = sent[s]
    BY <1>4
  <2>3. QED
    BY <1>1, <1>2, <2>1, <2>2, DeafKeeps
<1>5. ASSUME NEW b \in Boards, NEW p \in Port, Accept(b, p)
      PROVE  Deaf(d, s)'
  <2>1. PICK f : f = Head(wire[b][p])
    OBVIOUS
  <2>2. /\ wire[b][p] # <<>>
        /\ wire' = Relay(b, p, Head(wire[b][p]), Take(wire, b, p))
        /\ seen' = Accepted(b, f.src, f.seq)
        /\ missed' = [missed EXCEPT ![b][f.src] = <<>>]
        /\ UNCHANGED <<tx_seq, sent>>
    BY <1>5, <2>1, Zenon DEF Accept, Take
  <2>3. f \in Frame /\ f.src \in Boards /\ f.seq \in 0..(SEQ - 1)
    <3>1. f \in Frame
      BY <2>1, <2>2, HeadFacts
    <3>2. QED
      BY <3>1 DEF Frame
  <2>4. CASE d = b /\ s = f.src
    <3>1. missed'[d][s] = <<>>
      BY <1>3, <2>2, <2>3, <2>4
    <3>2. QED
      BY <3>1 DEF Deaf
  <2>5. CASE ~(d = b /\ s = f.src)
    <3>1. missed'[d][s] = missed[d][s]
      BY <1>3, <2>2, <2>3, <2>5
    <3>2. \A r \in Int : r <= sent[s] /\ Behind(wire, d, s, r) => Behind(wire', d, s, r)
      BY <1>1, <2>2, RelayBehind, Zenon
    <3>3. PICK src \in Boards, seq \in 0..(SEQ - 1) : src = f.src /\ seq = f.seq
      BY <2>3
    <3>4. Accepted(b, src, seq)[d][s] = seen[d][s]
      <4>1. TypeOK /\ ~(d = b /\ s = src)
        BY <1>1, <2>5, <3>3
      <4>2. QED
        BY <4>1, AcceptedElsewhere
    <3>5. /\ seen'[d][s] = seen[d][s]
          /\ tx_seq'[s] = tx_seq[s] /\ sent'[s] = sent[s]
      BY <2>2, <3>3, <3>4, Zenon
    <3>6. QED
      BY <1>1, <1>2, <3>1, <3>2, <3>5, DeafKeeps
  <2>6. QED
    BY <2>4, <2>5
<1>6. ASSUME NEW b \in Boards, NEW type \in Types, NEW dst \in Dsts \ {b}, Send(b, type, dst)
      PROVE  Deaf(d, s)'
  <2>1. \A r \in Int : r <= sent[s] /\ Behind(wire, d, s, r) => Behind(wire', d, s, r)
    BY <1>1, <1>6, SendParts, SendBehind
  <2>2. /\ tx_seq \in [Boards -> 0..(SEQ - 1)] /\ sent \in [Boards -> 0..MaxSend]
        /\ tx_seq' = [tx_seq EXCEPT ![b] = (@ + 1) % SEQ]
        /\ sent' = [sent EXCEPT ![b] = @ + 1]
        /\ UNCHANGED <<seen, missed>>
    BY <1>1, <1>6 DEF Send, TypeOK
  <2>3. \/ tx_seq'[s] = tx_seq[s] /\ sent'[s] = sent[s]
        \/ tx_seq'[s] = (tx_seq[s] + 1) % SEQ /\ sent'[s] = sent[s] + 1
    BY <2>2
  <2>4. missed'[d][s] = missed[d][s] /\ seen'[d][s] = seen[d][s]
    BY <2>2
  <2>5. QED
    BY <1>1, <1>2, <2>1, <2>3, <2>4, DeafKeeps
<1>7. ASSUME NEW b \in Boards, Reboot(b)
      PROVE  Deaf(d, s)'
  <2>1. missed' = [e \in Boards |-> [t \in Boards |->
                     IF e = b \/ t = b THEN <<>> ELSE missed[e][t]]]
    BY <1>7 DEF Reboot
  <2>2. CASE d = b \/ s = b
    <3>1. missed'[d][s] = <<>>
      BY <2>1, <2>2
    <3>2. QED
      BY <3>1 DEF Deaf
  <2>3. CASE d # b /\ s # b
    <3>1. missed'[d][s] = missed[d][s]
      BY <2>1, <2>3
    <3>2. /\ seen \in [Boards -> [Boards -> [used : BOOLEAN, high_seq : 0..(SEQ - 1)]]]
          /\ tx_seq \in [Boards -> 0..(SEQ - 1)]
      BY <1>1 DEF TypeOK
    <3>3. seen'[d][s] = seen[d][s] /\ tx_seq'[s] = tx_seq[s] /\ sent'[s] = sent[s]
      BY <1>7, <2>3, <3>2 DEF Reboot
    <3>4. \A e \in Boards, p \in Port : \A i \in DOMAIN wire'[e][p] :
            i \in DOMAIN wire[e][p] /\ wire'[e][p][i] = wire[e][p][i]
      BY <1>1, <1>7 DEF Reboot, Typed
    <3>5. \A r \in Int : r <= sent[s] /\ Behind(wire, d, s, r) => Behind(wire', d, s, r)
      BY <3>4 DEF Behind
    <3>6. QED
      BY <1>1, <1>2, <3>1, <3>3, <3>5, DeafKeeps
  <2>4. QED
    BY <2>2, <2>3
<1>8. CASE UNCHANGED <<wire, tx_seq, seen, sent, missed>>
  <2>1. /\ missed'[d][s] = missed[d][s] /\ seen'[d][s] = seen[d][s]
        /\ tx_seq'[s] = tx_seq[s] /\ sent'[s] = sent[s] /\ wire' = wire
    BY <1>8
  <2>2. QED
    BY <1>1, <1>2, <2>1, DeafKeeps
<1>9. CASE Next
  <2>1. PICK b \in Boards :
          \/ \E type \in Types, dst \in Dsts \ {b} : Send(b, type, dst)
          \/ \E p \in Port : Receive(b, p) \/ Lose(b, p)
          \/ Reboot(b)
          \/ Rekey(b)
    BY <1>9 DEF Next
  <2>2. CASE \E p \in Port : Receive(b, p) \/ Lose(b, p)
    <3>1. PICK p \in Port : Refuse(b, p) \/ Accept(b, p) \/ Lose(b, p)
      BY <2>2 DEF Receive
    <3>2. CASE Refuse(b, p) \/ Lose(b, p)
      BY <1>4, <3>2 DEF Refuse, Lose, Take
    <3>3. QED
      BY <1>5, <3>1, <3>2
  <2>3. Rekey(b) => UNCHANGED <<wire, tx_seq, seen, sent, missed>>
    BY DEF Rekey
  <2>4. QED
    BY <1>6, <1>7, <1>8, <2>1, <2>2, <2>3
<1>10. QED
  BY <1>8, <1>9 DEF vars

\* The wiring does not change
LEMMA RingStays ==
  ASSUME [Next]_vars
  PROVE  ring' = ring
<1>1. CASE UNCHANGED vars
  BY <1>1 DEF vars
<1>2. CASE Next
  <2>1. PICK b \in Boards :
          \/ \E type \in Types, dst \in Dsts \ {b} : Send(b, type, dst)
          \/ \E p \in Port : Receive(b, p) \/ Lose(b, p)
          \/ Reboot(b)
          \/ Rekey(b)
    BY <1>2 DEF Next
  <2>2. ASSUME NEW type, NEW dst, Send(b, type, dst)
        PROVE  ring' = ring
    BY <2>2, Zenon DEF Send
  <2>3. ASSUME NEW p, Receive(b, p) \/ Lose(b, p)
        PROVE  ring' = ring
    BY <2>3, Zenon DEF Receive, Refuse, Replayed, Accept, Lose
  <2>4. Reboot(b) \/ Rekey(b) => ring' = ring
    BY Zenon DEF Reboot, Rekey
  <2>5. QED
    BY <2>1, <2>2, <2>3, <2>4
<1>3. QED
  BY <1>1, <1>2

\* A step of the chain keeps what is known of the frames refused
LEMMA StepDInv ==
  ASSUME IInv, DInv, NoLap, [Next]_vars
  PROVE  DInv'
<1>1. ring' = ring
  BY RingStays
<1>2. SUFFICES ASSUME ~ring
               PROVE  Ordered(wire)' /\ \A b, s \in Boards : Deaf(b, s)'
  BY <1>1 DEF DInv
<1>3. Ordered(wire) /\ \A b, s \in Boards : Deaf(b, s)
  BY <1>2 DEF DInv
<1>4. Ordered(wire)'
  BY <1>2, <1>3, OrderKeeps
<1>5. CASE \E b \in Boards, p \in Port : Replayed(b, p)
  BY <1>2, <1>3, <1>4, <1>5, ReplayedDeaf
<1>6. CASE ~(\E b \in Boards, p \in Port : Replayed(b, p))
  BY <1>2, <1>3, <1>4, <1>6, OthersDeaf
<1>7. QED
  BY <1>5, <1>6

\* Nothing is refused on a chain just switched on
LEMMA InitDInv ==
  ASSUME Init
  PROVE  DInv
<1>1. /\ \A d \in Boards, p \in Port : wire[d][p] = <<>>
      /\ \A b, s \in Boards : missed[b][s] = <<>>
  BY DEF Init
<1>2. QED
  BY <1>1 DEF DInv, Ordered, Deaf

\* On a line, however often boards restart, frames are lost or the pairing
\* changes, a board refuses at most JUMP + 1 frames of another before it
\* listens again (seq_is_fresh), unless the frames that reach it are nearly a
\* turn of the counter apart.
THEOREM DeafnessIsBounded == Spec /\ []NoLap => []DeafnessBounded
<1>1. Init => DInv
  BY InitDInv
<1>2. IInv /\ DInv /\ NoLap /\ [Next]_vars => DInv'
  BY StepDInv
<1>3. IInv /\ DInv => DeafnessBounded
  <2>1. SUFFICES ASSUME IInv, DInv, ~ring, NEW b \in Boards, NEW s \in Boards
                 PROVE  Len(missed[b][s]) <= JUMP + 1
    BY DEF DeafnessBounded
  <2>2. TypeOK /\ Deaf(b, s)
    BY <2>1 DEF IInv, DInv
  <2>3. CASE missed[b][s] = <<>>
    BY <2>3, SeqWidth, EmptySeq
  <2>4. CASE missed[b][s] # <<>>
    <3>1. PICK n : n = Len(missed[b][s])
      OBVIOUS
    <3>2. n \in Nat
      BY <2>2, <2>4, <3>1, LastMissed
    <3>3. PICK x : x \in (n - 1 - JUMP)..0
      BY <2>2, <2>4, <3>1, Zenon DEF Deaf
    <3>4. QED
      BY <3>1, <3>2, <3>3, SeqWidth
  <2>5. QED
    BY <2>3, <2>4
<1>4. QED
  BY <1>1, <1>2, <1>3, IInvHolds, PTL DEF Spec

-----------------------------------------------------------------------------
(* Arrival *)

\* A frame is given more hops than the longest way there is (DHP_TTL_DEFAULT
\* against DHP_MAX_BOARDS)
LongEnough == TTL >= N - 1

\* The frames of s that are for d and under way to it
Due(w, d, s) == {n \in 1..MaxSend : Owes(w, d, s, n)}

\* What d knows of s and what it is owed, while nothing was lost
Current(d, s) ==
  /\ last[d][s] <= sent[s]
  /\ seen[d][s].used => /\ last[d][s] >= 1
                        /\ seen[d][s].high_seq = (last[d][s] - 1) % SEQ
  /\ d # s => Behind(wire, d, s, last[d][s])
  /\ owed[d][s] = IF d = s THEN 0 ELSE Cardinality(Due(wire, d, s))

AInv ==
  ~ring /\ faults = 0 =>
    /\ Ordered(wire)
    /\ keyed = Boards
    /\ \A s \in Boards : tx_seq[s] = sent[s] % SEQ
    /\ \A d, s \in Boards : Current(d, s)

\* As long as nothing was lost, no board goes half a turn of the counter
\* without a frame of a source it has heard
InTouch ==
  faults = 0 =>
    \A b \in Boards, p \in Port : wire[b][p] # <<>> =>
      LET f == Head(wire[b][p])
      IN  seen[b][f.src].used => f.id - last[b][f.src] < SEQ \div 2

\* What is due is finite
LEMMA DueFinite ==
  ASSUME NEW w, NEW d, NEW s
  PROVE  IsFiniteSet(Due(w, d, s)) /\ Cardinality(Due(w, d, s)) \in Nat
<1>1. IsFiniteSet(1..MaxSend)
  BY LinkAssumption, FS_Interval
<1>2. Due(w, d, s) \subseteq 1..MaxSend
  BY DEF Due
<1>3. IsFiniteSet(Due(w, d, s))
  BY <1>1, <1>2, FS_Subset
<1>4. QED
  BY <1>3, FS_CardinalityType

\* The number of a frame, while its sender has not restarted
LEMMA NumFromStart ==
  ASSUME TypeOK, NEW s \in Boards, tx_seq[s] = sent[s] % SEQ, NEW r \in Int
  PROVE  Num(s, r) = (r - 1) % SEQ
<1>1. PICK x, a \in Int : x = sent[s] /\ a = r - 1 - sent[s]
  BY Counts
<1>2. (a + (x % SEQ)) % SEQ = (a + x) % SEQ
  BY SeqWidth, ModCong
<1>3. a + x = r - 1
  BY <1>1
<1>4. Num(s, r) = (a + (x % SEQ)) % SEQ
  BY <1>1 DEF Num
<1>5. QED
  BY <1>2, <1>3, <1>4

\* Without losses no frame is refused
LEMMA NoRefusal ==
  ASSUME IInv, AInv, InTouch, ~ring, faults = 0, NEW b \in Boards, NEW p \in Port
  PROVE  ~Refuse(b, p) /\ ~Replayed(b, p)
<1>1. TypeOK
  BY DEF IInv
<1>2. SUFFICES ASSUME wire[b][p] # <<>>
               PROVE  /\ Hears(b, Head(wire[b][p]))
                      /\ SeqIsFresh(b, Head(wire[b][p]).src, Head(wire[b][p]).seq)
  BY Zenon DEF Refuse, Replayed
<1>3. PICK f : f = Head(wire[b][p])
  OBVIOUS
<1>4. /\ f.src \in Boards /\ f.id \in Nat /\ f.seq = Num(f.src, f.id)
      /\ IF p = "UP" THEN f.src < b ELSE f.src > b
      /\ 1 \in DOMAIN wire[b][p] /\ wire[b][p][1] = f
  BY <1>2, <1>3, HeadFacts
<1>5. f.src # b
  BY <1>4, BoardsAreInt
<1>6. b \in keyed
  BY DEF AInv
<1>7. Hears(b, f)
  BY <1>5, <1>6 DEF Hears
<1>8. SeqIsFresh(b, f.src, f.seq)
  <2>1. SUFFICES ASSUME seen[b][f.src].used
                 PROVE  Signed(f.seq - seen[b][f.src].high_seq) > 0
    BY Zenon DEF SeqIsFresh
  <2>2. tx_seq[f.src] = sent[f.src] % SEQ /\ Current(b, f.src)
    BY <1>4 DEF AInv
  <2>3. PICK l \in Int : l = last[b][f.src]
    BY <1>1, <1>4, Counts
  <2>4. /\ l >= 1 /\ seen[b][f.src].high_seq = (l - 1) % SEQ
        /\ Behind(wire, b, f.src, l)
    BY <1>5, <2>1, <2>2, <2>3 DEF Current
  <2>5. f.id > l
    <3>1. Toward(b, p, b)
      BY OnwardIs
    <3>2. QED
      BY <1>4, <2>4, <3>1 DEF Behind
  <2>6. f.id - l < SEQ \div 2
    BY <1>2, <1>3, <2>1, <2>3, Zenon DEF InTouch
  <2>7. f.seq = (f.id - 1) % SEQ
    <3>1. f.id \in Int
      BY <1>4
    <3>2. Num(f.src, f.id) = (f.id - 1) % SEQ
      BY <1>1, <1>4, <2>2, <3>1, NumFromStart
    <3>3. QED
      BY <1>4, <3>2
  <2>8. PICK a \in Int, k \in Nat : a = l - 1 /\ k = f.id - l
    BY <1>4, <2>3, <2>5
  <2>9. 1 <= k /\ k < SEQ \div 2 /\ a + k = f.id - 1
    <3>1. f.id \in Int
      BY <1>4
    <3>2. 1 <= k /\ a + k = f.id - 1
      BY <2>3, <2>5, <2>8, <3>1
    <3>3. QED
      BY <2>6, <2>8, <3>2
  <2>10. Signed(((a + k) % SEQ) - (a % SEQ)) > 0
    BY <2>9, NewerIsPositive
  <2>11. QED
    BY <2>4, <2>7, <2>8, <2>9, <2>10
<1>9. QED
  BY <1>3, <1>7, <1>8, Zenon

\* A frame for a board further on does not run out of hops here
LEMMA HopsSuffice ==
  ASSUME LongEnough, IInv, ~ring, NEW b \in Boards, NEW p \in Port, wire[b][p] # <<>>,
         NEW d \in Boards, d # b, Toward(d, p, b), Head(wire[b][p]).dst \in {d, Broadcast}
  PROVE  Passes(b, p, Head(wire[b][p]))
<1>1. PICK f : f = Head(wire[b][p])
  OBVIOUS
<1>2. /\ f \in Frame /\ f.src \in Boards
      /\ TTL - f.ttl + 1 = (IF p = "UP" THEN b - f.src ELSE f.src - b)
  BY <1>1, HeadFacts
<1>3. Onward(b, p) \in Boards
  BY OnwardIs
<1>4. f.dst # b
  <2>1. Broadcast \notin Boards
    BY LinkAssumption DEF Boards
  <2>2. QED
    BY <1>1, <2>1
<1>5. f.ttl # 1
  <2>1. SUFFICES ASSUME f.ttl = 1
                 PROVE  FALSE
    OBVIOUS
  <2>2. /\ f.src \in Int /\ 1 <= f.src /\ f.src <= N
        /\ b \in Int /\ d \in Int /\ 1 <= d /\ d <= N
    BY <1>2, BoardsAreInt
  <2>3. TTL \in Nat /\ N \in Nat /\ TTL >= N - 1
    BY LinkAssumption DEF LongEnough
  <2>4. TTL = (IF p = "UP" THEN b - f.src ELSE f.src - b)
    BY <1>2, <2>1, <2>2, <2>3
  <2>5. IF p = "UP" THEN b < d ELSE b > d
    BY <2>2 DEF Toward
  <2>6. QED
    BY <2>2, <2>3, <2>4, <2>5
<1>6. QED
  BY <1>1, <1>3, <1>4, <1>5 DEF Passes

\* Send: the board owes a frame to each it is for, and that frame is under way
LEMMA SendCurrent ==
  ASSUME IInv, AInv, ~ring, faults = 0, NEW b \in Boards, NEW type \in Types,
         NEW dst \in Dsts \ {b}, Send(b, type, dst), NEW d \in Boards, NEW s \in Boards
  PROVE  Current(d, s)'
<1>1. TypeOK /\ Typed(wire)
  BY DEF IInv, TypeOK, Typed
<1>2. keyed = Boards /\ Current(d, s)
  BY DEF AInv
<1>3. PICK f \in Frame : /\ f.src = b /\ f.id = sent[b] + 1 /\ f.dst = dst
                         /\ wire' = Transmit(b, Port, f, wire)
  BY <1>1, <1>2, SendParts
<1>4. /\ sent \in [Boards -> 0..MaxSend] /\ sent' = [sent EXCEPT ![b] = @ + 1]
      /\ sent[b] < MaxSend /\ UNCHANGED <<seen, last>>
      /\ owed' = [e \in Boards |-> [t \in Boards |->
                    IF t = b /\ e # b /\ dst \in {e, Broadcast}
                    THEN owed[e][t] + 1 ELSE owed[e][t]]]
  BY <1>1 DEF Send, TypeOK
<1>5. last[d][s] \in Int /\ sent[s] \in Nat /\ sent'[s] >= sent[s]
  BY <1>1, <1>4, Counts
<1>6. last[d][s] <= sent[s] /\ last'[d][s] <= sent'[s]
  BY <1>2, <1>4, <1>5 DEF Current
<1>7. d # s => Behind(wire', d, s, last'[d][s])
  <2>1. SUFFICES ASSUME d # s
                 PROVE  Behind(wire', d, s, last[d][s])
    BY <1>4
  <2>2. Behind(wire, d, s, last[d][s])
    BY <1>2, <2>1 DEF Current
  <2>3. PICK r \in Int : r = last[d][s]
    BY <1>5
  <2>4. Behind(Transmit(b, Port, f, wire), d, s, r)
    BY <1>1, <1>3, <1>6, <2>2, <2>3, SendBehind
  <2>5. QED
    BY <1>3, <2>3, <2>4, Zenon
<1>8. \A n : Owes(wire', d, s, n) <=>
        \/ Owes(wire, d, s, n)
        \/ /\ b = s /\ f.id = n /\ dst \in {d, Broadcast}
           /\ \E q \in Port : Leaves(b, Port, q) /\ Toward(d, Opposite(q), Neighbour(b, q))
  <2> TAKE n
  <2>1. PICK ports : ports = Port
    OBVIOUS
  <2>2. Owes(Transmit(b, ports, f, wire), d, s, n) <=>
          \/ Owes(wire, d, s, n)
          \/ /\ f.src = s /\ f.id = n /\ f.dst \in {d, Broadcast}
             /\ \E q \in Port : Leaves(b, ports, q) /\ Toward(d, Opposite(q), Neighbour(b, q))
    <3>1. Typed(wire)
      BY <1>1
    <3>2. QED
      BY <3>1, TransmitOwes
  <2>3. QED
    BY <1>3, <2>1, <2>2, Zenon
<1>9. CASE d # s
  <2>1. CASE s = b /\ dst \in {d, Broadcast}
    <3>1. \E q \in Port : Leaves(b, Port, q) /\ Toward(d, Opposite(q), Neighbour(b, q))
      <4>1. "UP" \in Port /\ "DOWN" \in Port
        BY DEF Port
      <4>2. /\ Leaves(b, Port, "UP") <=> b > 1
            /\ Leaves(b, Port, "DOWN") <=> b < N
            /\ Neighbour(b, "UP") = b - 1 /\ Neighbour(b, "DOWN") = b + 1
            /\ Opposite("UP") = "DOWN" /\ Opposite("DOWN") = "UP"
            /\ Toward(d, "DOWN", b - 1) <=> d < b
            /\ Toward(d, "UP", b + 1) <=> d > b
        BY LineWays
      <4>3. d \in Int /\ b \in Int /\ 1 <= d /\ d <= N /\ 1 <= b /\ b <= N /\ N \in Nat
        BY BoardsAreInt, LinkAssumption
      <4>4. (d < b /\ b > 1) \/ (d > b /\ b < N)
        BY <1>9, <2>1, <4>3
      <4>5. CASE d < b /\ b > 1
        BY <4>1, <4>2, <4>5, Zenon
      <4>6. CASE d > b /\ b < N
        BY <4>1, <4>2, <4>6, Zenon
      <4>7. QED
        BY <4>4, <4>5, <4>6
    <3>2. \A n : Owes(wire', d, s, n) <=> Owes(wire, d, s, n) \/ n = f.id
      BY <1>8, <2>1, <3>1, Zenon
    <3>3. f.id \in 1..MaxSend
      BY DEF Frame
    <3>4. Due(wire', d, s) = Due(wire, d, s) \cup {f.id}
      BY <3>2, <3>3 DEF Due
    <3>5. f.id \notin Due(wire, d, s)
      <4>1. SUFFICES ASSUME Owes(wire, d, s, f.id)
                     PROVE  FALSE
        BY DEF Due
      <4>2. PICK q \in Port, e \in Boards : \E i \in DOMAIN wire[e][q] :
              wire[e][q][i].src = s /\ wire[e][q][i].id = f.id
        BY <4>1 DEF Owes
      <4>3. PICK i \in DOMAIN wire[e][q] : wire[e][q][i].src = s /\ wire[e][q][i].id = f.id
        BY <4>2
      <4>4. wire[e][q][i].id <= sent[wire[e][q][i].src]
        BY FrameFacts
      <4>5. QED
        BY <1>3, <1>5, <2>1, <4>3, <4>4
    <3>6. Cardinality(Due(wire', d, s)) = Cardinality(Due(wire, d, s)) + 1
      BY <3>4, <3>5, DueFinite, FS_AddElement
    <3>7. owed[d][s] = Cardinality(Due(wire, d, s)) /\ owed'[d][s] = owed[d][s] + 1
      BY <1>2, <1>4, <1>9, <2>1 DEF Current
    <3>8. owed'[d][s] = Cardinality(Due(wire', d, s))
      BY <3>6, <3>7
    <3>9. QED
      BY <1>4, <1>2, <1>6, <1>7, <1>9, <3>8 DEF Current
  <2>2. CASE ~(s = b /\ dst \in {d, Broadcast})
    <3>1. \A n : Owes(wire', d, s, n) <=> Owes(wire, d, s, n)
      BY <1>8, <2>2, Zenon
    <3>2. Due(wire', d, s) = Due(wire, d, s)
      BY <3>1 DEF Due
    <3>3. owed[d][s] = Cardinality(Due(wire, d, s)) /\ owed'[d][s] = owed[d][s]
      BY <1>2, <1>4, <1>9, <2>2 DEF Current
    <3>4. owed'[d][s] = Cardinality(Due(wire', d, s))
      BY <3>2, <3>3
    <3>5. QED
      BY <1>4, <1>2, <1>6, <1>7, <1>9, <3>4 DEF Current
  <2>3. QED
    BY <2>1, <2>2
<1>10. CASE d = s
  <2>1. owed'[d][s] = owed[d][s] /\ owed[d][s] = 0
    BY <1>2, <1>4, <1>10 DEF Current
  <2>2. QED
    BY <1>4, <1>2, <1>6, <1>10, <2>1 DEF Current
<1>11. QED
  BY <1>9, <1>10

\* Accept: it is handed up or passed on, and to whom it was due it stays due
\* until then
LEMMA AcceptCurrent ==
  ASSUME LongEnough, IInv, AInv, ~ring, faults = 0, NEW b \in Boards, NEW p \in Port,
         Accept(b, p), NEW d \in Boards, NEW s \in Boards
  PROVE  Current(d, s)'
<1>1. TypeOK /\ Typed(wire) /\ Ordered(wire) /\ Sided(wire)
  BY LineSided DEF IInv, TypeOK, Typed, AInv
<1>2. Current(d, s)
  BY DEF AInv
<1>3. PICK f : f = Head(wire[b][p])
  OBVIOUS
<1>4. /\ wire[b][p] # <<>>
      /\ seen' = Accepted(b, f.src, f.seq)
      /\ last' = [last EXCEPT ![b][f.src] = f.id]
      /\ wire' = Relay(b, p, f, Take(wire, b, p))
      /\ owed' = IF f.dst \in {b, Broadcast} THEN [owed EXCEPT ![b][f.src] = @ - 1] ELSE owed
      /\ UNCHANGED <<tx_seq, sent>>
  BY <1>3, Zenon DEF Accept, Take
<1>5. /\ f \in Frame /\ f.src \in Boards /\ f.id \in Nat /\ 1 <= f.id
      /\ f.id <= sent[f.src] /\ f.seq = Num(f.src, f.id)
      /\ IF p = "UP" THEN f.src < b ELSE f.src > b
  BY <1>3, <1>4, HeadFacts
<1>6. f.src # b /\ f.seq \in 0..(SEQ - 1) /\ f.id \in 1..MaxSend
  BY <1>5, BoardsAreInt DEF Frame
<1>7. /\ last \in [Boards -> [Boards -> 0..MaxSend]]
      /\ owed \in [Boards -> [Boards -> Int]]
      /\ sent[s] \in Nat /\ sent' = sent
  BY <1>1, <1>4, Counts DEF TypeOK
<1>8. \A n : Owes(wire, d, s, n) <=>
        \/ Owes(Take(wire, b, p), d, s, n)
        \/ f.src = s /\ f.id = n /\ f.dst \in {d, Broadcast} /\ Toward(d, p, b)
  <2>1. Typed(wire) /\ wire[b][p] # <<>>
    BY <1>1, <1>4
  <2>2. QED
    BY <1>3, <2>1, TakeOwes
<1>9. \A n : Owes(wire', d, s, n) <=>
        \/ Owes(Take(wire, b, p), d, s, n)
        \/ /\ f.src = s /\ f.id = n /\ f.dst \in {d, Broadcast}
           /\ Passes(b, p, f) /\ d # b /\ Toward(d, p, b)
  BY <1>1, <1>3, <1>4, RelayOwes, Zenon
<1>a. PICK src \in Boards, seq \in 0..(SEQ - 1) : src = f.src /\ seq = f.seq
  BY <1>5, <1>6
<1>b. seen' = Accepted(b, src, seq)
  BY <1>4, <1>a, Zenon
<1>c. /\ \A e, t \in Boards : ~(e = b /\ t = src) => Accepted(b, src, seq)[e][t] = seen[e][t]
      /\ SeenGet(b, src) => Accepted(b, src, seq)[b][src].high_seq = seq
  <2>1. TypeOK
    BY <1>1
  <2>2. /\ \A e, t \in Boards : ~(e = b /\ t = src)
             => Accepted(b, src, seq)[e][t] = seen[e][t]
        /\ SeenGet(b, src) => Accepted(b, src, seq)[b][src].used
                              /\ Accepted(b, src, seq)[b][src].high_seq = seq
    <3>1. \A e, t \in Boards : ~(e = b /\ t = src)
            => Accepted(b, src, seq)[e][t] = seen[e][t]
      BY <2>1, AcceptedElsewhere
    <3>2. SeenGet(b, src) => Accepted(b, src, seq)[b][src].used
                              /\ Accepted(b, src, seq)[b][src].high_seq = seq
      BY <2>1, AcceptedIs
    <3>3. QED
      BY <3>1, <3>2, Zenon
  <2>3. QED
    BY <2>2, Zenon
<1>10. CASE ~(d = b /\ s = f.src)
  <2>1. last'[d][s] = last[d][s] /\ owed'[d][s] = owed[d][s]
    BY <1>4, <1>5, <1>7, <1>10
  <2>2. seen'[d][s] = seen[d][s]
    BY <1>10, <1>a, <1>b, <1>c
  <2>3. d # s => Behind(wire', d, s, last'[d][s])
    <3>1. SUFFICES ASSUME d # s
                   PROVE  Behind(wire', d, s, last[d][s])
      BY <2>1
    <3>2. PICK r : r = last[d][s]
      OBVIOUS
    <3>3. Behind(wire, d, s, r)
      BY <1>2, <3>1, <3>2 DEF Current
    <3>4. Behind(Relay(b, p, Head(wire[b][p]), Take(wire, b, p)), d, s, r)
      BY <1>1, <1>4, <3>3, RelayBehind
    <3>5. QED
      BY <1>3, <1>4, <3>2, <3>4, Zenon
  <2>4. \A n : Owes(wire', d, s, n) <=> Owes(wire, d, s, n)
    <3>1. CASE s # f.src
      BY <1>8, <1>9, <3>1, Zenon
    <3>2. CASE s = f.src
      <4>1. f.dst \in {d, Broadcast} /\ Toward(d, p, b) => Passes(b, p, f)
        BY <1>3, <1>4, <1>10, <3>2, HopsSuffice
      <4>2. d # b
        BY <1>10, <3>2
      <4>3. QED
        BY <1>8, <1>9, <4>1, <4>2, Zenon
    <3>3. QED
      BY <3>1, <3>2
  <2>5. Due(wire', d, s) = Due(wire, d, s)
    BY <2>4 DEF Due
  <2>6. /\ last[d][s] <= sent[s]
        /\ seen[d][s].used => /\ last[d][s] >= 1
                              /\ seen[d][s].high_seq = (last[d][s] - 1) % SEQ
        /\ owed[d][s] = IF d = s THEN 0 ELSE Cardinality(Due(wire, d, s))
    BY <1>2 DEF Current
  <2>7. QED
    BY <1>7, <2>1, <2>2, <2>3, <2>5, <2>6, Zenon DEF Current
<1>11. CASE d = b /\ s = f.src
  <2>1. last'[b][s] = f.id
    BY <1>4, <1>6, <1>7, <1>11
  <2>2. last'[b][s] <= sent'[s] /\ last'[b][s] >= 1
    BY <1>5, <1>7, <1>11, <2>1
  <2>3. seen'[b][s].used => seen'[b][s].high_seq = (f.id - 1) % SEQ
    <3>1. f.seq = (f.id - 1) % SEQ
      <4>1. tx_seq[s] = sent[s] % SEQ /\ f.id \in Int
        BY <1>5 DEF AInv
      <4>2. Num(s, f.id) = (f.id - 1) % SEQ
        BY <1>1, <4>1, NumFromStart
      <4>3. QED
        BY <1>5, <1>11, <4>2
    <3>2. CASE SeenGet(b, src)
      BY <1>11, <1>a, <1>b, <1>c, <3>1, <3>2
    <3>3. CASE ~SeenGet(b, src)
      <4>1. Accepted(b, src, seq) = seen
        BY <3>3, Zenon DEF Accepted
      <4>2. ~seen[b][src].used
        BY <3>3 DEF SeenGet
      <4>3. QED
        BY <1>11, <1>a, <1>b, <4>1, <4>2, Zenon
    <3>4. QED
      BY <3>2, <3>3
  <2>4. PICK v : v = Take(wire, b, p)
    OBVIOUS
  <2>5. Typed(v) /\ Behind(v, b, s, f.id)
    <3>1. Typed(Take(wire, b, p))
      BY <1>1, <1>4, TakeIs
    <3>2. Behind(Take(wire, b, p), b, Head(wire[b][p]).src, Head(wire[b][p]).id)
      BY <1>1, <1>4, TakenIsOldest
    <3>3. QED
      BY <1>3, <1>11, <2>4, <3>1, <3>2, Zenon
  <2>6. Behind(wire', b, s, f.id)
    <3>1. f \in Frame
      BY <1>5
    <3>2. Behind(Relay(b, p, f, v), b, s, f.id)
      BY <2>5, <3>1, OnwardBehind
    <3>3. QED
      BY <1>4, <2>4, <3>2, Zenon
  <2>7. \A n : Owes(wire', b, s, n) <=> Owes(v, b, s, n)
    BY <1>9, <1>11, <2>4, Zenon
  <2>8. Toward(b, p, b)
    BY OnwardIs
  <2>9. \A n : Owes(wire, b, s, n) <=>
          Owes(v, b, s, n) \/ (n = f.id /\ f.dst \in {b, Broadcast})
    BY <1>8, <1>11, <2>4, <2>8, Zenon
  <2>10. ~Owes(v, b, s, f.id)
    <3>1. SUFFICES ASSUME Owes(v, b, s, f.id)
                   PROVE  FALSE
      OBVIOUS
    <3>2. PICK q \in Port, e \in Boards : \E i \in DOMAIN v[e][q] :
            v[e][q][i].src = s /\ v[e][q][i].id = f.id /\ Toward(b, q, e)
      BY <3>1 DEF Owes
    <3>3. f.id > f.id
      BY <2>5, <3>2 DEF Behind
    <3>4. QED
      BY <1>5, <3>3
  <2>11. owed'[b][s] = Cardinality(Due(wire', b, s))
    <3>1. owed[b][s] = Cardinality(Due(wire, b, s))
      BY <1>2, <1>6, <1>11 DEF Current
    <3>2. CASE f.dst \in {b, Broadcast}
      <4>1. owed'[b][s] = owed[b][s] - 1
        BY <1>4, <1>5, <1>7, <1>11, <3>2
      <4>2. /\ Due(wire', b, s) = Due(wire, b, s) \ {f.id}
            /\ f.id \in Due(wire, b, s)
        BY <1>6, <2>7, <2>9, <2>10, <3>2 DEF Due
      <4>3. Cardinality(Due(wire', b, s)) = Cardinality(Due(wire, b, s)) - 1
        <5>1. PICK S : S = Due(wire, b, s)
          OBVIOUS
        <5>2. IsFiniteSet(S) /\ Cardinality(S) \in Nat
          BY <5>1, DueFinite
        <5>3. Cardinality(S \ {f.id}) = Cardinality(S) - 1
          BY <4>2, <5>1, <5>2, FS_RemoveElement
        <5>4. QED
          BY <4>2, <5>1, <5>3
      <4>4. QED
        BY <3>1, <4>1, <4>3
    <3>3. CASE f.dst \notin {b, Broadcast}
      <4>1. owed'[b][s] = owed[b][s]
        BY <1>4, <3>3
      <4>2. Due(wire', b, s) = Due(wire, b, s)
        BY <2>7, <2>9, <3>3 DEF Due
      <4>3. QED
        BY <3>1, <4>1, <4>2
    <3>4. QED
      BY <3>2, <3>3
  <2>12. b # s
    BY <1>6, <1>11
  <2>13. Current(b, s)'
    BY <2>1, <2>2, <2>3, <2>6, <2>11, <2>12, Zenon DEF Current
  <2>14. QED
    BY <1>11, <2>13
<1>12. QED
  BY <1>10, <1>11

\* A step keeps it, or spends the first fault
LEMMA StepAInv ==
  ASSUME LongEnough, IInv, AInv, InTouch, [Next]_vars
  PROVE  AInv'
<1>1. ring' = ring
  BY RingStays
<1>2. TypeOK /\ faults \in Nat
  BY DEF IInv, TypeOK
<1>3. SUFFICES ASSUME ~ring, faults' = 0
               PROVE  /\ Ordered(wire)' /\ keyed' = Boards
                      /\ \A s \in Boards : tx_seq'[s] = sent'[s] % SEQ
                      /\ \A d, s \in Boards : Current(d, s)'
  BY <1>1 DEF AInv, Boards
<1>4. CASE UNCHANGED vars
  <2>1. faults = 0
    BY <1>3, <1>4 DEF vars
  <2>2. /\ Ordered(wire) /\ keyed = Boards
        /\ \A s \in Boards : tx_seq[s] = sent[s] % SEQ
        /\ \A d, s \in Boards : Current(d, s)
    BY <1>3, <2>1 DEF AInv
  <2>3. \A d, s \in Boards : Current(d, s)'
    <3>1. SUFFICES ASSUME NEW d \in Boards, NEW s \in Boards
                   PROVE  Current(d, s)'
      OBVIOUS
    <3>2. /\ last' = last /\ sent' = sent /\ seen' = seen
          /\ wire' = wire /\ owed' = owed
      BY <1>4 DEF vars
    <3>3. Due(wire, d, s)' = Due(wire, d, s)
      BY <3>2, Zenon DEF Due, Owes
    <3>4. Behind(wire, d, s, last[d][s])' <=> Behind(wire, d, s, last[d][s])
      BY <3>2, Zenon DEF Behind
    <3>5. QED
      BY <2>2, <3>2, <3>3, <3>4 DEF Current
  <2>4. Ordered(wire)'
    BY <1>3, <2>2, OrderKeeps
  <2>5. QED
    BY <1>4, <2>2, <2>3, <2>4 DEF vars
<1>5. CASE Next
  <2>1. PICK b \in Boards :
          \/ \E type \in Types, dst \in Dsts \ {b} : Send(b, type, dst)
          \/ \E p \in Port : Receive(b, p) \/ Lose(b, p)
          \/ Reboot(b)
          \/ Rekey(b)
    BY <1>5 DEF Next
  <2>2. ~Reboot(b) /\ ~Rekey(b) /\ \A p \in Port : ~Lose(b, p)
    <3>1. faults + 1 # 0
      BY <1>2
    <3>2. QED
      BY <1>3, <3>1 DEF Reboot, Rekey, Lose
  <2>3. faults = 0
    <3>1. \A type, dst : Send(b, type, dst) => faults' = faults
      BY DEF Send
    <3>2. \A p : Receive(b, p) => faults' = faults
      BY DEF Receive, Refuse, Replayed, Accept
    <3>3. QED
      BY <1>3, <2>1, <2>2, <3>1, <3>2
  <2>4. /\ Ordered(wire) /\ keyed = Boards
        /\ \A s \in Boards : tx_seq[s] = sent[s] % SEQ
    BY <1>3, <2>3 DEF AInv
  <2>5. Ordered(wire)'
    BY <1>3, <2>4, OrderKeeps
  <2>6. ASSUME NEW type \in Types, NEW dst \in Dsts \ {b}, Send(b, type, dst)
        PROVE  /\ keyed' = Boards /\ \A s \in Boards : tx_seq'[s] = sent'[s] % SEQ
               /\ \A d, s \in Boards : Current(d, s)'
    <3>1. \A d, s \in Boards : Current(d, s)'
      BY <1>3, <2>3, <2>6, SendCurrent
    <3>2. /\ tx_seq \in [Boards -> 0..(SEQ - 1)] /\ sent \in [Boards -> 0..MaxSend]
          /\ tx_seq' = [tx_seq EXCEPT ![b] = (@ + 1) % SEQ]
          /\ sent' = [sent EXCEPT ![b] = @ + 1]
          /\ keyed' = keyed
      BY <1>2, <2>6 DEF Send, TypeOK
    <3>3. ((sent[b] % SEQ) + 1) % SEQ = (sent[b] + 1) % SEQ
      <4>1. sent[b] \in Nat
        BY <1>2, Counts
      <4>2. QED
        BY <4>1, SeqWidth, ModStep
    <3>4. \A s \in Boards : tx_seq'[s] = sent'[s] % SEQ
      <4>1. tx_seq'[b] = (tx_seq[b] + 1) % SEQ /\ sent'[b] = sent[b] + 1
        BY <3>2
      <4>2. \A s \in Boards : s # b => tx_seq'[s] = tx_seq[s] /\ sent'[s] = sent[s]
        BY <3>2
      <4>3. QED
        BY <2>4, <3>3, <4>1, <4>2
    <3>5. QED
      BY <2>4, <3>1, <3>2, <3>4
  <2>7. ASSUME NEW p \in Port, Receive(b, p)
        PROVE  /\ keyed' = Boards /\ \A s \in Boards : tx_seq'[s] = sent'[s] % SEQ
               /\ \A d, s \in Boards : Current(d, s)'
    <3>1. Accept(b, p)
      BY <1>3, <2>3, <2>7, NoRefusal DEF Receive
    <3>2. \A d, s \in Boards : Current(d, s)'
      BY <1>3, <2>3, <3>1, AcceptCurrent
    <3>3. keyed' = keyed /\ tx_seq' = tx_seq /\ sent' = sent
      BY <3>1 DEF Accept
    <3>4. QED
      BY <2>4, <3>2, <3>3
  <2>8. QED
    BY <2>1, <2>2, <2>5, <2>6, <2>7
<1>6. QED
  BY <1>4, <1>5

\* A chain just switched on owes nothing
LEMMA InitAInv ==
  ASSUME Init
  PROVE  AInv
<1>1. /\ \A d \in Boards, p \in Port : wire[d][p] = <<>>
      /\ \A b, s \in Boards : ~seen[b][s].used /\ last[b][s] = 0 /\ owed[b][s] = 0
      /\ \A s \in Boards : sent[s] = 0 /\ tx_seq[s] = 0
      /\ keyed = Boards
  BY DEF Init, Unseen
<1>2. Ordered(wire)
  BY <1>1 DEF Ordered
<1>3. 0 % SEQ = 0
  BY SeqWidth
<1>4. ASSUME NEW d \in Boards, NEW s \in Boards
      PROVE  Current(d, s)
  <2>1. Due(wire, d, s) = {}
    BY <1>1 DEF Due, Owes
  <2>2. Cardinality(Due(wire, d, s)) = 0
    BY <2>1, FS_EmptySet
  <2>3. Behind(wire, d, s, last[d][s])
    BY <1>1 DEF Behind
  <2>4. QED
    BY <1>1, <2>2, <2>3 DEF Current
<1>5. QED
  BY <1>1, <1>2, <1>3, <1>4 DEF AInv

\* On a line whose length the hop limit covers, where no frame is lost and no
\* board restarts or loses its key, every frame reaches every board it is for:
\* what dhp_link_rx_byte relays, refuses and hands up loses none, provided no
\* board goes half a turn of the counter without a frame of a source it knows
\* (every board broadcasts a HELLO several times a second).
THEOREM FramesArrive ==
  LongEnough => (Spec /\ []InTouch => []EveryFrameArrives)
<1> SUFFICES ASSUME LongEnough
             PROVE  Spec /\ []InTouch => []EveryFrameArrives
  OBVIOUS
<1>1. Init => AInv
  BY InitAInv
<1>2. IInv /\ AInv /\ InTouch /\ [Next]_vars => AInv'
  BY StepAInv
<1>3. IInv /\ AInv => EveryFrameArrives
  <2>1. SUFFICES ASSUME IInv, AInv, ~ring, faults = 0, NEW s \in Senders,
                        OnWire(s) = {}, NEW d \in Boards
                 PROVE  owed[d][s] = 0
    BY DEF EveryFrameArrives
  <2>2. s \in Boards
    BY LinkAssumption DEF Boards
  <2>3. owed[d][s] = IF d = s THEN 0 ELSE Cardinality(Due(wire, d, s))
    BY <2>1, <2>2 DEF AInv, Current
  <2>4. ASSUME NEW n, Owes(wire, d, s, n)
        PROVE  FALSE
    <3>1. PICK q \in Port, e \in Boards : \E i \in DOMAIN wire[e][q] : wire[e][q][i].src = s
      BY <2>4 DEF Owes
    <3>2. PICK i \in DOMAIN wire[e][q] : wire[e][q][i].src = s
      BY <3>1
    <3>3. wire[e][q][i].id \in OnWire(wire[e][q][i].src)
      BY OnWireHolds
    <3>4. QED
      BY <2>1, <3>2, <3>3
  <2>5. Due(wire, d, s) = {}
    BY <2>4 DEF Due
  <2>6. QED
    BY <2>3, <2>5, FS_EmptySet
<1>4. QED
  BY <1>1, <1>2, <1>3, IInvHolds, PTL DEF Spec


\* Neither can be too long apart before the counter has made half a turn
LEMMA WithinHalfATurn ==
  ASSUME MaxSend < SEQ \div 2, TypeOK
  PROVE  NoLap /\ InTouch
<1>1. /\ SEQ \in Nat /\ JUMP \in Nat /\ MaxSend \in Nat /\ SEQ \div 2 \in Nat
      /\ SEQ \div 2 <= SEQ - JUMP
  BY LinkAssumption, SeqWidth
<1>2. ASSUME NEW b \in Boards, NEW p \in Port, wire[b][p] # <<>>
      PROVE  Head(wire[b][p]).id \in 1..MaxSend /\ Head(wire[b][p]).src \in Boards
  <2>1. wire[b][p] \in Seq(Frame)
    BY DEF TypeOK
  <2>2. Head(wire[b][p]) \in Frame
    BY <1>2, <2>1
  <2>3. QED
    BY <2>2 DEF Frame
<1>3. NoLap
  <2>1. SUFFICES ASSUME NEW b \in Boards, NEW p \in Port, wire[b][p] # <<>>,
                        NEW f, f = Head(wire[b][p]), NEW m, m = missed[b][f.src],
                        m # <<>>
                 PROVE  f.id - m[Len(m)] < SEQ - JUMP
    BY Zenon DEF NoLap
  <2>2. f.id \in 1..MaxSend /\ f.src \in Boards
    BY <1>2, <2>1
  <2>3. m \in Seq(1..MaxSend)
    BY <2>1, <2>2 DEF TypeOK
  <2>4. m[Len(m)] \in 1..MaxSend
    <3>1. Len(m) \in Nat /\ Len(m) # 0
      BY <2>1, <2>3, EmptySeq
    <3>2. PICK u \in Seq(1..MaxSend), k \in Nat : u = m /\ k = Len(m)
      BY <2>3, <3>1
    <3>3. k \in 1..Len(u)
      BY <3>1, <3>2
    <3>4. u[k] \in 1..MaxSend
      BY <3>3, ElementOfSeq
    <3>5. QED
      BY <3>2, <3>4
  <2>5. QED
    <3>1. PICK x \in 1..MaxSend, y \in 1..MaxSend, h \in Nat :
            x = f.id /\ y = m[Len(m)] /\ h = SEQ \div 2
      BY <1>1, <2>2, <2>4
    <3>2. x - y < SEQ - JUMP
      BY <1>1, <3>1
    <3>3. QED
      BY <3>1, <3>2
<1>4. InTouch
  <2>1. SUFFICES ASSUME NEW b \in Boards, NEW p \in Port, wire[b][p] # <<>>,
                        NEW f, f = Head(wire[b][p])
                 PROVE  f.id - last[b][f.src] < SEQ \div 2
    BY Zenon DEF InTouch
  <2>2. f.id \in 1..MaxSend /\ f.src \in Boards
    BY <1>2, <2>1
  <2>3. last[b][f.src] \in 0..MaxSend
    BY <2>2 DEF TypeOK
  <2>4. QED
    BY <1>1, <2>2, <2>3
<1>5. QED
  BY <1>3, <1>4

\* Before the counter has made half a turn neither proviso is needed: a board
\* is deaf for at most JUMP + 1 frames, and every frame arrives.
COROLLARY FirstHalfTurn ==
  MaxSend < SEQ \div 2 /\ LongEnough => (Spec => [](DeafnessBounded /\ EveryFrameArrives))
<1> SUFFICES ASSUME MaxSend < SEQ \div 2, LongEnough
             PROVE  Spec => [](DeafnessBounded /\ EveryFrameArrives)
  OBVIOUS
<1>1. IInv => NoLap /\ InTouch
  BY WithinHalfATurn DEF IInv
<1>2. Spec /\ []InTouch => []EveryFrameArrives
  BY FramesArrive
<1>3. QED
  BY <1>1, <1>2, IInvHolds, DeafnessIsBounded, PTL

=============================================================================
