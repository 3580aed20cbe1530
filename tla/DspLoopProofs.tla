---------------------------- MODULE DspLoopProofs -----------------------------
(***************************************************************************)
(* Theorems about the DSP loop, for any phones, packet and window lengths, *)
(* buffer and queue capacities, gaps in what arrives, and bounds.          *)
(*                                                                         *)
(* A phone's audio is one line: what its queue has delivered, and behind   *)
(* it the packets that wait.  The line is in order, and the buffer is its  *)
(* delivered part without a beginning.  A packet that arrives is put at    *)
(* the far end, an eviction or a lost connection takes packets out before  *)
(* they are delivered, a pop moves the boundary by one packet, and the cap *)
(* and a window only cut off a beginning.                                  *)
(***************************************************************************)
EXTENDS DspLoop, TLAPS, SequenceTheorems, FiniteSetTheorems, WellFoundedInduction

-----------------------------------------------------------------------------
(* Sequences of numbers in which 0 stands for silence or a heartbeat. *)

\* s is the end of t.
Suffix(s, t) ==
  /\ Len(s) <= Len(t)
  /\ \A i \in 1..Len(s) : s[i] = t[Len(t) - Len(s) + i]

Upto(s, e) == \A i \in 1..Len(s) : s[i] <= e

\* Every sample of d is older than the first of any frame in q.
Behind(d, q) ==
  \A i \in 1..Len(d), k \in 1..Len(q) : q[k] # 0 => d[i] <= (q[k] - 1) * FrameLen

LEMMA SuffixFacts ==
  ASSUME NEW s \in Seq(Nat), NEW m \in 0..Len(s)
  PROVE  LET t == SubSeq(s, m + 1, Len(s))
         IN  /\ t \in Seq(Nat) /\ Len(t) = Len(s) - m
             /\ \A i \in 1..(Len(s) - m) : t[i] = s[m + i]
             /\ Suffix(t, s)
<1> DEFINE t == SubSeq(s, m + 1, Len(s))
           n == Len(s)
<1>1. t \in Seq(Nat) /\ Len(t) = n - m /\ n \in Nat /\ m \in Nat
      /\ \A i \in 1..(n - m) : t[i] = s[m + i]
  OBVIOUS
<1> HIDE DEF t, n
<1>2. n - (n - m) = m /\ n - m <= n
  BY <1>1
<1>3. Suffix(t, s)
  BY <1>1, <1>2 DEF Suffix, n
<1> QED BY <1>1, <1>3 DEF t, n

LEMMA TailFacts ==
  ASSUME NEW s \in Seq(Nat), s # <<>>
  PROVE  /\ Len(s) - 1 \in Nat /\ Len(s) = (Len(s) - 1) + 1
         /\ SubSeq(s, 2, Len(s)) \in Seq(Nat) /\ Len(SubSeq(s, 2, Len(s))) = Len(s) - 1
         /\ \A i \in 1..(Len(s) - 1) : SubSeq(s, 2, Len(s))[i] = s[i + 1]
         /\ \A i \in 1..Len(s) : s[i] \in Nat
         /\ Tail(s) = SubSeq(s, 2, Len(s)) /\ Suffix(Tail(s), s)
<1>1. Len(s) \in Nat /\ Len(s) > 0 /\ \A i \in 1..Len(s) : s[i] \in Nat
  BY EmptySeq
<1>2. Len(s) - 1 \in Nat /\ Len(s) = (Len(s) - 1) + 1
  BY <1>1
<1>3. SubSeq(s, 2, Len(s)) = Tail(s)
  OBVIOUS
<1>4. /\ Tail(s) \in Seq(Nat) /\ Len(Tail(s)) = Len(s) - 1
      /\ \A i \in 1..Len(Tail(s)) : Tail(s)[i] = s[i + 1]
  BY HeadTailProperties
<1>5. Suffix(Tail(s), s)
  <2>1. 1 \in 0..Len(s) /\ 1 + 1 = 2
    BY <1>1
  <2>2. Suffix(SubSeq(s, 2, Len(s)), s)
    BY <2>1, SuffixFacts
  <2> QED BY <2>2, <1>3
<1> QED BY <1>1, <1>2, <1>3, <1>4, <1>5

LEMMA SuffixIndex ==
  ASSUME NEW s \in Seq(Nat), NEW t \in Seq(Nat), Suffix(s, t)
  PROVE  /\ Len(s) \in Nat /\ Len(t) \in Nat /\ Len(t) - Len(s) \in Nat
         /\ \A i \in 1..Len(s) : /\ (Len(t) - Len(s)) + i \in 1..Len(t)
                                 /\ s[i] = t[(Len(t) - Len(s)) + i]
<1>1. Len(s) \in Nat /\ Len(t) \in Nat /\ Len(s) <= Len(t)
  BY DEF Suffix
<1>2. Len(t) - Len(s) \in Nat /\ \A i \in 1..Len(s) : (Len(t) - Len(s)) + i \in 1..Len(t)
  BY <1>1
<1>3. \A i \in 1..Len(s) : s[i] = t[(Len(t) - Len(s)) + i]
  BY DEF Suffix
<1> QED BY <1>1, <1>2, <1>3

LEMMA SuffixOfSuffix ==
  ASSUME NEW s \in Seq(Nat), NEW t \in Seq(Nat), NEW u \in Seq(Nat), Suffix(s, t), Suffix(t, u)
  PROVE  Suffix(s, u)
<1> DEFINE l == Len(s)
           m == Len(t)
           n == Len(u)
<1>1. /\ l \in Nat /\ m \in Nat /\ m - l \in Nat
      /\ \A i \in 1..l : (m - l) + i \in 1..m /\ s[i] = t[(m - l) + i]
  BY SuffixIndex
<1>2. n \in Nat /\ n - m \in Nat /\ \A i \in 1..m : t[i] = u[(n - m) + i]
  BY SuffixIndex
<1> HIDE DEF l, m, n
<1>3. l <= n /\ \A i \in 1..l : (n - m) + ((m - l) + i) = (n - l) + i
  BY <1>1, <1>2
<1>4. \A i \in 1..l : s[i] = u[(n - l) + i]
  BY <1>1, <1>2, <1>3
<1> QED BY <1>3, <1>4 DEF Suffix, l, n

LEMMA SuffixJoined ==
  ASSUME NEW s \in Seq(Nat), NEW t \in Seq(Nat), NEW u \in Seq(Nat), Suffix(s, t)
  PROVE  Suffix(s \o u, t \o u)
<1> DEFINE l == Len(s)
           m == Len(t)
           n == Len(u)
           x == s \o u
           y == t \o u
<1>1. /\ l \in Nat /\ m \in Nat /\ m - l \in Nat
      /\ \A i \in 1..l : (m - l) + i \in 1..m /\ s[i] = t[(m - l) + i]
  BY SuffixIndex
<1>2. n \in Nat /\ Len(x) = l + n /\ Len(y) = m + n
      /\ (\A i \in 1..l : x[i] = s[i]) /\ (\A i \in (l + 1)..(l + n) : x[i] = u[i - l])
      /\ (\A i \in 1..m : y[i] = t[i]) /\ (\A i \in (m + 1)..(m + n) : y[i] = u[i - m])
  OBVIOUS
<1> HIDE DEF l, m, n, x, y
<1>3. (m + n) - (l + n) = m - l /\ l + n <= m + n
  BY <1>1, <1>2
<1>4. ASSUME NEW i \in 1..(l + n)
      PROVE  x[i] = y[(m - l) + i]
  <2>1. CASE i \in 1..l
    BY <2>1, <1>1, <1>2
  <2>2. CASE i \in (l + 1)..(l + n)
    <3>1. (m - l) + i \in (m + 1)..(m + n) /\ ((m - l) + i) - m = i - l
      BY <2>2, <1>1, <1>2
    <3> QED BY <2>2, <3>1, <1>2
  <2> QED BY <2>1, <2>2, <1>1, <1>2
<1> QED BY <1>2, <1>3, <1>4 DEF Suffix, x, y

LEMMA AscendingSuffix ==
  ASSUME NEW s \in Seq(Nat), NEW t \in Seq(Nat), Suffix(s, t), Ascending(t)
  PROVE  Ascending(s)
<1> DEFINE l == Len(s)
           k == Len(t) - l
<1>1. l \in Nat /\ k \in Nat /\ \A i \in 1..l : k + i \in 1..Len(t) /\ s[i] = t[k + i]
  BY SuffixIndex
<1>2. \A i, j \in 1..Len(t) : i < j /\ t[i] # 0 /\ t[j] # 0 => t[i] < t[j]
  BY DEF Ascending, Silence
<1> HIDE DEF l, k
<1>3. \A i, j \in 1..l : i < j => k + i < k + j
  BY <1>1
<1> QED BY <1>1, <1>2, <1>3 DEF Ascending, Silence, l

LEMMA AscendingJoined ==
  ASSUME NEW s \in Seq(Nat), NEW t \in Seq(Nat), Ascending(s), Ascending(t),
         \A i \in 1..Len(s), j \in 1..Len(t) : t[j] # 0 => s[i] < t[j]
  PROVE  Ascending(s \o t)
<1> DEFINE m == Len(s)
           n == Len(t)
           u == s \o t
<1>1. m \in Nat /\ n \in Nat /\ Len(u) = m + n
      /\ (\A i \in 1..m : u[i] = s[i]) /\ (\A i \in (m + 1)..(m + n) : u[i] = t[i - m])
  OBVIOUS
<1>2. /\ \A i, j \in 1..m : i < j /\ s[i] # 0 /\ s[j] # 0 => s[i] < s[j]
      /\ \A i, j \in 1..n : i < j /\ t[i] # 0 /\ t[j] # 0 => t[i] < t[j]
      /\ \A i \in 1..m, j \in 1..n : t[j] # 0 => s[i] < t[j]
  BY DEF Ascending, Silence
<1> HIDE DEF m, n, u
<1>3. ASSUME NEW i \in 1..(m + n), NEW j \in 1..(m + n), i < j, u[i] # 0, u[j] # 0
      PROVE  u[i] < u[j]
  <2>1. CASE j \in 1..m
    <3>1. i \in 1..m
      BY <2>1, <1>1, <1>3
    <3> QED BY <2>1, <3>1, <1>1, <1>2, <1>3
  <2>2. CASE i \in 1..m /\ j \in (m + 1)..(m + n)
    <3>1. j - m \in 1..n
      BY <2>2, <1>1
    <3> QED BY <2>2, <3>1, <1>1, <1>2, <1>3
  <2>3. CASE i \in (m + 1)..(m + n) /\ j \in (m + 1)..(m + n)
    <3>1. i - m \in 1..n /\ j - m \in 1..n /\ i - m < j - m
      BY <2>3, <1>1, <1>3
    <3>2. u[i] = t[i - m] /\ u[j] = t[j - m]
      BY <2>3, <1>1
    <3> QED BY <3>1, <3>2, <1>2, <1>3
  <2> QED BY <2>1, <2>2, <2>3, <1>1, <1>3
<1> QED BY <1>1, <1>3 DEF Ascending, Silence, u

\* A queue that loses a beginning stays in order and behind what was delivered.
LEMMA QueueSuffix ==
  ASSUME NEW r \in Seq(Nat), NEW q \in Seq(Nat), NEW d \in Seq(Nat), NEW a \in Nat,
         Suffix(r, q), Ascending(q), Upto(q, a), Behind(d, q)
  PROVE  Ascending(r) /\ Upto(r, a) /\ Behind(d, r)
<1>1. \A i \in 1..Len(r) : \E k \in 1..Len(q) : r[i] = q[k]
  BY SuffixIndex
<1> QED BY <1>1, AscendingSuffix DEF Upto, Behind

-----------------------------------------------------------------------------
(* Packets arrive, wait and are put in the buffer. *)

LEMMA Sizes ==
  /\ FrameLen \in Nat /\ FrameLen > 0 /\ HeartbeatLen \in Nat
  /\ BufferCap \in Nat /\ NeedSamples \in Nat /\ NeedSamples > 0 /\ NeedSamples <= BufferCap
  /\ \A n \in Nat : /\ n * FrameLen \in Nat
                    /\ (n + 1) * FrameLen = n * FrameLen + FrameLen
                    /\ n * NeedSamples \in Nat
                    /\ (n + 1) * NeedSamples = n * NeedSamples + NeedSamples
<1>1. /\ FrameLen \in Nat /\ FrameLen > 0 /\ HeartbeatLen \in Nat
      /\ WindowFrames \in Nat /\ WindowFrames > 0 /\ BufferCap \in Nat
  BY DspAssumption
<1>2. NeedSamples \in Nat /\ NeedSamples > 0
  BY <1>1 DEF NeedSamples
<1>3. ASSUME NEW n \in Nat, NEW l \in Nat
      PROVE  n * l \in Nat /\ (n + 1) * l = n * l + l
  OBVIOUS
<1> QED BY <1>1, <1>2, <1>3, DspAssumption

LEMMA Products ==
  ASSUME NEW a \in Nat, NEW b \in Nat, a <= b
  PROVE  a * FrameLen \in Nat /\ b * FrameLen \in Nat /\ a * FrameLen <= b * FrameLen
<1>1. PICK k \in Nat : b = a + k
  <2>1. b - a \in Nat /\ b = a + (b - a)
    OBVIOUS
  <2> QED BY <2>1
<1>2. FrameLen \in Nat
  BY Sizes
<1>3. a * FrameLen \in Nat /\ k * FrameLen \in Nat /\ (a + k) * FrameLen = a * FrameLen + k * FrameLen
  BY <1>2
<1> QED BY <1>1, <1>3

LEMMA PacketSamples ==
  ASSUME NEW packet \in Nat
  PROVE  /\ SamplesOf(packet) \in Seq(Nat)
         /\ packet = 0 => \A i \in 1..Len(SamplesOf(packet)) : SamplesOf(packet)[i] = 0
         /\ packet # 0 => /\ Len(SamplesOf(packet)) = FrameLen
                          /\ \A i \in 1..FrameLen :
                               SamplesOf(packet)[i] = (packet - 1) * FrameLen + i
<1>1. CASE packet = 0
  BY <1>1, Sizes DEF SamplesOf, Silence, Heartbeat
<1>2. CASE packet # 0
  <2>1. packet - 1 \in Nat
    BY <1>2
  <2>2. \A i \in 1..FrameLen : (packet - 1) * FrameLen + i \in Nat
    BY <2>1, Sizes
  <2> QED BY <2>2, <1>2, Sizes DEF SamplesOf, Heartbeat
<1> QED BY <1>1, <1>2

\* The line of a phone: its buffer b, the packets q that wait, what has been
\* delivered, d, and the newest frame that arrived, a.
Line(b, q, d, a) ==
  /\ Ascending(d) /\ Ascending(q)
  /\ Upto(d, a * FrameLen) /\ Upto(q, a) /\ Behind(d, q)
  /\ Len(b) <= BufferCap /\ Suffix(b, d)

\* A packet is put at the end of the line, and the oldest that waits may go.
LEMMA QueuedKeeps ==
  ASSUME NEW b \in Seq(Nat), NEW q \in Seq(Nat), NEW d \in Seq(Nat), NEW a \in Nat,
         NEW x \in Nat, NEW c \in Nat, Line(b, q, d, a),
         (x = 0 /\ c = a) \/ (x = c /\ a < c)
  PROVE  Queued(q, x) \in Seq(Nat) /\ Line(b, Queued(q, x), d, c)
<1> DEFINE r == IF Len(q) = QueueCap THEN Tail(q) ELSE q
           n == Len(r)
           u == Append(r, x)
<1>1. r \in Seq(Nat) /\ Suffix(r, q)
  <2>1. CASE Len(q) = QueueCap
    <3>1. q # <<>>
      BY <2>1, DspAssumption
    <3>2. Tail(q) \in Seq(Nat) /\ Suffix(Tail(q), q)
      BY <3>1, TailFacts
    <3> QED BY <2>1, <3>2
  <2>2. CASE Len(q) # QueueCap
    <3>1. Suffix(q, q)
      BY DEF Suffix
    <3> QED BY <2>2, <3>1
  <2> QED BY <2>1, <2>2
<1>2. Ascending(r) /\ Upto(r, a) /\ Behind(d, r)
  BY <1>1, QueueSuffix DEF Line
<1>3. Queued(q, x) = u
  BY DEF Queued
<1> HIDE DEF r
<1>4. n \in Nat /\ u \in Seq(Nat) /\ Len(u) = n + 1 /\ u[n + 1] = x
      /\ \A i \in 1..n : u[i] = r[i] /\ r[i] \in Nat
  BY <1>1
<1>5. a <= c /\ a * FrameLen \in Nat /\ c * FrameLen \in Nat /\ a * FrameLen <= c * FrameLen
  <2>1. a <= c
    OBVIOUS
  <2> QED BY <2>1, Products
<1> HIDE DEF n, u
<1>6. \A i \in 1..(n + 1) : i \in 1..n \/ i = n + 1
  BY <1>4
<1>7. \A i \in 1..n : u[i] \in Nat /\ u[i] <= a
  BY <1>2, <1>4 DEF Upto, n
<1>8. Upto(u, c)
  <2>1. \A i \in 1..n : u[i] <= c
    BY <1>5, <1>7
  <2>2. x <= c
    OBVIOUS
  <2> QED BY <2>1, <2>2, <1>4, <1>6 DEF Upto
<1>9. Ascending(u)
  <2> SUFFICES ASSUME NEW i \in 1..(n + 1), NEW j \in 1..(n + 1), i < j, u[i] # 0, u[j] # 0
               PROVE  u[i] < u[j]
    BY <1>4 DEF Ascending, Silence
  <2>1. i \in 1..n
    BY <1>4
  <2>2. CASE j \in 1..n
    BY <2>1, <2>2, <1>2, <1>4 DEF Ascending, Silence, n
  <2>3. CASE j = n + 1
    <3>1. x = c /\ a < c
      BY <2>3, <1>4
    <3> QED BY <2>1, <2>3, <3>1, <1>4, <1>7
  <2> QED BY <2>2, <2>3, <1>6
<1>10. \A i \in 1..Len(d) : d[i] \in Nat /\ d[i] <= a * FrameLen
  BY DEF Line, Upto
<1>11. Behind(d, u)
  <2> SUFFICES ASSUME NEW i \in 1..Len(d), NEW k \in 1..(n + 1), u[k] # 0
               PROVE  d[i] <= (u[k] - 1) * FrameLen
    BY <1>4 DEF Behind
  <2>1. CASE k \in 1..n
    BY <2>1, <1>2, <1>4 DEF Behind, n
  <2>2. CASE k = n + 1
    <3>1. u[k] = c /\ a <= c - 1 /\ c - 1 \in Nat
      BY <2>2, <1>4
    <3>2. a * FrameLen <= (c - 1) * FrameLen /\ (c - 1) * FrameLen \in Nat
      BY <3>1, Products
    <3> DEFINE y == a * FrameLen
               z == (c - 1) * FrameLen
    <3>3. d[i] \in Nat /\ d[i] <= y /\ y \in Nat /\ z \in Nat /\ y <= z
      BY <3>2, <1>5, <1>10
    <3> HIDE DEF y, z
    <3>4. d[i] <= z
      BY <3>3
    <3> QED BY <3>1, <3>4 DEF z
  <2> QED BY <2>1, <2>2, <1>6
<1>12. Upto(d, c * FrameLen)
  <2> DEFINE y == a * FrameLen
             z == c * FrameLen
  <2>1. y \in Nat /\ z \in Nat /\ y <= z /\ \A i \in 1..Len(d) : d[i] \in Nat /\ d[i] <= y
    BY <1>5, <1>10
  <2> HIDE DEF y, z
  <2>2. \A i \in 1..Len(d) : d[i] <= z
    BY <2>1
  <2> QED BY <2>2 DEF Upto, z
<1> QED BY <1>3, <1>4, <1>8, <1>9, <1>11, <1>12 DEF Line

LEMMA BufferTakes ==
  ASSUME NEW b \in Seq(Nat), NEW t \in Seq(Nat)
  PROVE  /\ BufferPcm(b, t) \in Seq(Nat) /\ Suffix(BufferPcm(b, t), b \o t)
         /\ Len(BufferPcm(b, t)) <= BufferCap
         /\ Len(BufferPcm(b, t)) <= Len(b) + Len(t)
<1> DEFINE all == b \o t
           n == Len(all)
<1>1. all \in Seq(Nat) /\ n \in Nat /\ n = Len(b) + Len(t)
  OBVIOUS
<1>2. BufferPcm(b, t) = IF n > BufferCap THEN SubSeq(all, n - BufferCap + 1, n) ELSE all
  BY DEF BufferPcm, Newest
<1> HIDE DEF all
<1>3. CASE n > BufferCap
  <2>1. n - BufferCap \in 0..n
    BY <1>1, <1>3, Sizes
  <2>2. /\ SubSeq(all, n - BufferCap + 1, n) \in Seq(Nat)
        /\ Len(SubSeq(all, n - BufferCap + 1, n)) = n - (n - BufferCap)
        /\ Suffix(SubSeq(all, n - BufferCap + 1, n), all)
    BY <2>1, <1>1, SuffixFacts
  <2> QED BY <2>2, <1>1, <1>2, <1>3, Sizes DEF all
<1>4. CASE ~(n > BufferCap)
  <2>1. Suffix(all, all)
    BY DEF Suffix
  <2> QED BY <2>1, <1>1, <1>2, <1>4, Sizes DEF all
<1> QED BY <1>3, <1>4

\* The oldest packet that waits moves from the queue to the buffer.
LEMMA PopOne ==
  ASSUME NEW b \in Seq(Nat), NEW q \in Seq(Nat), q # <<>>, NEW d \in Seq(Nat), NEW a \in Nat,
         Line(b, q, d, a)
  PROVE  LET s == SamplesOf(q[1])
             x == BufferPcm(b, s)
             y == d \o s
         IN  /\ x \in Seq(Nat) /\ y \in Seq(Nat)
             /\ Line(x, SubSeq(q, 2, Len(q)), y, a)
             /\ Len(x) - Len(b) <= Len(y) - Len(d)
<1> DEFINE r == SubSeq(q, 2, Len(q))
           k == q[1]
           s == SamplesOf(k)
           x == BufferPcm(b, s)
           y == d \o s
           m == Len(d)
           n == Len(s)
<1>1. /\ r \in Seq(Nat) /\ Suffix(r, q) /\ k \in Nat /\ Len(q) - 1 \in Nat
      /\ Len(r) = Len(q) - 1 /\ \A i \in 1..(Len(q) - 1) : r[i] = q[i + 1] /\ i + 1 \in 1..Len(q)
  <2>1. Len(q) - 1 \in Nat /\ 1 \in 1..Len(q) /\ \A i \in 1..(Len(q) - 1) : i + 1 \in 1..Len(q)
    BY TailFacts
  <2> QED BY <2>1, TailFacts
<1>0. q[1] = k /\ 1 \in 1..Len(q)
  BY <1>1
<1> HIDE DEF k
<1>2. Ascending(r) /\ Upto(r, a) /\ Behind(d, r)
  BY <1>1, QueueSuffix DEF Line
<1>3. /\ s \in Seq(Nat)
      /\ k = 0 => \A i \in 1..n : s[i] = 0
      /\ k # 0 => n = FrameLen /\ \A i \in 1..n : s[i] = (k - 1) * FrameLen + i
  BY <1>1, PacketSamples
<1>4. k # 0 => \A i \in 1..m : d[i] \in Nat /\ d[i] <= (k - 1) * FrameLen
  BY <1>0 DEF Line, Behind
<1>5. k # 0 => /\ (k - 1) * FrameLen \in Nat /\ k * FrameLen = (k - 1) * FrameLen + FrameLen
               /\ k <= a
  <2>1. ASSUME k # 0
        PROVE  (k - 1) * FrameLen \in Nat /\ ((k - 1) + 1) * FrameLen = (k - 1) * FrameLen + FrameLen
               /\ (k - 1) + 1 = k
    <3>1. k - 1 \in Nat /\ (k - 1) + 1 = k
      BY <1>1, <2>1
    <3>2. \A l \in Nat : l * FrameLen \in Nat /\ (l + 1) * FrameLen = l * FrameLen + FrameLen
      BY Sizes
    <3> QED BY <3>1, <3>2
  <2>2. k <= a
    BY <1>0 DEF Line, Upto
  <2> QED BY <2>1, <2>2
<1> HIDE DEF s
<1>6. m \in Nat /\ n \in Nat /\ y \in Seq(Nat) /\ Len(y) = m + n
      /\ (\A i \in 1..m : y[i] = d[i]) /\ (\A i \in (m + 1)..(m + n) : y[i] = s[i - m])
      /\ \A i \in 1..(m + n) : i \in 1..m \/ (i \in (m + 1)..(m + n) /\ i - m \in 1..n)
  BY <1>3
<1>7. /\ x \in Seq(Nat) /\ Suffix(x, b \o s) /\ Len(x) <= BufferCap /\ Len(x) <= Len(b) + n
      /\ b \o s \in Seq(Nat) /\ Len(x) \in Nat
  BY <1>3, BufferTakes
<1>8. Suffix(x, y)
  <2>1. Suffix(b \o s, y)
    BY <1>3, SuffixJoined DEF Line
  <2> HIDE DEF x, y
  <2> QED BY <2>1, <1>6, <1>7, SuffixOfSuffix
<1>9. Ascending(y)
  <2> DEFINE z == (k - 1) * FrameLen
  <2>1. Ascending(s)
    <3>1. CASE k = 0
      BY <3>1, <1>3 DEF Ascending, Silence
    <3>2. CASE k # 0
      <4>1. z \in Nat /\ \A i \in 1..n : s[i] = z + i
        BY <3>2, <1>3, <1>5
      <4> HIDE DEF z
      <4>2. \A i, j \in 1..n : i < j => s[i] < s[j]
        BY <4>1, <1>6
      <4> QED BY <4>2 DEF Ascending, n
    <3> QED BY <3>1, <3>2
  <2>2. ASSUME NEW i \in 1..m, NEW j \in 1..n, s[j] # 0
        PROVE  d[i] < s[j]
    <3>1. k # 0
      BY <2>2, <1>3
    <3>2. z \in Nat /\ d[i] \in Nat /\ d[i] <= z /\ s[j] = z + j
      BY <3>1, <1>3, <1>4, <1>5
    <3>3. j \in Nat /\ j > 0
      BY <1>6
    <3> HIDE DEF z
    <3> QED BY <3>2, <3>3
  <2> QED BY <2>1, <2>2, <1>3, AscendingJoined DEF Line
<1>10. ASSUME NEW i \in 1..n
       PROVE  s[i] \in Nat /\ s[i] <= k * FrameLen /\ k * FrameLen \in Nat
  <2>1. CASE k = 0
    <3>1. k * FrameLen \in Nat
      BY <1>1, Sizes
    <3> QED BY <2>1, <3>1, <1>3
  <2>2. CASE k # 0
    <3> DEFINE z == (k - 1) * FrameLen
               w == k * FrameLen
    <3>1. z \in Nat /\ w = z + FrameLen /\ s[i] = z + i /\ i <= FrameLen /\ FrameLen \in Nat
      BY <2>2, <1>3, <1>5, <1>6, Sizes
    <3> HIDE DEF z, w
    <3>2. s[i] \in Nat /\ s[i] <= w /\ w \in Nat
      BY <3>1, <1>6
    <3> QED BY <3>2 DEF w
  <2> QED BY <2>1, <2>2
<1>11. Upto(y, a * FrameLen)
  <2>1. \A i \in 1..m : d[i] <= a * FrameLen
    BY DEF Line, Upto
  <2>2. ASSUME NEW i \in 1..n
        PROVE  s[i] <= a * FrameLen
    <3>1. k <= a
      BY <1>1, <1>5
    <3> DEFINE z == k * FrameLen
               w == a * FrameLen
    <3>2. z \in Nat /\ w \in Nat /\ z <= w /\ s[i] \in Nat /\ s[i] <= z
      BY <3>1, <1>1, <1>10, Products
    <3> HIDE DEF z, w
    <3>3. s[i] <= w
      BY <3>2
    <3> QED BY <3>3 DEF w
  <2> HIDE DEF y, m, n
  <2> QED BY <2>1, <2>2, <1>6 DEF Upto
<1>12. Behind(y, r)
  <2> SUFFICES ASSUME NEW i \in 1..Len(y), NEW j \in 1..Len(r), r[j] # 0
               PROVE  y[i] <= (r[j] - 1) * FrameLen
    BY DEF Behind
  <2>1. CASE i \in 1..m
    BY <2>1, <1>2, <1>6 DEF Behind, m
  <2>2. CASE i - m \in 1..n /\ y[i] = s[i - m]
    <3>1. CASE k = 0
      <4>1. s[i - m] = 0
        BY <2>2, <3>1, <1>3
      <4>2. r[j] \in Nat /\ r[j] - 1 \in Nat
        BY <1>1
      <4>3. (r[j] - 1) * FrameLen \in Nat
        BY <4>2, Sizes
      <4> QED BY <2>2, <4>1, <4>3
    <3>2. CASE k # 0
      <4>1. /\ j \in 1..(Len(q) - 1) /\ r[j] = q[j + 1] /\ j + 1 \in 1..Len(q)
            /\ 1 \in 1..Len(q) /\ 1 < j + 1
        BY <1>1
      <4>2. k < r[j] /\ r[j] \in Nat
        BY <3>2, <4>1, <1>0 DEF Line, Ascending, Silence
      <4>3. k <= r[j] - 1 /\ r[j] - 1 \in Nat
        BY <4>2, <1>1
      <4> DEFINE z == k * FrameLen
                 w == (r[j] - 1) * FrameLen
      <4>4. z \in Nat /\ w \in Nat /\ z <= w /\ s[i - m] \in Nat /\ s[i - m] <= z
        BY <2>2, <4>3, <1>1, <1>10, Products
      <4> HIDE DEF z, w
      <4>5. s[i - m] <= w
        BY <4>4
      <4> QED BY <2>2, <4>5 DEF w
    <3> QED BY <3>1, <3>2
  <2> HIDE DEF m, n, y
  <2> QED BY <2>1, <2>2, <1>6
<1>13. Len(x) - Len(b) <= Len(y) - Len(d)
  <2>1. Len(b) \in Nat
    OBVIOUS
  <2> HIDE DEF x, y
  <2> QED BY <2>1, <1>6, <1>7 DEF m
<1>14. Line(x, r, y, a)
  BY <1>2, <1>7, <1>8, <1>9, <1>11, <1>12 DEF Line
<1> QED BY <1>6, <1>7, <1>13, <1>14 DEF s, k

-----------------------------------------------------------------------------
(* Any number of packets are put in the buffer, one by one. *)

LEMMA LeastIn ==
  ASSUME NEW S \in SUBSET Nat, S # {}
  PROVE  \E x \in S : \A y \in S : x <= y
<1>1. PICK x \in S : \A y \in S : <<y, x>> \notin OpToRel(<, Nat)
  BY WFMin, NatLessThanWellFounded
<1>2. \A y \in S : <<y, x>> \in Nat \X Nat /\ x \in Nat /\ y \in Nat
  OBVIOUS
<1>3. \A y \in S : ~(y < x)
  BY <1>1, <1>2 DEF OpToRel
<1> QED BY <1>2, <1>3

\* The buffer after every packet up to the n-th, as Poured computes them.
Poured1(x, s) == [buffer |-> BufferPcm(x.buffer, s), all |-> x.all \o s]

LEMMA PouredParts ==
  ASSUME NEW x, NEW s
  PROVE  Poured1(x, s).buffer = BufferPcm(x.buffer, s) /\ Poured1(x, s).all = x.all \o s
<1> DEFINE u == BufferPcm(x.buffer, s)
           v == x.all \o s
<1>1. Poured1(x, s) = [buffer |-> u, all |-> v]
  BY DEF Poured1
<1> HIDE DEF u, v
<1>2. Poured1(x, s).buffer = u /\ Poured1(x, s).all = v
  BY <1>1
<1> QED BY <1>2 DEF u, v

Steps(f, b, d, q, n) ==
  f = [i \in 0..n |-> IF i = 0 THEN [buffer |-> b, all |-> d] ELSE Poured1(f[i - 1], SamplesOf(q[i]))]

LEMMA StepsExist ==
  ASSUME NEW b, NEW d, NEW q, NEW n \in Nat
  PROVE  \E f : Steps(f, b, d, q, n)
<1> SUFFICES ASSUME ~\E f : Steps(f, b, d, q, n)
             PROVE  FALSE
  OBVIOUS
<1> DEFINE S == {i \in Nat : ~\E f : Steps(f, b, d, q, i)}
<1>1. n \in S /\ S \in SUBSET Nat
  OBVIOUS
<1> HIDE DEF S
<1>2. PICK m \in S : \A i \in S : m <= i
  BY <1>1, LeastIn
<1>3. m \in Nat /\ ~\E f : Steps(f, b, d, q, m)
  BY DEF S
<1>4. m # 0
  <2> DEFINE g == [i \in 0..0 |-> [buffer |-> b, all |-> d]]
  <2>1. g = [i \in 0..0 |-> IF i = 0 THEN [buffer |-> b, all |-> d]
                            ELSE Poured1(g[i - 1], SamplesOf(q[i]))]
    OBVIOUS
  <2> HIDE DEF g
  <2>2. Steps(g, b, d, q, 0)
    BY <2>1 DEF Steps
  <2> QED BY <2>2, <1>3
<1>5. m - 1 \in Nat /\ m - 1 \notin S
  BY <1>2, <1>3, <1>4
<1>6. PICK f : Steps(f, b, d, q, m - 1)
  BY <1>5 DEF S
<1> DEFINE F(x, i) == IF i = 0 THEN [buffer |-> b, all |-> d] ELSE Poured1(x, SamplesOf(q[i]))
           g == [i \in 0..m |-> IF i = m THEN F(f[m - 1], m) ELSE f[i]]
<1>7. \A i \in 0..(m - 1) : f[i] = F(f[i - 1], i)
  BY <1>6 DEF Steps
<1>8. \A i \in 0..m : g[i] = F(g[i - 1], i)
  <2> HIDE DEF F
  <2>1. \A x, y : F(x, 0) = F(y, 0)
    BY DEF F
  <2>2. CASE m = 0
    BY <2>2, <1>4
  <2>3. ASSUME NEW i \in 0..m
        PROVE  g[i] = F(g[i - 1], i)
    <3>1. CASE i = m
      <4>1. m - 1 \in 0..m /\ m - 1 # m /\ m \in 0..m
        BY <1>3, <1>5
      <4>2. g[m] = F(f[m - 1], m) /\ g[m - 1] = f[m - 1]
        BY <4>1
      <4> QED BY <4>2, <3>1
    <3>2. CASE i # m /\ i # 0
      <4>1. i \in 0..(m - 1) /\ i - 1 \in 0..m /\ i - 1 # m
        BY <3>2, <1>3, <1>5
      <4>2. g[i] = f[i] /\ g[i - 1] = f[i - 1]
        BY <4>1, <3>2
      <4> QED BY <4>1, <4>2, <1>7
    <3>3. CASE i = 0
      <4>1. 0 \in 0..(m - 1) /\ 0 \in 0..m
        BY <1>3, <1>5
      <4>2. g[0] = f[0] /\ f[0] = F(f[0 - 1], 0)
        BY <4>1, <1>4, <1>7
      <4> QED BY <4>2, <3>3, <2>1
    <3> QED BY <3>1, <3>2, <3>3
  <2> QED BY <2>3
<1>9. g = [i \in 0..m |-> g[i]]
  OBVIOUS
<1> HIDE DEF g
<1>10. g = [i \in 0..m |-> F(g[i - 1], i)]
  BY <1>8, <1>9
<1>11. Steps(g, b, d, q, m)
  BY <1>10 DEF Steps
<1> QED BY <1>11, <1>3

LEMMA PouredSteps ==
  ASSUME NEW b, NEW d, NEW q, NEW n \in Nat
  PROVE  \E f : Steps(f, b, d, q, n) /\ Poured(b, d, q, n) = f[n]
<1> DEFINE g == CHOOSE f : f = [i \in 0..n |->
                  IF i = 0 THEN [buffer |-> b, all |-> d]
                  ELSE Poured1(f[i - 1], SamplesOf(q[i]))]
<1>1. Steps(g, b, d, q, n)
  <2>1. \E f : Steps(f, b, d, q, n)
    BY StepsExist
  <2> QED BY <2>1, Zenon DEF Steps
<1>2. Poured(b, d, q, n) = g[n]
  BY DEF Poured, Poured1
<1> QED BY <1>1, <1>2

LEMMA SuffixNext ==
  ASSUME NEW q \in Seq(Nat), NEW i \in 1..Len(q)
  PROVE  LET r == SubSeq(q, i, Len(q))
         IN  /\ r \in Seq(Nat) /\ r # <<>> /\ r[1] = q[i]
             /\ SubSeq(r, 2, Len(r)) = SubSeq(q, i + 1, Len(q))
<1> DEFINE r == SubSeq(q, i, Len(q))
           u == SubSeq(r, 2, Len(r))
           v == SubSeq(q, i + 1, Len(q))
<1>1. Len(q) \in Nat /\ i - 1 \in 0..Len(q) /\ (i - 1) + 1 = i /\ i \in 0..Len(q)
  OBVIOUS
<1>2. r \in Seq(Nat) /\ Len(r) = Len(q) - (i - 1) /\ \A k \in 1..(Len(q) - (i - 1)) : r[k] = q[i - 1 + k]
  BY <1>1, SuffixFacts
<1>3. v \in Seq(Nat) /\ Len(v) = Len(q) - i /\ \A k \in 1..(Len(q) - i) : v[k] = q[i + k]
  BY <1>1, SuffixFacts
<1> HIDE DEF r, v
<1>4. Len(r) \in Nat /\ Len(r) >= 1 /\ 1 \in 1..(Len(q) - (i - 1)) /\ i - 1 + 1 = i
  BY <1>1, <1>2
<1>5. r # <<>> /\ r[1] = q[i]
  BY <1>2, <1>4
<1>6. u \in Seq(Nat) /\ Len(u) = Len(r) - 1 /\ \A k \in 1..(Len(r) - 1) : u[k] = r[k + 1]
  BY <1>2, <1>5, TailFacts
<1> HIDE DEF u
<1>7. Len(u) = Len(v)
  BY <1>1, <1>2, <1>3, <1>6
<1>8. ASSUME NEW k \in 1..Len(u)
      PROVE  u[k] = v[k]
  <2>1. k \in 1..(Len(r) - 1) /\ k \in 1..(Len(q) - i) /\ k + 1 \in 1..(Len(q) - (i - 1))
        /\ i - 1 + (k + 1) = i + k
    BY <1>1, <1>2, <1>6
  <2> QED BY <2>1, <1>2, <1>3, <1>6
<1>9. u = v
  BY <1>3, <1>6, <1>7, <1>8, SeqEqual
<1> QED BY <1>2, <1>5, <1>9 DEF r, u, v

LEMMA PouredKeeps ==
  ASSUME NEW b \in Seq(Nat), NEW d \in Seq(Nat), NEW q \in Seq(Nat), NEW m \in 0..Len(q),
         NEW a \in Nat, Line(b, q, d, a)
  PROVE  LET x == Poured(b, d, q, m)
         IN  /\ x.buffer \in Seq(Nat) /\ x.all \in Seq(Nat)
             /\ Line(x.buffer, SubSeq(q, m + 1, Len(q)), x.all, a)
             /\ Len(x.buffer) - Len(b) <= Len(x.all) - Len(d)
             /\ \A i \in 1..Len(d) : i <= Len(x.all) /\ x.all[i] = d[i]
<1> DEFINE Good(x, r) == /\ x.buffer \in Seq(Nat) /\ x.all \in Seq(Nat)
                         /\ Line(x.buffer, r, x.all, a)
                         /\ Len(x.buffer) - Len(b) <= Len(x.all) - Len(d)
                         /\ \A i \in 1..Len(d) : i <= Len(x.all) /\ x.all[i] = d[i]
<1>1. m \in Nat /\ Len(q) \in Nat /\ m <= Len(q)
  OBVIOUS
<1>2. PICK f : Steps(f, b, d, q, m) /\ Poured(b, d, q, m) = f[m]
  BY <1>1, PouredSteps
<1>3. f[0] = [buffer |-> b, all |-> d] /\ \A i \in 1..m : f[i] = Poured1(f[i - 1], SamplesOf(q[i]))
  BY <1>1, <1>2 DEF Steps
<1> DEFINE S == {i \in 0..m : ~Good(f[i], SubSeq(q, i + 1, Len(q)))}
<1>4. ASSUME S # {}
      PROVE  FALSE
  <2>1. S \in SUBSET Nat
    OBVIOUS
  <2> HIDE DEF S
  <2>2. PICK i \in S : \A j \in S : i <= j
    BY <2>1, <1>4, LeastIn
  <2>3. i \in 0..m /\ ~Good(f[i], SubSeq(q, i + 1, Len(q)))
    BY DEF S
  <2>4. i # 0
    <3>1. SubSeq(q, 0 + 1, Len(q)) = q
      OBVIOUS
    <3>2. \A j \in 1..Len(d) : j <= Len(d)
      OBVIOUS
    <3>3. Len(b) \in Nat /\ Len(d) \in Nat
      OBVIOUS
    <3>4. Good([buffer |-> b, all |-> d], q)
      BY <3>2, <3>3
    <3> HIDE DEF Good
    <3> QED BY <3>1, <3>4, <2>3, <1>3
  <2>5. i \in 1..m /\ i \in 1..Len(q) /\ i - 1 \in 0..m /\ i - 1 < i /\ (i - 1) + 1 = i
    BY <2>3, <2>4, <1>1
  <2>6. i - 1 \notin S
    BY <2>2, <2>5
  <2>7. Good(f[i - 1], SubSeq(q, (i - 1) + 1, Len(q)))
    BY <2>5, <2>6 DEF S
  <2> DEFINE x == f[i - 1].buffer
             y == f[i - 1].all
             r == SubSeq(q, i, Len(q))
             s == SamplesOf(q[i])
  <2>8. /\ x \in Seq(Nat) /\ y \in Seq(Nat) /\ Line(x, r, y, a)
        /\ Len(x) - Len(b) <= Len(y) - Len(d)
        /\ \A j \in 1..Len(d) : j <= Len(y) /\ y[j] = d[j]
    BY <2>5, <2>7
  <2>9. /\ r \in Seq(Nat) /\ r # <<>> /\ r[1] = q[i]
        /\ SubSeq(r, 2, Len(r)) = SubSeq(q, i + 1, Len(q))
    BY <2>5, SuffixNext
  <2>10. f[i].buffer = BufferPcm(x, s) /\ f[i].all = y \o s
    <3>1. f[i] = Poured1(f[i - 1], SamplesOf(q[i]))
      BY <2>5, <1>3
    <3> QED BY <3>1, PouredParts
  <2> HIDE DEF x, y, r
  <2>11. /\ f[i].buffer \in Seq(Nat) /\ f[i].all \in Seq(Nat)
         /\ Line(f[i].buffer, SubSeq(q, i + 1, Len(q)), f[i].all, a)
         /\ Len(f[i].buffer) - Len(x) <= Len(f[i].all) - Len(y)
    <3>1. LET t == SamplesOf(r[1])
          IN  /\ BufferPcm(x, t) \in Seq(Nat) /\ y \o t \in Seq(Nat)
              /\ Line(BufferPcm(x, t), SubSeq(r, 2, Len(r)), y \o t, a)
              /\ Len(BufferPcm(x, t)) - Len(x) <= Len(y \o t) - Len(y)
      BY <2>8, <2>9, PopOne
    <3> QED BY <3>1, <2>9, <2>10
  <2>12. \A j \in 1..Len(d) : j <= Len(f[i].all) /\ f[i].all[j] = d[j]
    <3>1. s \in Seq(Nat)
      <4>1. q[i] \in Nat
        BY <2>5
      <4> QED BY <4>1, PacketSamples
    <3> HIDE DEF s
    <3>2. Len(y) \in Nat /\ Len(y \o s) = Len(y) + Len(s) /\ Len(s) \in Nat
          /\ \A j \in 1..Len(y) : (y \o s)[j] = y[j]
      BY <3>1, <2>8
    <3>3. ASSUME NEW j \in 1..Len(d)
          PROVE  j <= Len(y \o s) /\ (y \o s)[j] = d[j]
      <4>1. j \in 1..Len(y) /\ y[j] = d[j]
        BY <2>8, <3>2
      <4> QED BY <4>1, <3>2
    <3> QED BY <3>3, <2>10
  <2>13. Len(f[i].buffer) - Len(b) <= Len(f[i].all) - Len(d)
    <3> DEFINE u == Len(f[i].buffer)
               v == Len(f[i].all)
    <3>1. u \in Nat /\ v \in Nat /\ Len(x) \in Nat /\ Len(y) \in Nat
          /\ Len(b) \in Nat /\ Len(d) \in Nat
      <4>1. \A t \in Seq(Nat) : Len(t) \in Nat
        OBVIOUS
      <4> QED BY <4>1, <2>8, <2>11
    <3>2. u - Len(x) <= v - Len(y) /\ Len(x) - Len(b) <= Len(y) - Len(d)
      BY <2>8, <2>11
    <3> HIDE DEF u, v
    <3>3. u - Len(b) <= v - Len(d)
      BY <3>1, <3>2
    <3> QED BY <3>3 DEF u, v
  <2>14. Good(f[i], SubSeq(q, i + 1, Len(q)))
    BY <2>11, <2>12, <2>13
  <2> QED BY <2>3, <2>14
<1>5. Good(f[m], SubSeq(q, m + 1, Len(q)))
  <2>1. m \in 0..m
    BY <1>1
  <2> HIDE DEF Good
  <2> QED BY <2>1, <1>4
<1> QED BY <1>2, <1>5
-----------------------------------------------------------------------------
(* The invariant. *)

\* The windows made of a phone's audio.
Taken(p) == {i \in 1..Len(frames) : p \in ToSet(frames[i].phones)}

\* A frame has a channel for each of its phones.
LoopTyped ==
  /\ TypeOK
  /\ \A i \in 1..Len(frames) : Len(frames[i].channels) = Len(frames[i].phones)

Lines == \A p \in Phones : Line(buffers[p], queues[p], delivered[p], arrived[p])

\* The samples delivered pay for the windows and for what is buffered.
Paid ==
  \A p \in Phones :
    Cardinality(Taken(p)) * NeedSamples + Len(buffers[p]) <= Len(delivered[p])

\* A frame is made of samples that have been delivered.
FramesPast ==
  \A i \in 1..Len(frames) : \A m \in 1..Len(frames[i].phones) :
    Audio(frames[i].channels[m]) \subseteq Audio(delivered[frames[i].phones[m]])

InboxesKnown ==
  \A c \in Subscribers :
    /\ seen[c] <= Len(frames)
    /\ subscribed[c] => \A i \in 1..Len(inbox[c]) : inbox[c][i] <= Len(frames)

LoopInv ==
  /\ LoopTyped /\ DroppedIsSilent
  /\ Lines /\ Paid
  /\ FramesPast /\ WindowsAdvance
  /\ InboxesKnown /\ SubscriberInOrder

LEMMA PhoneTypes ==
  ASSUME LoopInv, NEW p \in Phones
  PROVE  /\ buffers[p] \in Seq(Nat) /\ queues[p] \in Seq(Nat) /\ delivered[p] \in Seq(Nat)
         /\ arrived[p] \in Nat /\ arrived[p] <= MaxFrames
         /\ Line(buffers[p], queues[p], delivered[p], arrived[p])
<1>1. /\ buffers[p] \in Seq(Samples) /\ queues[p] \in Seq(Nat)
      /\ delivered[p] \in Seq(Samples) /\ arrived[p] \in 0..MaxFrames
  BY DEF LoopInv, LoopTyped, TypeOK
<1>2. \A s \in Seq(Samples) : s \in Seq(Nat)
  <2>1. \A x \in Samples : x \in Nat
    BY DspAssumption DEF Samples
  <2> QED BY <2>1
<1> QED BY <1>1, <1>2, DspAssumption DEF LoopInv, Lines

\* What is delivered up to what arrived was captured, and so is its end.
LEMMA SamplesWithin ==
  ASSUME NEW s \in Seq(Nat), NEW n \in Nat, n <= MaxFrames, Upto(s, n * FrameLen)
  PROVE  s \in Seq(Samples)
<1>1. n * FrameLen \in Nat /\ MaxFrames * FrameLen \in Nat /\ n * FrameLen <= MaxFrames * FrameLen
  BY Products, DspAssumption
<1>2. \A i \in 1..Len(s) : s[i] \in Nat /\ s[i] <= n * FrameLen
  BY DEF Upto
<1>3. \A i \in 1..Len(s) : s[i] \in Samples
  <2> DEFINE y == n * FrameLen
             z == MaxFrames * FrameLen
  <2>1. y \in Nat /\ z \in Nat /\ y <= z /\ \A i \in 1..Len(s) : s[i] \in Nat /\ s[i] <= y
    BY <1>1, <1>2
  <2> HIDE DEF y, z
  <2>2. \A i \in 1..Len(s) : s[i] \in 0..z
    BY <2>1
  <2> QED BY <2>2 DEF Samples, z
<1>4. Len(s) \in Nat /\ s \in [1..Len(s) -> Nat]
  OBVIOUS
<1>5. s \in [1..Len(s) -> Samples]
  BY <1>3, <1>4
<1> QED BY <1>4, <1>5, SeqDef

LEMMA SuffixUpto ==
  ASSUME NEW s \in Seq(Nat), NEW t \in Seq(Nat), NEW e, Suffix(s, t), Upto(t, e)
  PROVE  Upto(s, e)
<1>1. \A i \in 1..Len(s) : \E k \in 1..Len(t) : s[i] = t[k]
  BY SuffixIndex
<1> QED BY <1>1 DEF Upto

-----------------------------------------------------------------------------
(* Every action preserves it. *)

LEMMA InitHolds == Init => LoopInv
<1> SUFFICES ASSUME Init
             PROVE  LoopInv
  OBVIOUS
<1>1. Len(<<>>) = 0 /\ 1..Len(<<>>) = {} /\ \A S : <<>> \in Seq(S)
  OBVIOUS
<1>2. LoopTyped
  <2>1. streams \in Seq(Phones) /\ master \in Phones \cup {NoMaster}
    BY DspAssumption DEF Init
  <2>2. 0 \in 0..MaxFrames
    BY DspAssumption
  <2> QED BY <2>1, <2>2, <1>1 DEF Init, LoopTyped, TypeOK
<1>3. DroppedIsSilent
  BY DEF Init, DroppedIsSilent
<1>4. Lines
  <2>1. Line(<<>>, <<>>, <<>>, 0)
    BY <1>1, Sizes DEF Line, Ascending, Upto, Behind, Suffix
  <2> QED BY <2>1 DEF Init, Lines
<1>5. Paid
  <2>1. \A p \in Phones : Taken(p) = {}
    BY <1>1 DEF Init, Taken
  <2>2. Cardinality({}) = 0 /\ 0 * NeedSamples = 0
    BY FS_EmptySet, Sizes
  <2>3. ASSUME NEW p \in Phones
        PROVE  Cardinality(Taken(p)) * NeedSamples + Len(buffers[p]) <= Len(delivered[p])
    <3>1. buffers[p] = <<>> /\ delivered[p] = <<>>
      BY DEF Init
    <3>2. Cardinality(Taken(p)) * NeedSamples = 0
      BY <2>1, <2>2
    <3> QED BY <3>1, <3>2, <1>1
  <2> QED BY <2>3 DEF Paid
<1>6. FramesPast /\ WindowsAdvance
  BY <1>1 DEF Init, FramesPast, WindowsAdvance
<1>7. InboxesKnown /\ SubscriberInOrder
  BY <1>1, DspAssumption DEF Init, InboxesKnown, SubscriberInOrder
<1> QED BY <1>2, <1>3, <1>4, <1>5, <1>6, <1>7 DEF LoopInv

LEMMA FramesTyped ==
  ASSUME LoopInv, NEW i \in 1..Len(frames)
  PROVE  /\ frames[i].phones \in Seq(Phones)
         /\ Len(frames[i].channels) = Len(frames[i].phones)
         /\ \A m \in 1..Len(frames[i].phones) :
              /\ frames[i].phones[m] \in Phones
              /\ frames[i].channels[m] \in Seq(Samples)
              /\ Audio(frames[i].channels[m]) \subseteq Nat
<1>1. frames \in Seq(Frames) /\ Len(frames[i].channels) = Len(frames[i].phones)
  BY DEF LoopInv, LoopTyped, TypeOK
<1>2. frames[i] \in Frames
  BY <1>1
<1>3. frames[i].phones \in Seq(Phones) /\ frames[i].channels \in Seq(Seq(Samples))
  BY <1>2 DEF Frames
<1>4. \A m \in 1..Len(frames[i].phones) :
        frames[i].phones[m] \in Phones /\ frames[i].channels[m] \in Seq(Samples)
  BY <1>1, <1>3
<1>5. ASSUME NEW s \in Seq(Samples)
      PROVE  Audio(s) \subseteq Nat
  <2>1. \A x \in Samples : x \in Nat
    BY DspAssumption DEF Samples
  <2>2. \A k \in DOMAIN s : s[k] \in Samples
    OBVIOUS
  <2> QED BY <2>1, <2>2 DEF Audio
<1> QED BY <1>1, <1>3, <1>4, <1>5

\* What was delivered stays delivered.
LEMMA PastKeeps ==
  ASSUME LoopInv, frames' = frames,
         \A p \in Phones : Audio(delivered[p]) \subseteq Audio(delivered'[p])
  PROVE  FramesPast'
<1>1. ASSUME NEW i \in 1..Len(frames), NEW m \in 1..Len(frames[i].phones)
      PROVE  Audio(frames[i].channels[m]) \subseteq Audio(delivered'[frames[i].phones[m]])
  <2>1. frames[i].phones[m] \in Phones
    BY FramesTyped
  <2>2. Audio(frames[i].channels[m]) \subseteq Audio(delivered[frames[i].phones[m]])
    BY DEF LoopInv, FramesPast
  <2> QED BY <2>1, <2>2
<1>2. \A i \in 1..Len(frames') : \A m \in 1..Len(frames'[i].phones) :
        Audio(frames'[i].channels[m]) \subseteq Audio(delivered'[frames'[i].phones[m]])
  BY <1>1
<1>3. FramesPast' <=>
        \A i \in 1..Len(frames') : \A m \in 1..Len(frames'[i].phones) :
          Audio(frames'[i].channels[m]) \subseteq Audio(delivered'[frames'[i].phones[m]])
  BY Zenon DEF FramesPast, Audio
<1> QED BY <1>2, <1>3

LEMMA AdvanceKeeps ==
  ASSUME LoopInv, frames' = frames
  PROVE  WindowsAdvance'
<1>1. WindowsAdvance
  BY DEF LoopInv
<1> HIDE DEF LoopInv
<1>2. WindowsAdvance' <=> WindowsAdvance
  BY DEF WindowsAdvance, Later, Audio
<1> QED BY <1>1, <1>2

LEMMA InboxesKeep ==
  ASSUME LoopInv, UNCHANGED <<frames, subscribed, inbox, seen>>
  PROVE  InboxesKnown' /\ SubscriberInOrder'
<1>1. InboxesKnown /\ SubscriberInOrder
  BY DEF LoopInv
<1> QED BY <1>1 DEF InboxesKnown, SubscriberInOrder

LEMMA TakenCounts ==
  ASSUME LoopInv, NEW p \in Phones
  PROVE  IsFiniteSet(Taken(p)) /\ Cardinality(Taken(p)) \in Nat
<1>1. Len(frames) \in Nat
  BY DEF LoopInv, LoopTyped, TypeOK
<1>2. IsFiniteSet(1..Len(frames)) /\ Taken(p) \in SUBSET (1..Len(frames))
  BY <1>1, FS_Interval DEF Taken
<1>3. IsFiniteSet(Taken(p))
  BY <1>2, FS_Subset
<1> QED BY <1>3, FS_CardinalityType

LEMMA FramesKeep ==
  ASSUME LoopInv, UNCHANGED <<frames, delivered>>
  PROVE  /\ FramesPast' /\ WindowsAdvance'
         /\ buffers' = buffers => Paid'
<1>1. \A p \in Phones : Audio(delivered[p]) \subseteq Audio(delivered'[p])
  OBVIOUS
<1>2. \A p \in Phones : Cardinality(Taken(p))' = Cardinality(Taken(p))
  BY DEF Taken
<1> QED BY <1>1, <1>2, PastKeeps, AdvanceKeeps DEF LoopInv, Paid

\* A packet that arrives goes to the end of the line.
LEMMA ArrivalKeeps ==
  ASSUME LoopInv, NEW p \in Phones, ArriveAudio(p) \/ ArriveHeartbeat(p)
  PROVE  LoopInv'
<1>1. UNCHANGED <<streams, master, buffers, delivered, frames_processed, windows_emitted,
                  frames, subscribed, inbox, seen, raised, changes>>
  BY DEF ArriveAudio, ArriveHeartbeat
<1>2. /\ queues \in [Phones -> Seq(Nat)] /\ arrived \in [Phones -> 0..MaxFrames]
      /\ heartbeats \in Nat /\ MaxFrames \in Nat
  BY DspAssumption DEF LoopInv, LoopTyped, TypeOK
<1>3. /\ buffers[p] \in Seq(Nat) /\ queues[p] \in Seq(Nat) /\ delivered[p] \in Seq(Nat)
      /\ arrived[p] \in Nat /\ arrived[p] <= MaxFrames
      /\ Line(buffers[p], queues[p], delivered[p], arrived[p])
  BY PhoneTypes
<1>4. /\ heartbeats' \in Nat
      /\ \E x \in Nat, c \in 0..MaxFrames :
           /\ (x = 0 /\ c = arrived[p]) \/ (x = c /\ arrived[p] < c)
           /\ queues' = [queues EXCEPT ![p] = Queued(@, x)]
           /\ arrived' = [arrived EXCEPT ![p] = c]
  <2>1. CASE ArriveAudio(p)
    <3>1. PICK k \in (arrived[p] + 1)..MaxFrames :
            /\ arrived' = [arrived EXCEPT ![p] = k]
            /\ queues' = [queues EXCEPT ![p] = Queued(@, k)]
            /\ heartbeats' = heartbeats
      BY <2>1 DEF ArriveAudio
    <3>2. k \in Nat /\ k \in 0..MaxFrames /\ arrived[p] < k
      BY <1>2, <1>3
    <3> QED BY <3>1, <3>2, <1>2
  <2>2. CASE ArriveHeartbeat(p)
    <3>1. /\ heartbeats' = heartbeats + 1 /\ arrived' = arrived
          /\ queues' = [queues EXCEPT ![p] = Queued(@, 0)]
      BY <2>2 DEF ArriveHeartbeat, Heartbeat
    <3>2. arrived' = [arrived EXCEPT ![p] = arrived[p]] /\ arrived[p] \in 0..MaxFrames
      BY <3>1, <1>2
    <3> QED BY <3>1, <3>2, <1>2
  <2> QED BY <2>1, <2>2
<1>5. PICK x \in Nat, c \in 0..MaxFrames :
        /\ (x = 0 /\ c = arrived[p]) \/ (x = c /\ arrived[p] < c)
        /\ queues' = [queues EXCEPT ![p] = Queued(@, x)]
        /\ arrived' = [arrived EXCEPT ![p] = c]
  BY <1>4
<1>6. Queued(queues[p], x) \in Seq(Nat) /\ Line(buffers[p], Queued(queues[p], x), delivered[p], c)
  <2>1. c \in Nat
    BY <1>2
  <2> QED BY <2>1, <1>3, <1>5, QueuedKeeps
<1>7. /\ queues' \in [Phones -> Seq(Nat)] /\ queues'[p] = Queued(queues[p], x)
      /\ arrived' \in [Phones -> 0..MaxFrames] /\ arrived'[p] = c
      /\ \A e \in Phones \ {p} : queues'[e] = queues[e] /\ arrived'[e] = arrived[e]
  BY <1>2, <1>5, <1>6
<1>8. LoopTyped'
  BY <1>1, <1>4, <1>7 DEF LoopInv, LoopTyped, TypeOK
<1>9. Lines'
  BY <1>1, <1>6, <1>7 DEF LoopInv, Lines
<1>10. DroppedIsSilent'
  BY <1>1 DEF LoopInv, DroppedIsSilent, Registered
<1> QED BY <1>1, <1>8, <1>9, <1>10, FramesKeep, InboxesKeep DEF LoopInv

\* A phone that hangs up takes what waits out of its line.
LEMMA DisconnectKeeps ==
  ASSUME LoopInv, NEW p \in Phones, Disconnect(p)
  PROVE  LoopInv'
<1>1. /\ UNCHANGED <<streams, master, buffers, arrived, heartbeats, delivered, frames_processed,
                     windows_emitted, frames, subscribed, inbox, seen, raised>>
      /\ queues' = [queues EXCEPT ![p] = <<>>] /\ changes' = changes + 1
  BY DEF Disconnect
<1>2. /\ queues \in [Phones -> Seq(Nat)] /\ changes \in Nat
  BY DEF LoopInv, LoopTyped, TypeOK
<1>3. Len(<<>>) = 0 /\ 1..Len(<<>>) = {} /\ <<>> \in Seq(Nat)
  OBVIOUS
<1>4. queues' \in [Phones -> Seq(Nat)] /\ changes' \in Nat
  BY <1>1, <1>2, <1>3
<1>5. LoopTyped'
  BY <1>1, <1>4 DEF LoopInv, LoopTyped, TypeOK
<1>6. Lines'
  <2>1. Line(buffers[p], <<>>, delivered[p], arrived[p])
    BY <1>3, PhoneTypes DEF Line, Ascending, Upto, Behind
  <2> QED BY <2>1, <1>1, <1>2 DEF LoopInv, Lines
<1>7. DroppedIsSilent'
  BY <1>1 DEF LoopInv, DroppedIsSilent, Registered
<1> QED BY <1>1, <1>5, <1>6, <1>7, FramesKeep, InboxesKeep DEF LoopInv

\* A phone that is registered was not.
LEMMA RegisterKeeps ==
  ASSUME LoopInv, NEW p \in Phones, Register(p)
  PROVE  LoopInv'
<1>1. /\ streams' = Append(streams, p)
      /\ master' \in {p, master} /\ changes' = changes + 1
      /\ UNCHANGED <<buffers, queues, arrived, heartbeats, delivered, frames_processed,
                     windows_emitted, frames, subscribed, inbox, seen, raised>>
  BY DEF Register
<1>2. streams \in Seq(Phones) /\ Len(streams) \in Nat
  BY DEF LoopInv, LoopTyped, TypeOK
<1>3. /\ streams' \in Seq(Phones) /\ Len(streams') = Len(streams) + 1
      /\ \A i \in 1..Len(streams) : streams'[i] = streams[i]
  BY <1>1, <1>2
<1>4. LoopTyped'
  <2>1. master' \in Phones \cup {NoMaster} /\ changes' \in Nat
    BY <1>1 DEF LoopInv, LoopTyped, TypeOK
  <2> QED BY <2>1, <1>1, <1>3 DEF LoopInv, LoopTyped, TypeOK
<1>5. DroppedIsSilent'
  <2>1. Registered \subseteq Registered'
    <3>1. \A i \in 1..Len(streams) : i \in 1..(Len(streams) + 1)
      BY <1>2
    <3>2. DOMAIN streams = 1..Len(streams) /\ DOMAIN streams' = 1..(Len(streams) + 1)
      BY <1>2, <1>3
    <3> QED BY <3>1, <3>2, <1>3 DEF Registered, ToSet
  <2> QED BY <2>1, <1>1 DEF LoopInv, DroppedIsSilent
<1>6. Lines'
  BY <1>1 DEF LoopInv, Lines
<1> QED BY <1>1, <1>4, <1>5, <1>6, FramesKeep, InboxesKeep DEF LoopInv

LEMMA WithoutOne ==
  ASSUME NEW S, NEW s \in Seq(S), NEW k \in DOMAIN s
  PROVE  /\ RemoveAt(s, k) \in Seq(S)
         /\ Len(RemoveAt(s, k)) = Len(s) - 1
         /\ \A i \in 1..(Len(s) - 1) : RemoveAt(s, k)[i] = IF i < k THEN s[i] ELSE s[i + 1]
<1> DEFINE n == Len(s)
           a == SubSeq(s, 1, k - 1)
           b == SubSeq(s, k + 1, n)
           c == a \o b
<1>1. n \in Nat /\ k \in 1..n /\ k \in Nat
  OBVIOUS
<1>2. a \in Seq(S) /\ Len(a) = k - 1 /\ \A i \in 1..(k - 1) : a[i] = s[i]
  BY <1>1
<1>3. b \in Seq(S) /\ Len(b) = n - k /\ \A i \in 1..(n - k) : b[i] = s[k + i]
  BY <1>1
<1> HIDE DEF n, a, b
<1>4. /\ c \in Seq(S) /\ Len(c) = (k - 1) + (n - k)
      /\ \A i \in 1..(k - 1) : c[i] = a[i]
      /\ \A i \in k..(n - 1) : c[i] = b[i - (k - 1)]
  <2>1. c \in Seq(S) /\ Len(c) = Len(a) + Len(b)
        /\ \A i \in 1..(Len(a) + Len(b)) : c[i] = IF i <= Len(a) THEN a[i] ELSE b[i - Len(a)]
    BY <1>2, <1>3, ConcatProperties
  <2> HIDE DEF c
  <2>2. \A i \in 1..(k - 1) : i \in 1..(Len(a) + Len(b)) /\ i <= Len(a)
    BY <1>1, <1>2, <1>3
  <2>3. \A i \in k..(n - 1) : i \in 1..(Len(a) + Len(b)) /\ ~(i <= Len(a))
    BY <1>1, <1>2, <1>3
  <2> QED BY <2>1, <2>2, <2>3, <1>2, <1>3
<1> HIDE DEF c
<1>5. Len(c) = n - 1
  BY <1>1, <1>4
<1>6. ASSUME NEW i \in 1..(n - 1)
      PROVE  c[i] = IF i < k THEN s[i] ELSE s[i + 1]
  <2>1. CASE i < k
    <3>1. i \in 1..(k - 1)
      BY <2>1, <1>1
    <3> QED BY <2>1, <3>1, <1>2, <1>4
  <2>2. CASE ~(i < k)
    <3>1. i \in k..(n - 1) /\ i - (k - 1) \in 1..(n - k) /\ k + (i - (k - 1)) = i + 1
      BY <2>2, <1>1
    <3> QED BY <2>2, <3>1, <1>3, <1>4
  <2> QED BY <2>1, <2>2
<1>7. RemoveAt(s, k) = c
  BY DEF RemoveAt, a, b, c, n
<1>8. /\ c \in Seq(S) /\ Len(c) = n - 1
      /\ \A i \in 1..(n - 1) : c[i] = IF i < k THEN s[i] ELSE s[i + 1]
  BY <1>4, <1>5, <1>6
<1> QED BY <1>7, <1>8 DEF n

\* A phone that is dropped leaves no samples behind.
LEMMA DropKeeps ==
  ASSUME LoopInv, NEW p \in Phones, DropPhone(p)
  PROVE  LoopInv'
<1> DEFINE n == Len(streams)
<1>1. /\ buffers' = [buffers EXCEPT ![p] = <<>>]
      /\ changes' = changes + 1
      /\ UNCHANGED <<master, queues, arrived, heartbeats, delivered, frames_processed,
                     windows_emitted, frames, subscribed, inbox, seen, raised>>
  BY DEF DropPhone
<1>2. /\ streams \in Seq(Phones) /\ n \in Nat /\ DOMAIN streams = 1..n
      /\ buffers \in [Phones -> Seq(Samples)] /\ changes \in Nat
  BY DEF LoopInv, LoopTyped, TypeOK
<1>3. /\ streams' \in Seq(Phones)
      /\ \A q \in Registered : q = p \/ q \in Registered'
  <2>1. CASE p \notin Registered
    <3>1. streams' = streams
      BY <2>1 DEF DropPhone
    <3> QED BY <3>1, <1>2 DEF Registered
  <2>2. CASE p \in Registered
    <3>1. PICK k : k = CHOOSE i \in DOMAIN streams : streams[i] = p
      OBVIOUS
    <3>2. \E i \in DOMAIN streams : streams[i] = p
      BY <2>2, <1>2 DEF Registered, ToSet
    <3>3. k \in 1..n /\ streams[k] = p /\ streams' = RemoveAt(streams, k)
      BY <2>2, <3>1, <3>2, <1>2 DEF DropPhone
    <3>4. /\ streams' \in Seq(Phones) /\ Len(streams') = n - 1
          /\ \A i \in 1..(n - 1) : streams'[i] = IF i < k THEN streams[i] ELSE streams[i + 1]
      BY <3>3, <1>2, WithoutOne
    <3> HIDE DEF n
    <3>5. ASSUME NEW q \in Registered, q # p
          PROVE  q \in Registered'
      <4>1. PICK i \in 1..n : streams[i] = q
        BY <1>2 DEF Registered, ToSet
      <4>2. i # k /\ i \in Nat /\ k \in Nat
        BY <4>1, <3>3, <3>5, <1>2
      <4>3. \E j \in 1..(n - 1) : streams'[j] = q
        <5>1. CASE i < k
          <6>1. i \in 1..(n - 1)
            BY <5>1, <4>1, <4>2, <3>3, <1>2
          <6> QED BY <6>1, <5>1, <4>1, <3>4
        <5>2. CASE i > k
          <6>1. i - 1 \in 1..(n - 1) /\ ~(i - 1 < k) /\ (i - 1) + 1 = i
            BY <5>2, <4>1, <4>2, <3>3, <1>2
          <6>2. streams'[i - 1] = streams[(i - 1) + 1]
            BY <6>1, <3>4
          <6> QED BY <6>1, <6>2, <4>1
        <5> QED BY <5>1, <5>2, <4>2
      <4>4. DOMAIN streams' = 1..(n - 1)
        BY <3>4
      <4> QED BY <4>3, <4>4 DEF Registered, ToSet
    <3> QED BY <3>4, <3>5
  <2> QED BY <2>1, <2>2
<1>4. Len(<<>>) = 0 /\ 1..Len(<<>>) = {} /\ <<>> \in Seq(Samples)
  OBVIOUS
<1>5. LoopTyped'
  <2>1. buffers' \in [Phones -> Seq(Samples)] /\ changes' \in Nat
    BY <1>1, <1>2, <1>4
  <2> QED BY <2>1, <1>1, <1>3 DEF LoopInv, LoopTyped, TypeOK
<1>6. DroppedIsSilent'
  BY <1>1, <1>2, <1>3 DEF LoopInv, DroppedIsSilent
<1>7. Lines'
  <2>1. Line(<<>>, queues[p], delivered[p], arrived[p])
    <3>1. Len(delivered[p]) \in Nat
      BY PhoneTypes
    <3> QED BY <3>1, <1>4, PhoneTypes, Sizes DEF Line, Suffix
  <2> QED BY <2>1, <1>1, <1>2 DEF LoopInv, Lines
<1>8. Paid'
  <2>1. \A q \in Phones : Cardinality(Taken(q))' = Cardinality(Taken(q))
    BY <1>1 DEF Taken
  <2>2. Cardinality(Taken(p)) * NeedSamples + Len(<<>>) <= Len(delivered[p])
    <3> DEFINE t == Cardinality(Taken(p)) * NeedSamples
    <3>1. t \in Nat /\ Len(buffers[p]) \in Nat /\ Len(delivered[p]) \in Nat
      <4>1. Cardinality(Taken(p)) \in Nat
        BY TakenCounts
      <4> QED BY <4>1, Sizes, PhoneTypes
    <3>2. t + Len(buffers[p]) <= Len(delivered[p])
      BY DEF LoopInv, Paid
    <3> HIDE DEF t
    <3>3. t + 0 <= Len(delivered[p])
      BY <3>1, <3>2
    <3> QED BY <3>3, <1>4 DEF t
  <2> QED BY <2>1, <2>2, <1>1, <1>2 DEF LoopInv, Paid
<1> QED BY <1>1, <1>5, <1>6, <1>7, <1>8, FramesKeep, InboxesKeep DEF LoopInv

\* What is popped of a queue is put in the buffer, the rest still waits.
LEMMA PopKeeps ==
  ASSUME LoopInv, PopFromQueues
  PROVE  LoopInv'
<1>1. UNCHANGED <<streams, master, arrived, heartbeats, frames_processed, windows_emitted, frames,
                  subscribed, inbox, seen, raised, changes>>
  BY DEF PopFromQueues
<1>2. /\ buffers' = [p \in Phones |-> PouredOf(p).buffer]
      /\ queues' = [p \in Phones |-> SubSeq(queues[p], Popped(p) + 1, Len(queues[p]))]
      /\ delivered' = [p \in Phones |-> PouredOf(p).all]
  BY DEF PopFromQueues
<1>3. ASSUME NEW p \in Phones
      PROVE  Popped(p) \in 0..Len(queues[p]) /\ (p \notin Registered => Popped(p) = 0)
  BY PhoneTypes, DspAssumption DEF Popped
<1>4. ASSUME NEW p \in Phones
      PROVE  /\ buffers'[p] \in Seq(Nat) /\ queues'[p] \in Seq(Nat) /\ delivered'[p] \in Seq(Nat)
             /\ Line(buffers'[p], queues'[p], delivered'[p], arrived[p])
             /\ Len(buffers'[p]) - Len(buffers[p]) <= Len(delivered'[p]) - Len(delivered[p])
             /\ \A i \in 1..Len(delivered[p]) :
                  i <= Len(delivered'[p]) /\ delivered'[p][i] = delivered[p][i]
  <2> DEFINE k == Popped(p)
             r == SubSeq(queues[p], k + 1, Len(queues[p]))
             x == PouredOf(p)
  <2>1. k \in 0..Len(queues[p]) /\ x = Poured(buffers[p], delivered[p], queues[p], k)
    BY <1>3 DEF PouredOf
  <2>2. r \in Seq(Nat)
    BY <2>1, PhoneTypes, SuffixFacts
  <2>3. buffers'[p] = x.buffer /\ queues'[p] = r /\ delivered'[p] = x.all
    BY <1>2
  <2> HIDE DEF k, x
  <2>4. /\ x.buffer \in Seq(Nat) /\ x.all \in Seq(Nat)
        /\ Line(x.buffer, r, x.all, arrived[p])
        /\ Len(x.buffer) - Len(buffers[p]) <= Len(x.all) - Len(delivered[p])
        /\ \A i \in 1..Len(delivered[p]) : i <= Len(x.all) /\ x.all[i] = delivered[p][i]
    <3> DEFINE z == Poured(buffers[p], delivered[p], queues[p], k)
    <3>1. /\ buffers[p] \in Seq(Nat) /\ queues[p] \in Seq(Nat) /\ delivered[p] \in Seq(Nat)
          /\ arrived[p] \in Nat /\ Line(buffers[p], queues[p], delivered[p], arrived[p])
      BY PhoneTypes
    <3>2. /\ z.buffer \in Seq(Nat) /\ z.all \in Seq(Nat)
          /\ Line(z.buffer, r, z.all, arrived[p])
          /\ Len(z.buffer) - Len(buffers[p]) <= Len(z.all) - Len(delivered[p])
          /\ \A i \in 1..Len(delivered[p]) : i <= Len(z.all) /\ z.all[i] = delivered[p][i]
      BY <2>1, <3>1, PouredKeeps
    <3>3. x = z
      BY <2>1
    <3> HIDE DEF z, r
    <3> QED BY <3>2, <3>3
  <2> HIDE DEF r
  <2> QED BY <2>2, <2>3, <2>4
<1>5. ASSUME NEW p \in Phones
      PROVE  buffers'[p] \in Seq(Samples) /\ delivered'[p] \in Seq(Samples)
  <2>1. /\ Upto(delivered'[p], arrived[p] * FrameLen) /\ Suffix(buffers'[p], delivered'[p])
    BY <1>4 DEF Line
  <2>2. Upto(buffers'[p], arrived[p] * FrameLen)
    BY <2>1, <1>4, SuffixUpto
  <2> QED BY <2>1, <2>2, <1>4, PhoneTypes, SamplesWithin
<1>6. LoopTyped'
  <2>1. /\ buffers' = [p \in Phones |-> buffers'[p]] /\ queues' = [p \in Phones |-> queues'[p]]
        /\ delivered' = [p \in Phones |-> delivered'[p]]
    BY <1>2
  <2>2. /\ buffers' \in [Phones -> Seq(Samples)] /\ queues' \in [Phones -> Seq(Nat)]
        /\ delivered' \in [Phones -> Seq(Samples)]
    BY <2>1, <1>4, <1>5
  <2> QED BY <2>2, <1>1 DEF LoopInv, LoopTyped, TypeOK
<1>7. DroppedIsSilent'
  <2>1. ASSUME NEW p \in Phones, p \notin Registered
        PROVE  buffers'[p] = buffers[p]
    <3>1. buffers'[p] = Poured(buffers[p], delivered[p], queues[p], 0).buffer
      BY <2>1, <1>2, <1>3 DEF PouredOf
    <3>2. PICK f : /\ Steps(f, buffers[p], delivered[p], queues[p], 0)
                   /\ Poured(buffers[p], delivered[p], queues[p], 0) = f[0]
      BY PouredSteps
    <3>3. f[0] = [buffer |-> buffers[p], all |-> delivered[p]]
      BY <3>2 DEF Steps
    <3> QED BY <3>1, <3>2, <3>3
  <2> QED BY <2>1, <1>1 DEF LoopInv, DroppedIsSilent, Registered
<1>8. Lines'
  BY <1>1, <1>4 DEF Lines
<1>9. Paid'
  <2>1. \A p \in Phones : Cardinality(Taken(p))' = Cardinality(Taken(p))
    BY <1>1 DEF Taken
  <2>2. ASSUME NEW p \in Phones
        PROVE  Cardinality(Taken(p)) * NeedSamples + Len(buffers'[p]) <= Len(delivered'[p])
    <3> DEFINE t == Cardinality(Taken(p)) * NeedSamples
    <3>1. t \in Nat
      BY TakenCounts, Sizes
    <3>2. t + Len(buffers[p]) <= Len(delivered[p])
      BY DEF LoopInv, Paid
    <3>3. /\ Len(buffers[p]) \in Nat /\ Len(delivered[p]) \in Nat
          /\ Len(buffers'[p]) \in Nat /\ Len(delivered'[p]) \in Nat
      <4>1. \A s \in Seq(Nat) : Len(s) \in Nat
        OBVIOUS
      <4> QED BY <4>1, <1>4, PhoneTypes
    <3>4. Len(buffers'[p]) - Len(buffers[p]) <= Len(delivered'[p]) - Len(delivered[p])
      BY <1>4
    <3> DEFINE u == Len(buffers[p])
               v == Len(delivered[p])
               x == Len(buffers'[p])
               y == Len(delivered'[p])
    <3>5. u \in Nat /\ v \in Nat /\ x \in Nat /\ y \in Nat /\ t + u <= v /\ x - u <= y - v
      BY <3>2, <3>3, <3>4
    <3> HIDE DEF t, u, v, x, y
    <3>6. t + x <= y
      BY <3>1, <3>5
    <3> QED BY <3>6 DEF t, x, y
  <2> QED BY <2>1, <2>2 DEF Paid
<1>10. FramesPast'
  <2>1. ASSUME NEW p \in Phones
        PROVE  Audio(delivered[p]) \subseteq Audio(delivered'[p])
    <3>1. DOMAIN delivered[p] = 1..Len(delivered[p]) /\ DOMAIN delivered'[p] = 1..Len(delivered'[p])
          /\ Len(delivered'[p]) \in Nat
      BY <1>4, PhoneTypes
    <3>2. \A i \in 1..Len(delivered[p]) : i \in 1..Len(delivered'[p]) /\ delivered'[p][i] = delivered[p][i]
      <4> DEFINE v == Len(delivered[p])
                 y == Len(delivered'[p])
      <4>1. y \in Nat /\ \A i \in 1..v : i <= y /\ delivered'[p][i] = delivered[p][i]
        BY <3>1, <1>4
      <4>2. v \in Nat
        BY PhoneTypes
      <4> HIDE DEF v, y
      <4>3. \A i \in 1..v : i \in 1..y
        BY <4>1, <4>2
      <4> QED BY <4>1, <4>3 DEF v, y
    <3> QED BY <3>1, <3>2 DEF Audio
  <2> QED BY <2>1, <1>1, PastKeeps
<1> QED BY <1>1, <1>6, <1>7, <1>8, <1>9, <1>10, AdvanceKeeps, InboxesKeep DEF LoopInv

\* A frame is made of the ends of the buffers, and their beginnings go.
LEMMA ChannelEnds ==
  ASSUME LoopInv, Ready, NEW p \in Registered
  PROVE  /\ p \in Phones
         /\ Channel(p) \in Seq(Nat) /\ Channel(p) \in Seq(Samples)
         /\ Suffix(Channel(p), delivered[p])
         /\ Cropped(p) \in Seq(Nat) /\ Cropped(p) \in Seq(Samples)
         /\ Suffix(Cropped(p), delivered[p])
         /\ Len(Cropped(p)) = Len(buffers[p]) - NeedSamples
         /\ Len(buffers[p]) \in Nat /\ Len(buffers[p]) - NeedSamples \in Nat
<1>1. p \in Phones
  <2>1. streams \in Seq(Phones)
    BY DEF LoopInv, LoopTyped, TypeOK
  <2> QED BY <2>1 DEF Registered, ToSet
<1> DEFINE b == buffers[p]
           d == delivered[p]
           l == Len(b)
           x == SubSeq(b, (l - NeedSamples) + 1, l)
           y == SubSeq(b, NeedSamples + 1, l)
<1>2. /\ b \in Seq(Nat) /\ d \in Seq(Nat) /\ Suffix(b, d) /\ arrived[p] \in Nat
      /\ arrived[p] <= MaxFrames /\ Upto(d, arrived[p] * FrameLen)
  BY <1>1, PhoneTypes DEF Line
<1>3. l \in Nat /\ NeedSamples \in 0..l /\ l - NeedSamples \in 0..l
  <2>1. l \in Nat /\ l >= NeedSamples
    BY <1>2 DEF Ready
  <2> QED BY <2>1, Sizes
<1>4. Channel(p) = x /\ Cropped(p) = y
  BY DEF Cropped, Channel, Newest
<1> HIDE DEF b, d
<1>5. x \in Seq(Nat) /\ Suffix(x, b) /\ y \in Seq(Nat) /\ Len(y) = l - NeedSamples /\ Suffix(y, b)
  BY <1>2, <1>3, SuffixFacts
<1>6. l - NeedSamples \in Nat
  BY <1>3
<1> HIDE DEF x, y, l
<1>7. Suffix(x, d) /\ Suffix(y, d)
  BY <1>2, <1>5, SuffixOfSuffix
<1>8. x \in Seq(Samples) /\ y \in Seq(Samples)
  BY <1>2, <1>5, <1>7, SuffixUpto, SamplesWithin
<1> QED BY <1>1, <1>3, <1>4, <1>5, <1>6, <1>7, <1>8 DEF b, d, l

\* The end of what was delivered has the newest of it, and nothing else.
LEMMA EndIsNewest ==
  ASSUME NEW c \in Seq(Nat), NEW d \in Seq(Nat), Suffix(c, d), Ascending(d)
  PROVE  /\ Audio(c) \subseteq Audio(d)
         /\ Audio(c) # {} => \A x \in Audio(d) : \E z \in Audio(c) : x <= z
<1> DEFINE l == Len(c)
           n == Len(d)
           k == n - l
<1>1. l \in Nat /\ n \in Nat /\ k \in Nat /\ \A i \in 1..l : k + i \in 1..n /\ c[i] = d[k + i]
  BY SuffixIndex
<1>2. DOMAIN c = 1..l /\ DOMAIN d = 1..n /\ \A i \in 1..n : d[i] \in Nat
  OBVIOUS
<1>3. \A i, j \in 1..n : i < j /\ d[i] # 0 /\ d[j] # 0 => d[i] < d[j]
  BY DEF Ascending, Silence
<1>4. k + l = n
  BY <1>1
<1> HIDE DEF l, n, k
<1>5. Audio(c) \subseteq Audio(d)
  BY <1>1, <1>2 DEF Audio
<1>6. ASSUME Audio(c) # {}, NEW x \in Audio(d)
      PROVE  \E z \in Audio(c) : x <= z
  <2>1. PICK i \in 1..l : c[i] # 0
    BY <1>2, <1>6 DEF Audio, Silence
  <2>2. PICK j \in 1..n : d[j] = x /\ x # 0
    BY <1>2 DEF Audio, Silence
  <2>3. k + i \in 1..n /\ d[k + i] = c[i] /\ c[i] \in Audio(c)
    BY <2>1, <1>1, <1>2 DEF Audio, Silence
  <2>4. CASE j < k + i
    <3>1. x < c[i] /\ x \in Nat /\ c[i] \in Nat
      BY <2>1, <2>2, <2>3, <2>4, <1>2, <1>3
    <3> QED BY <3>1, <2>3
  <2>5. CASE j >= k + i
    <3>1. j - k \in 1..l /\ k + (j - k) = j
      BY <2>5, <2>1, <1>1, <1>4
    <3>2. c[j - k] = x /\ x \in Nat
      BY <3>1, <2>2, <1>1, <1>2
    <3>3. x \in Audio(c)
      BY <3>1, <3>2, <2>2, <1>2 DEF Audio, Silence
    <3> QED BY <3>2, <3>3
  <2>6. j \in Nat /\ k + i \in Nat
    BY <2>3, <1>1
  <2> QED BY <2>4, <2>5, <2>6
<1> QED BY <1>5, <1>6

LEMMA FanOutKeeps ==
  ASSUME LoopInv, StepEmit
  PROVE  InboxesKnown' /\ SubscriberInOrder' /\ inbox' \in [Subscribers -> Seq(Nat)]
<1> DEFINE n == Len(frames)
<1>1. frames \in Seq(Frames) /\ n \in Nat
  BY DEF LoopInv, LoopTyped, TypeOK
<1>2. frames' = Append(frames, LoopFrame) /\ UNCHANGED <<subscribed, seen>>
  BY DEF StepEmit
<1>3. Len(frames') = n + 1
  BY <1>1, <1>2
<1>4. inbox' = [c \in Subscribers |->
                  IF subscribed[c] /\ Len(inbox[c]) < SubscriberCap
                  THEN Append(inbox[c], n + 1) ELSE inbox[c]]
  BY <1>3 DEF StepEmit, FanOut
<1> HIDE DEF n
<1>5. ASSUME NEW c \in Subscribers
      PROVE  /\ inbox'[c] \in Seq(Nat)
             /\ seen'[c] <= n + 1
             /\ subscribed'[c] =>
                  /\ \A i \in 1..Len(inbox'[c]) : inbox'[c][i] <= n + 1
                  /\ Len(inbox'[c]) <= SubscriberCap
                  /\ \A i \in 1..Len(inbox'[c]) : seen'[c] < inbox'[c][i]
                  /\ \A i, j \in 1..Len(inbox'[c]) : i < j => inbox'[c][i] < inbox'[c][j]
  <2> DEFINE q == inbox[c]
             l == Len(q)
  <2>1. q \in Seq(Nat) /\ l \in Nat /\ seen[c] \in Nat /\ SubscriberCap \in Nat
        /\ \A i \in 1..l : q[i] \in Nat
    <3>1. q \in Seq(Nat) /\ seen[c] \in Nat
      BY DEF LoopInv, LoopTyped, TypeOK
    <3> HIDE DEF q
    <3> QED BY <3>1, DspAssumption
  <2>2. seen[c] <= n /\ (subscribed[c] => \A i \in 1..l : q[i] <= n)
    BY DEF LoopInv, InboxesKnown, n
  <2>3. subscribed[c] => /\ l <= SubscriberCap
                         /\ \A i \in 1..l : seen[c] < q[i]
                         /\ \A i, j \in 1..l : i < j => q[i] < q[j]
    BY DEF LoopInv, SubscriberInOrder
  <2>4. seen'[c] = seen[c] /\ subscribed'[c] = subscribed[c]
    BY <1>2
  <2>5. CASE subscribed[c] /\ l < SubscriberCap
    <3>1. inbox'[c] = Append(q, n + 1)
      BY <2>5, <1>4
    <3> HIDE DEF q
    <3> DEFINE u == Append(q, n + 1)
    <3>2. u \in Seq(Nat) /\ Len(u) = l + 1 /\ u[l + 1] = n + 1 /\ \A i \in 1..l : u[i] = q[i]
      BY <2>1, <1>1
    <3> HIDE DEF u, l
    <3>3. \A i \in 1..(l + 1) : i \in 1..l \/ i = l + 1
      BY <2>1
    <3>4. \A i \in 1..(l + 1) : u[i] <= n + 1
      <4>1. ASSUME NEW i \in 1..l
            PROVE  u[i] <= n + 1
        <5>1. q[i] \in Nat /\ q[i] <= n /\ u[i] = q[i]
          BY <2>1, <2>2, <2>5, <3>2
        <5> QED BY <5>1, <1>1
      <4> QED BY <4>1, <3>2, <3>3, <1>1
    <3>5. \A i \in 1..(l + 1) : seen[c] < u[i]
      <4>1. seen[c] < n + 1
        BY <2>1, <2>2, <1>1
      <4>2. \A i \in 1..l : seen[c] < u[i]
        BY <2>3, <2>5, <3>2
      <4> QED BY <4>1, <4>2, <3>2, <3>3
    <3>6. ASSUME NEW i \in 1..(l + 1), NEW j \in 1..(l + 1), i < j
          PROVE  u[i] < u[j]
      <4>1. i \in 1..l
        BY <3>6, <2>1
      <4>2. CASE j \in 1..l
        <5>1. q[i] < q[j]
          BY <4>1, <4>2, <3>6, <2>3, <2>5
        <5> QED BY <5>1, <4>1, <4>2, <3>2
      <4>3. CASE j = l + 1
        <5>1. q[i] \in Nat /\ q[i] <= n /\ u[i] = q[i] /\ u[j] = n + 1
          BY <4>1, <4>3, <3>2, <2>1, <2>2, <2>5
        <5> QED BY <5>1, <1>1
      <4> QED BY <4>2, <4>3, <3>3
    <3>7. Len(u) <= SubscriberCap
      BY <3>2, <2>1, <2>5
    <3>8. seen[c] <= n + 1
      BY <2>1, <2>2, <1>1
    <3>9. inbox'[c] = u
      BY <3>1 DEF u
    <3> QED BY <3>2, <3>4, <3>5, <3>6, <3>7, <3>8, <3>9, <2>4
  <2>6. CASE ~(subscribed[c] /\ l < SubscriberCap)
    <3>1. inbox'[c] = q
      BY <2>6, <1>4
    <3>2. seen[c] <= n + 1 /\ (subscribed[c] => \A i \in 1..l : q[i] <= n + 1)
      BY <2>1, <2>2, <1>1
    <3> HIDE DEF q
    <3> QED BY <3>1, <3>2, <2>1, <2>3, <2>4
  <2> QED BY <2>5, <2>6
<1>6. inbox' \in [Subscribers -> Seq(Nat)]
  <2>1. inbox' = [c \in Subscribers |-> inbox'[c]]
    BY <1>4
  <2> QED BY <2>1, <1>5
<1>7. InboxesKnown'
  BY <1>3, <1>5 DEF InboxesKnown
<1>8. SubscriberInOrder'
  BY <1>5 DEF SubscriberInOrder
<1> QED BY <1>6, <1>7, <1>8

LEMMA EmitKeeps ==
  ASSUME LoopInv, StepEmit
  PROVE  LoopInv'
<1> DEFINE n == Len(frames)
           l == Len(streams)
           F == LoopFrame
<1>1. /\ Ready /\ frames_processed' = frames_processed + 1
      /\ buffers' = [p \in Phones |-> IF p \in Registered THEN Cropped(p) ELSE buffers[p]]
      /\ frames' = Append(frames, F) /\ windows_emitted' = windows_emitted + 1
      /\ UNCHANGED <<streams, master, queues, arrived, heartbeats, delivered, subscribed, seen, raised, changes>>
  BY DEF StepEmit, Call
<1>2. frames \in Seq(Frames) /\ n \in Nat /\ streams \in Seq(Phones) /\ l \in Nat
      /\ buffers \in [Phones -> Seq(Samples)] /\ DOMAIN streams = 1..l
  BY DEF LoopInv, LoopTyped, TypeOK
<1>3. \A i \in 1..l : streams[i] \in Registered /\ streams[i] \in Phones
  BY <1>2 DEF Registered, ToSet
<1>4. /\ F.phones = streams /\ Len(F.channels) = l
      /\ \A i \in 1..l : F.channels[i] = Channel(streams[i])
  BY <1>2 DEF LoopFrame
<1>5. F \in Frames
  <2>1. [i \in 1..l |-> Channel(streams[i])] \in Seq(Seq(Samples))
    <3>1. \A i \in 1..l : Channel(streams[i]) \in Seq(Samples)
      BY <1>1, <1>3, ChannelEnds
    <3> QED BY <3>1, <1>2
  <2>2. [i \in 1..l |-> i - 1] \in Seq(Nat)
    <3>1. \A i \in 1..l : i - 1 \in Nat
      BY <1>2
    <3> QED BY <3>1, <1>2
  <2> QED BY <2>1, <2>2, <1>2 DEF LoopFrame, Frames
<1> HIDE DEF F
<1>6. /\ frames' \in Seq(Frames) /\ Len(frames') = n + 1
      /\ frames'[n + 1] = F /\ \A i \in 1..n : frames'[i] = frames[i]
  BY <1>1, <1>2, <1>5
<1> HIDE DEF n, l
<1>7. \A i \in 1..(n + 1) : i \in 1..n \/ i = n + 1
  BY <1>2
<1>8. ASSUME NEW p \in Registered
      PROVE  /\ p \in Phones /\ Channel(p) \in Seq(Nat) /\ Suffix(Channel(p), delivered[p])
             /\ delivered[p] \in Seq(Nat) /\ Ascending(delivered[p])
  BY <1>1, ChannelEnds, PhoneTypes DEF Line
<1>9. LoopTyped'
  <2>1. buffers' = [p \in Phones |-> buffers'[p]]
    BY <1>1
  <2>2. \A p \in Phones : buffers'[p] \in Seq(Samples)
    BY <1>1, <1>2, ChannelEnds
  <2>3. buffers' \in [Phones -> Seq(Samples)]
    BY <2>1, <2>2
  <2>4. frames_processed' \in Nat /\ windows_emitted' \in Nat
    BY <1>1 DEF LoopInv, LoopTyped, TypeOK
  <2>5. TypeOK'
    BY <2>3, <2>4, <1>1, <1>6, FanOutKeeps DEF LoopInv, LoopTyped, TypeOK
  <2>6. \A i \in 1..(n + 1) : Len(frames'[i].channels) = Len(frames'[i].phones)
    BY <1>4, <1>6, <1>7 DEF LoopInv, LoopTyped, n, l
  <2> QED BY <2>5, <2>6, <1>6 DEF LoopTyped
<1>10. DroppedIsSilent'
  BY <1>1 DEF LoopInv, DroppedIsSilent, Registered
<1>11. Lines'
  <2>1. ASSUME NEW p \in Registered
        PROVE  Line(Cropped(p), queues[p], delivered[p], arrived[p])
    <3>1. /\ Suffix(Cropped(p), delivered[p]) /\ p \in Phones
          /\ Len(Cropped(p)) = Len(buffers[p]) - NeedSamples /\ Len(buffers[p]) \in Nat
      BY <1>1, ChannelEnds
    <3>2. Line(buffers[p], queues[p], delivered[p], arrived[p])
      BY <3>1, PhoneTypes
    <3>3. Len(Cropped(p)) <= BufferCap
      <4>1. Len(buffers[p]) <= BufferCap
        BY <3>2 DEF Line
      <4> QED BY <4>1, <3>1, Sizes
    <3> QED BY <3>1, <3>2, <3>3 DEF Line
  <2> QED BY <2>1, <1>1 DEF LoopInv, Lines
<1>12. ASSUME NEW p \in Phones
       PROVE  Cardinality(Taken(p))' = IF p \in Registered THEN Cardinality(Taken(p)) + 1
                                                           ELSE Cardinality(Taken(p))
  <2> DEFINE S == Taken(p)
             T == Taken(p)'
  <2>1. T = {i \in 1..(n + 1) : p \in ToSet(frames'[i].phones)}
    BY <1>6 DEF Taken
  <2>2. p \in ToSet(frames'[n + 1].phones) <=> p \in Registered
    BY <1>4, <1>6 DEF Registered
  <2>3. S = {i \in 1..n : p \in ToSet(frames[i].phones)}
    BY DEF Taken, n
  <2>4. n + 1 \notin S /\ n + 1 \in 1..(n + 1) /\ \A i \in 1..n : i \in 1..(n + 1)
    BY <2>3, <1>2
  <2>5. IsFiniteSet(S) /\ Cardinality(S) \in Nat
    BY TakenCounts
  <2> HIDE DEF S, T
  <2>6. CASE p \in Registered
    <3>1. T = S \cup {n + 1}
      BY <2>1, <2>2, <2>3, <2>4, <2>6, <1>6, <1>7
    <3>2. Cardinality(S \cup {n + 1}) = Cardinality(S) + 1
      BY <2>4, <2>5, FS_AddElement
    <3> QED BY <2>6, <3>1, <3>2 DEF S, T
  <2>7. CASE p \notin Registered
    <3>1. T = S
      BY <2>1, <2>2, <2>3, <2>4, <2>7, <1>6, <1>7
    <3> QED BY <2>7, <3>1 DEF S, T
  <2> QED BY <2>6, <2>7
<1>13. Paid'
  <2>1. ASSUME NEW p \in Phones
        PROVE  Cardinality(Taken(p))' * NeedSamples + Len(buffers'[p]) <= Len(delivered[p])
    <3>1. Cardinality(Taken(p)) * NeedSamples + Len(buffers[p]) <= Len(delivered[p])
      BY DEF LoopInv, Paid
    <3>2. CASE p \in Registered
      <4> DEFINE c == Cardinality(Taken(p))
                 u == Len(buffers[p])
                 v == Len(delivered[p])
      <4>1. c \in Nat /\ v \in Nat
        BY TakenCounts, PhoneTypes
      <4>2. Len(Cropped(p)) = u - NeedSamples /\ u \in Nat
        BY <3>2, <1>1, ChannelEnds
      <4>3. c * NeedSamples + u <= v
        BY <3>1
      <4> HIDE DEF c, u, v
      <4>4. (c + 1) * NeedSamples = c * NeedSamples + NeedSamples /\ c * NeedSamples \in Nat
            /\ NeedSamples \in Nat
        BY <4>1, Sizes
      <4>5. (c + 1) * NeedSamples + Len(Cropped(p)) <= v
        BY <4>1, <4>2, <4>3, <4>4
      <4>6. Cardinality(Taken(p))' = c + 1 /\ buffers'[p] = Cropped(p)
        BY <3>2, <1>1, <1>12 DEF c
      <4> QED BY <4>5, <4>6 DEF v
    <3>3. CASE p \notin Registered
      BY <3>1, <3>3, <1>1, <1>12
    <3> QED BY <3>2, <3>3
  <2> QED BY <2>1, <1>1 DEF Paid
<1>14. FramesPast'
  <2>1. ASSUME NEW i \in 1..(n + 1), NEW m \in 1..Len(frames'[i].phones)
        PROVE  Audio(frames'[i].channels[m]) \subseteq Audio(delivered[frames'[i].phones[m]])
    <3>1. CASE i \in 1..n
      BY <3>1, <1>6 DEF LoopInv, FramesPast, n
    <3>2. CASE i = n + 1
      <4>1. m \in 1..l /\ frames'[i].phones[m] = streams[m]
            /\ frames'[i].channels[m] = Channel(streams[m])
        BY <3>2, <1>4, <1>6 DEF l
      <4>2. streams[m] \in Registered
        BY <4>1, <1>3
      <4> QED BY <4>1, <4>2, <1>8, EndIsNewest
    <3> QED BY <3>1, <3>2, <1>7
  <2>2. \A i \in 1..Len(frames') : \A m \in 1..Len(frames'[i].phones) :
          Audio(frames'[i].channels[m]) \subseteq Audio(delivered'[frames'[i].phones[m]])
    BY <2>1, <1>1, <1>6
  <2>3. FramesPast' <=>
          \A i \in 1..Len(frames') : \A m \in 1..Len(frames'[i].phones) :
            Audio(frames'[i].channels[m]) \subseteq Audio(delivered'[frames'[i].phones[m]])
    BY Zenon DEF FramesPast, Audio
  <2> QED BY <2>2, <2>3
<1>15. WindowsAdvance'
  <2>1. ASSUME NEW i \in 1..n, NEW m \in 1..Len(frames[i].phones), NEW k \in 1..l,
               frames[i].phones[m] = streams[k]
        PROVE  Later(Channel(streams[k]), frames[i].channels[m])
    <3>1. streams[k] \in Registered
      BY <1>3
    <3>2. Audio(frames[i].channels[m]) \subseteq Audio(delivered[streams[k]])
      BY <2>1 DEF LoopInv, FramesPast, n
    <3>3. Audio(Channel(streams[k])) # {} =>
            \A x \in Audio(delivered[streams[k]]) : \E z \in Audio(Channel(streams[k])) : x <= z
      BY <3>1, <1>8, EndIsNewest
    <3> QED BY <3>2, <3>3 DEF Later
  <2>2. ASSUME NEW i \in 1..(n + 1), NEW j \in 1..(n + 1), i < j,
               NEW m \in 1..Len(frames'[i].phones), NEW k \in 1..Len(frames'[j].phones),
               frames'[i].phones[m] = frames'[j].phones[k]
        PROVE  Later(frames'[j].channels[k], frames'[i].channels[m])
    <3>1. i \in 1..n /\ frames'[i] = frames[i]
      BY <2>2, <1>2, <1>6
    <3>2. CASE j \in 1..n
      <4>1. frames'[j] = frames[j] /\ n = Len(frames) /\ WindowsAdvance
        BY <3>2, <1>6 DEF n, LoopInv
      <4> QED BY <4>1, <3>1, <3>2, <2>2 DEF WindowsAdvance
    <3>3. CASE j = n + 1
      <4>1. k \in 1..l /\ frames'[j].phones[k] = streams[k]
            /\ frames'[j].channels[k] = Channel(streams[k])
        BY <3>3, <1>4, <1>6 DEF l
      <4> QED BY <4>1, <3>1, <2>1, <2>2
    <3> QED BY <3>2, <3>3, <1>7
  <2> QED BY <2>2, <1>6 DEF WindowsAdvance
<1> QED BY <1>1, <1>9, <1>10, <1>11, <1>13, <1>14, <1>15, FanOutKeeps DEF LoopInv

\* The readers of frames() and the steps that emit nothing.
LEMMA ReadersKeep ==
  ASSUME LoopInv, NEW c \in Subscribers, Subscribe(c) \/ Unsubscribe(c) \/ ReadFrame(c)
  PROVE  LoopInv'
<1>1. UNCHANGED <<streams, master, buffers, queues, arrived, heartbeats, delivered, frames_processed, windows_emitted,
                  frames, raised, changes>>
  BY DEF Subscribe, Unsubscribe, ReadFrame
<1>2. /\ inbox \in [Subscribers -> Seq(Nat)] /\ seen \in [Subscribers -> Nat]
      /\ subscribed \in [Subscribers -> BOOLEAN]
  BY DEF LoopInv, LoopTyped, TypeOK
<1>3. InboxesKnown /\ SubscriberInOrder
  BY DEF LoopInv
<1>4. /\ inbox' \in [Subscribers -> Seq(Nat)] /\ seen' \in [Subscribers -> Nat]
      /\ subscribed' \in [Subscribers -> BOOLEAN]
      /\ InboxesKnown' /\ SubscriberInOrder'
  <2>1. CASE Subscribe(c)
    <3>1. /\ subscribed' = [subscribed EXCEPT ![c] = TRUE]
          /\ inbox' = [inbox EXCEPT ![c] = <<>>] /\ seen' = seen /\ frames' = frames
      BY <2>1 DEF Subscribe
    <3>2. Len(<<>>) = 0 /\ 1..Len(<<>>) = {} /\ <<>> \in Seq(Nat)
      OBVIOUS
    <3>3. inbox' \in [Subscribers -> Seq(Nat)] /\ subscribed' \in [Subscribers -> BOOLEAN]
      BY <3>1, <3>2, <1>2
    <3>4. inbox'[c] = <<>> /\ \A d \in Subscribers \ {c} :
                                inbox'[d] = inbox[d] /\ subscribed'[d] = subscribed[d]
      BY <3>1, <1>2
    <3>5. InboxesKnown'
      BY <3>1, <3>2, <3>4, <1>3 DEF InboxesKnown
    <3>6. SubscriberInOrder'
      BY <3>1, <3>2, <3>4, <1>3, DspAssumption DEF SubscriberInOrder
    <3> QED BY <3>1, <3>3, <3>5, <3>6, <1>2
  <2>2. CASE Unsubscribe(c)
    <3>1. /\ subscribed' = [subscribed EXCEPT ![c] = FALSE]
          /\ inbox' = inbox /\ seen' = seen /\ frames' = frames
      BY <2>2 DEF Unsubscribe
    <3>2. subscribed' \in [Subscribers -> BOOLEAN]
      BY <3>1, <1>2
    <3>3. \A d \in Subscribers : subscribed'[d] => subscribed[d]
      BY <3>1, <1>2
    <3>4. InboxesKnown'
      BY <3>1, <3>3, <1>3 DEF InboxesKnown
    <3>5. SubscriberInOrder'
      BY <3>1, <3>3, <1>3 DEF SubscriberInOrder
    <3> QED BY <3>1, <3>2, <3>4, <3>5, <1>2
  <2>3. CASE ReadFrame(c)
    <3> DEFINE q == inbox[c]
               m == Len(q) - 1
    <3>1. /\ subscribed[c] /\ q # <<>> /\ subscribed' = subscribed /\ frames' = frames
          /\ inbox' = [inbox EXCEPT ![c] = Tail(q)] /\ seen' = [seen EXCEPT ![c] = Head(q)]
      BY <2>3 DEF ReadFrame
    <3>2. q \in Seq(Nat)
      BY <1>2
    <3>3. /\ m \in Nat /\ Len(q) = m + 1 /\ Tail(q) \in Seq(Nat) /\ Len(Tail(q)) = m
          /\ \A i \in 1..m : Tail(q)[i] = q[i + 1]
          /\ \A i \in 1..(m + 1) : q[i] \in Nat
      <4>1. Len(q) - 1 \in Nat /\ Len(q) = (Len(q) - 1) + 1 /\ \A i \in 1..Len(q) : q[i] \in Nat
        BY <3>1, <3>2, TailFacts
      <4>2. /\ Tail(q) \in Seq(Nat) /\ Len(Tail(q)) = Len(q) - 1
            /\ \A i \in 1..Len(Tail(q)) : Tail(q)[i] = q[i + 1]
        BY <3>1, <3>2, HeadTailProperties
      <4> QED BY <4>1, <4>2
    <3>4. Head(q) = q[1]
      BY <3>1, <3>2
    <3>5. /\ inbox'[c] = Tail(q) /\ seen'[c] = q[1]
          /\ \A d \in Subscribers \ {c} : inbox'[d] = inbox[d] /\ seen'[d] = seen[d]
      BY <3>1, <3>4, <1>2
    <3>6. /\ \A i \in 1..(m + 1) : q[i] <= Len(frames)
          /\ m + 1 <= SubscriberCap
          /\ \A i, j \in 1..(m + 1) : i < j => q[i] < q[j]
      BY <3>1, <3>3, <1>3 DEF InboxesKnown, SubscriberInOrder
    <3> DEFINE t == Tail(q)
    <3>7. 1 \in 1..(m + 1) /\ \A i \in 1..m : i + 1 \in 1..(m + 1) /\ 1 < i + 1
      BY <3>3
    <3>8. inbox' \in [Subscribers -> Seq(Nat)] /\ seen' \in [Subscribers -> Nat]
      BY <3>1, <3>3, <3>4, <3>7, <1>2
    <3>9. Len(inbox'[c]) = m /\ \A i \in 1..m : inbox'[c][i] = q[i + 1]
      BY <3>3, <3>5
    <3> HIDE DEF q, m
    <3>10. /\ seen'[c] <= Len(frames)
           /\ \A i \in 1..m : inbox'[c][i] <= Len(frames) /\ seen'[c] < inbox'[c][i]
      BY <3>5, <3>6, <3>7, <3>9
    <3>11. ASSUME NEW i \in 1..m, NEW j \in 1..m, i < j
           PROVE  inbox'[c][i] < inbox'[c][j]
      <4>1. i + 1 < j + 1
        BY <3>3, <3>11
      <4> QED BY <4>1, <3>6, <3>7, <3>9
    <3>12. Len(inbox'[c]) <= SubscriberCap
      <4>1. m <= SubscriberCap
        BY <3>3, <3>6, DspAssumption
      <4> QED BY <4>1, <3>9
    <3>13. InboxesKnown'
      <4>1. Len(frames') = Len(frames)
        BY <3>1
      <4> QED BY <4>1, <3>1, <3>5, <3>9, <3>10, <1>3 DEF InboxesKnown
    <3>14. SubscriberInOrder'
      BY <3>1, <3>5, <3>9, <3>10, <3>11, <3>12, <1>3 DEF SubscriberInOrder
    <3> QED BY <3>1, <3>8, <3>13, <3>14, <1>2
  <2> QED BY <2>1, <2>2, <2>3
<1>5. LoopTyped' /\ DroppedIsSilent'
  <2>1. LoopTyped'
    BY <1>1, <1>4 DEF LoopInv, LoopTyped, TypeOK
  <2>2. DroppedIsSilent'
    BY <1>1 DEF LoopInv, DroppedIsSilent, Registered
  <2> QED BY <2>1, <2>2
<1>6. Lines'
  BY <1>1 DEF LoopInv, Lines
<1> QED BY <1>1, <1>4, <1>5, <1>6, FramesKeep DEF LoopInv

LEMMA IdleKeeps ==
  ASSUME LoopInv, StepNotReady \/ StepRaise \/ UNCHANGED vars
  PROVE  LoopInv'
<1>1. /\ UNCHANGED <<streams, master, buffers, queues, arrived, heartbeats, delivered, windows_emitted, frames,
                     subscribed, inbox, seen, changes>>
      /\ frames_processed' \in {frames_processed, frames_processed + 1}
      /\ raised' \in {raised, TRUE}
  BY DEF StepNotReady, StepRaise, Call, vars
<1>2. LoopTyped'
  <2>1. frames_processed' \in Nat
    BY <1>1 DEF LoopInv, LoopTyped, TypeOK
  <2>2. raised' \in BOOLEAN
    BY <1>1 DEF LoopInv, LoopTyped, TypeOK
  <2> QED BY <2>1, <2>2, <1>1 DEF LoopInv, LoopTyped, TypeOK
<1>3. DroppedIsSilent'
  BY <1>1 DEF LoopInv, DroppedIsSilent, Registered
<1>4. Lines'
  BY <1>1 DEF LoopInv, Lines
<1> QED BY <1>1, <1>2, <1>3, <1>4, FramesKeep, InboxesKeep DEF LoopInv

LEMMA LoopSteps == LoopInv /\ [Next]_vars => LoopInv'
<1> SUFFICES ASSUME LoopInv, [Next]_vars
             PROVE  LoopInv'
  OBVIOUS
<1>1. ASSUME NEW p \in Phones, ArriveAudio(p) \/ ArriveHeartbeat(p)
      PROVE  LoopInv'
  BY <1>1, ArrivalKeeps
<1>8. ASSUME NEW p \in Phones, Disconnect(p)
      PROVE  LoopInv'
  BY <1>8, DisconnectKeeps
<1>2. ASSUME NEW p \in Phones, Register(p)
      PROVE  LoopInv'
  BY <1>2, RegisterKeeps
<1>3. ASSUME NEW p \in Phones, DropPhone(p)
      PROVE  LoopInv'
  BY <1>3, DropKeeps
<1>4. CASE PopFromQueues
  BY <1>4, PopKeeps
<1>5. CASE StepEmit
  BY <1>5, EmitKeeps
<1>6. CASE StepNotReady \/ StepRaise \/ UNCHANGED vars
  BY <1>6, IdleKeeps
<1>7. ASSUME NEW c \in Subscribers, Subscribe(c) \/ Unsubscribe(c) \/ ReadFrame(c)
      PROVE  LoopInv'
  BY <1>7, ReadersKeep
<1> QED BY <1>1, <1>2, <1>3, <1>4, <1>5, <1>6, <1>7, <1>8 DEF Next, Step

LEMMA LoopInvariant == Spec => []LoopInv
BY InitHolds, LoopSteps, PTL DEF Spec

-----------------------------------------------------------------------------
\* Every variable of the loop keeps its type; what a buffer or a window holds
\* are silence and samples that were captured, whatever was lost, evicted,
\* popped, dropped and registered (buffer_pcm, aligned_window).
THEOREM TypeCorrect == Spec => []TypeOK
<1>1. LoopInv => TypeOK
  BY DEF LoopInv, LoopTyped
<1> QED BY <1>1, LoopInvariant, PTL

\* The rolling buffer of a phone is the end of what its queue delivered, in
\* order, at most a second of it, and older than every packet that waits,
\* whatever the queue lost (buffer_pcm, pop_from_queues, aligned_window).
THEOREM BuffersAreRuns == Spec => []BufferIsRun
<1>1. ASSUME LoopInv
      PROVE  BufferIsRun
  <2>1. ASSUME NEW p \in Phones
        PROVE  /\ Len(buffers[p]) <= BufferCap
               /\ Len(buffers[p]) <= Len(delivered[p])
               /\ buffers[p] = Newest(delivered[p], Len(buffers[p]))
               /\ Ascending(buffers[p])
               /\ \A i \in 1..Len(delivered[p]), k \in 1..Len(queues[p]) :
                    queues[p][k] # Heartbeat => delivered[p][i] < Head(SamplesOf(queues[p][k]))
    <3> DEFINE b == buffers[p]
               d == delivered[p]
               q == queues[p]
    <3>1. b \in Seq(Nat) /\ d \in Seq(Nat) /\ q \in Seq(Nat) /\ Line(b, q, d, arrived[p])
      BY <1>1, PhoneTypes
    <3>2. Len(b) <= BufferCap /\ Suffix(b, d) /\ Ascending(d) /\ Behind(d, q)
      BY <3>1 DEF Line
    <3> HIDE DEF b, d, q
    <3>3. Len(b) <= Len(d) /\ Ascending(b)
      BY <3>1, <3>2, AscendingSuffix DEF Suffix
    <3>4. b = Newest(d, Len(b))
      <4> DEFINE m == Len(d) - Len(b)
                 t == SubSeq(d, m + 1, Len(d))
      <4>1. /\ m \in 0..Len(d) /\ Len(d) - m = Len(b)
            /\ \A i \in 1..Len(b) : b[i] = d[m + i]
        BY <3>1, <3>2, SuffixIndex
      <4>2. t \in Seq(Nat) /\ Len(t) = Len(b) /\ \A i \in 1..Len(b) : t[i] = d[m + i]
        BY <4>1, <3>1, SuffixFacts
      <4>3. Newest(d, Len(b)) = t
        BY DEF Newest
      <4> HIDE DEF t, m
      <4>4. b = t
        BY <4>1, <4>2, <3>1, SeqEqual
      <4> QED BY <4>3, <4>4
    <3>5. ASSUME NEW i \in 1..Len(d), NEW k \in 1..Len(q), q[k] # 0
          PROVE  d[i] < Head(SamplesOf(q[k]))
      <4> DEFINE z == (q[k] - 1) * FrameLen
      <4>1. d[i] \in Nat /\ d[i] <= z /\ q[k] \in Nat
        BY <3>1, <3>2, <3>5 DEF Behind
      <4>2. z \in Nat
        <5>1. q[k] - 1 \in Nat
          BY <4>1, <3>5
        <5> QED BY <5>1, Sizes
      <4>3. Head(SamplesOf(q[k])) = z + 1
        <5>1. /\ SamplesOf(q[k]) \in Seq(Nat) /\ Len(SamplesOf(q[k])) = FrameLen
              /\ \A l \in 1..FrameLen : SamplesOf(q[k])[l] = z + l
          BY <3>5, <4>1, PacketSamples
        <5>2. 1 \in 1..FrameLen
          BY Sizes
        <5> HIDE DEF z
        <5>3. SamplesOf(q[k])[1] = z + 1
          BY <5>1, <5>2
        <5>4. SamplesOf(q[k]) # <<>>
          BY <5>1, Sizes
        <5> QED BY <5>1, <5>3, <5>4
      <4> HIDE DEF z
      <4> QED BY <4>1, <4>2, <4>3
    <3> QED BY <3>2, <3>3, <3>4, <3>5 DEF b, d, q, Heartbeat
  <2> QED BY <2>1 DEF BufferIsRun
<1> QED BY <1>1, LoopInvariant, PTL

\* A phone the aligner does not know leaves nothing in the loop, so that one
\* that is registered again starts from an empty buffer (drop_phone,
\* pop_from_queues).
THEOREM NothingLeftBehind == Spec => []DroppedIsSilent
<1>1. LoopInv => DroppedIsSilent
  BY DEF LoopInv
<1> QED BY <1>1, LoopInvariant, PTL

\* The samples of every window were delivered by the phone's queue, each paid
\* for one window only (aligned_window, pop_from_queues).
THEOREM WindowsArePaid == Spec => []WindowsPaidFor
<1>1. ASSUME LoopInv
      PROVE  WindowsPaidFor
  BY <1>1 DEF LoopInv, Paid, Taken, WindowsPaidFor
<1> QED BY <1>1, LoopInvariant, PTL

\* A phone's windows never go back in time, although a phone may be dropped
\* and registered between them (aligned_window, drop_phone).
THEOREM WindowsGoForward == Spec => []WindowsAdvance
<1>1. LoopInv => WindowsAdvance
  BY DEF LoopInv
<1> QED BY <1>1, LoopInvariant, PTL

\* A subscriber reads frames in the order of step() and none twice, from a
\* queue that never exceeds its size (frames).
THEOREM ReadersInOrder == Spec => []SubscriberInOrder
<1>1. LoopInv => SubscriberInOrder
  BY DEF LoopInv
<1> QED BY <1>1, LoopInvariant, PTL

=============================================================================
