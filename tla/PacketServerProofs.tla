------------------------- MODULE PacketServerProofs -------------------------
(***************************************************************************)
(* Theorems about PacketServer for every set of sockets and phones, every  *)
(* queue length, rate limit and bound.  The strengthening is small: what a *)
(* phone's consumer and its books know is back at its initial value while  *)
(* the phone has no connection (Fresh), which is what lets a connection be *)
(* created anew by any packet.                                             *)
(***************************************************************************)
EXTENDS PacketServer, TLAPS, FiniteSetTheorems, SequenceTheorems

-----------------------------------------------------------------------------
(* The operators of a connection. *)

\* A packet_times is finite, so the number of its stale entries is a number.
LEMMA StaleCount ==
  ASSUME NEW times \in Seq(Nat), NEW t \in Nat
  PROVE  Cardinality(StalePrefix(times, t)) \in Nat
<1>1. Len(times) \in Nat
  OBVIOUS
<1>2. IsFiniteSet(1..Len(times))
  BY <1>1, FS_Interval
<1>3. StalePrefix(times, t) \in SUBSET (1..Len(times))
  BY DEF StalePrefix
<1>4. IsFiniteSet(StalePrefix(times, t))
  BY <1>2, <1>3, FS_Subset
<1> QED BY <1>4, FS_CardinalityType

\* Noting a packet for the rate limit touches nothing but packet_times.
LEMMA NotePacketFields ==
  ASSUME NEW c \in Conn, NEW t \in Nat
  PROVE  /\ NotePacket(c, t) \in Conn
         /\ NotePacket(c, t).queue = c.queue
         /\ NotePacket(c, t).sequence = c.sequence
         /\ NotePacket(c, t).dropped_frames = c.dropped_frames
<1> DEFINE times == Append(c.packet_times, t)
           k == Cardinality(StalePrefix(times, t)) + 1
           kept == SubSeq(times, k, Len(times))
<1>1. times \in Seq(Nat)
  BY AppendProperties DEF Conn
<1>2. k \in Nat /\ k >= 1
  <2>1. Cardinality(StalePrefix(times, t)) \in Nat
    BY <1>1, StaleCount
  <2> HIDE DEF times
  <2> QED BY <2>1
<1>3. kept \in Seq(Nat)
  <2>1. Len(times) \in Nat /\ \A i \in k..Len(times) : times[i] \in Nat
    BY <1>1, <1>2
  <2> HIDE DEF k, times
  <2> QED BY <1>2, <2>1, SubSeqProperties
<1>4. NotePacket(c, t) = [c EXCEPT !.packet_times = kept]
  BY DEF NotePacket
<1> HIDE DEF kept
<1> QED BY <1>3, <1>4 DEF Conn

\* The connection _on_packet creates is well typed.
LEMMA NewConnType == NewConn \in Conn
  BY DEF NewConn, Conn

Increasing(s) == \A i, j \in 1..Len(s) : i < j => s[i] < s[j]

\* Putting a packet newer than all the queued ones keeps the queue increasing
\* and within its cap, and makes that packet the last; nothing else gets in.
LEMMA PutDroppingOldestOrdered ==
  ASSUME NEW s \in Seq(Sequence), NEW q \in Sequence,
         Len(s) <= QueueCap, Increasing(s), \A i \in 1..Len(s) : s[i] < q,
         NEW r, r = PutDroppingOldest(s, q)
  PROVE  /\ r \in Seq(Sequence) /\ r # <<>> /\ Len(r) <= QueueCap
         /\ Increasing(r)
         /\ r[Len(r)] = q
         /\ \A i \in 1..Len(r) : r[i] = q \/ \E j \in 1..Len(s) : r[i] = s[j]
<1> USE ServerAssumption
<1>1. CASE Len(s) < QueueCap
  <2>1. r = Append(s, q)
    BY <1>1 DEF PutDroppingOldest
  <2>2. /\ r \in Seq(Sequence) /\ r # <<>> /\ Len(r) = Len(s) + 1
        /\ \A i \in 1..Len(s) : r[i] = s[i]
        /\ r[Len(s) + 1] = q
    BY <2>1, AppendProperties
  <2>3. Increasing(r)
    <3>1. ASSUME NEW i \in 1..Len(r), NEW j \in 1..Len(r), i < j
          PROVE  r[i] < r[j]
      <4>1. i \in 1..Len(s)
        BY <2>2, <3>1
      <4>2. CASE j \in 1..Len(s)
        BY <2>2, <3>1, <4>1, <4>2 DEF Increasing
      <4>3. CASE j = Len(s) + 1
        BY <2>2, <4>1, <4>3
      <4> QED BY <2>2, <4>2, <4>3
    <3> QED BY <3>1 DEF Increasing
  <2>4. \A i \in 1..Len(r) : r[i] = q \/ \E j \in 1..Len(s) : r[i] = s[j]
    BY <2>2
  <2> QED BY <1>1, <2>2, <2>3, <2>4
<1>2. CASE ~(Len(s) < QueueCap)
  <2>1. r = Append(Tail(s), q)
    BY <1>2 DEF PutDroppingOldest
  <2>2. s # <<>>
    BY <1>2
  <2> DEFINE u == Tail(s)
  <2>3. /\ u \in Seq(Sequence) /\ Len(u) = Len(s) - 1
        /\ \A i \in 1..Len(u) : u[i] = s[i + 1]
    BY <2>2, HeadTailProperties
  <2> HIDE DEF u
  <2>4. r = Append(u, q)
    BY <2>1 DEF u
  <2>5. Increasing(u) /\ \A i \in 1..Len(u) : u[i] < q
    <3>1. \A i \in 1..Len(u) : i + 1 \in 1..Len(s) /\ u[i] = s[i + 1]
      BY <2>3
    <3>2. ASSUME NEW i \in 1..Len(u), NEW j \in 1..Len(u), i < j
          PROVE  u[i] < u[j]
      <4>1. i + 1 < j + 1
        BY <3>2
      <4> QED BY <3>1, <4>1 DEF Increasing
    <3>3. ASSUME NEW i \in 1..Len(u) PROVE u[i] < q
      BY <3>1
    <3> QED BY <3>2, <3>3 DEF Increasing
  <2>6. /\ r \in Seq(Sequence) /\ r # <<>> /\ Len(r) = Len(u) + 1
        /\ \A i \in 1..Len(u) : r[i] = u[i]
        /\ r[Len(u) + 1] = q
    BY <2>3, <2>4, AppendProperties
  <2>7. Increasing(r)
    <3>1. ASSUME NEW i \in 1..Len(r), NEW j \in 1..Len(r), i < j
          PROVE  r[i] < r[j]
      <4>1. i \in 1..Len(u)
        BY <2>3, <2>6, <3>1
      <4>2. CASE j \in 1..Len(u)
        BY <2>5, <2>6, <3>1, <4>1, <4>2 DEF Increasing
      <4>3. CASE j = Len(u) + 1
        BY <2>5, <2>6, <4>1, <4>3
      <4> QED BY <2>3, <2>6, <4>2, <4>3
    <3> QED BY <3>1 DEF Increasing
  <2> QED BY <1>2, <2>3, <2>6, <2>7
<1> QED BY <1>1, <1>2

-----------------------------------------------------------------------------
(* The inductive invariant: the two per-connection invariants together with *)
(* what they become once the connection is gone.                           *)

Fresh == \A p \in Phones \ Connected : taken[p] = -1 /\ acceptedAt[p] = <<>>

IInv == TypeOK /\ QueueInOrder /\ GapsAccounted /\ Fresh

\* What _on_packet looks up is well typed and, packet_times apart, is the known
\* connection or a new one.
LEMMA LookupFields ==
  ASSUME TypeOK, NEW p \in Phones
  PROVE  /\ Lookup(p) \in Conn
         /\ p \in Connected =>
              /\ Lookup(p).queue = connections[p].queue
              /\ Lookup(p).sequence = connections[p].sequence
              /\ Lookup(p).dropped_frames = connections[p].dropped_frames
         /\ p \notin Connected =>
              /\ Lookup(p).queue = <<>>
              /\ Lookup(p).sequence = -1
              /\ Lookup(p).dropped_frames = 0
<1> DEFINE c == IF connections[p] = NoConn THEN NewConn ELSE connections[p]
<1>1. c \in Conn /\ now \in Nat
  BY NewConnType DEF TypeOK
<1>2. Lookup(p) = NotePacket(c, now)
  BY DEF Lookup
<1>3. /\ NotePacket(c, now) \in Conn
      /\ NotePacket(c, now).queue = c.queue
      /\ NotePacket(c, now).sequence = c.sequence
      /\ NotePacket(c, now).dropped_frames = c.dropped_frames
  <2> HIDE DEF c
  <2> QED BY <1>1, NotePacketFields
<1> QED BY <1>2, <1>3 DEF Connected, NewConn

\* The connection _on_packet looks up satisfies the invariants of a connection
\* whether it is known or new.
LEMMA LookupOrdered ==
  ASSUME IInv, NEW p \in Phones
  PROVE  Ordered(Lookup(p), taken[p]) /\ Accounted(Lookup(p), acceptedAt[p])
<1>1. TypeOK
  BY DEF IInv
<1>2. CASE p \in Connected
  <2>1. Ordered(connections[p], taken[p]) /\ Accounted(connections[p], acceptedAt[p])
    BY <1>2 DEF IInv, QueueInOrder, GapsAccounted
  <2> QED BY <1>1, <1>2, <2>1, LookupFields DEF Ordered, Accounted
<1>3. CASE p \notin Connected
  <2>1. taken[p] = -1 /\ acceptedAt[p] = <<>>
    BY <1>3 DEF IInv, Fresh
  <2>2. /\ Lookup(p).queue = <<>>
        /\ Lookup(p).sequence = -1
        /\ Lookup(p).dropped_frames = 0
    BY <1>1, <1>3, LookupFields
  <2> QED BY <2>1, <2>2, ServerAssumption DEF Ordered, Accounted
<1> QED BY <1>2, <1>3

\* Accepting a packet newer than the connection's last one keeps them too.
LEMMA EnqueuedOrdered ==
  ASSUME NEW c \in Conn, NEW t \in Int, NEW a \in Seq(Nat), NEW time \in Nat,
         NEW q \in Sequence, q > c.sequence, Ordered(c, t), Accounted(c, a)
  PROVE  /\ Enqueued(c, q) \in Conn
         /\ Ordered(Enqueued(c, q), t)
         /\ Accounted(Enqueued(c, q), Append(a, time))
<1> DEFINE r == PutDroppingOldest(c.queue, q)
           e == Enqueued(c, q)
<1>1. /\ c.queue \in Seq(Sequence) /\ c.sequence \in Int /\ c.dropped_frames \in Int
      /\ c = [queue |-> c.queue, packet_times |-> c.packet_times,
              sequence |-> c.sequence, dropped_frames |-> c.dropped_frames]
      /\ c.packet_times \in Seq(Nat)
  BY DEF Conn
<1>2. q \in Int
  BY DEF Sequence
<1>3. /\ Len(c.queue) <= QueueCap
      /\ Increasing(c.queue)
      /\ \A i \in 1..Len(c.queue) : t < c.queue[i] /\ c.queue[i] <= c.sequence
      /\ t <= c.sequence
  BY DEF Ordered, Increasing
<1>4. \A i \in 1..Len(c.queue) : c.queue[i] < q /\ c.queue[i] \in Int
  <2>1. \A i \in 1..Len(c.queue) : c.queue[i] \in Sequence
    BY <1>1
  <2>2. Sequence \subseteq Int
    BY DEF Sequence
  <2> QED BY <1>1, <1>2, <1>3, <2>1, <2>2
<1>e. /\ r = PutDroppingOldest(c.queue, q)
      /\ e = [c EXCEPT !.queue = r, !.sequence = q,
                       !.dropped_frames = @ + (q - c.sequence - 1)]
  BY DEF Enqueued, Gap
<1> HIDE DEF r, e
<1>5. /\ r \in Seq(Sequence) /\ r # <<>> /\ Len(r) <= QueueCap
      /\ Increasing(r)
      /\ r[Len(r)] = q
      /\ \A i \in 1..Len(r) :
           r[i] = q \/ \E j \in 1..Len(c.queue) : r[i] = c.queue[j]
  <2> DEFINE s == c.queue
  <2>1. /\ s \in Seq(Sequence) /\ Len(s) <= QueueCap /\ Increasing(s)
        /\ \A i \in 1..Len(s) : s[i] < q
        /\ r = PutDroppingOldest(s, q)
    BY <1>1, <1>3, <1>4, <1>e
  <2> HIDE DEF s
  <2>2. /\ r \in Seq(Sequence) /\ r # <<>> /\ Len(r) <= QueueCap
        /\ Increasing(r)
        /\ r[Len(r)] = q
        /\ \A i \in 1..Len(r) : r[i] = q \/ \E j \in 1..Len(s) : r[i] = s[j]
    BY <2>1, PutDroppingOldestOrdered
  <2> QED BY <2>2 DEF s
<1>6. /\ e.queue = r /\ e.sequence = q
      /\ e.packet_times = c.packet_times
      /\ e.dropped_frames = c.dropped_frames + (q - c.sequence - 1)
      /\ e \in Conn
  <2> DEFINE d == c.dropped_frames + (q - c.sequence - 1)
  <2>1. d \in Int
    BY <1>1, <1>2
  <2>2. e = [c EXCEPT !.queue = r, !.sequence = q, !.dropped_frames = d]
    BY <1>e
  <2> HIDE DEF d
  <2>3. e = [queue |-> r, packet_times |-> c.packet_times,
             sequence |-> q, dropped_frames |-> d]
    BY <1>1, <2>2 DEF Conn
  <2>4. e \in Conn
    BY <1>1, <1>2, <1>5, <2>1, <2>3 DEF Conn
  <2> QED BY <2>3, <2>4 DEF d
<1>7. \A i \in 1..Len(r) : t < r[i] /\ r[i] <= q
  <2> SUFFICES ASSUME NEW i \in 1..Len(r) PROVE t < r[i] /\ r[i] <= q
    OBVIOUS
  <2>1. CASE r[i] = q
    BY <1>1, <1>2, <1>3, <2>1
  <2>2. CASE \E j \in 1..Len(c.queue) : r[i] = c.queue[j]
    <3>1. PICK j \in 1..Len(c.queue) : r[i] = c.queue[j]
      BY <2>2
    <3>2. t < c.queue[j] /\ c.queue[j] < q /\ c.queue[j] \in Int
      BY <1>3, <1>4
    <3> QED BY <1>2, <3>1, <3>2
  <2> QED BY <1>5, <2>1, <2>2
<1>8. Ordered(e, t)
  <2>1. t <= q
    BY <1>1, <1>2, <1>3
  <2>2. \A i, j \in 1..Len(r) : i < j => r[i] < r[j]
    BY <1>5 DEF Increasing
  <2> QED BY <1>5, <1>6, <1>7, <2>1, <2>2 DEF Ordered
<1>9. Len(Append(a, time)) = Len(a) + 1
  BY AppendProperties
<1>10. Accounted(e, Append(a, time))
  <2> DEFINE n == Len(a)
             d == c.dropped_frames
             top == c.sequence
  <2>1. n \in Int /\ d \in Int /\ top \in Int /\ n + d = top + 1
    BY <1>1 DEF Accounted
  <2>2. /\ Len(Append(a, time)) = n + 1
        /\ e.sequence = q /\ e.dropped_frames = d + (q - top - 1)
    BY <1>6, <1>9
  <2> HIDE DEF n, d, top
  <2>3. n + 1 + (d + (q - top - 1)) = q + 1
    BY <1>2, <2>1
  <2> QED BY <2>2, <2>3 DEF Accounted
<1> QED BY <1>6, <1>8, <1>10 DEF e

-----------------------------------------------------------------------------
(* The steps. *)

\* An action that gives one phone a well-formed connection and leaves the
\* others' alone keeps the invariants of every phone.
LEMMA OneConnectionMoves ==
  ASSUME IInv, NEW p \in Phones, NEW c \in Conn,
         connections' = [connections EXCEPT ![p] = c],
         \A r \in Phones \ {p} : taken'[r] = taken[r] /\ acceptedAt'[r] = acceptedAt[r],
         Ordered(c, taken'[p]), Accounted(c, acceptedAt'[p])
  PROVE  /\ connections' \in [Phones -> Conn \cup {NoConn}]
         /\ QueueInOrder' /\ GapsAccounted' /\ Fresh'
<1>1. /\ connections \in [Phones -> Conn \cup {NoConn}]
      /\ QueueInOrder /\ GapsAccounted /\ Fresh
  BY DEF IInv, TypeOK
<1>2. connections' \in [Phones -> Conn \cup {NoConn}]
  BY <1>1
<1>3. connections'[p] = c /\ \A r \in Phones \ {p} : connections'[r] = connections[r]
  BY <1>1
<1>4. Connected' = Connected \cup {p}
  BY <1>3, NoConnAssumption DEF Connected
<1>5. QueueInOrder'
  BY <1>1, <1>3, <1>4 DEF QueueInOrder, Connected
<1>6. GapsAccounted'
  BY <1>1, <1>3, <1>4 DEF GapsAccounted, Connected
<1>7. Fresh'
  BY <1>1, <1>4 DEF Fresh
<1> QED BY <1>2, <1>5, <1>6, <1>7

\* There are finitely many phones, so the gauge counts what it should.
LEMMA ConnectedFinite ==
  ASSUME NEW S \in SUBSET Phones
  PROVE  IsFiniteSet(S) /\ Cardinality(S) \in Nat
  BY ServerAssumption, FS_Subset, FS_CardinalityType

\* The counters stay numbers whatever a packet adds to them.
LEMMA IncType ==
  ASSUME NEW m \in [Metrics -> Nat], NEW name \in Metrics, NEW n \in Nat
  PROVE  inc(m, name, n) \in [Metrics -> Nat] /\ set_gauge(m, name, n) \in [Metrics -> Nat]
<1>1. m[name] + n \in Nat
  OBVIOUS
<1> QED BY <1>1 DEF inc, set_gauge

\* What every valid packet does to the counters leaves them well typed.
LEMMA CountedType ==
  ASSUME TypeOK, NEW p \in Phones
  PROVE  Counted(p) \in [Metrics -> Nat]
<1> DEFINE counted == inc(metrics, "received", 1)
           n == Cardinality(Connected \cup {p})
<1>1. "received" \in Metrics /\ "active" \in Metrics
  BY DEF Metrics
<1>2. counted \in [Metrics -> Nat]
  BY <1>1, IncType DEF TypeOK
<1>3. n \in Nat
  <2>1. Connected \cup {p} \in SUBSET Phones
    BY DEF Connected
  <2> QED BY <2>1, ConnectedFinite
<1>4. Counted(p) \in {counted, set_gauge(counted, "active", n)}
  BY DEF Counted
<1> HIDE DEF counted, n
<1> QED BY <1>1, <1>2, <1>3, <1>4, IncType

\* Storing a connection registers its phone with the socket, well typed.
LEMMA StoreType ==
  ASSUME TypeOK, NEW s \in Sockets, NEW p \in Phones, NEW c, Store(s, p, c)
  PROVE  /\ connections' = [connections EXCEPT ![p] = c]
         /\ registered' \in [Sockets -> Seq(Phones)]
         /\ socket' = socket /\ now' = now
<1>1. registered \in [Sockets -> Seq(Phones)]
  BY DEF TypeOK
<1>2. Append(registered[s], p) \in Seq(Phones)
  BY <1>1, AppendProperties
<1> QED BY <1>1, <1>2 DEF Store

\* The invariant holds when the server starts.
LEMMA InitIInv == Init => IInv
<1> SUFFICES ASSUME Init PROVE IInv
  OBVIOUS
<1>1. TypeOK
  BY DEF Init, TypeOK
<1>2. Connected = {}
  BY DEF Init, Connected
<1>3. QueueInOrder /\ GapsAccounted /\ Fresh
  BY <1>2 DEF Init, QueueInOrder, GapsAccounted, Fresh
<1> QED BY <1>1, <1>3 DEF IInv

\* Every step of the server, the clock and the consumer keeps the invariant.
LEMMA NextIInv == IInv /\ [Next]_vars => IInv'
<1> SUFFICES ASSUME IInv, [Next]_vars PROVE IInv'
  OBVIOUS
<1>t. TypeOK
  BY DEF IInv
<1>m. /\ metrics \in [Metrics -> Nat]
      /\ \A p \in Phones : Counted(p) \in [Metrics -> Nat]
      /\ \A m \in [Metrics -> Nat], n \in Nat :
           /\ \A name \in {"received", "rejected", "crc", "decoded", "dropped"} :
                inc(m, name, n) \in [Metrics -> Nat]
           /\ set_gauge(m, "active", n) \in [Metrics -> Nat]
  <2>1. {"received", "rejected", "crc", "decoded", "dropped", "active"} \subseteq Metrics
    BY DEF Metrics
  <2>2. metrics \in [Metrics -> Nat]
    BY <1>t DEF TypeOK
  <2> QED BY <1>t, <2>1, <2>2, CountedType, IncType
<1>same. ASSUME UNCHANGED <<connections, taken, acceptedAt>>
         PROVE  QueueInOrder' /\ GapsAccounted' /\ Fresh'
  BY <1>same DEF IInv, QueueInOrder, GapsAccounted, Fresh, Connected
<1>1. ASSUME NEW s \in Sockets, Connect(s) PROVE IInv'
  <2>1. TypeOK'
    BY <1>t, <1>1 DEF TypeOK, Connect, history
  <2> QED BY <1>1, <1>same, <2>1 DEF IInv, Connect, history
<1>2. ASSUME NEW s \in Sockets, RejectSize(s) PROVE IInv'
  <2>0. metrics' \in [Metrics -> Nat]
    BY <1>m, <1>2 DEF RejectSize
  <2>1. TypeOK'
    BY <1>t, <1>2, <2>0 DEF TypeOK, RejectSize, history
  <2> QED BY <1>2, <1>same, <2>1 DEF IInv, RejectSize, history
<1>3. ASSUME NEW s \in Sockets, RejectMalformed(s) PROVE IInv'
  <2>0. metrics' \in [Metrics -> Nat]
    BY <1>m, <1>3 DEF RejectMalformed
  <2>1. TypeOK'
    BY <1>t, <1>3, <2>0 DEF TypeOK, RejectMalformed, history
  <2> QED BY <1>3, <1>same, <2>1 DEF IInv, RejectMalformed, history
<1>l. ASSUME NEW p \in Phones
      PROVE  /\ Lookup(p) \in Conn
             /\ Ordered(Lookup(p), taken[p]) /\ Accounted(Lookup(p), acceptedAt[p])
  BY <1>t, LookupFields, LookupOrdered
<1>4. ASSUME NEW s \in Sockets, NEW p \in Phones, RateLimited(s, p) PROVE IInv'
  <2>1. /\ Store(s, p, Lookup(p))
        /\ UNCHANGED <<acceptedAt, taken, silent>>
        /\ metrics' = inc(Counted(p), "rejected", 1)
    BY <1>4 DEF RateLimited, history
  <2>2. /\ connections' = [connections EXCEPT ![p] = Lookup(p)]
        /\ registered' \in [Sockets -> Seq(Phones)]
        /\ socket' = socket /\ now' = now
    BY <1>t, <2>1, StoreType
  <2>3. /\ connections' \in [Phones -> Conn \cup {NoConn}]
        /\ QueueInOrder' /\ GapsAccounted' /\ Fresh'
    BY <1>l, <2>1, <2>2, OneConnectionMoves
  <2>4. metrics' \in [Metrics -> Nat]
    BY <1>m, <2>1
  <2>5. TypeOK'
    BY <1>t, <2>1, <2>2, <2>3, <2>4 DEF TypeOK
  <2> QED BY <2>3, <2>5 DEF IInv
<1>5. ASSUME NEW s \in Sockets, NEW p \in Phones, NEW q \in Sequence,
             Duplicate(s, p, q)
      PROVE  IInv'
  <2>1. /\ Store(s, p, Lookup(p))
        /\ UNCHANGED <<acceptedAt, taken>> /\ silent' = silent + 1
        /\ metrics' = Counted(p)
    BY <1>5 DEF Duplicate
  <2>2. /\ connections' = [connections EXCEPT ![p] = Lookup(p)]
        /\ registered' \in [Sockets -> Seq(Phones)]
        /\ socket' = socket /\ now' = now
    BY <1>t, <2>1, StoreType
  <2>3. /\ connections' \in [Phones -> Conn \cup {NoConn}]
        /\ QueueInOrder' /\ GapsAccounted' /\ Fresh'
    BY <1>l, <2>1, <2>2, OneConnectionMoves
  <2>4. metrics' \in [Metrics -> Nat]
    BY <1>m, <2>1
  <2>5. TypeOK'
    BY <1>t, <2>1, <2>2, <2>3, <2>4 DEF TypeOK
  <2> QED BY <2>3, <2>5 DEF IInv
<1>6. ASSUME NEW s \in Sockets, NEW p \in Phones, NEW q \in Sequence,
             Accept(s, p, q)
      PROVE  IInv'
  <2> DEFINE e == Enqueued(Lookup(p), q)
  <2>1. /\ Store(s, p, e)
        /\ UNCHANGED <<taken, silent>>
        /\ acceptedAt' = [acceptedAt EXCEPT ![p] = Append(@, now)]
        /\ metrics' = inc(inc(Counted(p), "dropped", Gap(Lookup(p), q)), "decoded", 1)
        /\ q > Lookup(p).sequence
    BY <1>6 DEF Accept
  <2>2. /\ taken[p] \in Int /\ acceptedAt[p] \in Seq(Nat) /\ now \in Nat
        /\ acceptedAt \in [Phones -> Seq(Nat)]
    BY <1>t DEF TypeOK
  <2>3. /\ e \in Conn /\ Ordered(e, taken[p])
        /\ Accounted(e, Append(acceptedAt[p], now))
    BY <1>l, <2>1, <2>2, EnqueuedOrdered
  <2>4. Append(acceptedAt[p], now) \in Seq(Nat)
    BY <2>2, AppendProperties
  <2>5. /\ acceptedAt'[p] = Append(acceptedAt[p], now)
        /\ acceptedAt' \in [Phones -> Seq(Nat)]
        /\ \A r \in Phones \ {p} : acceptedAt'[r] = acceptedAt[r]
    BY <2>1, <2>2, <2>4
  <2>6. Gap(Lookup(p), q) \in Nat
    BY <1>l, <2>1 DEF Gap, Conn, Sequence
  <2> HIDE DEF e
  <2>7. /\ connections' = [connections EXCEPT ![p] = e]
        /\ registered' \in [Sockets -> Seq(Phones)]
        /\ socket' = socket /\ now' = now
    BY <1>t, <2>1, StoreType
  <2>8. /\ connections' \in [Phones -> Conn \cup {NoConn}]
        /\ QueueInOrder' /\ GapsAccounted' /\ Fresh'
    BY <2>1, <2>3, <2>5, <2>7, OneConnectionMoves
  <2>9. metrics' \in [Metrics -> Nat]
    BY <1>m, <2>1, <2>6
  <2>10. TypeOK'
    BY <1>t, <2>1, <2>5, <2>7, <2>8, <2>9 DEF TypeOK
  <2> QED BY <2>8, <2>10 DEF IInv
<1>7. ASSUME NEW s \in Sockets, Close(s) PROVE IInv'
  <2> DEFINE n == Len(registered[s])
             pid == registered[s][n]
  <2>1. /\ socket' = [socket EXCEPT ![s] = "closed"]
        /\ UNCHANGED <<registered, now, silent>>
    BY <1>7 DEF Close
  <2>2. CASE n > 0 /\ connections[pid] # NoConn
    <3>1. pid \in Phones
      BY <1>t, <2>2 DEF TypeOK
    <3>2. /\ connections' = [connections EXCEPT ![pid] = NoConn]
          /\ metrics' = set_gauge(metrics, "active", Cardinality(Connected \ {pid}))
          /\ acceptedAt' = [acceptedAt EXCEPT ![pid] = <<>>]
          /\ taken' = [taken EXCEPT ![pid] = -1]
      BY <1>7, <2>2 DEF Close
    <3> HIDE DEF pid, n
    <3>3. Cardinality(Connected \ {pid}) \in Nat
      <4>1. Connected \ {pid} \in SUBSET Phones
        BY DEF Connected
      <4> QED BY <4>1, ConnectedFinite
    <3>m. metrics' \in [Metrics -> Nat]
      BY <1>m, <3>2, <3>3
    <3>t. /\ connections' \in [Phones -> Conn \cup {NoConn}]
          /\ acceptedAt' \in [Phones -> Seq(Nat)]
          /\ taken' \in [Phones -> Int]
      BY <1>t, <3>1, <3>2 DEF TypeOK
    <3>4. TypeOK'
      BY <1>t, <2>1, <3>m, <3>t DEF TypeOK
    <3>5. /\ \A r \in Phones \ {pid} : /\ connections'[r] = connections[r]
                                       /\ acceptedAt'[r] = acceptedAt[r]
                                       /\ taken'[r] = taken[r]
          /\ connections'[pid] = NoConn
          /\ acceptedAt'[pid] = <<>> /\ taken'[pid] = -1
      BY <1>t, <3>1, <3>2 DEF TypeOK
    <3>6. QueueInOrder' /\ GapsAccounted' /\ Fresh'
      BY <3>5 DEF IInv, QueueInOrder, GapsAccounted, Fresh, Connected
    <3> QED BY <3>4, <3>6 DEF IInv
  <2>3. CASE ~(n > 0 /\ connections[pid] # NoConn)
    <3>1. UNCHANGED <<connections, metrics, acceptedAt, taken>>
      BY <1>7, <2>3 DEF Close
    <3>2. TypeOK'
      BY <1>t, <2>1, <3>1 DEF TypeOK
    <3> QED BY <1>same, <3>1, <3>2 DEF IInv
  <2> QED BY <2>2, <2>3
<1>8. ASSUME NEW p \in Phones, Take(p) PROVE IInv'
  <2> DEFINE c == connections[p]
             d == [c EXCEPT !.queue = Tail(c.queue)]
  <2>1. /\ p \in Connected /\ c \in Conn /\ c.queue # <<>>
        /\ connections' = [connections EXCEPT ![p] = d]
        /\ taken' = [taken EXCEPT ![p] = Head(c.queue)]
        /\ UNCHANGED <<socket, registered, metrics, now, acceptedAt, silent>>
    BY <1>t, <1>8 DEF Take, TypeOK, Connected
  <2>2. Ordered(c, taken[p]) /\ Accounted(c, acceptedAt[p])
    BY <2>1 DEF IInv, QueueInOrder, GapsAccounted
  <2>3. /\ c.queue \in Seq(Sequence) /\ c.packet_times \in Seq(Nat)
        /\ c.sequence \in Int /\ c.dropped_frames \in Int
    BY <2>1 DEF Conn
  <2> DEFINE u == Tail(c.queue)
  <2>4. /\ u \in Seq(Sequence) /\ Len(u) = Len(c.queue) - 1
        /\ \A i \in 1..Len(u) : u[i] = c.queue[i + 1]
        /\ Head(c.queue) = c.queue[1]
        /\ Head(c.queue) \in Sequence
    BY <2>1, <2>3, HeadTailProperties
  <2>5. /\ d \in Conn /\ d.queue = u /\ d.sequence = c.sequence
        /\ d.dropped_frames = c.dropped_frames
    BY <2>1, <2>4 DEF Conn
  <2>6. taken'[p] = c.queue[1] /\ taken' \in [Phones -> Int]
        /\ \A r \in Phones \ {p} : taken'[r] = taken[r]
    <3>1. Head(c.queue) \in Int
      BY <2>4 DEF Sequence
    <3> QED BY <1>t, <2>1, <2>4, <3>1 DEF TypeOK
  <2> HIDE DEF c, d, u
  <2>7. \A i \in 1..Len(u) : i + 1 \in 1..Len(c.queue) /\ u[i] = c.queue[i + 1]
    BY <2>3, <2>4
  <2>8. Ordered(d, taken'[p])
    <3>1. 1 \in 1..Len(c.queue) /\ Len(u) <= QueueCap
      BY <2>1, <2>2, <2>3, <2>4, ServerAssumption DEF Ordered
    <3>2. ASSUME NEW i \in 1..Len(u), NEW j \in 1..Len(u), i < j
          PROVE  u[i] < u[j]
      <4>1. i + 1 < j + 1
        BY <3>2
      <4> QED BY <2>2, <2>7, <4>1 DEF Ordered
    <3>3. ASSUME NEW i \in 1..Len(u)
          PROVE  c.queue[1] < u[i] /\ u[i] <= c.sequence
      <4>1. 1 < i + 1
        OBVIOUS
      <4> QED BY <2>2, <2>7, <3>1, <4>1 DEF Ordered
    <3>4. u # <<>> => u[Len(u)] = c.sequence
      <4> SUFFICES ASSUME u # <<>> PROVE u[Len(u)] = c.sequence
        OBVIOUS
      <4>1. Len(u) \in 1..Len(u) /\ Len(u) + 1 = Len(c.queue)
        BY <2>3, <2>4
      <4> QED BY <2>1, <2>2, <2>7, <4>1 DEF Ordered
    <3>5. c.queue[1] <= c.sequence
      BY <2>2, <3>1 DEF Ordered
    <3> QED BY <2>5, <2>6, <3>1, <3>2, <3>3, <3>4, <3>5 DEF Ordered
  <2>9. Accounted(d, acceptedAt'[p])
    BY <2>1, <2>2, <2>5 DEF Accounted
  <2>10. /\ connections' \in [Phones -> Conn \cup {NoConn}]
         /\ QueueInOrder' /\ GapsAccounted' /\ Fresh'
    BY <2>1, <2>5, <2>6, <2>8, <2>9, OneConnectionMoves
  <2>11. TypeOK'
    BY <1>t, <2>1, <2>6, <2>10 DEF TypeOK
  <2> QED BY <2>10, <2>11 DEF IInv
<1>9. CASE Tick
  <2>1. TypeOK'
    BY <1>t, <1>9 DEF TypeOK, Tick, history
  <2> QED BY <1>9, <1>same, <2>1 DEF IInv, Tick, history
<1>10. CASE UNCHANGED vars
  <2>1. TypeOK'
    BY <1>t, <1>10 DEF TypeOK, vars, history
  <2> QED BY <1>10, <1>same, <2>1 DEF IInv, vars, history
<1> QED
  BY <1>1, <1>2, <1>3, <1>4, <1>5, <1>6, <1>7, <1>8, <1>9, <1>10 DEF Next, OnPacket

\* The invariant holds in every reachable state.
THEOREM Invariance == Spec => []IInv
  BY InitIInv, NextIInv, PTL DEF Spec

\* TypeOK for every choice of the constants.
THEOREM TypeCorrect == Spec => []TypeOK
<1>1. IInv => TypeOK
  BY DEF IInv
<1> QED BY Invariance, <1>1, PTL

\* Whatever the sockets, the evictions and the consumer do, a phone's queue
\* is an increasing run of sequences behind what was taken, within its cap.
THEOREM QueuesInOrder == Spec => []QueueInOrder
<1>1. IInv => QueueInOrder
  BY DEF IInv
<1> QED BY Invariance, <1>1, PTL

\* dropped_frames of a connection is exactly the number of sequences up to its
\* newest that were never accepted, for packets in any order.
THEOREM DroppedFramesExact == Spec => []GapsAccounted
<1>1. IInv => GapsAccounted
  BY DEF IInv
<1> QED BY Invariance, <1>1, PTL

-----------------------------------------------------------------------------
(* The counters. *)

\* What a valid packet adds before the server decides what to do with it.
LEMMA CountedAt ==
  ASSUME TypeOK, NEW p \in Phones
  PROVE  /\ Counted(p)["received"] = metrics["received"] + 1
         /\ Counted(p)["rejected"] = metrics["rejected"]
         /\ Counted(p)["decoded"] = metrics["decoded"]
         /\ Counted(p)["crc"] = metrics["crc"]
         /\ Counted(p)["active"] = IF p \in Connected THEN metrics["active"]
                                   ELSE Cardinality(Connected \cup {p})
<1> DEFINE m == inc(metrics, "received", 1)
           n == Cardinality(Connected \cup {p})
<1>1. {"received", "rejected", "crc", "decoded", "active"} \subseteq Metrics
  BY DEF Metrics
<1>2. metrics \in [Metrics -> Nat]
  BY DEF TypeOK
<1>3. m \in [Metrics -> Nat]
  BY <1>1, <1>2, IncType
<1>4. n \in Nat
  <2>1. Connected \cup {p} \in SUBSET Phones
    BY DEF Connected
  <2> QED BY <2>1, ConnectedFinite
<1>5. /\ m["received"] = metrics["received"] + 1
      /\ m["rejected"] = metrics["rejected"]
      /\ m["decoded"] = metrics["decoded"]
      /\ m["crc"] = metrics["crc"]
      /\ m["active"] = metrics["active"]
  BY <1>2 DEF inc, Metrics
<1>6. p \in Connected <=> connections[p] # NoConn
  BY DEF Connected
<1>7. Counted(p) = IF p \in Connected THEN m ELSE set_gauge(m, "active", n)
  BY <1>6 DEF Counted
<1> HIDE DEF m, n
<1>8. CASE p \in Connected
  BY <1>5, <1>7, <1>8
<1>9. CASE p \notin Connected
  <2>1. Counted(p) = set_gauge(m, "active", n)
    BY <1>7, <1>9
  <2>2. /\ Counted(p)["active"] = n
        /\ \A k \in Metrics \ {"active"} : Counted(p)[k] = m[k]
    BY <1>3, <2>1 DEF set_gauge, Metrics
  <2> QED BY <1>1, <1>5, <1>9, <2>2 DEF n
<1> QED BY <1>8, <1>9

\* Every packet that was received is in exactly one of the books.
THEOREM BooksComplete == Spec => []EveryPacketCounted
<1>1. Init => EveryPacketCounted
  BY DEF Init, EveryPacketCounted, Metrics
<1>2. IInv /\ EveryPacketCounted /\ [Next]_vars => EveryPacketCounted'
  <2> SUFFICES ASSUME IInv, EveryPacketCounted, [Next]_vars
               PROVE  EveryPacketCounted'
    OBVIOUS
  <2>t. TypeOK /\ metrics \in [Metrics -> Nat] /\ silent \in Nat
    BY DEF IInv, TypeOK
  <2>m. /\ metrics["received"] \in Nat /\ metrics["rejected"] \in Nat
        /\ metrics["decoded"] \in Nat /\ metrics["crc"] \in Nat
    BY <2>t DEF Metrics
  <2>same. ASSUME metrics' = metrics, silent' = silent PROVE EveryPacketCounted'
    BY <2>same DEF EveryPacketCounted
  <2>1. ASSUME NEW s \in Sockets, RejectSize(s) PROVE EveryPacketCounted'
    <3>1. metrics' = inc(inc(metrics, "received", 1), "rejected", 1) /\ silent' = silent
      BY <2>1 DEF RejectSize, history
    <3>2. /\ metrics'["received"] = metrics["received"] + 1
          /\ metrics'["rejected"] = metrics["rejected"] + 1
          /\ metrics'["decoded"] = metrics["decoded"]
          /\ metrics'["crc"] = metrics["crc"]
      BY <2>t, <3>1 DEF inc, Metrics
    <3> QED BY <2>m, <2>t, <3>1, <3>2 DEF EveryPacketCounted
  <2>2. ASSUME NEW s \in Sockets, RejectMalformed(s) PROVE EveryPacketCounted'
    <3>1. /\ metrics' = inc(inc(inc(metrics, "received", 1), "rejected", 1), "crc", 1)
          /\ silent' = silent
      BY <2>2 DEF RejectMalformed, history
    <3>2. /\ metrics'["received"] = metrics["received"] + 1
          /\ metrics'["rejected"] = metrics["rejected"] + 1
          /\ metrics'["decoded"] = metrics["decoded"]
          /\ metrics'["crc"] = metrics["crc"] + 1
      BY <2>t, <3>1 DEF inc, Metrics
    <3> QED BY <2>m, <2>t, <3>1, <3>2 DEF EveryPacketCounted
  <2>c. ASSUME NEW p \in Phones
        PROVE  /\ Counted(p) \in [Metrics -> Nat]
               /\ Counted(p)["received"] = metrics["received"] + 1
               /\ Counted(p)["rejected"] = metrics["rejected"]
               /\ Counted(p)["decoded"] = metrics["decoded"]
               /\ Counted(p)["crc"] = metrics["crc"]
    BY <2>t, CountedType, CountedAt
  <2>3. ASSUME NEW s \in Sockets, NEW p \in Phones, RateLimited(s, p)
        PROVE  EveryPacketCounted'
    <3>1. metrics' = inc(Counted(p), "rejected", 1) /\ silent' = silent
      BY <2>3 DEF RateLimited, history
    <3>2. /\ metrics'["received"] = Counted(p)["received"]
          /\ metrics'["rejected"] = Counted(p)["rejected"] + 1
          /\ metrics'["decoded"] = Counted(p)["decoded"]
          /\ metrics'["crc"] = Counted(p)["crc"]
      BY <2>c, <3>1 DEF inc, Metrics
    <3> QED BY <2>c, <2>m, <2>t, <3>1, <3>2 DEF EveryPacketCounted
  <2>4. ASSUME NEW s \in Sockets, NEW p \in Phones, NEW q \in Sequence,
               Duplicate(s, p, q)
        PROVE  EveryPacketCounted'
    <3>1. metrics' = Counted(p) /\ silent' = silent + 1
      BY <2>4 DEF Duplicate
    <3> QED BY <2>c, <2>m, <2>t, <3>1 DEF EveryPacketCounted
  <2>5. ASSUME NEW s \in Sockets, NEW p \in Phones, NEW q \in Sequence,
               Accept(s, p, q)
        PROVE  EveryPacketCounted'
    <3>1. /\ metrics' = inc(inc(Counted(p), "dropped", Gap(Lookup(p), q)), "decoded", 1)
          /\ silent' = silent
      BY <2>5 DEF Accept
    <3>2. /\ metrics'["received"] = Counted(p)["received"]
          /\ metrics'["rejected"] = Counted(p)["rejected"]
          /\ metrics'["decoded"] = Counted(p)["decoded"] + 1
          /\ metrics'["crc"] = Counted(p)["crc"]
      BY <2>c, <3>1 DEF inc, Metrics
    <3> QED BY <2>c, <2>m, <2>t, <3>1, <3>2 DEF EveryPacketCounted
  <2>6. ASSUME NEW s \in Sockets, Close(s) PROVE EveryPacketCounted'
    <3>1. silent' = silent
      BY <2>6 DEF Close
    <3>2. CASE metrics' = metrics
      BY <2>same, <3>1, <3>2
    <3>3. CASE \E pid \in Phones :
                 metrics' = set_gauge(metrics, "active", Cardinality(Connected \ {pid}))
      <4>1. PICK pid \in Phones :
                   metrics' = set_gauge(metrics, "active", Cardinality(Connected \ {pid}))
        BY <3>3
      <4>2. \A k \in Metrics \ {"active"} : metrics'[k] = metrics[k]
        BY <2>t, <4>1 DEF set_gauge
      <4> QED BY <3>1, <4>2 DEF EveryPacketCounted, Metrics
    <3>4. ASSUME Len(registered[s]) > 0
          PROVE  registered[s][Len(registered[s])] \in Phones
      BY <2>t, <3>4 DEF TypeOK
    <3> QED BY <2>6, <3>2, <3>3, <3>4 DEF Close
  <2>7. CASE UNCHANGED <<metrics, silent>>
    BY <2>7, <2>same
  <2>8. ASSUME NEW s \in Sockets, Connect(s) PROVE EveryPacketCounted'
    BY <2>7, <2>8 DEF Connect, history
  <2>9. ASSUME NEW p \in Phones, Take(p) PROVE EveryPacketCounted'
    BY <2>7, <2>9 DEF Take
  <2>10. CASE Tick \/ UNCHANGED vars
    BY <2>7, <2>10 DEF Tick, vars, history
  <2> QED
    BY <2>1, <2>2, <2>3, <2>4, <2>5, <2>6, <2>8, <2>9, <2>10 DEF Next, OnPacket
<1> QED BY <1>1, <1>2, Invariance, PTL DEF Spec

-----------------------------------------------------------------------------
(* What each step does to the set of connected phones. *)

\* A valid packet leaves its phone connected and the others as they were, and
\* registers the phone with its socket when the connection is new.
LEMMA StoreConnected ==
  ASSUME TypeOK, NEW s \in Sockets, NEW p \in Phones, NEW c \in Conn, Store(s, p, c)
  PROVE  /\ Connected' = Connected \cup {p}
         /\ p \in Connected => registered' = registered
         /\ p \notin Connected =>
              registered' = [registered EXCEPT ![s] = Append(registered[s], p)]
         /\ socket' = socket
<1>1. connections' = [connections EXCEPT ![p] = c] /\ socket' = socket
  BY DEF Store
<1>2. connections'[p] = c /\ \A r \in Phones \ {p} : connections'[r] = connections[r]
  BY <1>1 DEF TypeOK
<1>3. Connected' = Connected \cup {p}
  BY <1>2, NoConnAssumption DEF Connected
<1>4. p \in Connected <=> connections[p] # NoConn
  BY DEF Connected
<1> QED BY <1>1, <1>3, <1>4 DEF Store

\* Closing a socket disconnects the phone it registered last, if it is
\* connected, and nothing else.
LEMMA CloseConnected ==
  ASSUME TypeOK, NEW s \in Sockets, Close(s)
  PROVE  IF Len(registered[s]) > 0 /\ Last(s) \in Connected
         THEN /\ Connected' = Connected \ {Last(s)}
              /\ metrics' = set_gauge(metrics, "active", Cardinality(Connected \ {Last(s)}))
         ELSE Connected' = Connected /\ metrics' = metrics
<1> DEFINE pid == Last(s)
<1>1. ASSUME Len(registered[s]) > 0 PROVE pid \in Phones
  BY <1>1 DEF TypeOK, Last
<1>2. CASE Len(registered[s]) > 0 /\ pid \in Connected
  <2>1. /\ connections' = [connections EXCEPT ![pid] = NoConn]
        /\ metrics' = set_gauge(metrics, "active", Cardinality(Connected \ {pid}))
    BY <1>2 DEF Close, Last, Connected
  <2> HIDE DEF pid
  <2>2. /\ connections'[pid] = NoConn
        /\ \A r \in Phones \ {pid} : connections'[r] = connections[r]
    BY <1>1, <1>2, <2>1 DEF TypeOK
  <2>3. Connected' = Connected \ {pid}
    BY <2>2 DEF Connected
  <2> QED BY <1>2, <2>1, <2>3 DEF pid
<1>3. CASE ~(Len(registered[s]) > 0 /\ pid \in Connected)
  <2>1. connections' = connections /\ metrics' = metrics
    BY <1>1, <1>3 DEF Close, Last, Connected
  <2> QED BY <1>3, <2>1 DEF Connected
<1> QED BY <1>2, <1>3

\* A consumer that takes a packet neither connects nor disconnects a phone.
LEMMA TakeConnected ==
  ASSUME TypeOK, NEW p \in Phones, Take(p)
  PROVE  Connected' = Connected
<1>1. connections[p] \in Conn /\ p \in Connected
  BY DEF Take, TypeOK, Connected
<1>2. [connections[p] EXCEPT !.queue = Tail(@)] \in Conn
  <2>1. Tail(connections[p].queue) \in Seq(Sequence)
    BY <1>1, HeadTailProperties DEF Take, Conn
  <2> QED BY <1>1, <2>1 DEF Conn
<1>3. /\ connections'[p] = [connections[p] EXCEPT !.queue = Tail(@)]
      /\ \A r \in Phones \ {p} : connections'[r] = connections[r]
  BY DEF Take, TypeOK
<1> QED BY <1>1, <1>2, <1>3, NoConnAssumption DEF Connected

\* The connection a valid packet stores is well formed, whatever becomes of
\* the packet.
LEMMA ValidPacketStores ==
  ASSUME IInv, NEW s \in Sockets, NEW p \in Phones,
         RateLimited(s, p) \/ \E q \in Sequence : Duplicate(s, p, q) \/ Accept(s, p, q)
  PROVE  /\ \E c \in Conn : Store(s, p, c)
         /\ socket[s] = "open" /\ p \in PhonesOf[s]
         /\ metrics'["active"] = Counted(p)["active"]
<1>1. TypeOK /\ Lookup(p) \in Conn
  BY LookupFields DEF IInv
<1>2. Counted(p) \in [Metrics -> Nat]
  BY <1>1, CountedType
<1>3. CASE RateLimited(s, p)
  <2>1. metrics' = inc(Counted(p), "rejected", 1)
    BY <1>3 DEF RateLimited
  <2>2. metrics'["active"] = Counted(p)["active"]
    BY <1>2, <2>1 DEF inc, Metrics
  <2> QED BY <1>1, <1>3, <2>2 DEF RateLimited, Arrives
<1>4. CASE \E q \in Sequence : Duplicate(s, p, q)
  BY <1>1, <1>4 DEF Duplicate, Arrives
<1>5. ASSUME NEW q \in Sequence, Accept(s, p, q)
      PROVE  /\ \E c \in Conn : Store(s, p, c)
             /\ socket[s] = "open" /\ p \in PhonesOf[s]
             /\ metrics'["active"] = Counted(p)["active"]
  <2>1. /\ metrics' = inc(inc(Counted(p), "dropped", Gap(Lookup(p), q)), "decoded", 1)
        /\ q > Lookup(p).sequence
        /\ Store(s, p, Enqueued(Lookup(p), q))
    BY <1>5 DEF Accept
  <2>2. metrics'["active"] = Counted(p)["active"]
    BY <1>2, <2>1 DEF inc, Metrics
  <2>3. /\ Ordered(Lookup(p), taken[p]) /\ Accounted(Lookup(p), acceptedAt[p])
        /\ taken[p] \in Int /\ acceptedAt[p] \in Seq(Nat) /\ now \in Nat
    BY <1>1, LookupOrdered DEF TypeOK
  <2>4. Enqueued(Lookup(p), q) \in Conn
    BY <1>1, <2>1, <2>3, EnqueuedOrdered
  <2> QED BY <1>5, <2>1, <2>2, <2>4 DEF Accept, Arrives
<1> QED BY <1>3, <1>4, <1>5

\* shruti_active_phones is the number of connections in every state.
THEOREM GaugeExact == Spec => []GaugeMatches
<1>1. Init => GaugeMatches
  <2> SUFFICES ASSUME Init PROVE GaugeMatches
    OBVIOUS
  <2>1. Connected = {}
    BY DEF Init, Connected
  <2>2. Cardinality({}) = 0
    BY FS_EmptySet
  <2> QED BY <2>1, <2>2 DEF Init, GaugeMatches, Metrics
<1>2. IInv /\ GaugeMatches /\ [Next]_vars => GaugeMatches'
  <2> SUFFICES ASSUME IInv, GaugeMatches, [Next]_vars PROVE GaugeMatches'
    OBVIOUS
  <2>t. TypeOK /\ metrics \in [Metrics -> Nat]
    BY DEF IInv, TypeOK
  <2>same. ASSUME Connected' = Connected, metrics'["active"] = metrics["active"]
           PROVE  GaugeMatches'
    BY <2>same DEF GaugeMatches
  <2>1. ASSUME NEW s \in Sockets, RejectSize(s) \/ RejectMalformed(s) PROVE GaugeMatches'
    <3>1. connections' = connections
      BY <2>1 DEF RejectSize, RejectMalformed
    <3>2. metrics'["active"] = metrics["active"]
      BY <2>t, <2>1 DEF RejectSize, RejectMalformed, inc, Metrics
    <3> QED BY <2>same, <3>1, <3>2 DEF Connected
  <2>2. ASSUME NEW s \in Sockets, NEW p \in Phones,
               RateLimited(s, p) \/ \E q \in Sequence : Duplicate(s, p, q) \/ Accept(s, p, q)
        PROVE  GaugeMatches'
    <3>1. /\ \E c \in Conn : Store(s, p, c)
          /\ metrics'["active"] = Counted(p)["active"]
      BY <2>2, ValidPacketStores
    <3>2. Connected' = Connected \cup {p}
      BY <2>t, <3>1, StoreConnected
    <3>3. metrics'["active"] = IF p \in Connected THEN metrics["active"]
                               ELSE Cardinality(Connected \cup {p})
      BY <2>t, <3>1, CountedAt
    <3>4. CASE p \in Connected
      BY <2>same, <3>2, <3>3, <3>4
    <3>5. CASE p \notin Connected
      BY <3>2, <3>3, <3>5 DEF GaugeMatches
    <3> QED BY <3>4, <3>5
  <2>3. ASSUME NEW s \in Sockets, Close(s) PROVE GaugeMatches'
    <3>1. CASE Len(registered[s]) > 0 /\ Last(s) \in Connected
      <4>1. /\ Connected' = Connected \ {Last(s)}
            /\ metrics' = set_gauge(metrics, "active", Cardinality(Connected \ {Last(s)}))
        BY <2>t, <2>3, <3>1, CloseConnected
      <4>2. metrics'["active"] = Cardinality(Connected \ {Last(s)})
        BY <2>t, <4>1 DEF set_gauge, Metrics
      <4> QED BY <4>1, <4>2 DEF GaugeMatches
    <3>2. CASE ~(Len(registered[s]) > 0 /\ Last(s) \in Connected)
      <4>1. Connected' = Connected /\ metrics' = metrics
        BY <2>t, <2>3, <3>2, CloseConnected
      <4> QED BY <2>same, <4>1
    <3> QED BY <3>1, <3>2
  <2>4. ASSUME NEW p \in Phones, Take(p) PROVE GaugeMatches'
    BY <2>t, <2>4, <2>same, TakeConnected DEF Take
  <2>5. ASSUME NEW s \in Sockets, Connect(s) PROVE GaugeMatches'
    BY <2>5, <2>same DEF Connect, Connected
  <2>6. CASE Tick \/ UNCHANGED vars
    BY <2>6, <2>same DEF Tick, vars, Connected
  <2> QED BY <2>1, <2>2, <2>3, <2>4, <2>5, <2>6 DEF Next, OnPacket
<1> QED BY <1>1, <1>2, Invariance, PTL DEF Spec

-----------------------------------------------------------------------------
(* Who prunes a connection. *)

\* A phone whose identity is fixed sends one phone_id over a socket.
FixedIdentities == \A s \in Sockets : \A p, r \in PhonesOf[s] : p = r

\* A socket only registers phones it carries, and while it is open the one it
\* registered last is connected: together with SingleOwner this is inductive.
RegisteredOwn ==
  /\ \A s \in Sockets : \A i \in 1..Len(registered[s]) : registered[s][i] \in PhonesOf[s]
  /\ \A s \in Sockets : socket[s] = "idle" => registered[s] = <<>>
  /\ \A s \in Sockets, p \in Phones : Owns(s, p) => p \in Connected

\* A socket that carries one identity has registered that one last.
LEMMA OwnsLast ==
  ASSUME TypeOK, RegisteredOwn, FixedIdentities, NEW s \in Sockets,
         registered[s] # <<>>, NEW p \in PhonesOf[s]
  PROVE  Last(s) = p
<1>1. Len(registered[s]) \in 1..Len(registered[s])
  BY DEF TypeOK
<1>2. Last(s) \in PhonesOf[s]
  BY <1>1 DEF RegisteredOwn, Last
<1> QED BY <1>2 DEF FixedIdentities

\* While every socket carries a single identity a connection has exactly one
\* owner, the socket whose close prunes it.
THEOREM OneOwner ==
  ASSUME FixedIdentities
  PROVE  Spec => []SingleOwner
<1> DEFINE OInv == RegisteredOwn /\ SingleOwner
<1>1. Init => OInv
  <2> SUFFICES ASSUME Init PROVE OInv
    OBVIOUS
  <2>1. Connected = {} /\ \A s \in Sockets : socket[s] = "idle" /\ registered[s] = <<>>
    BY DEF Init, Connected
  <2> QED BY <2>1 DEF RegisteredOwn, SingleOwner, Owns
<1>2. IInv /\ OInv /\ [Next]_vars => OInv'
  <2> SUFFICES ASSUME IInv, OInv, [Next]_vars PROVE OInv'
    OBVIOUS
  <2>t. TypeOK /\ registered \in [Sockets -> Seq(Phones)]
        /\ socket \in [Sockets -> {"idle", "open", "closed"}]
    BY DEF IInv, TypeOK
  <2>same. ASSUME UNCHANGED <<socket, registered>>, Connected' = Connected PROVE OInv'
    BY <2>same DEF RegisteredOwn, SingleOwner, Owns, Last
  <2>1. ASSUME NEW s \in Sockets, Connect(s) PROVE OInv'
    <3>1. /\ registered' = registered /\ Connected' = Connected
          /\ registered[s] = <<>>
          /\ socket[s] = "idle" /\ socket'[s] = "open"
          /\ \A t \in Sockets \ {s} : socket'[t] = socket[t]
      BY <2>t, <2>1 DEF Connect, Connected, RegisteredOwn
    <3>2. \A t \in Sockets, p \in Phones : Owns(t, p)' <=> Owns(t, p)
      BY <3>1 DEF Owns, Last
    <3>3. RegisteredOwn'
      BY <3>1, <3>2 DEF RegisteredOwn
    <3>4. SingleOwner'
      BY <3>1, <3>2 DEF SingleOwner, Connected
    <3> QED BY <3>3, <3>4
  <2>2. ASSUME NEW s \in Sockets, NEW p \in Phones,
               RateLimited(s, p) \/ \E q \in Sequence : Duplicate(s, p, q) \/ Accept(s, p, q)
        PROVE  OInv'
    <3>1. /\ \E c \in Conn : Store(s, p, c)
          /\ socket[s] = "open" /\ p \in PhonesOf[s]
      BY <2>2, ValidPacketStores
    <3>2. /\ Connected' = Connected \cup {p}
          /\ p \in Connected => registered' = registered
          /\ p \notin Connected =>
               registered' = [registered EXCEPT ![s] = Append(registered[s], p)]
          /\ socket' = socket
      BY <2>t, <3>1, StoreConnected
    <3>3. CASE p \in Connected
      BY <2>same, <3>2, <3>3
    <3>4. CASE p \notin Connected
      <4>1. \A t \in Sockets : ~Owns(t, p)
        BY <3>4 DEF RegisteredOwn
      \* s carries only p, so a registration of s would be one of p.
      <4>2. registered[s] = <<>>
        BY <2>t, <3>1, <4>1, OwnsLast DEF Owns
      <4>3. /\ registered'[s] = <<p>>
            /\ \A t \in Sockets \ {s} : registered'[t] = registered[t]
        BY <2>t, <3>2, <3>4, <4>2
      <4>4. /\ Owns(s, p)'
            /\ \A r \in Phones \ {p} : ~Owns(s, r)'
            /\ \A t \in Sockets \ {s}, r \in Phones : Owns(t, r)' <=> Owns(t, r)
        BY <3>1, <3>2, <4>3 DEF Owns, Last
      <4>5. \A r \in Phones : ~Owns(s, r)
        BY <4>2 DEF Owns
      <4>6. RegisteredOwn'
        <5>1. \A t \in Sockets : \A i \in 1..Len(registered'[t]) :
                registered'[t][i] \in PhonesOf[t]
          BY <3>1, <4>3 DEF RegisteredOwn
        <5>2. \A t \in Sockets : socket'[t] = "idle" => registered'[t] = <<>>
          BY <3>1, <3>2, <4>3 DEF RegisteredOwn
        <5>3. \A t \in Sockets, r \in Phones : Owns(t, r)' => r \in Connected'
          BY <3>2, <4>4 DEF RegisteredOwn
        <5> QED BY <5>1, <5>2, <5>3 DEF RegisteredOwn
      <4>7. SingleOwner'
        <5>1. ASSUME NEW r \in Connected'
              PROVE  /\ \E t \in Sockets : Owns(t, r)'
                     /\ \A t, u \in Sockets : Owns(t, r)' /\ Owns(u, r)' => t = u
          <6>1. CASE r = p
            BY <4>1, <4>4, <6>1
          <6>2. CASE r # p
            <7>1. r \in Connected /\ r \in Phones
              BY <3>2, <6>2 DEF Connected
            <7>2. /\ \E t \in Sockets : Owns(t, r)
                  /\ \A t, u \in Sockets : Owns(t, r) /\ Owns(u, r) => t = u
              BY <7>1 DEF SingleOwner
            <7>3. \A t \in Sockets : Owns(t, r)' <=> Owns(t, r)
              BY <4>4, <4>5, <6>2, <7>1
            <7> QED BY <7>2, <7>3
          <6> QED BY <6>1, <6>2
        <5> QED BY <5>1 DEF SingleOwner
      <4> QED BY <4>6, <4>7
    <3> QED BY <3>3, <3>4
  <2>3. ASSUME NEW s \in Sockets, Close(s) PROVE OInv'
    <3>1. /\ registered' = registered
          /\ socket[s] = "open" /\ socket'[s] = "closed"
          /\ \A t \in Sockets \ {s} : socket'[t] = socket[t]
      BY <2>t, <2>3 DEF Close
    <3>2. /\ \A r \in Phones : ~Owns(s, r)'
          /\ \A t \in Sockets \ {s}, r \in Phones : Owns(t, r)' <=> Owns(t, r)
      BY <3>1 DEF Owns, Last
    <3>3. \A r \in Phones : Owns(s, r) => r \notin Connected'
      <4> SUFFICES ASSUME NEW r \in Phones, Owns(s, r) PROVE r \notin Connected'
        OBVIOUS
      <4>1. Len(registered[s]) > 0 /\ Last(s) = r /\ r \in Connected
        BY <2>t DEF Owns, RegisteredOwn
      <4>2. Connected' = Connected \ {r}
        BY <2>t, <2>3, <4>1, CloseConnected
      <4> QED BY <4>2
    <3>4. \A r \in Phones : r \in Connected' => r \in Connected
      BY <2>t, <2>3, CloseConnected
    <3>5. \A t \in Sockets \ {s}, r \in Phones : Owns(t, r) => r \in Connected'
      <4> SUFFICES ASSUME NEW t \in Sockets \ {s}, NEW r \in Phones, Owns(t, r)
                   PROVE  r \in Connected'
        OBVIOUS
      <4>1. r \in Connected /\ ~Owns(s, r)
        BY DEF RegisteredOwn, SingleOwner
      <4>2. CASE Len(registered[s]) > 0 /\ Last(s) \in Connected
        <5>1. Last(s) # r
          BY <2>t, <3>1, <4>1, <4>2 DEF Owns
        <5> QED BY <2>t, <2>3, <4>1, <4>2, <5>1, CloseConnected
      <4>3. CASE ~(Len(registered[s]) > 0 /\ Last(s) \in Connected)
        BY <2>t, <2>3, <4>1, <4>3, CloseConnected
      <4> QED BY <4>2, <4>3
    <3>6. RegisteredOwn'
      <4>1. \A t \in Sockets : socket'[t] = "idle" => registered'[t] = <<>>
        BY <3>1 DEF RegisteredOwn
      <4>2. \A t \in Sockets, r \in Phones : Owns(t, r)' => r \in Connected'
        BY <3>2, <3>5
      <4> QED BY <3>1, <4>1, <4>2 DEF RegisteredOwn
    <3>7. SingleOwner'
      <4>1. ASSUME NEW r \in Connected'
            PROVE  /\ \E t \in Sockets : Owns(t, r)'
                   /\ \A t, u \in Sockets : Owns(t, r)' /\ Owns(u, r)' => t = u
        <5>1. r \in Phones
          BY DEF Connected
        <5>2. r \in Connected /\ ~Owns(s, r)
          BY <3>3, <3>4, <5>1
        <5>3. /\ \E t \in Sockets : Owns(t, r)
              /\ \A t, u \in Sockets : Owns(t, r) /\ Owns(u, r) => t = u
          BY <5>2 DEF SingleOwner
        <5>4. \A t \in Sockets : Owns(t, r)' <=> Owns(t, r)
          BY <3>2, <5>1, <5>2
        <5> QED BY <5>3, <5>4
      <4> QED BY <4>1 DEF SingleOwner
    <3> QED BY <3>6, <3>7
  <2>4. ASSUME NEW p \in Phones, Take(p) PROVE OInv'
    BY <2>t, <2>4, <2>same, TakeConnected DEF Take
  <2>5. ASSUME NEW s \in Sockets, RejectSize(s) \/ RejectMalformed(s) PROVE OInv'
    BY <2>5, <2>same DEF RejectSize, RejectMalformed, Connected
  <2>6. CASE Tick \/ UNCHANGED vars
    BY <2>6, <2>same DEF Tick, vars, Connected
  <2> QED BY <2>1, <2>2, <2>3, <2>4, <2>5, <2>6 DEF Next, OnPacket
<1>3. OInv => SingleOwner
  OBVIOUS
<1> QED BY <1>1, <1>2, <1>3, Invariance, PTL DEF Spec

-----------------------------------------------------------------------------
(* Refinement. *)

\* The newest packet of a phone, before and after a step, for the refinement.
LEMMA HighAt ==
  ASSUME NEW p \in Phones
  PROVE  High[p] = IF p \in Connected THEN connections[p].sequence ELSE -1
  BY DEF High, Connected

\* A packet that is not accepted opens its phone's stream or changes nothing.
LEMMA RefusedPacketMaps ==
  ASSUME IInv, NEW s \in Sockets, NEW p \in Phones,
         Store(s, p, Lookup(p)), taken' = taken
  PROVE  [Stream!Next]_(Stream!vars)
<1>t. TypeOK
  BY DEF IInv
<1>1. /\ Lookup(p) \in Conn
      /\ Lookup(p).sequence = IF p \in Connected THEN connections[p].sequence ELSE -1
  BY <1>t, LookupFields
<1>2. Connected' = Connected \cup {p}
  BY <1>t, <1>1, StoreConnected
<1>3. connections' = [connections EXCEPT ![p] = Lookup(p)]
  BY DEF Store
<1>4. connections'[p] = Lookup(p) /\ \A r \in Phones \ {p} : connections'[r] = connections[r]
  BY <1>t, <1>3 DEF TypeOK
<1>5. High' = High
  <2>1. connections'[p] # NoConn
    BY <1>1, <1>4, NoConnAssumption
  <2>2. High'[p] = High[p]
    BY <1>1, <1>4, <2>1, HighAt DEF High
  <2>3. \A r \in Phones \ {p} : High'[r] = High[r]
    BY <1>4 DEF High
  <2> QED BY <2>2, <2>3 DEF High
<1>6. CASE p \in Connected
  BY <1>2, <1>5, <1>6 DEF Stream!vars
<1>7. CASE p \notin Connected
  BY <1>2, <1>5, <1>7 DEF Stream!Next, Stream!Open
<1> QED BY <1>6, <1>7

\* The server gives each phone's consumer an ordered stream without repeats:
\* its specification implements LossyStream.
THEOREM Refinement == Spec => ImplementsStream
<1>1. Init => Stream!Init
  <2> SUFFICES ASSUME Init PROVE Stream!Init
    OBVIOUS
  <2>1. Connected = {} /\ High = [p \in Phones |-> -1]
    BY DEF Init, Connected, High
  <2> QED BY <2>1 DEF Init, Stream!Init
<1>2. IInv /\ [Next]_vars => [Stream!Next]_(Stream!vars)
  <2> SUFFICES ASSUME IInv, [Next]_vars PROVE [Stream!Next]_(Stream!vars)
    OBVIOUS
  <2>t. TypeOK
    BY DEF IInv
  <2>same. ASSUME UNCHANGED <<connections, taken>> PROVE [Stream!Next]_(Stream!vars)
    BY <2>same DEF Stream!vars, Connected, High
  <2>1. ASSUME NEW s \in Sockets, NEW p \in Phones, RateLimited(s, p)
        PROVE  [Stream!Next]_(Stream!vars)
    BY <2>1, RefusedPacketMaps DEF RateLimited, history
  <2>2. ASSUME NEW s \in Sockets, NEW p \in Phones, NEW q \in Sequence,
               Duplicate(s, p, q)
        PROVE  [Stream!Next]_(Stream!vars)
    BY <2>2, RefusedPacketMaps DEF Duplicate
  <2>3. ASSUME NEW s \in Sockets, NEW p \in Phones, NEW q \in Sequence,
               Accept(s, p, q)
        PROVE  [Stream!Next]_(Stream!vars)
    <3> DEFINE c == Lookup(p)
               e == Enqueued(c, q)
    <3>1. Store(s, p, e) /\ q > c.sequence /\ taken' = taken
      BY <2>3 DEF Accept
    <3>2. /\ c \in Conn
          /\ c.sequence = IF p \in Connected THEN connections[p].sequence ELSE -1
      BY <2>t, LookupFields
    <3>3. /\ Ordered(c, taken[p]) /\ Accounted(c, acceptedAt[p])
          /\ taken[p] \in Int /\ acceptedAt[p] \in Seq(Nat) /\ now \in Nat
      BY <2>t, LookupOrdered DEF TypeOK
    <3>4. e \in Conn
      BY <3>1, <3>2, <3>3, EnqueuedOrdered
    <3>5. e.sequence = q
      <4> HIDE DEF c
      <4> QED BY <3>2 DEF Enqueued, Conn
    <3> HIDE DEF c, e
    <3>6. connections' = [connections EXCEPT ![p] = e]
      BY <3>1 DEF Store
    <3>7. /\ connections'[p] = e /\ e # NoConn
          /\ \A r \in Phones \ {p} : connections'[r] = connections[r]
      BY <2>t, <3>4, <3>6, NoConnAssumption DEF TypeOK
    <3>8. Connected' = Connected \cup {p}
      BY <2>t, <3>1, <3>4, StoreConnected
    <3>9. High' = [High EXCEPT ![p] = q]
      BY <3>5, <3>7 DEF High
    <3>10. High[p] = c.sequence
      BY <3>2, HighAt
    <3> QED BY <3>1, <3>8, <3>9, <3>10 DEF Stream!Next, Stream!Offer
  <2>4. ASSUME NEW s \in Sockets, Close(s) PROVE [Stream!Next]_(Stream!vars)
    <3> DEFINE pid == Last(s)
    <3>1. CASE Len(registered[s]) > 0 /\ pid \in Connected
      <4>1. /\ connections' = [connections EXCEPT ![pid] = NoConn]
            /\ taken' = [taken EXCEPT ![pid] = -1]
            /\ pid \in Phones
        BY <2>4, <3>1 DEF Close, Last, Connected
      <4>2. Connected' = Connected \ {pid}
        BY <2>t, <2>4, <3>1, CloseConnected
      <4> HIDE DEF pid
      <4>3. High' = [High EXCEPT ![pid] = -1]
        BY <2>t, <4>1 DEF High, TypeOK
      <4> QED BY <3>1, <4>1, <4>2, <4>3 DEF Stream!Next, Stream!GoDown
    <3>2. CASE ~(Len(registered[s]) > 0 /\ pid \in Connected)
      <4>1. ASSUME Len(registered[s]) > 0 PROVE pid \in Phones
        BY <2>t, <4>1 DEF TypeOK, Last
      <4>2. connections' = connections /\ taken' = taken
        BY <2>4, <3>2, <4>1 DEF Close, Last, Connected
      <4> QED BY <2>same, <4>2
    <3> QED BY <3>1, <3>2
  <2>5. ASSUME NEW p \in Phones, Take(p) PROVE [Stream!Next]_(Stream!vars)
    <3> DEFINE c == connections[p]
               q == Head(c.queue)
    <3>1. /\ p \in Connected /\ c \in Conn /\ c.queue # <<>>
          /\ connections' = [connections EXCEPT ![p] = [c EXCEPT !.queue = Tail(c.queue)]]
          /\ taken' = [taken EXCEPT ![p] = q]
      BY <2>t, <2>5 DEF Take, TypeOK, Connected
    <3>2. Ordered(c, taken[p]) /\ c.queue \in Seq(Sequence) /\ c.queue[1] = q
      BY <3>1 DEF IInv, QueueInOrder, Conn
    <3>3. q \in Sequence /\ taken[p] < q /\ q <= c.sequence
      <4>1. 1 \in 1..Len(c.queue)
        BY <3>1, <3>2
      <4> QED BY <3>2, <4>1 DEF Ordered
    <3>4. Connected' = Connected
      BY <2>t, <2>5, TakeConnected
    <3>5. connections'[p].sequence = c.sequence
      BY <2>t, <3>1 DEF TypeOK, Conn
    <3> HIDE DEF c, q
    <3>6. \A r \in Phones \ {p} : connections'[r] = connections[r]
      BY <2>t, <3>1 DEF TypeOK
    <3>7. High' = High
      <4>1. \A r \in Phones : connections'[r] = NoConn <=> connections[r] = NoConn
        BY <3>4 DEF Connected
      <4> QED BY <3>5, <3>6, <4>1 DEF High, c
    <3>8. High[p] = c.sequence
      BY <3>1, HighAt DEF c
    <3> QED BY <3>1, <3>3, <3>4, <3>7, <3>8 DEF Stream!Next, Stream!Take
  <2>6. ASSUME NEW s \in Sockets, Connect(s) \/ RejectSize(s) \/ RejectMalformed(s)
        PROVE  [Stream!Next]_(Stream!vars)
    BY <2>6, <2>same DEF Connect, RejectSize, RejectMalformed, history
  <2>7. CASE Tick \/ UNCHANGED vars
    BY <2>7, <2>same DEF Tick, vars, history
  <2> QED BY <2>1, <2>2, <2>3, <2>4, <2>5, <2>6, <2>7 DEF Next, OnPacket
<1> QED BY <1>1, <1>2, Invariance, PTL DEF Spec, ImplementsStream, Stream!Spec

-----------------------------------------------------------------------------
(* The rate limit.  packet_times is pruned whenever a packet is noted, and    *)
(* not when time passes, so it may hold stale entries; what makes its length  *)
(* a bound is that it misses no recent one.  f places the accepted packets in *)
(* it: two of them never at one position, and a recent one at its own time.   *)

Recent(acc, t) == {i \in DOMAIN acc : t - acc[i] <= RateWindow}

Placing(times, acc, t, f) ==
  /\ \A i \in 1..Len(acc) : f[i] <= Len(times)
  /\ \A i, j \in 1..Len(acc) : f[i] = f[j] => i = j
  /\ \A i \in Recent(acc, t) : f[i] >= 1 /\ times[f[i]] = acc[i]

Explained(times, acc, t) == \E f \in [1..Len(acc) -> Int] : Placing(times, acc, t, f)

\* What the popleft loop of note_packet drops is stale, entry by entry.
LEMMA DroppedAreStale ==
  ASSUME NEW times \in Seq(Nat), NEW t \in Nat,
         NEW i \in 1..Cardinality(StalePrefix(times, t))
  PROVE  i \in 1..Len(times) /\ t - times[i] > RateWindow
<1> DEFINE S == StalePrefix(times, t)
<1>1. Cardinality(S) \in Nat
  BY StaleCount
<1>2. CASE i \in S
  BY <1>2 DEF StalePrefix
<1>3. CASE i \notin S
  <2>1. S \in SUBSET (1..(i - 1))
    <3>1. ASSUME NEW j \in S PROVE j \in 1..(i - 1)
      <4>1. j \in 1..Len(times) /\ \A l \in 1..j : t - times[l] > RateWindow
        BY DEF StalePrefix
      <4>2. ASSUME i <= j PROVE i \in S
        BY <1>1, <4>1, <4>2 DEF StalePrefix
      <4> QED BY <1>1, <1>3, <4>1, <4>2
    <3> QED BY <3>1
  <2>2. i - 1 \in Nat
    BY <1>1
  <2>3. IsFiniteSet(1..(i - 1)) /\ Cardinality(1..(i - 1)) = i - 1
    BY <2>2, FS_Interval
  <2> HIDE DEF S
  <2>4. Cardinality(S) <= i - 1
    BY <2>1, <2>3, FS_Subset
  <2>5. i <= Cardinality(S)
    BY <1>1 DEF S
  <2> QED BY <1>1, <2>2, <2>4, <2>5
<1> QED BY <1>2, <1>3

\* Noting a packet shifts the places by what was dropped; the packet noted is
\* the last entry and none of the accepted ones is placed there.
LEMMA NotingExplains ==
  ASSUME NEW c \in Conn, NEW acc \in Seq(Nat), NEW t \in Nat,
         Explained(c.packet_times, acc, t),
         NEW kept, kept = NotePacket(c, t).packet_times
  PROVE  /\ kept \in Seq(Nat) /\ Len(kept) >= 1 /\ kept[Len(kept)] = t
         /\ \E g \in [1..Len(acc) -> Int] :
              /\ Placing(kept, acc, t, g)
              /\ \A i \in 1..Len(acc) : g[i] < Len(kept)
<1> USE ServerAssumption
<1> DEFINE times == Append(c.packet_times, t)
           k == Cardinality(StalePrefix(times, t))
<1>1. c.packet_times \in Seq(Nat)
  BY DEF Conn
<1>2. /\ times \in Seq(Nat) /\ Len(times) = Len(c.packet_times) + 1
      /\ \A i \in 1..Len(c.packet_times) : times[i] = c.packet_times[i]
      /\ times[Len(times)] = t /\ Len(c.packet_times) \in Nat
  BY <1>1, AppendProperties
<1>3. k \in Nat
  BY <1>2, StaleCount
<1>4. \A i \in 1..k : i \in 1..Len(times) /\ t - times[i] > RateWindow
  BY <1>2, DroppedAreStale
<1>5. kept = SubSeq(times, k + 1, Len(times))
  <2>1. NotePacket(c, t) = [c EXCEPT !.packet_times = SubSeq(times, k + 1, Len(times))]
    BY DEF NotePacket
  <2> HIDE DEF times, k
  <2> QED BY <2>1 DEF Conn
<1> HIDE DEF times, k
<1>6. k < Len(times)
  <2> SUFFICES ASSUME Len(times) <= k PROVE FALSE
    BY <1>2, <1>3
  <2>1. Len(times) \in 1..k
    BY <1>2, <1>3
  <2>2. t - times[Len(times)] > RateWindow
    BY <1>4, <2>1
  <2> QED BY <1>2, <2>2
<1>7. /\ kept \in Seq(Nat) /\ Len(kept) = Len(times) - k
      /\ \A i \in 1..Len(times) - k : kept[i] = times[k + i]
  <2>1. \A i \in (k + 1)..Len(times) : times[i] \in Nat
    BY <1>2, <1>3
  <2>2. k + 1 \in Int /\ Len(times) \in Int /\ k + 1 <= Len(times)
        /\ Len(times) - (k + 1) + 1 = Len(times) - k
        /\ \A i \in 1..Len(times) - k : k + 1 + i - 1 = k + i
    BY <1>2, <1>3, <1>6
  <2> DEFINE m == k + 1
             n == Len(times)
  <2>3. m \in Int /\ n \in Int /\ \A i \in m..n : times[i] \in Nat
    BY <2>1, <2>2
  <2>4. kept = SubSeq(times, m, n)
    BY <1>5
  <2> HIDE DEF m, n
  <2>5. /\ kept \in Seq(Nat) /\ Len(kept) = IF m <= n THEN n - m + 1 ELSE 0
        /\ \A i \in 1..n - m + 1 : kept[i] = times[m + i - 1]
    BY <2>3, <2>4, SubSeqProperties
  <2> QED BY <2>2, <2>5 DEF m, n
<1>8. Len(kept) >= 1 /\ kept[Len(kept)] = t
  <2> DEFINE n == Len(times)
             l == Len(kept)
  <2>1. n \in Nat /\ l = n - k /\ k < n
    BY <1>2, <1>6, <1>7
  <2>2. l \in 1..n - k /\ k + l = n
    <3> HIDE DEF n, l
    <3> QED BY <1>3, <2>1
  <2>3. kept[l] = times[n]
    BY <1>7, <2>2
  <2> QED BY <1>2, <2>2, <2>3
<1>9. PICK f \in [1..Len(acc) -> Int] : Placing(c.packet_times, acc, t, f)
  BY DEF Explained
<1> DEFINE g == [i \in 1..Len(acc) |-> f[i] - k]
<1>10. g \in [1..Len(acc) -> Int] /\ \A i \in 1..Len(acc) : g[i] = f[i] - k
  BY <1>3
<1>11. \A i \in 1..Len(acc) : g[i] < Len(kept) /\ g[i] <= Len(kept)
  <2> TAKE i \in 1..Len(acc)
  <2> DEFINE n == Len(times)
             x == f[i]
  <2>1. x \in Int /\ x <= n - 1 /\ n \in Nat /\ g[i] = x - k /\ Len(kept) = n - k
    <3>1. f[i] <= Len(c.packet_times) /\ Len(times) = Len(c.packet_times) + 1
          /\ Len(c.packet_times) \in Nat
      BY <1>2, <1>9 DEF Placing
    <3>2. x \in Int
      BY <1>9
    <3>3. g[i] = x - k
      BY <1>10
    <3> DEFINE m == Len(c.packet_times)
    <3>4. m \in Nat /\ n = m + 1 /\ x <= m /\ Len(kept) = n - k
      BY <1>7, <3>1
    <3> HIDE DEF n, x, m
    <3>5. x <= n - 1 /\ n \in Nat
      BY <3>2, <3>4
    <3> QED BY <3>2, <3>3, <3>4, <3>5
  <2> HIDE DEF n, x
  <2> QED BY <1>3, <2>1
<1>12. \A i, j \in 1..Len(acc) : g[i] = g[j] => i = j
  <2> SUFFICES ASSUME NEW i \in 1..Len(acc), NEW j \in 1..Len(acc), g[i] = g[j]
               PROVE  i = j
    OBVIOUS
  <2>1. f[i] - k = f[j] - k /\ f[i] \in Int /\ f[j] \in Int
    BY <1>10
  <2>2. f[i] = f[j]
    BY <1>3, <2>1
  <2> QED BY <1>9, <2>2 DEF Placing
<1>13. ASSUME NEW i \in Recent(acc, t) PROVE g[i] >= 1 /\ kept[g[i]] = acc[i]
  <2>1. i \in 1..Len(acc) /\ t - acc[i] <= RateWindow /\ acc[i] \in Nat
    BY DEF Recent
  <2>2. f[i] \in 1..Len(c.packet_times) /\ c.packet_times[f[i]] = acc[i]
    BY <1>9, <2>1 DEF Placing
  <2>3. times[f[i]] = acc[i]
    BY <1>2, <2>2
  <2>4. f[i] \notin 1..k
    <3> SUFFICES ASSUME f[i] \in 1..k PROVE FALSE
      OBVIOUS
    <3>1. t - acc[i] > RateWindow
      BY <1>4, <2>3
    <3> DEFINE x == t - acc[i]
    <3>2. x \in Int /\ RateWindow \in Int /\ x <= RateWindow /\ x > RateWindow
      BY <2>1, <3>1, ServerAssumption
    <3> HIDE DEF x
    <3> QED BY <3>2
  <2>5. g[i] \in 1..Len(times) - k /\ k + g[i] = f[i]
    <3> DEFINE n == Len(times)
               x == f[i]
    <3>1. x \in Int /\ 1 <= x /\ x <= n /\ ~(x \in 1..k) /\ g[i] = x - k /\ n \in Nat
      BY <1>2, <1>10, <2>1, <2>2, <2>4
    <3> HIDE DEF n, x
    <3>2. g[i] \in 1..n - k /\ k + g[i] = x
      BY <1>3, <3>1
    <3> QED BY <3>2 DEF n, x
  <2>6. kept[g[i]] = times[k + g[i]] /\ g[i] >= 1
    <3> DEFINE l == g[i]
    <3>1. l \in 1..Len(times) - k
      BY <2>5
    <3> HIDE DEF l
    <3>2. kept[l] = times[k + l]
      <4>1. \A j \in 1..Len(times) - k : kept[j] = times[k + j]
        BY <1>7
      <4> QED BY <3>1, <4>1
    <3>3. l >= 1
      BY <3>1
    <3> QED BY <3>2, <3>3 DEF l
  <2> QED BY <2>3, <2>5, <2>6
<1> HIDE DEF g
<1>14. Placing(kept, acc, t, g)
  BY <1>11, <1>12, <1>13 DEF Placing
<1> QED BY <1>7, <1>8, <1>10, <1>11, <1>14

\* The packet just noted takes the last place when it is accepted.
LEMMA AcceptExplains ==
  ASSUME NEW times \in Seq(Nat), NEW acc \in Seq(Nat), NEW t \in Nat,
         Len(times) >= 1, times[Len(times)] = t,
         NEW g \in [1..Len(acc) -> Int], Placing(times, acc, t, g),
         \A i \in 1..Len(acc) : g[i] < Len(times)
  PROVE  Explained(times, Append(acc, t), t)
<1> DEFINE a == Append(acc, t)
           n == Len(acc)
           l == Len(times)
           h == [i \in 1..n + 1 |-> IF i <= n THEN g[i] ELSE l]
<1>1. /\ Len(a) = n + 1 /\ n \in Nat /\ l \in Nat
      /\ \A i \in 1..n : a[i] = acc[i]
      /\ a[n + 1] = t
      /\ a \in Seq(Nat) /\ DOMAIN a = 1..n + 1 /\ DOMAIN acc = 1..n
  BY AppendProperties
<1>2. h \in [1..Len(a) -> Int]
  BY <1>1
<1>3. (\A i \in 1..n : h[i] = g[i]) /\ h[n + 1] = l
  BY <1>1
<1>4. /\ l >= 1 /\ times[l] = t /\ \A i \in 1..n : g[i] < l /\ g[i] \in Int
      /\ \A i, j \in 1..n : g[i] = g[j] => i = j
      /\ \A i \in Recent(acc, t) : g[i] >= 1 /\ times[g[i]] = acc[i]
  BY DEF Placing
<1> HIDE DEF a, h, n, l
<1>5. \A i \in 1..Len(a) : i \in 1..n \/ i = n + 1
  BY <1>1
<1>6. \A i \in 1..Len(a) : h[i] <= l
  <2>1. ASSUME NEW i \in 1..n PROVE h[i] <= l
    <3>1. h[i] < l /\ h[i] \in Int
      BY <1>3, <1>4
    <3> QED BY <1>1, <3>1
  <2>2. h[n + 1] <= l
    BY <1>1, <1>3
  <2> QED BY <1>5, <2>1, <2>2
<1>7. \A i, j \in 1..Len(a) : h[i] = h[j] => i = j
  <2> TAKE i \in 1..Len(a), j \in 1..Len(a)
  <2>1. CASE i \in 1..n /\ j \in 1..n
    BY <1>3, <1>4, <2>1
  <2>2. CASE i \in 1..n /\ j = n + 1
    <3>1. h[i] < l /\ h[i] \in Int /\ h[j] = l
      BY <1>3, <1>4, <2>2
    <3> QED BY <1>1, <3>1
  <2>3. CASE i = n + 1 /\ j \in 1..n
    <3>1. h[j] < l /\ h[j] \in Int /\ h[i] = l
      BY <1>3, <1>4, <2>3
    <3> QED BY <1>1, <3>1
  <2> QED BY <1>5, <2>1, <2>2, <2>3
<1>8. ASSUME NEW i \in Recent(a, t) PROVE h[i] >= 1 /\ times[h[i]] = a[i]
  <2>1. i \in 1..n + 1 /\ t - a[i] <= RateWindow
    BY <1>1 DEF Recent
  <2>2. CASE i \in 1..n
    <3>1. i \in Recent(acc, t)
      BY <1>1, <2>1, <2>2 DEF Recent
    <3> QED BY <1>1, <1>3, <1>4, <2>2, <3>1
  <2>3. CASE i = n + 1
    BY <1>1, <1>3, <1>4, <2>3
  <2> QED BY <1>1, <1>5, <2>1, <2>2, <2>3
<1>9. Placing(times, a, t, h)
  BY <1>6, <1>7, <1>8 DEF Placing, l
<1>10. Explained(times, a, t)
  BY <1>2, <1>9 DEF Explained
<1> QED BY <1>10 DEF a

\* No more accepted packets are recent than packet_times has entries.
LEMMA ExplainedBound ==
  ASSUME NEW times \in Seq(Nat), NEW acc \in Seq(Nat), NEW t \in Nat,
         Explained(times, acc, t)
  PROVE  Cardinality(Recent(acc, t)) <= Len(times)
<1>1. PICK f \in [1..Len(acc) -> Int] : Placing(times, acc, t, f)
  BY DEF Explained
<1> DEFINE R == Recent(acc, t)
           l == Len(times)
           g == [i \in R |-> f[i]]
<1>2. R \in SUBSET (1..Len(acc))
  BY DEF Recent
<1>3. l \in Nat
  OBVIOUS
<1>4. \A i \in R : f[i] \in Int /\ f[i] <= l /\ f[i] >= 1
  BY <1>1, <1>2 DEF Placing
<1>5. \A i \in R : f[i] \in 1..l
  <2> HIDE DEF l, R
  <2> QED BY <1>3, <1>4
<1>6. \A i, j \in R : f[i] = f[j] => i = j
  BY <1>1, <1>2 DEF Placing
<1> HIDE DEF R, l
<1>7. g \in Injection(R, 1..l)
  BY <1>5, <1>6 DEF Injection, IsInjective
<1>8. IsFiniteSet(1..l) /\ Cardinality(1..l) = l
  BY <1>3, FS_Interval
<1> HIDE DEF g
<1>9. Cardinality(R) <= Cardinality(1..l)
  BY <1>7, <1>8, FS_Injection
<1> QED BY <1>8, <1>9 DEF R, l

\* Time passing makes packets old and never recent.
LEMMA TimeExplains ==
  ASSUME NEW times \in Seq(Nat), NEW acc \in Seq(Nat), NEW t \in Nat,
         Explained(times, acc, t)
  PROVE  /\ Explained(times, acc, t + 1)
         /\ Cardinality(Recent(acc, t + 1)) <= Cardinality(Recent(acc, t))
<1> USE ServerAssumption
<1>1. Recent(acc, t + 1) \in SUBSET Recent(acc, t)
  <2>1. \A i \in DOMAIN acc : acc[i] \in Nat
    OBVIOUS
  <2> QED BY <2>1 DEF Recent
<1>2. Explained(times, acc, t + 1)
  BY <1>1 DEF Explained, Placing
<1>3. IsFiniteSet(Recent(acc, t))
  <2>1. Len(acc) \in Nat /\ Recent(acc, t) \in SUBSET (1..Len(acc))
    BY DEF Recent
  <2> HIDE DEF Recent
  <2>2. IsFiniteSet(1..Len(acc))
    BY <2>1, FS_Interval
  <2> QED BY <2>1, <2>2, FS_Subset
<1> QED BY <1>1, <1>2, <1>3, FS_Subset

\* Every recent accepted packet of a connection is in its packet_times.
RateInv ==
  \A p \in Connected : Explained(connections[p].packet_times, acceptedAt[p], now)

RateOK == RateInv /\ RateBounded

LEMMA RateOneMoves ==
  ASSUME TypeOK, RateOK, NEW p \in Phones, NEW c \in Conn,
         connections' = [connections EXCEPT ![p] = c], now' = now,
         \A r \in Phones \ {p} : acceptedAt'[r] = acceptedAt[r],
         Explained(c.packet_times, acceptedAt'[p], now),
         Cardinality(Recent(acceptedAt'[p], now)) <= RateMax
  PROVE  RateOK'
<1>1. connections'[p] = c /\ \A r \in Phones \ {p} : connections'[r] = connections[r]
  BY DEF TypeOK
<1>2. Connected' = Connected \cup {p}
  BY <1>1, NoConnAssumption DEF Connected
<1>3. Connected \in SUBSET Phones
  BY DEF Connected
<1>4. ASSUME NEW r \in Connected'
      PROVE  /\ Explained(connections'[r].packet_times, acceptedAt'[r], now)
             /\ Cardinality(Recent(acceptedAt'[r], now)) <= RateMax
  <2>1. CASE r = p
    BY <1>1, <2>1
  <2>2. CASE r # p
    <3>1. r \in Connected /\ connections'[r] = connections[r] /\ acceptedAt'[r] = acceptedAt[r]
      BY <1>1, <1>2, <1>3, <2>2
    <3>2. Cardinality(Recent(acceptedAt[r], now)) <= RateMax
      BY <3>1 DEF RateOK, RateBounded, Recent
    <3>3. Explained(connections[r].packet_times, acceptedAt[r], now)
      BY <3>1 DEF RateOK, RateInv
    <3> QED BY <3>1, <3>2, <3>3
  <2> QED BY <2>1, <2>2
<1>5. RateInv'
  BY <1>4 DEF RateInv
<1>6. RateBounded'
  BY <1>4 DEF RateBounded, Recent
<1> QED BY <1>5, <1>6 DEF RateOK

\* What _on_packet looks up explains what was accepted so far.
LEMMA LookupExplains ==
  ASSUME IInv, RateOK, NEW p \in Phones
  PROVE  /\ Lookup(p) \in Conn /\ Lookup(p).packet_times \in Seq(Nat)
         /\ Len(Lookup(p).packet_times) >= 1
         /\ Lookup(p).packet_times[Len(Lookup(p).packet_times)] = now
         /\ \E g \in [1..Len(acceptedAt[p]) -> Int] :
              /\ Placing(Lookup(p).packet_times, acceptedAt[p], now, g)
              /\ \A i \in 1..Len(acceptedAt[p]) : g[i] < Len(Lookup(p).packet_times)
         /\ Cardinality(Recent(acceptedAt[p], now)) <= RateMax
<1> DEFINE c == IF connections[p] = NoConn THEN NewConn ELSE connections[p]
<1>t. /\ now \in Nat /\ acceptedAt[p] \in Seq(Nat)
      /\ connections[p] \in Conn \cup {NoConn}
  BY DEF IInv, TypeOK
<1>1. c \in Conn
  BY <1>t, NewConnType
<1>2. Lookup(p) = NotePacket(c, now)
  BY DEF Lookup
<1>n. ASSUME Explained(c.packet_times, acceptedAt[p], now),
             Cardinality(Recent(acceptedAt[p], now)) <= RateMax
      PROVE  /\ Lookup(p) \in Conn /\ Lookup(p).packet_times \in Seq(Nat)
             /\ Len(Lookup(p).packet_times) >= 1
             /\ Lookup(p).packet_times[Len(Lookup(p).packet_times)] = now
             /\ \E g \in [1..Len(acceptedAt[p]) -> Int] :
                  /\ Placing(Lookup(p).packet_times, acceptedAt[p], now, g)
                  /\ \A i \in 1..Len(acceptedAt[p]) : g[i] < Len(Lookup(p).packet_times)
             /\ Cardinality(Recent(acceptedAt[p], now)) <= RateMax
  <2> DEFINE kept == NotePacket(c, now).packet_times
             acc == acceptedAt[p]
  <2>1. NotePacket(c, now) \in Conn
    BY <1>t, <1>1, NotePacketFields
  <2>2. Explained(c.packet_times, acc, now) /\ acc \in Seq(Nat)
    BY <1>n, <1>t
  <2>3. kept = NotePacket(c, now).packet_times
    OBVIOUS
  <2>4. Lookup(p).packet_times = kept
    BY <1>2
  <2> HIDE DEF c, kept, acc
  <2>5. /\ kept \in Seq(Nat) /\ Len(kept) >= 1 /\ kept[Len(kept)] = now
        /\ \E g \in [1..Len(acc) -> Int] :
              /\ Placing(kept, acc, now, g)
              /\ \A i \in 1..Len(acc) : g[i] < Len(kept)
    <3>1. c \in Conn /\ now \in Nat
      BY <1>t, <1>1
    <3> QED BY <2>2, <2>3, <3>1, NotingExplains, Zenon
  <2> QED BY <1>n, <1>2, <2>1, <2>4, <2>5 DEF acc
<1>3. CASE p \in Connected
  <2>1. c = connections[p]
    BY <1>3 DEF Connected
  <2>2. Explained(c.packet_times, acceptedAt[p], now)
    BY <1>3, <2>1 DEF RateOK, RateInv
  <2>3. Cardinality(Recent(acceptedAt[p], now)) <= RateMax
    BY <1>3 DEF RateOK, RateBounded, Recent
  <2> QED BY <1>n, <2>2, <2>3
<1>4. CASE p \notin Connected
  <2>1. acceptedAt[p] = <<>>
    BY <1>4 DEF IInv, Fresh
  <2> DEFINE f == [i \in 1..Len(acceptedAt[p]) |-> 0]
  <2>2. Recent(acceptedAt[p], now) = {} /\ Len(acceptedAt[p]) = 0
    BY <2>1 DEF Recent
  <2>3. Placing(c.packet_times, acceptedAt[p], now, f)
    BY <2>2 DEF Placing
  <2>4. Explained(c.packet_times, acceptedAt[p], now)
    BY <2>3 DEF Explained
  <2>5. Cardinality(Recent(acceptedAt[p], now)) <= RateMax
    BY <2>2, FS_EmptySet, ServerAssumption
  <2> QED BY <1>n, <2>4, <2>5
<1> QED BY <1>3, <1>4

\* A packet that is refused is noted, and nothing else happens to its rate.
LEMMA RefusedKeepsRate ==
  ASSUME IInv, RateOK, NEW s \in Sockets, NEW p \in Phones,
         Store(s, p, Lookup(p)), acceptedAt' = acceptedAt
  PROVE  RateOK'
<1>1. /\ Lookup(p) \in Conn
      /\ Explained(Lookup(p).packet_times, acceptedAt[p], now)
      /\ Cardinality(Recent(acceptedAt[p], now)) <= RateMax
  BY LookupExplains DEF Explained
<1>2. connections' = [connections EXCEPT ![p] = Lookup(p)] /\ now' = now
  BY DEF Store
<1>3. TypeOK
  BY DEF IInv
<1> QED BY <1>1, <1>2, <1>3, RateOneMoves

\* A packet is accepted only when packet_times, itself included, is within the
\* limit, and all recent accepted packets are among its entries.
LEMMA AcceptKeepsRate ==
  ASSUME IInv, RateOK, NEW s \in Sockets, NEW p \in Phones, NEW q \in Sequence,
         Accept(s, p, q)
  PROVE  RateOK'
<1> DEFINE c == Lookup(p)
           e == Enqueued(c, q)
           a == Append(acceptedAt[p], now)
<1>t. /\ TypeOK /\ now \in Nat /\ acceptedAt \in [Phones -> Seq(Nat)]
      /\ acceptedAt[p] \in Seq(Nat) /\ taken[p] \in Int
  BY DEF IInv, TypeOK
<1>1. /\ Store(s, p, e) /\ ~OverRateLimit(c) /\ q > c.sequence
      /\ acceptedAt' = [acceptedAt EXCEPT ![p] = a]
  BY DEF Accept
<1>2. PICK g \in [1..Len(acceptedAt[p]) -> Int] :
        /\ Placing(c.packet_times, acceptedAt[p], now, g)
        /\ \A i \in 1..Len(acceptedAt[p]) : g[i] < Len(c.packet_times)
  BY LookupExplains
<1>3. /\ c \in Conn /\ c.packet_times \in Seq(Nat) /\ Len(c.packet_times) >= 1
      /\ c.packet_times[Len(c.packet_times)] = now
  BY LookupExplains
<1>4. e \in Conn
  <2>1. Ordered(c, taken[p]) /\ Accounted(c, acceptedAt[p])
    BY LookupOrdered
  <2> QED BY <1>t, <1>1, <1>3, <2>1, EnqueuedOrdered
<1>5. e.packet_times = c.packet_times
  <2> HIDE DEF c
  <2> QED BY <1>3 DEF Enqueued, Conn
<1>6. a \in Seq(Nat) /\ acceptedAt'[p] = a
      /\ \A r \in Phones \ {p} : acceptedAt'[r] = acceptedAt[r]
  BY <1>t, <1>1, AppendProperties
<1> HIDE DEF a, c
<1>7. Explained(c.packet_times, a, now)
  BY <1>t, <1>2, <1>3, AcceptExplains DEF a
<1>8. Cardinality(Recent(a, now)) <= Len(c.packet_times)
  BY <1>t, <1>3, <1>6, <1>7, ExplainedBound
<1>9. Cardinality(Recent(a, now)) <= RateMax
  <2>1. Len(c.packet_times) <= RateMax /\ Len(c.packet_times) \in Nat
    BY <1>1, <1>3, ServerAssumption DEF OverRateLimit
  <2>2. Cardinality(Recent(a, now)) \in Nat
    <3>1. Len(a) \in Nat /\ Recent(a, now) \in SUBSET (1..Len(a))
      BY <1>6 DEF Recent
    <3> HIDE DEF Recent
    <3>2. IsFiniteSet(1..Len(a))
      BY <3>1, FS_Interval
    <3> QED BY <3>1, <3>2, FS_Subset, FS_CardinalityType
  <2> QED BY <1>8, <2>1, <2>2, ServerAssumption
<1>10. connections' = [connections EXCEPT ![p] = e] /\ now' = now
  BY <1>1 DEF Store
<1> HIDE DEF e
<1> QED BY <1>t, <1>4, <1>5, <1>6, <1>7, <1>9, <1>10, RateOneMoves

\* A phone floods, a clock ticks, a socket closes: in no window of RateWindow
\* are more than RateMax packets of a connection accepted (lines 66-79, 193-197).
THEOREM RateLimitHolds == Spec => []RateBounded
<1>1. Init => RateOK
  <2> SUFFICES ASSUME Init PROVE RateOK
    OBVIOUS
  <2>1. Connected = {}
    BY DEF Init, Connected
  <2> QED BY <2>1 DEF RateOK, RateInv, RateBounded
<1>2. IInv /\ RateOK /\ [Next]_vars => RateOK'
  <2> SUFFICES ASSUME IInv, RateOK, [Next]_vars PROVE RateOK'
    OBVIOUS
  <2>t. TypeOK
    BY DEF IInv
  <2>same. ASSUME UNCHANGED <<connections, acceptedAt, now>> PROVE RateOK'
    <3>1. Connected' = Connected
      BY <2>same DEF Connected
    <3>2. RateInv'
      BY <2>same, <3>1 DEF RateOK, RateInv
    <3>3. RateBounded'
      BY <2>same, <3>1 DEF RateOK, RateBounded
    <3> QED BY <3>2, <3>3 DEF RateOK
  <2>1. ASSUME NEW s \in Sockets, NEW p \in Phones, RateLimited(s, p) PROVE RateOK'
    BY <2>1, RefusedKeepsRate DEF RateLimited, history
  <2>2. ASSUME NEW s \in Sockets, NEW p \in Phones, NEW q \in Sequence, Duplicate(s, p, q)
        PROVE  RateOK'
    BY <2>2, RefusedKeepsRate DEF Duplicate
  <2>3. ASSUME NEW s \in Sockets, NEW p \in Phones, NEW q \in Sequence, Accept(s, p, q)
        PROVE  RateOK'
    BY <2>3, AcceptKeepsRate
  <2>4. ASSUME NEW s \in Sockets, Close(s) PROVE RateOK'
    <3> DEFINE pid == registered[s][Len(registered[s])]
    <3>1. now' = now
      BY <2>4 DEF Close
    <3>2. CASE Len(registered[s]) > 0 /\ connections[pid] # NoConn
      <4>1. pid \in Phones
        BY <2>t, <3>2 DEF TypeOK
      <4>2. /\ connections' = [connections EXCEPT ![pid] = NoConn]
            /\ acceptedAt' = [acceptedAt EXCEPT ![pid] = <<>>]
        BY <2>4, <3>2 DEF Close
      <4> HIDE DEF pid
      <4>3. /\ Connected' \in SUBSET Connected
            /\ \A r \in Connected' : /\ connections'[r] = connections[r]
                                     /\ acceptedAt'[r] = acceptedAt[r]
        BY <2>t, <4>1, <4>2 DEF TypeOK, Connected
      <4>4. RateInv'
        BY <3>1, <4>3 DEF RateOK, RateInv
      <4>5. RateBounded'
        BY <3>1, <4>3 DEF RateOK, RateBounded
      <4> QED BY <4>4, <4>5 DEF RateOK
    <3>3. CASE ~(Len(registered[s]) > 0 /\ connections[pid] # NoConn)
      <4>1. UNCHANGED <<connections, acceptedAt>>
        BY <2>4, <3>3 DEF Close
      <4> QED BY <2>same, <3>1, <4>1
    <3> QED BY <3>2, <3>3
  <2>5. ASSUME NEW p \in Phones, Take(p) PROVE RateOK'
    <3>1. UNCHANGED <<acceptedAt, now>>
      BY <2>5 DEF Take
    <3>2. Connected' = Connected
      BY <2>t, <2>5, TakeConnected
    <3>3. /\ connections[p] \in Conn
          /\ connections' = [connections EXCEPT ![p].queue = Tail(@)]
      BY <2>t, <2>5 DEF Take, TypeOK
    <3>4. \A r \in Connected : connections'[r].packet_times = connections[r].packet_times
      BY <2>t, <3>3 DEF TypeOK, Connected, Conn
    <3>5. RateInv'
      BY <3>1, <3>2, <3>4 DEF RateOK, RateInv
    <3>6. RateBounded'
      BY <3>1, <3>2 DEF RateOK, RateBounded
    <3> QED BY <3>5, <3>6 DEF RateOK
  <2>6. CASE Tick
    <3>1. UNCHANGED <<connections, acceptedAt>> /\ now' = now + 1 /\ now \in Nat
      BY <2>t, <2>6 DEF Tick, history, TypeOK
    <3>2. Connected' = Connected /\ Connected \in SUBSET Phones
      BY <3>1 DEF Connected
    <3>3. ASSUME NEW r \in Connected
          PROVE  /\ Explained(connections[r].packet_times, acceptedAt[r], now + 1)
                 /\ Cardinality(Recent(acceptedAt[r], now + 1)) <= RateMax
      <4>1. /\ connections[r].packet_times \in Seq(Nat) /\ acceptedAt[r] \in Seq(Nat)
        BY <2>t, <3>2 DEF TypeOK, Conn, Connected
      <4>2. Explained(connections[r].packet_times, acceptedAt[r], now)
        BY DEF RateOK, RateInv
      <4>3. Cardinality(Recent(acceptedAt[r], now)) <= RateMax
        BY DEF RateOK, RateBounded, Recent
      <4>4. /\ Explained(connections[r].packet_times, acceptedAt[r], now + 1)
            /\ Cardinality(Recent(acceptedAt[r], now + 1))
                 <= Cardinality(Recent(acceptedAt[r], now))
        BY <3>1, <4>1, <4>2, TimeExplains
      <4>5. \A S \in SUBSET (1..Len(acceptedAt[r])) : Cardinality(S) \in Nat
        <5>1. Len(acceptedAt[r]) \in Nat
          BY <4>1
        <5>2. IsFiniteSet(1..Len(acceptedAt[r]))
          BY <5>1, FS_Interval
        <5> QED BY <5>2, FS_Subset, FS_CardinalityType
      <4>6. \A t : Recent(acceptedAt[r], t) \in SUBSET (1..Len(acceptedAt[r]))
        BY <4>1 DEF Recent
      <4>7. Cardinality(Recent(acceptedAt[r], now)) \in Nat
            /\ Cardinality(Recent(acceptedAt[r], now + 1)) \in Nat
        BY <4>5, <4>6
      <4> QED BY <4>3, <4>4, <4>7, ServerAssumption
    <3>4. RateInv'
      BY <3>1, <3>2, <3>3 DEF RateInv
    <3>5. RateBounded'
      BY <3>1, <3>2, <3>3 DEF RateBounded, Recent
    <3> QED BY <3>4, <3>5 DEF RateOK
  <2>7. ASSUME NEW s \in Sockets, Connect(s) \/ RejectSize(s) \/ RejectMalformed(s)
        PROVE  RateOK'
    BY <2>7, <2>same DEF Connect, RejectSize, RejectMalformed, history
  <2>8. CASE UNCHANGED vars
    BY <2>8, <2>same DEF vars, history
  <2> QED BY <2>1, <2>2, <2>3, <2>4, <2>5, <2>6, <2>7, <2>8 DEF Next, OnPacket
<1>3. RateOK => RateBounded
  BY DEF RateOK
<1> QED BY <1>1, <1>2, <1>3, Invariance, PTL DEF Spec

=============================================================================
