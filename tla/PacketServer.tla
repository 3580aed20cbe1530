---------------------------- MODULE PacketServer ----------------------------
(***************************************************************************)
(* The laptop's WebSocket packet receiver,                                 *)
(* apps/laptop/shruti_array/ingest/websocket_server.py.                    *)
(*                                                                         *)
(* Each accepted WebSocket runs one _handle_connection coroutine, which    *)
(* awaits _on_packet for every message it reads and prunes a phone in its  *)
(* finally block.  Nothing is awaited while _lock is held and the lock is  *)
(* therefore never contended, so a call of _on_packet, and the finally     *)
(* block, each run between two switches of the event loop: both are single *)
(* actions here.  The interleaving that remains is the one between the     *)
(* coroutines of different sockets, the consumer and the clock.            *)
(*                                                                         *)
(* A packet is abstracted to what the server looks at: its size and CRC    *)
(* verdict, its phone_id and its sequence.  PhonesOf[s] is the set of      *)
(* identities a client may stamp on the packets of socket s: a singleton   *)
(* for a phone whose identity is fixed, larger when the operator changes   *)
(* the identity while the transport singleton keeps its socket.            *)
(***************************************************************************)
EXTENDS Integers, Sequences, FiniteSets

CONSTANTS
  Sockets,     \* WebSocket connections, each opened at most once
  Phones,      \* the phone_id values
  PhonesOf,    \* PhonesOf[s]: the phone_ids sent over socket s
  QueueCap,    \* asyncio.Queue(maxsize=64)
  RateMax,     \* _RATE_MAX_PACKETS
  RateWindow,  \* _RATE_WINDOW_S, in clock ticks
  MaxSeq,      \* bound: largest sequence number sent
  MaxPackets,  \* bound: packets received
  MaxTime,     \* bound: clock ticks
  NoConn       \* "phone_id not in _connections"

ASSUME ServerAssumption ==
  /\ PhonesOf \in [Sockets -> SUBSET Phones]
  /\ IsFiniteSet(Phones)
  /\ QueueCap \in Nat \ {0}
  /\ RateMax \in Nat
  /\ RateWindow \in Nat
  /\ MaxSeq \in Nat /\ MaxPackets \in Nat /\ MaxTime \in Nat

Sequence == 0..MaxSeq

\* PhoneConnection: the fields the handlers read or write.
Conn == [queue : Seq(Sequence), packet_times : Seq(Nat),
         sequence : Int, dropped_frames : Int]

ASSUME NoConnAssumption == NoConn \notin Conn

\* The counters of METRICS this server moves, and its gauge, "active".
Metrics == {"received", "rejected", "crc", "decoded", "dropped", "active"}

VARIABLES
  socket,       \* per socket: "idle", "open" or "closed"
  registered,   \* per socket: registered_phone_id, the list in its coroutine
  connections,  \* _connections
  metrics,      \* METRICS
  now,          \* time.time()
  acceptedAt,   \* history: when the current connection's packets were accepted
  taken,        \* history: last sequence the consumer took from it, -1 if none
  silent        \* history: packets that _on_packet dropped without counting

history == <<acceptedAt, taken, silent>>
vars == <<socket, registered, connections, metrics, now, history>>

Connected == {p \in Phones : connections[p] # NoConn}

-----------------------------------------------------------------------------
(* METRICS, PhoneConnection and its methods. *)

inc(m, name, n) == [m EXCEPT ![name] = @ + n]
set_gauge(m, name, n) == [m EXCEPT ![name] = n]

NewConn == [queue |-> <<>>, packet_times |-> <<>>,
            sequence |-> -1, dropped_frames |-> 0]

\* Mutant: a packet exactly RateWindow old is stale.
StaleAtBoundary(times, t) ==
  {i \in 1..Len(times) : \A j \in 1..i : t - times[j] >= RateWindow}

\* The popleft loop of note_packet: the stale prefix goes, nothing behind the
\* first recent entry does.
StalePrefix(times, t) ==
  {i \in 1..Len(times) : \A j \in 1..i : t - times[j] > RateWindow}

NotePacket(c, t) ==
  LET times == Append(c.packet_times, t)
  IN  [c EXCEPT !.packet_times =
         SubSeq(times, Cardinality(StalePrefix(times, t)) + 1, Len(times))]

OverRateLimit(c) == Len(c.packet_times) > RateMax

\* Mutant: on QueueFull the new packet is given up.
PutDroppingNewest(queue, q) ==
  IF Len(queue) < QueueCap THEN Append(queue, q) ELSE queue

\* put_nowait; on QueueFull the oldest packet makes room.
PutDroppingOldest(queue, q) ==
  IF Len(queue) < QueueCap THEN Append(queue, q) ELSE Append(Tail(queue), q)

\* The connection _on_packet works with: the known one or a new one, with the
\* packet noted for the rate limit (rate-limited packets are noted as well).
Lookup(p) ==
  NotePacket(IF connections[p] = NoConn THEN NewConn ELSE connections[p], now)

\* Mutant: off by one.
GapShort(c, q) == q - c.sequence - 2

Gap(c, q) == q - c.sequence - 1

\* Mutant: the connection's sequence is not advanced.
EnqueuedStale(c, q) ==
  [c EXCEPT !.queue = PutDroppingOldest(@, q), !.dropped_frames = @ + Gap(c, q)]

Enqueued(c, q) ==
  [c EXCEPT !.queue = PutDroppingOldest(@, q), !.sequence = q,
            !.dropped_frames = @ + Gap(c, q)]

-----------------------------------------------------------------------------
Init ==
  /\ socket = [s \in Sockets |-> "idle"]
  /\ registered = [s \in Sockets |-> <<>>]
  /\ connections = [p \in Phones |-> NoConn]
  /\ metrics = [name \in Metrics |-> 0]
  /\ now = 0
  /\ acceptedAt = [p \in Phones |-> <<>>]
  /\ taken = [p \in Phones |-> -1]
  /\ silent = 0

Connect(s) ==
  /\ socket[s] = "idle"
  /\ socket' = [socket EXCEPT ![s] = "open"]
  /\ UNCHANGED <<registered, connections, metrics, now, history>>

Arrives(s) == socket[s] = "open" /\ metrics["received"] < MaxPackets

\* Wrong size: refused before the CRC is computed.
RejectSize(s) ==
  /\ Arrives(s)
  /\ metrics' = inc(inc(metrics, "received", 1), "rejected", 1)
  /\ UNCHANGED <<socket, registered, connections, now, history>>

\* Mutant: the CRC failure is counted, the rejection is not.
RejectUncounted(s) ==
  /\ Arrives(s)
  /\ metrics' = inc(inc(metrics, "received", 1), "crc", 1)
  /\ UNCHANGED <<socket, registered, connections, now, history>>

\* verify_packet raised.
RejectMalformed(s) ==
  /\ Arrives(s)
  /\ metrics' = inc(inc(inc(metrics, "received", 1), "rejected", 1), "crc", 1)
  /\ UNCHANGED <<socket, registered, connections, now, history>>

\* Mutant: every socket that carries the phone registers it.
StoreRegistering(s, p, c) ==
  /\ connections' = [connections EXCEPT ![p] = c]
  /\ registered' = [registered EXCEPT ![s] = Append(@, p)]
  /\ UNCHANGED <<socket, now>>

\* What every valid packet does: the connection is created on first sight of
\* the phone, and only then does the socket's coroutine learn the phone_id.
Store(s, p, c) ==
  /\ connections' = [connections EXCEPT ![p] = c]
  /\ registered' = IF connections[p] = NoConn
                   THEN [registered EXCEPT ![s] = Append(@, p)]
                   ELSE registered
  /\ UNCHANGED <<socket, now>>

\* Mutant: the gauge is read before the connection is stored.
CountedEarly(p) ==
  LET counted == inc(metrics, "received", 1)
  IN  IF connections[p] = NoConn
      THEN set_gauge(counted, "active", Cardinality(Connected))
      ELSE counted

\* The counters as every valid packet leaves them: one more received, and the
\* gauge written when a connection is created.
Counted(p) ==
  LET counted == inc(metrics, "received", 1)
  IN  IF connections[p] = NoConn
      THEN set_gauge(counted, "active", Cardinality(Connected \cup {p}))
      ELSE counted

RateLimited(s, p) ==
  /\ Arrives(s) /\ p \in PhonesOf[s]
  /\ OverRateLimit(Lookup(p))
  /\ Store(s, p, Lookup(p))
  /\ metrics' = inc(Counted(p), "rejected", 1)
  /\ UNCHANGED history

\* Duplicate or out of order: dropped, no counter moves.
Duplicate(s, p, q) ==
  /\ Arrives(s) /\ p \in PhonesOf[s]
  /\ ~OverRateLimit(Lookup(p))
  /\ q <= Lookup(p).sequence
  /\ Store(s, p, Lookup(p))
  /\ metrics' = Counted(p)
  /\ silent' = silent + 1
  /\ UNCHANGED <<acceptedAt, taken>>

Accept(s, p, q) ==
  /\ Arrives(s) /\ p \in PhonesOf[s]
  /\ ~OverRateLimit(Lookup(p))
  /\ q > Lookup(p).sequence
  /\ Store(s, p, Enqueued(Lookup(p), q))
  /\ metrics' = inc(inc(Counted(p), "dropped", Gap(Lookup(p), q)), "decoded", 1)
  /\ acceptedAt' = [acceptedAt EXCEPT ![p] = Append(@, now)]
  /\ UNCHANGED <<taken, silent>>

OnPacket(s) ==
  \/ RejectSize(s)
  \/ RejectMalformed(s)
  \/ \E p \in Phones :
       \/ RateLimited(s, p)
       \/ \E q \in Sequence : Duplicate(s, p, q) \/ Accept(s, p, q)

\* The finally block of _handle_connection: only the phone registered last is
\* pruned, whichever socket its packets come from by now.
Close(s) ==
  /\ socket[s] = "open"
  /\ socket' = [socket EXCEPT ![s] = "closed"]
  /\ LET n   == Len(registered[s])
         pid == registered[s][n]
     IN  IF n > 0 /\ connections[pid] # NoConn
         THEN /\ connections' = [connections EXCEPT ![pid] = NoConn]
              /\ metrics' = set_gauge(metrics, "active", Cardinality(Connected \ {pid}))
              /\ acceptedAt' = [acceptedAt EXCEPT ![pid] = <<>>]
              /\ taken' = [taken EXCEPT ![pid] = -1]
         ELSE UNCHANGED <<connections, metrics, acceptedAt, taken>>
  /\ UNCHANGED <<registered, now, silent>>

\* DspLoop.pop_from_queues: q.get_nowait() on the queue of a live connection.
Take(p) ==
  /\ connections[p] # NoConn
  /\ connections[p].queue # <<>>
  /\ connections' = [connections EXCEPT ![p].queue = Tail(@)]
  /\ taken' = [taken EXCEPT ![p] = Head(connections[p].queue)]
  /\ UNCHANGED <<socket, registered, metrics, now, acceptedAt, silent>>

Tick ==
  /\ now < MaxTime
  /\ now' = now + 1
  /\ UNCHANGED <<socket, registered, connections, metrics, history>>

Next ==
  \/ \E s \in Sockets : Connect(s) \/ OnPacket(s) \/ Close(s)
  \/ \E p \in Phones : Take(p)
  \/ Tick

Spec == Init /\ [][Next]_vars

-----------------------------------------------------------------------------
TypeOK ==
  /\ socket \in [Sockets -> {"idle", "open", "closed"}]
  /\ registered \in [Sockets -> Seq(Phones)]
  /\ connections \in [Phones -> Conn \cup {NoConn}]
  /\ metrics \in [Metrics -> Nat]
  /\ now \in Nat
  /\ acceptedAt \in [Phones -> Seq(Nat)]
  /\ taken \in [Phones -> Int]
  /\ silent \in Nat

\* c's queue is strictly increasing within its cap, starts after t, the last
\* packet taken, and ends with the newest packet accepted.
Ordered(c, t) ==
  /\ t <= c.sequence
  /\ Len(c.queue) <= QueueCap
  /\ \A i \in 1..Len(c.queue) : t < c.queue[i] /\ c.queue[i] <= c.sequence
  /\ \A i, j \in 1..Len(c.queue) : i < j => c.queue[i] < c.queue[j]
  /\ c.queue # <<>> => c.queue[Len(c.queue)] = c.sequence

\* A consumer that drains a connection sees its packets in the order they were
\* sent and none twice, whatever was evicted from a full queue in between; and
\* a consumer that stalls never makes the queue longer than its cap (lines
\* 201-220).
QueueInOrder == \A p \in Connected : Ordered(connections[p], taken[p])

Accounted(c, accepted) == Len(accepted) + c.dropped_frames = c.sequence + 1

\* Every sequence number up to the newest is either accepted or counted as a
\* dropped frame, exactly once, for the life of a connection (lines 204-208).
GapsAccounted == \A p \in Connected : Accounted(connections[p], acceptedAt[p])

\* No packet vanishes from the books: each one received is rejected, decoded
\* or one of the silent duplicates, and a CRC failure is a rejection.
EveryPacketCounted ==
  /\ metrics["received"] = metrics["rejected"] + metrics["decoded"] + silent
  /\ metrics["crc"] <= metrics["rejected"]

\* The rate limit bounds what gets through and not only what one packet sees:
\* at most RateMax packets of a connection are accepted in any window.
RateBounded ==
  \A p \in Connected :
    Cardinality({i \in DOMAIN acceptedAt[p] : now - acceptedAt[p][i] <= RateWindow})
      <= RateMax

\* shruti_active_phones is the number of entries of _connections after every
\* create and prune, by whichever socket (lines 191, 148).
GaugeMatches == metrics["active"] = Cardinality(Connected)

-----------------------------------------------------------------------------
Last(s) == registered[s][Len(registered[s])]
Owns(s, p) == socket[s] = "open" /\ registered[s] # <<>> /\ Last(s) = p

\* When a socket carries a single identity, every connection is owned by
\* exactly one open socket, the one whose close prunes it: no connection can
\* outlive its sockets and no two sockets fight over one (lines 126, 134-149).
SingleOwner ==
  \A p \in Connected :
    /\ \E s \in Sockets : Owns(s, p)
    /\ \A s, t \in Sockets : Owns(s, p) /\ Owns(t, p) => s = t

\* The newest sequence a phone's connection accepted.
High == [p \in Phones |->
           IF connections[p] = NoConn THEN -1 ELSE connections[p].sequence]

Stream == INSTANCE LossyStream WITH up <- Connected, high <- High

\* The server implements a lossy, ordered stream per phone: what a connection
\* hands its consumer is an increasing run of the sequences it accepted, until
\* the phone is pruned and its stream starts over.
ImplementsStream == Stream!Spec

=============================================================================
