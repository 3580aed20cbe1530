--------------------------- MODULE TransportClient ---------------------------
(***************************************************************************)
(* The phone's outbound transport,                                         *)
(* apps/android/.../transport/TransportClient.kt: a singleton with a       *)
(* bounded queue filled by the service coroutines, one sender thread, and  *)
(* a WebSocket whose callbacks run on OkHttp's threads.  The threads share *)
(* volatile fields without a lock, so every access of a shared field is a  *)
(* step of its own.                                                        *)
(*                                                                         *)
(* External, from how the code uses OkHttp: newWebSocket returns at once   *)
(* and connects in the background; send() returns false, and drops the     *)
(* message, once the socket was closed or failed; every socket ends with   *)
(* one onFailure or onClosed, after which no callback of it runs.          *)
(*                                                                         *)
(* send() ends by handing the packet to InboundWebSocketServer.broadcast,  *)
(* which shares no state with this object and whose errors it swallows; it *)
(* is a no-op while no laptop has dialled in, the case modelled here.      *)
(***************************************************************************)
EXTENDS Integers, FiniteSets, Sequences

CONSTANTS
  Producers,   \* coroutines that call send(): captureLoop, heartbeatLoop
  QueueCap,    \* QUEUE_CAPACITY (256)
  MaxBackoff,  \* doublings from 500 ms to the 8 s cap (4)
  NoSocket,    \* webSocket == null
  MaxSends,    \* bound: packets per producer
  MaxSockets   \* bound: sockets in use at once

Sockets == 1..MaxSockets

ASSUME TransportAssumption ==
  /\ IsFiniteSet(Producers)
  /\ QueueCap \in Nat \ {0}
  /\ MaxBackoff \in Nat
  /\ MaxSends \in Nat /\ MaxSockets \in Nat
  /\ NoSocket \notin Sockets

\* The n-th packet of a producer.
Packet == Producers \X (1..MaxSends)

VARIABLES
  queue,         \* queue
  started,       \* started
  webSocket,     \* webSocket
  backoff,       \* backoffMs = 500 * 2^backoff
  droppedCount,  \* droppedCount
  sentCount,     \* sentCount
  producing,     \* per producer: where it is in send()
  sends,         \* per producer: packets passed to send() so far
  sender,        \* where senderLoop is
  holding,       \* the packet senderLoop took, <<>> if none
  using,         \* the socket senderLoop's ensureConnected is about to return
  state,         \* per socket: "unused", "connecting", "open", "closing", "dead"
  callback,      \* per socket: where its onFailure or onClosed is
  doubled,       \* backoffMs * 2 as senderLoop read it, before it is written
  wire,          \* history: packets OkHttp accepted, in order
  taken,         \* history: packets senderLoop took from the queue
  early          \* history: packets passed to send() before start()

queueVars == <<queue, droppedCount, producing, sends>>
logs == <<doubled, wire, taken, early>>
senderVars == <<sentCount, sender, holding, using, logs>>
socketVars == <<state, callback>>
vars == <<started, webSocket, backoff, queueVars, senderVars, socketVars>>

-----------------------------------------------------------------------------
Init ==
  /\ queue = <<>>
  /\ started = FALSE
  /\ webSocket = NoSocket
  /\ backoff = 0
  /\ droppedCount = 0
  /\ sentCount = 0
  /\ producing = [p \in Producers |-> "idle"]
  /\ sends = [p \in Producers |-> 0]
  /\ sender = "stopped"
  /\ holding = <<>>
  /\ using = NoSocket
  /\ state = [w \in Sockets |-> "unused"]
  /\ callback = [w \in Sockets |-> "none"]
  /\ doubled = 0
  /\ wire = <<>>
  /\ taken = 0
  /\ early = 0

\* start(context): a second call returns early.  onStartCommand runs on the
\* main thread, so two calls do not overlap.
Start ==
  /\ ~started
  /\ started' = TRUE
  /\ sender' = "take"
  /\ UNCHANGED <<webSocket, backoff, queueVars, sentCount, holding, using, logs, socketVars>>

-----------------------------------------------------------------------------
(* send(), called by the producers. *)

Goto(p, step) == producing' = [producing EXCEPT ![p] = step]
Mine(p) == <<p, sends[p]>>

\* The first offer, with the next packet.  Before start() the packet is
\* dropped with a log line only.
SendUnstarted(p) ==
  /\ producing[p] = "idle" /\ sends[p] < MaxSends
  /\ ~started
  /\ sends' = [sends EXCEPT ![p] = @ + 1]
  /\ early' = early + 1
  /\ UNCHANGED <<queue, droppedCount, producing, started, webSocket, backoff,
                 sentCount, sender, holding, using, doubled, wire, taken, socketVars>>

Send(p) ==
  /\ producing[p] = "idle" /\ sends[p] < MaxSends
  /\ started
  /\ sends' = [sends EXCEPT ![p] = @ + 1]
  /\ IF Len(queue) < QueueCap
     THEN queue' = Append(queue, <<p, sends'[p]>>) /\ UNCHANGED producing
     ELSE Goto(p, "full") /\ UNCHANGED queue
  /\ UNCHANGED <<droppedCount, started, webSocket, backoff, senderVars, socketVars>>

\* Mutant: the evicted packet is not counted.
PollUncounted(p) ==
  /\ producing[p] = "full"
  /\ Goto(p, "polled")
  /\ queue' = IF queue # <<>> THEN Tail(queue) ELSE queue
  /\ UNCHANGED <<droppedCount, sends, started, webSocket, backoff, senderVars, socketVars>>

\* queue.poll(): the oldest packet makes room, if there still is one.
PollOldest(p) ==
  /\ producing[p] = "full"
  /\ Goto(p, "polled")
  /\ IF queue # <<>>
     THEN queue' = Tail(queue) /\ droppedCount' = droppedCount + 1
     ELSE UNCHANGED <<queue, droppedCount>>
  /\ UNCHANGED <<sends, started, webSocket, backoff, senderVars, socketVars>>

\* The second offer; when the room is gone again the new packet is dropped.
OfferAgain(p) ==
  /\ producing[p] = "polled"
  /\ Goto(p, "idle")
  /\ IF Len(queue) < QueueCap
     THEN queue' = Append(queue, Mine(p)) /\ UNCHANGED droppedCount
     ELSE droppedCount' = droppedCount + 1 /\ UNCHANGED queue
  /\ UNCHANGED <<sends, started, webSocket, backoff, senderVars, socketVars>>

Producer(p) == SendUnstarted(p) \/ Send(p) \/ PollOldest(p) \/ OfferAgain(p)

-----------------------------------------------------------------------------
(* senderLoop and the parts of ensureConnected and closeQuietly it runs. *)

Take ==
  /\ sender = "take"
  /\ queue # <<>>
  /\ holding' = Head(queue)
  /\ queue' = Tail(queue)
  /\ taken' = taken + 1
  /\ sender' = "ensure"
  /\ UNCHANGED <<started, webSocket, backoff, droppedCount, producing, sends,
                 sentCount, using, doubled, wire, early, socketVars>>

\* webSocket?.let { return it }
Reuse ==
  /\ sender = "ensure"
  /\ webSocket # NoSocket
  /\ using' = webSocket
  /\ sender' = "send"
  /\ UNCHANGED <<started, webSocket, backoff, queueVars, sentCount, holding,
                 logs, socketVars>>

\* Socket numbers not in use: never opened, or dead with nothing left to run
\* and nobody holding a reference.
Unused == {w \in Sockets :
  /\ state[w] = "unused" \/ (state[w] = "dead" /\ callback[w] = "done")
  /\ w # webSocket /\ w # using}

\* Mutant: the socket in the field is not reused.
NewWebSocketAlways ==
  /\ sender = "ensure"
  /\ \E w \in Unused :
       /\ \A v \in Unused : w <= v
       /\ using' = w
       /\ state' = [state EXCEPT ![w] = "connecting"]
       /\ callback' = [callback EXCEPT ![w] = "none"]
  /\ sender' = "assign"
  /\ UNCHANGED <<started, webSocket, backoff, queueVars, sentCount, holding,
                 logs>>

\* newWebSocket: connecting starts, callbacks may run from now on, but the
\* field is not assigned yet.
NewWebSocket ==
  /\ sender = "ensure"
  /\ webSocket = NoSocket
  /\ \E w \in Unused :
       /\ \A v \in Unused : w <= v
       /\ using' = w
       /\ state' = [state EXCEPT ![w] = "connecting"]
       /\ callback' = [callback EXCEPT ![w] = "none"]
  /\ sender' = "assign"
  /\ UNCHANGED <<started, webSocket, backoff, queueVars, sentCount, holding,
                 logs>>

Assign ==
  /\ sender = "assign"
  /\ webSocket' = using
  /\ sender' = "send"
  /\ UNCHANGED <<started, backoff, queueVars, sentCount, holding, using, logs, socketVars>>

\* Mutant: the packet in hand goes back to the queue to be retried.
BadUrlRequeues ==
  /\ sender = "ensure"
  /\ webSocket = NoSocket
  /\ sender' = "failed"
  /\ holding' = <<>>
  /\ queue' = Append(queue, holding)
  /\ UNCHANGED <<started, webSocket, backoff, droppedCount, producing, sends,
                 sentCount, using, logs, socketVars>>

\* Mutant: the exception ends the sender thread.
BadUrlEndsSender ==
  /\ sender = "ensure"
  /\ webSocket = NoSocket
  /\ sender' = "stopped"
  /\ holding' = <<>>
  /\ UNCHANGED <<started, webSocket, backoff, queueVars, sentCount, using,
                 logs, socketVars>>

\* Request.Builder().url() throws on the URL the operator configured: the
\* packet in hand is lost.
BadUrl ==
  /\ sender = "ensure"
  /\ webSocket = NoSocket
  /\ sender' = "failed"
  /\ holding' = <<>>
  /\ UNCHANGED <<started, webSocket, backoff, queueVars, sentCount, using,
                 logs, socketVars>>

Accepts(w) == state[w] \in {"connecting", "open"}

\* send() and the counter: the result of send() is not looked at.
SendOnSocket ==
  /\ sender = "send"
  /\ wire' = IF Accepts(using) THEN Append(wire, holding) ELSE wire
  /\ sentCount' = sentCount + 1
  /\ holding' = <<>>
  /\ using' = NoSocket
  /\ sender' = "reset"
  /\ UNCHANGED <<started, webSocket, backoff, queueVars, doubled, taken, early, socketVars>>

ResetBackoff ==
  /\ sender = "reset"
  /\ backoff' = 0
  /\ sender' = "take"
  /\ UNCHANGED <<started, webSocket, queueVars, sentCount, holding, using,
                 logs, socketVars>>

\* closeQuietly, first half: close whatever socket the field holds.
Closed(states) ==
  [w \in Sockets |-> IF w = webSocket /\ states[w] \in {"connecting", "open"}
                     THEN "closing" ELSE states[w]]

SenderClose ==
  /\ sender = "failed"
  /\ state' = Closed(state)
  /\ sender' = "forget"
  /\ UNCHANGED <<started, webSocket, backoff, queueVars, sentCount, holding,
                 using, logs, callback>>

\* closeQuietly, second half.
SenderForget ==
  /\ sender = "forget"
  /\ webSocket' = NoSocket
  /\ sender' = "sleep"
  /\ UNCHANGED <<started, backoff, queueVars, sentCount, holding, using, logs, socketVars>>

\* Mutant: doubled without the cap.
BackoffUncapped ==
  /\ sender = "sleep"
  /\ doubled' = backoff + 1
  /\ sender' = "double"
  /\ UNCHANGED <<started, webSocket, backoff, queueVars, sentCount, holding,
                 using, wire, taken, early, socketVars>>

\* After the sleep: read the field and double, up to the cap.  An onOpen that
\* resets the field now is overwritten.
Backoff ==
  /\ sender = "sleep"
  /\ doubled' = IF backoff < MaxBackoff THEN backoff + 1 ELSE MaxBackoff
  /\ sender' = "double"
  /\ UNCHANGED <<started, webSocket, backoff, queueVars, sentCount, holding,
                 using, wire, taken, early, socketVars>>

\* The doubled value is written back and the iteration ends.
Doubled ==
  /\ sender = "double"
  /\ backoff' = doubled
  /\ doubled' = 0
  /\ sender' = "take"
  /\ UNCHANGED <<started, webSocket, queueVars, sentCount, holding, using, wire,
                 taken, early, socketVars>>

Sender == \/ Take \/ Reuse \/ NewWebSocket \/ Assign \/ BadUrl \/ SendOnSocket
          \/ ResetBackoff \/ SenderClose \/ SenderForget \/ Backoff \/ Doubled

-----------------------------------------------------------------------------
(* OkHttp's threads. *)

OnOpen(w) ==
  /\ state[w] = "connecting"
  /\ state' = [state EXCEPT ![w] = "open"]
  /\ backoff' = 0
  /\ UNCHANGED <<started, webSocket, queueVars, senderVars, callback>>

\* onFailure, or onClosed after a close: the socket is dead, its closeQuietly
\* is still to run.
Terminal(w) ==
  /\ state[w] \in {"connecting", "open", "closing"}
  /\ state' = [state EXCEPT ![w] = "dead"]
  /\ callback' = [callback EXCEPT ![w] = "close"]
  /\ UNCHANGED <<started, webSocket, backoff, queueVars, senderVars>>

CallbackClose(w) ==
  /\ callback[w] = "close"
  /\ state' = Closed(state)
  /\ callback' = [callback EXCEPT ![w] = "forget"]
  /\ UNCHANGED <<started, webSocket, backoff, queueVars, senderVars>>

CallbackForget(w) ==
  /\ callback[w] = "forget"
  /\ webSocket' = NoSocket
  /\ callback' = [callback EXCEPT ![w] = "done"]
  /\ UNCHANGED <<started, backoff, queueVars, senderVars, state>>

OkHttp(w) == OnOpen(w) \/ Terminal(w) \/ CallbackClose(w) \/ CallbackForget(w)

Next ==
  \/ Start
  \/ \E p \in Producers : Producer(p)
  \/ Sender
  \/ \E w \in Sockets : OkHttp(w)

Spec == Init /\ [][Next]_vars

\* The sender and the callbacks are threads the scheduler runs, and a send()
\* call under way returns; nothing makes a service call send() or the network
\* fail or come up.
Fairness ==
  /\ WF_vars(Sender)
  /\ \A p \in Producers : WF_vars(PollOldest(p) \/ OfferAgain(p))
  /\ \A w \in Sockets : WF_vars(CallbackClose(w) \/ CallbackForget(w))

FairSpec == Spec /\ Fairness

-----------------------------------------------------------------------------
TypeOK ==
  /\ queue \in Seq(Packet)
  /\ started \in BOOLEAN
  /\ webSocket \in Sockets \cup {NoSocket}
  /\ backoff \in 0..MaxBackoff
  /\ droppedCount \in Nat
  /\ sentCount \in Nat
  /\ producing \in [Producers -> {"idle", "full", "polled"}]
  /\ sends \in [Producers -> 0..MaxSends]
  /\ sender \in {"stopped", "take", "ensure", "assign", "send", "reset",
                 "failed", "forget", "sleep", "double"}
  /\ holding \in Packet \cup {<<>>}
  /\ using \in Sockets \cup {NoSocket}
  /\ state \in [Sockets -> {"unused", "connecting", "open", "closing", "dead"}]
  /\ callback \in [Sockets -> {"none", "close", "forget", "done"}]
  /\ doubled \in 0..MaxBackoff
  /\ wire \in Seq(Packet)
  /\ taken \in Nat
  /\ early \in Nat

\* The packets on their way, oldest first: what OkHttp accepted, the one the
\* sender holds, the queue, and per producer the one still being offered.
InHand == IF holding = <<>> THEN <<>> ELSE <<holding>>
Underway == wire \o InHand \o queue
Offering(p) == producing[p] # "idle"

\* Packets of one producer leave in the order it sent them and none twice,
\* whatever the other producer, the drops and the reconnects do in between
\* (lines 86-108, 119-144); the queue never exceeds its capacity.
SendOrderKept ==
  /\ \A i, j \in 1..Len(Underway) :
       i < j /\ Underway[i][1] = Underway[j][1] => Underway[i][2] < Underway[j][2]
  /\ \A p \in Producers : Offering(p) =>
       \A i \in 1..Len(Underway) : Underway[i] # Mine(p)
  /\ Len(queue) <= QueueCap

\* "The newest audio always wins over stale buffered audio": a packet passed to
\* send() of the started transport that neither waits in the queue, nor is between
\* its producer's two offers, nor was taken by senderLoop, was counted as dropped,
\* once and no other, whoever else puts and takes between the poll and the second
\* offer (lines 29-31, 98-108).  What the sender does with a packet it took is not
\* part of it: a failed iteration loses it uncounted (lines 129-142).
\* Passed holds everything given to send() so far, Offers counts the producers
\* between their two offers.
Offers == Cardinality({p \in Producers : Offering(p)})
Passed == {k \in Packet : k[2] <= sends[k[1]]}

DropsCounted ==
  Cardinality(Passed) = Len(queue) + Offers + droppedCount + taken + early

\* The phone never streams over two sockets at once, however late a callback
\* runs: closeQuietly works on the field and not on the socket it is about, and
\* the sender opens the next one without waiting for the last (lines 147-178).
SingleLiveSocket == Cardinality({w \in Sockets : Accepts(w)}) <= 1

\* The number of each producer's newest packet that got past the offers.
Placed == [p \in Producers |-> IF Offering(p) THEN sends[p] - 1 ELSE sends[p]]

Link == INSTANCE LossyLink WITH pending <- InHand \o queue, placed <- Placed

\* Sender, queue, sockets and their callbacks together are one lossy line: the
\* producer that evicts a packet while the sender holds one takes it from the
\* middle, a failed iteration from the front, and nothing is sent out of turn.
ImplementsLink == Link!Spec

\* The sender never stalls for good: what is in the queue is sent, lost to a
\* failure or dropped, through any number of failures and backoffs.
Drains == queue # <<>> ~> queue = <<>>

=============================================================================
