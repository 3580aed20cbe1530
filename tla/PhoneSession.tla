---------------------------- MODULE PhoneSession ----------------------------
(***************************************************************************)
(* A phone's capture and chirp services talking to the laptop's packet     *)
(* server: apps/android/.../capture/CaptureService.kt and                  *)
(* sync/ChirpService.kt composed with PacketServer.                        *)
(*                                                                         *)
(* A service instance owns a coroutine scope and a sequence counter; its   *)
(* onStartCommand launches one more coroutine every time it is called, and *)
(* onDestroy cancels the scope.  A coroutine looks at scope.isActive once  *)
(* an iteration, so a cancelled one may still number and send the packet   *)
(* it is on.  The transport is a singleton that outlives the services, so  *)
(* the socket stays up when they are restarted.  It sends what it queues   *)
(* in order and with losses (TransportClient, ImplementsLink) over one     *)
(* socket, and after a failure over another; each socket has a handler of  *)
(* its own on the laptop, so what an old socket still carries may be read  *)
(* after what came over a newer one.                                       *)
(***************************************************************************)
EXTENDS PacketServer

CONSTANTS
  Kinds,        \* the services that send: subset of {"audio", "heartbeat"}
  Coroutines,   \* loops launched by onStartCommand
  Outbox,       \* the transport's own queue, beside the sockets
  MaxStarts,    \* bound: service instances of each kind
  MaxLaunches,  \* bound: calls of onStartCommand
  MaxNumber     \* bound: packets numbered by an instance

Instances == 1..MaxStarts
Lines == Sockets \cup {Outbox}

ASSUME SessionAssumption ==
  /\ MaxStarts \in Nat /\ MaxLaunches \in Nat /\ MaxNumber \in Nat /\ MaxNumber <= MaxSeq
  /\ \A s \in Sockets : PhonesOf[s] = Phones
  /\ Outbox \notin Sockets

VARIABLES
  active,    \* per kind: the running instance, 0 if none
  started,   \* per kind: instances created so far
  counter,   \* per kind and instance: sequence or heartbeatSequence
  loop,      \* per coroutine: its kind, instance, place and packet number
  link,      \* packets queued by the transport, and on their way over each socket
  current,   \* the socket the transport sends over
  launched,  \* bound: coroutines launched so far
  newest,    \* history: per phone, whose packet the connection accepted last
  refused    \* history: <<kind, instance>> of packets dropped as duplicates

phoneVars == <<active, started, counter, loop, launched>>
laptopVars == <<vars, newest, refused>>
sessionVars == <<laptopVars, phoneVars, link, current>>

Idle == [kind |-> "none", instance |-> 0, at |-> "free", number |-> 0]

\* The packet coroutine c is about to send, and where a packet came from when it
\* is read from socket s.
Packet(c) == [loop |-> c, kind |-> loop[c].kind, instance |-> loop[c].instance,
              number |-> loop[c].number]
Origin(s, m) == <<s, m.loop, m.kind, m.instance>>

-----------------------------------------------------------------------------
SessionInit ==
  /\ Init
  /\ active = [k \in Kinds |-> 0]
  /\ started = [k \in Kinds |-> 0]
  /\ counter = [k \in Kinds |-> [i \in Instances |-> 0]]
  /\ loop = [c \in Coroutines |-> Idle]
  /\ link = [a \in Lines |-> <<>>]
  /\ current \in Sockets
  /\ launched = 0
  /\ newest = [p \in Phones |-> <<>>]
  /\ refused = {}

\* onStartCommand: a new instance if none runs, and one more coroutine.
StartCommand(k, c) ==
  /\ loop[c].at = "free"
  /\ active[k] # 0 \/ started[k] < MaxStarts
  /\ launched < MaxLaunches
  /\ LET i == IF active[k] = 0 THEN started[k] + 1 ELSE active[k]
     IN  /\ active' = [active EXCEPT ![k] = i]
         /\ started' = [started EXCEPT ![k] = IF active[k] = 0 THEN i ELSE @]
         /\ loop' = [loop EXCEPT ![c] =
                       [kind |-> k, instance |-> i, at |-> "check", number |-> 0]]
  /\ launched' = launched + 1
  /\ UNCHANGED <<laptopVars, counter, link, current>>

\* onDestroy: the scope is cancelled.
Destroy(k) ==
  /\ active[k] # 0
  /\ active' = [active EXCEPT ![k] = 0]
  /\ UNCHANGED <<laptopVars, started, counter, loop, launched, link, current>>

\* while (scope.isActive): on to the next frame, or out of the loop.
CheckActive(c) ==
  /\ loop[c].at = "check"
  /\ loop' = [loop EXCEPT ![c] = IF active[@.kind] = @.instance
                                 THEN [@ EXCEPT !.at = "number"] ELSE Idle]
  /\ UNCHANGED <<laptopVars, active, started, counter, launched, link, current>>

\* Mutant: the packet takes the number before the increment reaches the other
\* coroutine's counter: each coroutine counts for itself.
NumberAlone(c) ==
  /\ loop[c].at = "number"
  /\ LET k == loop[c].kind
         i == loop[c].instance
     IN  /\ counter[k][i] < MaxNumber
         /\ counter' = counter
         /\ loop' = [loop EXCEPT ![c].at = "send", ![c].number = counter[k][i] + 1]
  /\ UNCHANGED <<laptopVars, active, started, launched, link, current>>

\* incrementAndGet, after the blocking read of the frame.
Number(c) ==
  /\ loop[c].at = "number"
  /\ LET k == loop[c].kind
         i == loop[c].instance
     IN  /\ counter[k][i] < MaxNumber
         /\ counter' = [counter EXCEPT ![k][i] = @ + 1]
         /\ loop' = [loop EXCEPT ![c].at = "send", ![c].number = counter[k][i] + 1]
  /\ UNCHANGED <<laptopVars, active, started, launched, link, current>>

\* Mutant: the packet is sent again, to be on the safe side.
TransmitTwice(c) ==
  /\ loop[c].at = "send"
  /\ link' = [link EXCEPT ![Outbox] = @ \o <<Packet(c), Packet(c)>>]
  /\ loop' = [loop EXCEPT ![c].at = "check", ![c].number = 0]
  /\ UNCHANGED <<laptopVars, active, started, counter, launched, current>>

\* TransportClient.send
Transmit(c) ==
  /\ loop[c].at = "send"
  /\ link' = [link EXCEPT ![Outbox] = Append(@, Packet(c))]
  /\ loop' = [loop EXCEPT ![c].at = "check", ![c].number = 0]
  /\ UNCHANGED <<laptopVars, active, started, counter, launched, current>>

\* senderLoop hands the oldest packet to the socket, which buffers it until the
\* handshake is over.
Ship ==
  /\ link[Outbox] # <<>>
  /\ link' = [link EXCEPT ![Outbox] = Tail(@),
                          ![current] = Append(@, Head(link[Outbox]))]
  /\ UNCHANGED <<laptopVars, phoneVars, current>>

\* The socket failed: the transport opens another one for what it still queues.
\* What was handed to the old socket may arrive late or not at all.
Reconnect(s) ==
  /\ s # current
  /\ socket[s] = "idle"
  /\ current' = s
  /\ UNCHANGED <<laptopVars, phoneVars, link>>

\* A packet handed to a socket that was failing.  A packet the transport sheds
\* from its queue is lost here as well, when its turn has come.
Lose(s) ==
  /\ link[s] # <<>>
  /\ link' = [link EXCEPT ![s] = Tail(@)]
  /\ UNCHANGED <<laptopVars, phoneVars, current>>

\* The handler of socket s reads its oldest packet and _on_packet runs on it.
Deliver(s, p) ==
  /\ link[s] # <<>>
  /\ LET m == Head(link[s])
     IN  \/ RateLimited(s, p) /\ UNCHANGED <<newest, refused>>
         \/ /\ Accept(s, p, m.number)
            /\ newest' = [newest EXCEPT ![p] = Origin(s, m)]
            /\ UNCHANGED refused
         \/ /\ Duplicate(s, p, m.number)
            /\ refused' = refused \cup {<<m.kind, m.instance>>}
            /\ UNCHANGED newest
  /\ link' = [link EXCEPT ![s] = Tail(@)]
  /\ UNCHANGED <<phoneVars, current>>

\* Handshakes and closes, which the server may notice long after the phone has
\* moved on, and the consumer.
ServerSide ==
  /\ \/ Connect(current)
     \/ \E s \in Sockets : Close(s)
     \/ \E p \in Phones : Take(p)
  /\ UNCHANGED <<newest, refused, phoneVars, link, current>>

SessionNext ==
  \/ \E k \in Kinds : Destroy(k) \/ \E c \in Coroutines : StartCommand(k, c)
  \/ \E c \in Coroutines : CheckActive(c) \/ Number(c) \/ Transmit(c)
  \/ Ship
  \/ \E s \in Sockets : Reconnect(s) \/ Lose(s) \/ \E p \in Phones : Deliver(s, p)
  \/ ServerSide

SessionSpec == SessionInit /\ [][SessionNext]_sessionVars

-----------------------------------------------------------------------------
SessionTypeOK ==
  /\ TypeOK
  /\ active \in [Kinds -> {0} \cup Instances]
  /\ started \in [Kinds -> {0} \cup Instances]
  /\ counter \in [Kinds -> [Instances -> 0..MaxNumber]]
  /\ \A c \in Coroutines :
       /\ loop[c].kind \in Kinds \cup {"none"}
       /\ loop[c].instance \in {0} \cup Instances
       /\ loop[c].at \in {"free", "check", "number", "send"}
       /\ loop[c].number \in 0..MaxNumber
  /\ current \in Sockets
  /\ launched \in 0..MaxLaunches
  /\ newest \in [Phones -> {<<>>} \cup (Sockets \X Coroutines \X Kinds \X Instances)]
  /\ refused \subseteq Kinds \X Instances

\* "The laptop's ingest monotonic-sequence check silently drops packets with
\* sequence <= conn.sequence" (ChirpService.kt 45-50): that check never turns a
\* loop's own stream against it.  Whatever both services, several launches of
\* them, restarts, losses and replaced sockets do, a packet the server is about to
\* refuse was overtaken by one of another loop or from another socket
\* (CaptureService.kt 168-193, ChirpService.kt 142-188, websocket_server.py 201).
OwnStreamHeard ==
  \A s \in Sockets, p \in Connected :
    link[s] # <<>> /\ newest[p] = Origin(s, Head(link[s]))
      => connections[p].sequence < Head(link[s]).number

\* The packets a service instance has under way carry different numbers even
\* when onStartCommand launched several loops into it and the transport moves
\* them between its queue and its sockets: each frame is numbered by one atomic
\* increment (CaptureService.kt 187).
Identity(m) == <<m.kind, m.instance, m.number>>
Sending == {c \in Coroutines : loop[c].at = "send"}
Places == UNION {{a} \X (1..Len(link[a])) : a \in Lines}
At(x) == link[x[1]][x[2]]

NumbersUnique ==
  /\ \A x, y \in Places : x # y => Identity(At(x)) # Identity(At(y))
  /\ \A c \in Sending, x \in Places : Identity(loop[c]) # Identity(At(x))
  /\ \A c, d \in Sending : c # d => Identity(loop[c]) # Identity(loop[d])

\* CHANGELOG T11: "MainActivity has a 'Restart array' button as the on-device
\* recovery ritual."  What a restarted service sends is heard.
RestartIsHeard == \A k \in Kinds, i \in Instances : i > 1 => <<k, i>> \notin refused

=============================================================================
