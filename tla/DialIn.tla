------------------------------- MODULE DialIn -------------------------------
(***************************************************************************)
(* The way round a network that keeps phones from reaching the laptop: the *)
(* laptop's phone_dialer connects to the phone's InboundWebSocketServer,   *)
(* which broadcasts to it what TransportClient sends.  Threads of the      *)
(* phone: the callers of start, stop and broadcast, an accept loop for     *)
(* every server socket and a reader for every connection; they meet in the *)
(* monitor of `clients` and in a lock for each socket's output.            *)
(*                                                                         *)
(* A message goes out in two pieces, as a write that is longer than the    *)
(* kernel's buffer has room for does.                                      *)
(***************************************************************************)
EXTENDS Naturals, Sequences

CONSTANTS
  Producers,   \* threads that broadcast
  Dials,       \* connections of the laptop
  Room,        \* pieces the kernel buffers between phone and laptop
  MaxStarts,   \* bound: starts of the server
  Nobody       \* no thread, no connection

ASSUME DialInAssumption ==
  /\ Room \in Nat \ {0} /\ MaxStarts \in Nat
  /\ Nobody \notin Producers \cup Dials /\ Producers \cap Dials = {}

VARIABLES
  service,   \* [started, pc, socket, count]: the flag, the start or stop under way,
             \* the server socket that is open (0: none) and those opened so far
  acceptor,  \* per server socket: [pc, dial] of its accept loop
  clients,   \* the set of that name
  monitor,   \* who is in its monitor
  sender,    \* per producer: [pc, todo, dial] of its broadcast
  socket,    \* per dial, the phone's end: [open, out, reader, ping]; out is the thread
             \* that holds the output's lock
  pipe,      \* per dial: the pieces on their way to the laptop
  laptop     \* per dial: dial_one

dialVars == <<service, acceptor, clients, monitor, sender, socket, pipe, laptop>>

DialInInit ==
  /\ service = [started |-> FALSE, pc |-> "idle", socket |-> 0, count |-> 0]
  /\ acceptor = [s \in 1..MaxStarts |-> [pc |-> "none", dial |-> Nobody]]
  /\ clients = {} /\ monitor = Nobody
  /\ sender = [p \in Producers |-> [pc |-> "idle", todo |-> {}, dial |-> Nobody]]
  /\ socket = [d \in Dials |-> [open |-> FALSE, out |-> Nobody, reader |-> "none", ping |-> FALSE]]
  /\ pipe = [d \in Dials |-> <<>>]
  /\ laptop = [d \in Dials |-> [pc |-> "idle", frozen |-> FALSE, partial |-> "none", torn |-> FALSE]]

(************************* start, stop, acceptLoop ***********************)

\* start(): the accept thread runs before the flag is set.
Bind ==
  /\ ~service.started /\ service.pc = "idle" /\ service.count < MaxStarts
  /\ LET s == service.count + 1
     IN  /\ service' = [service EXCEPT !.pc = "starting", !.socket = s, !.count = s]
         /\ acceptor' = [acceptor EXCEPT ![s].pc = "check"]
  /\ UNCHANGED <<clients, monitor, sender, socket, pipe, laptop>>

Started ==
  /\ service.pc = "starting"
  /\ service' = [service EXCEPT !.pc = "idle", !.started = TRUE]
  /\ UNCHANGED <<acceptor, clients, monitor, sender, socket, pipe, laptop>>

\* stop(): the flag, then every client in the monitor, then the server socket.
StopFlag ==
  /\ service.started /\ service.pc = "idle"
  /\ service' = [service EXCEPT !.pc = "stopping", !.started = FALSE]
  /\ UNCHANGED <<acceptor, clients, monitor, sender, socket, pipe, laptop>>

StopClients ==
  /\ service.pc = "stopping" /\ monitor = Nobody
  /\ service' = [service EXCEPT !.pc = "closing"]
  /\ clients' = {}
  /\ socket' = [d \in Dials |-> IF d \in clients THEN [socket[d] EXCEPT !.open = FALSE] ELSE socket[d]]
  /\ UNCHANGED <<acceptor, monitor, sender, pipe, laptop>>

\* Who waits to be accepted is refused.
StopServer ==
  /\ service.pc = "closing"
  /\ service' = [service EXCEPT !.pc = "idle", !.socket = 0]
  /\ laptop' = [d \in Dials |->
       IF laptop[d].pc = "backlog" THEN [laptop[d] EXCEPT !.pc = "ended"] ELSE laptop[d]]
  /\ UNCHANGED <<acceptor, clients, monitor, sender, socket, pipe>>

AcceptorAt(s, pc, d) == acceptor' = [acceptor EXCEPT ![s] = [pc |-> pc, dial |-> d]]

\* The loop's condition.  It looks at the flag, not at its own socket.
AcceptCheck(s) ==
  /\ acceptor[s].pc = "check"
  /\ AcceptorAt(s, IF service.started THEN "accept" ELSE "done", Nobody)
  /\ UNCHANGED <<service, clients, monitor, sender, socket, pipe, laptop>>

\* accept() on a closed socket raises: back to the condition, after a pause if
\* the server has been started again meanwhile.
AcceptFails(s) ==
  /\ acceptor[s].pc = "accept" /\ service.socket # s
  /\ AcceptorAt(s, IF service.started THEN "check" ELSE "done", Nobody)
  /\ UNCHANGED <<service, clients, monitor, sender, socket, pipe, laptop>>

Accept(s, d) ==
  /\ acceptor[s].pc = "accept" /\ service.socket = s /\ laptop[d].pc = "backlog"
  /\ AcceptorAt(s, "handshake", d)
  /\ laptop' = [laptop EXCEPT ![d].pc = "handshake"]
  /\ UNCHANGED <<service, clients, monitor, sender, socket, pipe>>

\* performHandshake succeeds and ClientConn starts its reader; or it raises, and
\* nobody closes the socket.
Handshake(s) ==
  /\ acceptor[s].pc = "handshake"
  /\ LET d == acceptor[s].dial
     IN  \/ /\ AcceptorAt(s, "add", d)
            /\ socket' = [socket EXCEPT ![d].open = TRUE, ![d].reader = "read"]
            /\ laptop' = [laptop EXCEPT ![d].pc = "open"]
         \/ /\ AcceptorAt(s, IF service.started THEN "check" ELSE "done", Nobody)
            /\ laptop' = [laptop EXCEPT ![d].pc = "ended"]
            /\ UNCHANGED socket
  /\ UNCHANGED <<service, clients, monitor, sender, pipe>>

\* clients.add, when the reader may be over already.
AddClient(s) ==
  /\ acceptor[s].pc = "add" /\ monitor = Nobody
  /\ clients' = clients \cup {acceptor[s].dial}
  /\ AcceptorAt(s, "check", Nobody)
  /\ UNCHANGED <<service, monitor, sender, socket, pipe, laptop>>

(******************************* broadcast *******************************)

\* The flag and the set are looked at without the monitor: the server may be
\* stopped, and its clients gone, when the monitor is free.
Broadcast(p) ==
  /\ sender[p].pc = "idle" /\ service.started /\ clients # {}
  /\ sender' = [sender EXCEPT ![p].pc = "enter"]
  /\ UNCHANGED <<service, acceptor, clients, monitor, socket, pipe, laptop>>

EnterMonitor(p) ==
  /\ sender[p].pc = "enter" /\ monitor = Nobody
  /\ monitor' = p
  /\ sender' = [sender EXCEPT ![p] = [pc |-> "next", todo |-> clients, dial |-> Nobody]]
  /\ UNCHANGED <<service, acceptor, clients, socket, pipe, laptop>>

\* The next client: nothing is sent to one that is closed.
NextClient(p, d) ==
  /\ sender[p].pc = "next" /\ d \in sender[p].todo
  /\ sender' = [sender EXCEPT ![p].todo = @ \ {d},
                              ![p].pc = IF socket[d].open THEN "lock" ELSE "next",
                              ![p].dial = d]
  /\ UNCHANGED <<service, acceptor, clients, monitor, socket, pipe, laptop>>

TakeOutput(p) ==
  /\ sender[p].pc = "lock" /\ socket[sender[p].dial].out = Nobody
  /\ socket' = [socket EXCEPT ![sender[p].dial].out = p]
  /\ sender' = [sender EXCEPT ![p].pc = "frame1"]
  /\ UNCHANGED <<service, acceptor, clients, monitor, pipe, laptop>>

\* The laptop's end of the connection is there.
PeerOpen(d) == laptop[d].pc = "open"
Writable(d) == socket[d].open /\ PeerOpen(d) /\ Len(pipe[d]) < Room
Breaks(d)   == ~socket[d].open \/ ~PeerOpen(d)

WriteFrame(p) ==
  /\ sender[p].pc \in {"frame1", "frame2"} /\ Writable(sender[p].dial)
  /\ LET d == sender[p].dial
     IN  /\ pipe' = [pipe EXCEPT ![d] = Append(@, sender[p].pc)]
         /\ IF sender[p].pc = "frame1"
              THEN sender' = [sender EXCEPT ![p].pc = "frame2"] /\ UNCHANGED socket
              ELSE /\ sender' = [sender EXCEPT ![p].pc = "next"]
                   /\ socket' = [socket EXCEPT ![d].out = Nobody]
  /\ UNCHANGED <<service, acceptor, clients, monitor, laptop>>

\* write raises: sendFrame closes the connection, as the owner of the monitor.
WriteFails(p) ==
  /\ sender[p].pc \in {"frame1", "frame2"} /\ Breaks(sender[p].dial)
  /\ LET d == sender[p].dial
     IN  /\ socket' = [socket EXCEPT ![d].out = Nobody, ![d].open = FALSE]
         /\ clients' = IF socket[d].open THEN clients \ {d} ELSE clients
  /\ sender' = [sender EXCEPT ![p].pc = "next"]
  /\ UNCHANGED <<service, acceptor, monitor, pipe, laptop>>

Leave(p) ==
  /\ sender[p].pc = "next" /\ sender[p].todo = {}
  /\ monitor' = Nobody
  /\ sender' = [sender EXCEPT ![p].pc = "idle"]
  /\ UNCHANGED <<service, acceptor, clients, socket, pipe, laptop>>

(****************************** ClientConn *******************************)

ReaderAt(d, pc) == socket' = [socket EXCEPT ![d].reader = pc]

\* read() returns a PING.
ReadPing(d) ==
  /\ socket[d].reader = "read" /\ socket[d].open /\ socket[d].ping
  /\ socket' = [socket EXCEPT ![d].reader = "pong", ![d].ping = FALSE]
  /\ UNCHANGED <<service, acceptor, clients, monitor, sender, pipe, laptop>>

\* Mutant: the PONG does not wait for the output's lock.
AnyTime(d) == TRUE

\* synchronized(out).
OutputFree(d) == socket[d].out = Nobody

TakeOutputToPong(d) ==
  /\ socket[d].reader = "pong" /\ OutputFree(d)
  /\ socket' = [socket EXCEPT ![d].reader = "pong1", ![d].out = d]
  /\ UNCHANGED <<service, acceptor, clients, monitor, sender, pipe, laptop>>

WritePong(d) ==
  /\ socket[d].reader \in {"pong1", "pong2"}
  /\ \/ /\ Writable(d)
        /\ pipe' = [pipe EXCEPT ![d] = Append(@, socket[d].reader)]
        /\ IF socket[d].reader = "pong1" THEN ReaderAt(d, "pong2")
           ELSE socket' = [socket EXCEPT ![d].reader = "read", ![d].out = Nobody]
     \/ /\ Breaks(d)
        /\ socket' = [socket EXCEPT ![d].reader = "close", ![d].out = Nobody]
        /\ UNCHANGED pipe
  /\ UNCHANGED <<service, acceptor, clients, monitor, sender, laptop>>

\* read() times out five seconds after the last byte from the laptop, or the
\* connection is over.
ReadEnds(d) ==
  /\ socket[d].reader = "read"
  /\ ReaderAt(d, "close")
  /\ UNCHANGED <<service, acceptor, clients, monitor, sender, pipe, laptop>>

\* Mutant: the client is taken out of the set before its socket is closed.
MonitorFirst == monitor = Nobody

\* What close() needs before it closes the socket.
CloseReady == TRUE

CloseSocket(d) ==
  /\ socket[d].reader = "close" /\ CloseReady
  /\ socket' = [socket EXCEPT ![d].open = FALSE,
       ![d].reader = IF socket[d].open THEN "remove" ELSE "done"]
  /\ UNCHANGED <<service, acceptor, clients, monitor, sender, pipe, laptop>>

RemoveClient(d) ==
  /\ socket[d].reader = "remove" /\ monitor = Nobody
  /\ clients' = clients \ {d}
  /\ ReaderAt(d, "done")
  /\ UNCHANGED <<service, acceptor, monitor, sender, pipe, laptop>>

ReaderStep(d) ==
  ReadPing(d) \/ TakeOutputToPong(d) \/ WritePong(d) \/ ReadEnds(d) \/ CloseSocket(d) \/ RemoveClient(d)

(******************************** dial_one *******************************)

PhoneElse == UNCHANGED <<service, acceptor, clients, monitor, sender>>

\* connect(): refused when the server's socket is not open.
Dial(d) ==
  /\ laptop[d].pc = "idle"
  /\ laptop' = [laptop EXCEPT ![d].pc = IF service.socket = 0 THEN "ended" ELSE "backlog"]
  /\ UNCHANGED <<socket, pipe>> /\ PhoneElse

\* The keepalive's PING.
Ping(d) ==
  /\ laptop[d].pc = "open" /\ ~laptop[d].frozen /\ ~socket[d].ping
  /\ socket' = [socket EXCEPT ![d].ping = TRUE]
  /\ UNCHANGED <<pipe, laptop>> /\ PhoneElse

\* The laptop is asleep or out of reach.
Freeze(d) ==
  /\ laptop[d].pc = "open"
  /\ laptop' = [laptop EXCEPT ![d].frozen = TRUE]
  /\ UNCHANGED <<socket, pipe>> /\ PhoneElse

\* The laptop takes a piece; the second of a frame completes a message, and what
\* verify_packet raises ends the dial.  A piece that does not continue what was
\* begun is not a frame of the protocol.
Take(d) ==
  /\ laptop[d].pc = "open" /\ ~laptop[d].frozen /\ pipe[d] # <<>>
  /\ LET piece == Head(pipe[d])
         fits  == laptop[d].partial = CASE piece = "frame2" -> "frame1" [] piece = "pong2" -> "pong1"
                                        [] OTHER -> "none"
     IN  /\ pipe' = [pipe EXCEPT ![d] = Tail(@)]
         /\ \E pc \in {"open"} \cup IF piece = "frame2" THEN {"ended"} ELSE {} :
              laptop' = [laptop EXCEPT ![d].pc = pc, ![d].torn = @ \/ ~fits,
                ![d].partial = IF piece \in {"frame1", "pong1"} THEN piece ELSE "none"]
  /\ UNCHANGED socket /\ PhoneElse

\* The deadline has passed, or no PONG matched the PING, or the phone closed the
\* connection and everything before that is read.
HangUpDial(d) ==
  /\ laptop[d].pc = "open" /\ ~laptop[d].frozen
  /\ laptop' = [laptop EXCEPT ![d].pc = "ended"]
  /\ UNCHANGED <<socket, pipe>> /\ PhoneElse

DialInNext ==
  \/ Bind \/ Started \/ StopFlag \/ StopClients \/ StopServer
  \/ \E s \in 1..MaxStarts :
       \/ AcceptCheck(s) \/ AcceptFails(s) \/ Handshake(s) \/ AddClient(s)
       \/ \E d \in Dials : Accept(s, d)
  \/ \E p \in Producers :
       \/ Broadcast(p) \/ EnterMonitor(p) \/ TakeOutput(p) \/ WriteFrame(p) \/ WriteFails(p) \/ Leave(p)
       \/ \E d \in Dials : NextClient(p, d)
  \/ \E d \in Dials :
       ReaderStep(d) \/ Dial(d) \/ Ping(d) \/ Freeze(d) \/ Take(d) \/ HangUpDial(d)

-----------------------------------------------------------------------------
\* What a dial reads is whole messages, never a PONG in the middle of a packet or
\* the reverse, nor the end of one whose beginning was lost: whichever threads
\* write, and whenever either end is closed (InboundWebSocketServer.kt 85-97,
\* 136-139; phone_dialer.py 131-140).
DialedWhole == \A d \in Dials : ~laptop[d].torn

\* A laptop that stops reading does not stop the phone's producers for good: the
\* broadcast that waits for it holds the monitor of clients, but the reader can
\* go on to close the socket without it.  Unless the reader is answering a PING:
\* then both wait for the laptop (InboundWebSocketServer.kt 85-97, 113-157,
\* 218-230).
BroadcastHasWayOut ==
  \A p \in Producers :
    LET d == sender[p].dial
    IN  sender[p].pc \in {"frame1", "frame2"} /\ ~Breaks(d) =>
          ENABLED ReaderStep(d) \/ socket[d].reader = "pong"

=============================================================================
