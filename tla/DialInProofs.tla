---------------------------- MODULE DialInProofs ----------------------------
(***************************************************************************)
(* What a laptop reads from the phone's inbound server is whole, for any   *)
(* number of producers, dials and starts and any kernel buffer.            *)
(***************************************************************************)
EXTENDS DialIn, TLAPS, SequenceTheorems

DialInSpec == DialInInit /\ [][DialInNext]_dialVars

Pieces == {"frame1", "frame2", "pong1", "pong2"}

(*************************** The inductive invariant *********************)

ServiceType  == [started : BOOLEAN, pc : {"idle", "starting", "stopping", "closing"},
                 socket : 0..MaxStarts, count : 0..MaxStarts]
AcceptorType == [pc : {"none", "check", "accept", "handshake", "add", "done"},
                 dial : Dials \cup {Nobody}]
SenderType   == [pc : {"idle", "enter", "next", "lock", "frame1", "frame2"},
                 todo : SUBSET Dials, dial : Dials \cup {Nobody}]
SocketType   == [open : BOOLEAN, out : Producers \cup Dials \cup {Nobody},
                 reader : {"none", "read", "pong", "pong1", "pong2", "close", "remove", "done"},
                 ping : BOOLEAN]
LaptopType   == [pc : {"idle", "backlog", "handshake", "open", "ended"}, frozen : BOOLEAN,
                 partial : {"none", "frame1", "pong1"}, torn : BOOLEAN]

DialTyped ==
  /\ service \in ServiceType
  /\ acceptor \in [1..MaxStarts -> AcceptorType]
  /\ clients \subseteq Dials
  /\ monitor \in Producers \cup {Nobody}
  /\ sender \in [Producers -> SenderType]
  /\ socket \in [Dials -> SocketType]
  /\ pipe \in [Dials -> Seq(Pieces)]
  /\ laptop \in [Dials -> LaptopType]

\* A dial in its handshake has one accept loop that performs it, and a loop that
\* is about to add a client has one.
OneHandshake ==
  /\ \A s \in 1..MaxStarts :
       /\ acceptor[s].pc \in {"handshake", "add"} => acceptor[s].dial \in Dials
       /\ acceptor[s].pc = "handshake" => laptop[acceptor[s].dial].pc = "handshake"
  /\ \A s, r \in 1..MaxStarts :
       acceptor[s].pc = "handshake" /\ acceptor[r].pc = "handshake"
         /\ acceptor[s].dial = acceptor[r].dial => s = r

\* Until its handshake is over, nobody has used a dial's socket.
Fresh(d) ==
  laptop[d].pc \in {"idle", "backlog", "handshake"} =>
    /\ ~socket[d].open /\ socket[d].out = Nobody /\ socket[d].reader = "none"
    /\ pipe[d] = <<>> /\ laptop[d].partial = "none"

\* A producer is busy with a dial from the moment it looked at it to the end of
\* its write, and writes while it holds that output.
AtWork ==
  \A p \in Producers :
    /\ sender[p].pc \in {"lock", "frame1", "frame2"} =>
         /\ sender[p].dial \in Dials
         /\ laptop[sender[p].dial].pc \in {"open", "ended"}
    /\ sender[p].pc \in {"frame1", "frame2"} => socket[sender[p].dial].out = p

\* The output's lock is held by a producer that writes there, by the reader while
\* it answers, or by nobody.
Held(d) ==
  /\ socket[d].out \in Producers \cup {d, Nobody}
  /\ socket[d].out = d <=> socket[d].reader \in {"pong1", "pong2"}
  /\ socket[d].out \in Producers =>
       /\ sender[socket[d].out].pc \in {"frame1", "frame2"}
       /\ sender[socket[d].out].dial = d

\* What has to have come before a piece, and what is begun after it.
Needs(piece) == CASE piece = "frame2" -> "frame1" [] piece = "pong2" -> "pong1" [] OTHER -> "none"
After(piece) == IF piece \in {"frame1", "pong1"} THEN piece ELSE "none"

\* What is begun when piece i is read, of the pieces q behind partial.
Before(q, partial, i) == IF i = 1 THEN partial ELSE After(q[i - 1])
Fits(q, partial)      == \A i \in 1..Len(q) : Needs(q[i]) = Before(q, partial, i)
Begun(q, partial)     == Before(q, partial, Len(q) + 1)

\* What the thread that holds the output has begun.
Phase(d) ==
  IF socket[d].out \in Producers
    THEN IF sender[socket[d].out].pc = "frame2" THEN "frame1" ELSE "none"
    ELSE IF socket[d].reader = "pong2" THEN "pong1" ELSE "none"

\* The pieces on their way fit together, and as long as both ends are there the
\* last of them is where the thread that holds the output is.
InStep(d) ==
  /\ Fits(pipe[d], laptop[d].partial)
  /\ ~Breaks(d) => Begun(pipe[d], laptop[d].partial) = Phase(d)

\* Nothing that was taken did not fit.
Whole(it) == ~it.torn

Dialled(d) == Fresh(d) /\ Held(d) /\ InStep(d) /\ Whole(laptop[d])

DialInv == DialTyped /\ OneHandshake /\ AtWork /\ \A d \in Dials : Dialled(d)

(****************************** Fitting pieces ***************************)

\* A piece that continues what the others have begun may follow them.
LEMMA FittingAppend ==
  ASSUME NEW q \in Seq(Pieces), NEW partial, NEW x \in Pieces,
         Fits(q, partial), Needs(x) = Begun(q, partial)
  PROVE  /\ Fits(Append(q, x), partial)
         /\ Begun(Append(q, x), partial) = After(x)
<1> DEFINE n == Len(q)
           r == Append(q, x)
<1>1. /\ n \in Nat /\ Len(r) = n + 1
      /\ \A i \in 1..n : r[i] = q[i]
      /\ r[n + 1] = x
  BY AppendProperties, LenProperties
<1>2. \A i \in 1..n : Needs(q[i]) = Before(q, partial, i)
  BY DEF Fits
<1>3. Needs(x) = Before(q, partial, n + 1)
  BY DEF Begun
<1> HIDE DEF n, r
<1>4. \A i \in 1..n + 1 : Before(r, partial, i) = Before(q, partial, i)
  BY <1>1 DEF Before
<1>5. \A i \in 1..n + 1 : Needs(r[i]) = Before(r, partial, i)
  <2> SUFFICES ASSUME NEW i \in 1..n + 1 PROVE Needs(r[i]) = Before(r, partial, i)
    OBVIOUS
  <2>1. CASE i = n + 1
    BY <2>1, <1>1, <1>3, <1>4
  <2>2. CASE i # n + 1
    <3>1. i \in 1..n
      BY <2>2, <1>1
    <3> QED BY <3>1, <1>1, <1>2, <1>4
  <2> QED BY <2>1, <2>2
<1>6. Fits(r, partial)
  BY <1>1, <1>5 DEF Fits
<1>7. Begun(r, partial) = After(x)
  BY <1>1 DEF Begun, Before
<1> QED BY <1>6, <1>7 DEF r

\* The oldest piece fits what is begun, and the others go on from it.
LEMMA FittingTail ==
  ASSUME NEW q \in Seq(Pieces), NEW partial, Fits(q, partial), q # <<>>
  PROVE  /\ Head(q) \in Pieces /\ Needs(Head(q)) = partial
         /\ Tail(q) \in Seq(Pieces)
         /\ Fits(Tail(q), After(Head(q)))
         /\ Begun(Tail(q), After(Head(q))) = Begun(q, partial)
<1> DEFINE n == Len(q)
           r == Tail(q)
           h == Head(q)
<1>1. /\ n \in Nat /\ n >= 1 /\ h = q[1] /\ h \in Pieces /\ r \in Seq(Pieces)
      /\ Len(r) = n - 1 /\ \A i \in 1..n - 1 : r[i] = q[i + 1]
  BY HeadTailProperties, LenProperties, EmptySeq
<1>2. \A i \in 1..n : Needs(q[i]) = Before(q, partial, i)
  BY DEF Fits
<1> HIDE DEF n, r, h
<1>3. Needs(h) = partial
  BY <1>1, <1>2 DEF Before
<1>4. \A i \in 1..n : Before(r, After(h), i) = Before(q, partial, i + 1)
  <2> SUFFICES ASSUME NEW i \in 1..n PROVE Before(r, After(h), i) = Before(q, partial, i + 1)
    OBVIOUS
  <2>1. CASE i = 1
    BY <2>1, <1>1 DEF Before
  <2>2. CASE i # 1
    <3>1. i - 1 \in 1..n - 1 /\ (i - 1) + 1 = i /\ (i + 1) - 1 = i /\ i + 1 # 1
      BY <2>2, <1>1
    <3>2. r[i - 1] = q[i]
      BY <3>1, <1>1
    <3> QED BY <2>2, <3>1, <3>2 DEF Before
  <2> QED BY <2>1, <2>2
<1>5. Fits(r, After(h))
  <2> SUFFICES ASSUME NEW i \in 1..n - 1 PROVE Needs(r[i]) = Before(r, After(h), i)
    BY <1>1 DEF Fits
  <2>1. i \in 1..n /\ i + 1 \in 1..n
    BY <1>1
  <2> QED BY <2>1, <1>1, <1>2, <1>4
<1>6. Begun(r, After(h)) = Begun(q, partial)
  <2>1. (n - 1) + 1 = n /\ n \in 1..n
    BY <1>1
  <2> QED BY <2>1, <1>1, <1>4 DEF Begun, n, r
<1> QED BY <1>1, <1>3, <1>5, <1>6 DEF n, r, h

(******************************** The steps ******************************)

LEMMA DialStarts == DialInInit => DialInv
<1> SUFFICES ASSUME DialInInit PROVE DialInv
  OBVIOUS
<1> USE DialInAssumption
<1>1. DialTyped
  BY DEF DialInInit, DialTyped, ServiceType, AcceptorType, SenderType, SocketType, LaptopType
<1>2. OneHandshake /\ AtWork
  BY DEF DialInInit, OneHandshake, AtWork
<1>3. ASSUME NEW d \in Dials PROVE Dialled(d)
  <2>1. /\ socket[d] = [open |-> FALSE, out |-> Nobody, reader |-> "none", ping |-> FALSE]
        /\ pipe[d] = <<>>
        /\ laptop[d] = [pc |-> "idle", frozen |-> FALSE, partial |-> "none", torn |-> FALSE]
    BY DEF DialInInit
  <2>2. Fresh(d) /\ Held(d) /\ Whole(laptop[d])
    BY <2>1 DEF Fresh, Held, Whole
  <2>3. Fits(<<>>, "none") /\ Begun(<<>>, "none") = "none"
    BY DEF Fits, Begun, Before
  <2>4. InStep(d)
    BY <2>1, <2>3 DEF InStep, Breaks
  <2> QED BY <2>2, <2>4 DEF Dialled
<1> QED BY <1>1, <1>2, <1>3 DEF DialInv

\* A dial whose ends, and whose writer, do not move.
LEMMA Undisturbed ==
  ASSUME NEW d \in Dials, Dialled(d), socket'[d] = socket[d], pipe'[d] = pipe[d],
         laptop'[d] = laptop[d],
         \A p \in Producers : socket[d].out = p => sender'[p] = sender[p]
  PROVE  Dialled(d)'
<1>1. Fresh(d)' /\ Held(d)' /\ Whole(laptop'[d])
  BY DEF Dialled, Fresh, Held
<1>2. Phase(d)' = Phase(d) /\ (Breaks(d)' <=> Breaks(d))
  BY DEF Phase, Breaks, PeerOpen
<1>3. InStep(d)'
  BY <1>2 DEF Dialled, InStep
<1> QED BY <1>1, <1>3 DEF Dialled

\* The producers go on when what they look at stays.
LEMMA StillAtWork ==
  ASSUME AtWork, UNCHANGED sender,
         \A p \in Producers :
           /\ sender[p].pc \in {"lock", "frame1", "frame2"} =>
                laptop'[sender[p].dial].pc \in {"open", "ended"}
           /\ sender[p].pc \in {"frame1", "frame2"} =>
                socket'[sender[p].dial].out = socket[sender[p].dial].out
  PROVE  AtWork'
BY DEF AtWork

\* start, stop and the accept loop between two looks at a socket.
LEMMA ServiceSteps ==
  ASSUME DialInv,
         \/ Bind \/ Started \/ StopFlag
         \/ \E s \in 1..MaxStarts : AcceptCheck(s) \/ AcceptFails(s) \/ AddClient(s)
  PROVE  DialInv'
<1> USE DialInAssumption
<1>1. DialTyped /\ OneHandshake /\ AtWork /\ \A d \in Dials : Dialled(d)
  BY DEF DialInv
<1>2. UNCHANGED <<monitor, sender, socket, pipe, laptop>>
  BY DEF Bind, Started, StopFlag, AcceptCheck, AcceptFails, AddClient
<1>3. AtWork' /\ \A d \in Dials : Dialled(d)'
  BY <1>1, <1>2, Undisturbed, StillAtWork DEF AtWork
<1>4. CASE Bind
  <2> DEFINE n == service.count + 1
  <2>0. service \in ServiceType /\ service.count < MaxStarts
    BY <1>1, <1>4 DEF Bind, DialTyped
  <2>1. n \in 1..MaxStarts
    BY <2>0 DEF ServiceType
  <2>a. /\ service' = [service EXCEPT !.pc = "starting", !.socket = n, !.count = n]
        /\ acceptor' = [acceptor EXCEPT ![n].pc = "check"] /\ UNCHANGED clients
    BY <1>4 DEF Bind
  <2> HIDE DEF n
  <2>b. service' \in ServiceType
    <3>1. service' = [started |-> service.started, pc |-> "starting", socket |-> n, count |-> n]
      BY <2>0, <2>a DEF ServiceType
    <3>2. n \in 0..MaxStarts
      BY <2>1
    <3> QED BY <2>0, <3>1, <3>2 DEF ServiceType
  <2>c. acceptor' \in [1..MaxStarts -> AcceptorType]
    <3>1. acceptor \in [1..MaxStarts -> AcceptorType] /\ acceptor[n] \in AcceptorType
      BY <1>1, <2>1 DEF DialTyped
    <3>2. [acceptor[n] EXCEPT !.pc = "check"] \in AcceptorType
      BY <3>1 DEF AcceptorType
    <3> QED BY <2>a, <3>1, <3>2
  <2>2. DialTyped'
    BY <1>1, <1>2, <2>a, <2>b, <2>c DEF DialTyped
  <2>3. \A s \in 1..MaxStarts :
          acceptor'[s].pc \in {"handshake", "add"} => acceptor'[s] = acceptor[s]
    BY <1>1, <2>1, <2>a DEF DialTyped, AcceptorType
  <2>4. OneHandshake'
    BY <1>1, <1>2, <2>3 DEF OneHandshake
  <2> QED BY <1>3, <2>2, <2>4 DEF DialInv
<1>5. CASE Started \/ StopFlag
  <2>1. DialTyped'
    BY <1>1, <1>5 DEF Started, StopFlag, DialTyped, ServiceType
  <2>2. OneHandshake'
    BY <1>1, <1>5 DEF Started, StopFlag, OneHandshake
  <2> QED BY <1>3, <2>1, <2>2 DEF DialInv
<1>6. ASSUME NEW s \in 1..MaxStarts, AcceptCheck(s) \/ AcceptFails(s) \/ AddClient(s)
      PROVE  DialInv'
  <2>1. \E pc \in {"check", "accept", "done"} :
          acceptor' = [acceptor EXCEPT ![s] = [pc |-> pc, dial |-> Nobody]]
    BY <1>6 DEF AcceptCheck, AcceptFails, AddClient, AcceptorAt
  <2>2. service' = service /\ clients' \subseteq Dials
    <3>1. CASE AddClient(s)
      <4>1. acceptor[s].dial \in Dials
        BY <1>1, <3>1 DEF AddClient, OneHandshake
      <4> QED BY <1>1, <3>1, <4>1 DEF AddClient, DialTyped
    <3>2. CASE AcceptCheck(s) \/ AcceptFails(s)
      BY <1>1, <3>2 DEF AcceptCheck, AcceptFails, DialTyped
    <3> QED BY <1>6, <3>1, <3>2
  <2>3. DialTyped'
    BY <1>1, <1>2, <2>1, <2>2 DEF DialTyped, AcceptorType
  <2>4. \A r \in 1..MaxStarts :
          acceptor'[r].pc \in {"handshake", "add"} => acceptor'[r] = acceptor[r]
    BY <1>1, <2>1 DEF DialTyped
  <2>5. OneHandshake'
    BY <1>1, <1>2, <2>4 DEF OneHandshake
  <2> QED BY <1>3, <2>3, <2>5 DEF DialInv
<1> QED BY <1>4, <1>5, <1>6

\* stop() closes sockets and refuses those who wait; what is in an output stays.
LEMMA StopSteps ==
  ASSUME DialInv, StopClients \/ StopServer PROVE DialInv'
<1> USE DialInAssumption
<1>1. DialTyped /\ OneHandshake /\ AtWork /\ \A d \in Dials : Dialled(d)
  BY DEF DialInv
<1>3. /\ sender' = sender /\ acceptor' = acceptor /\ monitor' = monitor /\ pipe' = pipe
      /\ clients' \subseteq Dials
      /\ service' = [service EXCEPT !.pc = "closing"]
           \/ service' = [service EXCEPT !.pc = "idle", !.socket = 0]
      /\ socket' = socket \/ socket' = [d \in Dials |->
           IF d \in clients THEN [socket[d] EXCEPT !.open = FALSE] ELSE socket[d]]
      /\ laptop' = laptop \/ laptop' = [d \in Dials |->
           IF laptop[d].pc = "backlog"
             THEN [laptop[d] EXCEPT !.pc = "ended"] ELSE laptop[d]]
  BY <1>1 DEF StopClients, StopServer, DialTyped
<1>2. ASSUME NEW d \in Dials
      PROVE  /\ socket'[d] \in SocketType /\ laptop'[d] \in LaptopType
             /\ socket'[d].out = socket[d].out /\ socket'[d].reader = socket[d].reader
             /\ socket'[d].open => socket[d].open
             /\ pipe'[d] = pipe[d]
             /\ \/ laptop'[d].pc = laptop[d].pc
                \/ laptop[d].pc = "backlog" /\ laptop'[d].pc = "ended"
             /\ laptop'[d].partial = laptop[d].partial /\ laptop'[d].torn = laptop[d].torn
  <2>1. socket[d] \in SocketType /\ laptop[d] \in LaptopType
    BY <1>1 DEF DialTyped
  <2>2. /\ socket'[d] \in SocketType
        /\ socket'[d].out = socket[d].out /\ socket'[d].reader = socket[d].reader
        /\ socket'[d].open => socket[d].open
    <3>1. socket'[d] = socket[d] \/ socket'[d] = [socket[d] EXCEPT !.open = FALSE]
      BY <1>3
    <3> QED BY <2>1, <3>1 DEF SocketType
  <2>3. CASE laptop'[d] = [laptop[d] EXCEPT !.pc = "ended"]
             /\ laptop[d].pc = "backlog"
    <3> HIDE <1>3
    <3> QED BY <1>3, <2>1, <2>2, <2>3 DEF LaptopType
  <2>4. CASE laptop'[d] = laptop[d]
    BY <1>3, <2>1, <2>2, <2>4
  <2> QED BY <1>3, <2>3, <2>4
<1>4. DialTyped'
  <2>1. service' \in ServiceType
    <3>1. service \in ServiceType
      BY <1>1 DEF DialTyped
    <3>2. \/ service' = [started |-> service.started, pc |-> "closing",
                         socket |-> service.socket, count |-> service.count]
          \/ service' = [started |-> service.started, pc |-> "idle",
                         socket |-> 0, count |-> service.count]
      BY <1>3, <3>1 DEF ServiceType
    <3>3. 0 \in 0..MaxStarts
      BY DialInAssumption
    <3> QED BY <3>1, <3>2, <3>3 DEF ServiceType
  <2>2. socket' \in [Dials -> SocketType] /\ laptop' \in [Dials -> LaptopType]
    <3>1. socket \in [Dials -> SocketType] /\ laptop \in [Dials -> LaptopType]
      BY <1>1 DEF DialTyped
    <3>2. socket' = [d \in Dials |-> socket'[d]] /\ laptop' = [d \in Dials |-> laptop'[d]]
      BY <1>3, <3>1
    <3> QED BY <1>2, <3>2
  <2> QED BY <1>1, <1>3, <2>1, <2>2 DEF DialTyped
<1>a. \A d \in Dials : /\ laptop[d].pc # "backlog" => laptop'[d].pc = laptop[d].pc
                      /\ socket'[d].out = socket[d].out
  BY <1>2
<1>5. OneHandshake'
  BY <1>1, <1>a, <1>3 DEF OneHandshake
<1>6. AtWork'
  BY <1>1, <1>a, <1>3 DEF AtWork
<1>7. ASSUME NEW d \in Dials PROVE Dialled(d)'
  <2>1. Fresh(d) /\ Held(d) /\ InStep(d) /\ Whole(laptop[d])
    BY <1>1 DEF Dialled
  <2>2. Fresh(d)'
    <3> SUFFICES ASSUME laptop'[d].pc \in {"idle", "backlog", "handshake"}
                 PROVE  /\ ~socket'[d].open /\ socket'[d].out = Nobody
                        /\ socket'[d].reader = "none"
                        /\ pipe'[d] = <<>> /\ laptop'[d].partial = "none"
      BY DEF Fresh
    <3>1. laptop[d].pc \in {"idle", "backlog", "handshake"}
      BY <1>2
    <3>2. /\ ~socket[d].open /\ socket[d].out = Nobody /\ socket[d].reader = "none"
          /\ pipe[d] = <<>> /\ laptop[d].partial = "none"
      BY <2>1, <3>1 DEF Fresh
    <3> QED BY <1>2, <3>2
  <2>3. Held(d)' /\ Phase(d)' = Phase(d)
    <3>1. sender' = sender /\ socket'[d].out = socket[d].out /\ socket'[d].reader = socket[d].reader
      BY <1>2, <1>3
    <3>2. Phase(d)' = Phase(d)
      BY ONLY <3>1 DEF Phase
    <3>3. Held(d)'
      BY ONLY <2>1, <3>1 DEF Held
    <3> QED BY <3>2, <3>3
  <2>4. Breaks(d) => Breaks(d)'
    BY <1>2 DEF Breaks, PeerOpen
  <2>5. InStep(d)'
    BY <1>2, <2>1, <2>3, <2>4 DEF InStep
  <2>6. Whole(laptop[d])'
    BY <1>2, <2>1 DEF Whole
  <2> QED BY <2>2, <2>3, <2>5, <2>6 DEF Dialled
<1> QED BY <1>4, <1>5, <1>6, <1>7 DEF DialInv

\* Accept takes a dial that waits; its socket has not been used.
LEMMA AcceptSteps ==
  ASSUME DialInv, NEW s \in 1..MaxStarts, NEW d \in Dials, Accept(s, d) PROVE DialInv'
<1> USE DialInAssumption
<1>1. DialTyped /\ OneHandshake /\ AtWork /\ \A e \in Dials : Dialled(e)
  BY DEF DialInv
<1>2. /\ laptop[d].pc = "backlog" /\ acceptor[s].pc = "accept"
      /\ acceptor' = [acceptor EXCEPT ![s] = [pc |-> "handshake", dial |-> d]]
      /\ laptop' = [laptop EXCEPT ![d].pc = "handshake"]
      /\ UNCHANGED <<service, clients, monitor, sender, socket, pipe>>
  BY DEF Accept, AcceptorAt
<1>3. /\ laptop[d] \in LaptopType /\ laptop'[d] = [laptop[d] EXCEPT !.pc = "handshake"]
      /\ \A e \in Dials : e # d => laptop'[e] = laptop[e]
  BY <1>1, <1>2 DEF DialTyped
<1>4. DialTyped'
  <2>1. acceptor' \in [1..MaxStarts -> AcceptorType]
    BY <1>1, <1>2 DEF DialTyped, AcceptorType
  <2>2. laptop'[d] \in LaptopType
    BY <1>3 DEF LaptopType
  <2>3. laptop' \in [Dials -> LaptopType]
    BY <1>1, <1>2, <1>3, <2>2 DEF DialTyped
  <2> QED BY <1>1, <1>2, <2>1, <2>3 DEF DialTyped
<1>5. OneHandshake'
  <2>1. \A r \in 1..MaxStarts : r # s => acceptor'[r] = acceptor[r]
    BY <1>1, <1>2 DEF DialTyped
  <2>2. acceptor'[s] = [pc |-> "handshake", dial |-> d]
    BY <1>1, <1>2 DEF DialTyped
  <2>3. laptop'[d].pc = "handshake"
    BY <1>3 DEF LaptopType
  <2>4. \A r \in 1..MaxStarts : acceptor[r].pc = "handshake" => acceptor[r].dial # d
    BY <1>1, <1>2 DEF OneHandshake
  <2>5. ASSUME NEW r \in 1..MaxStarts
        PROVE  /\ acceptor'[r].pc \in {"handshake", "add"} => acceptor'[r].dial \in Dials
               /\ acceptor'[r].pc = "handshake" => laptop'[acceptor'[r].dial].pc = "handshake"
    <3>1. CASE r = s
      BY <2>2, <2>3, <3>1
    <3>2. CASE r # s
      BY <1>1, <1>3, <2>1, <2>4, <3>2 DEF OneHandshake
    <3> QED BY <3>1, <3>2
  <2>6. ASSUME NEW q \in 1..MaxStarts, NEW r \in 1..MaxStarts,
               acceptor'[q].pc = "handshake", acceptor'[r].pc = "handshake",
               acceptor'[q].dial = acceptor'[r].dial
        PROVE  q = r
    <3>1. CASE q = s \/ r = s
      BY <2>1, <2>2, <2>4, <2>6, <3>1
    <3>2. CASE q # s /\ r # s
      BY <1>1, <2>1, <2>6, <3>2 DEF OneHandshake
    <3> QED BY <3>1, <3>2
  <2> QED BY <2>5, <2>6 DEF OneHandshake
<1>6. AtWork'
  <2>1. \A p \in Producers : sender[p].pc \in {"lock", "frame1", "frame2"} => sender[p].dial # d
    BY <1>1, <1>2 DEF AtWork
  <2>2. \A p \in Producers : sender[p].pc \in {"lock", "frame1", "frame2"} =>
          laptop'[sender[p].dial] = laptop[sender[p].dial]
    BY <1>1, <1>3, <2>1 DEF AtWork
  <2> QED BY <1>1, <1>2, <2>2 DEF AtWork
<1>7. Dialled(d)'
  <2>1. /\ laptop'[d].pc = "handshake" /\ laptop'[d].partial = laptop[d].partial
        /\ laptop'[d].torn = laptop[d].torn
    BY <1>3 DEF LaptopType
  <2>2. Fresh(d) /\ Held(d) /\ InStep(d) /\ Whole(laptop[d])
    BY <1>1 DEF Dialled
  <2>3. /\ ~socket[d].open /\ socket[d].out = Nobody /\ socket[d].reader = "none"
        /\ pipe[d] = <<>> /\ laptop[d].partial = "none"
    BY <1>2, <2>2 DEF Fresh
  <2>4. Fresh(d)' /\ InStep(d)'
    <3>1. Breaks(d)'
      BY <1>2, <2>3 DEF Breaks
    <3>2. Fits(pipe[d], laptop[d].partial)
      BY <2>2 DEF InStep
    <3> QED BY <1>2, <2>1, <2>3, <3>1, <3>2 DEF Fresh, InStep
  <2>5. Held(d)'
    BY <1>2, <2>2 DEF Held
  <2>6. Whole(laptop[d])'
    BY <1>2, <2>1, <2>2 DEF Whole
  <2> QED BY <2>4, <2>5, <2>6 DEF Dialled
<1>8. \A e \in Dials : Dialled(e)'
  BY <1>1, <1>2, <1>3, <1>7, Undisturbed
<1> QED BY <1>4, <1>5, <1>6, <1>8 DEF DialInv

\* The handshake, after which the socket is open and its reader runs; or its
\* failure, after which nobody uses the socket.
LEMMA HandshakeSteps ==
  ASSUME DialInv, NEW s \in 1..MaxStarts, Handshake(s) PROVE DialInv'
<1> USE DialInAssumption
<1>1. DialTyped /\ OneHandshake /\ AtWork /\ \A e \in Dials : Dialled(e)
  BY DEF DialInv
<1>d. PICK d : d = acceptor[s].dial
  OBVIOUS
<1>2. /\ acceptor[s].pc = "handshake"
      /\ UNCHANGED <<service, clients, monitor, sender, pipe>>
      /\ \E pc \in {"add", "check", "done"}, e \in Dials \cup {Nobody} :
           /\ acceptor' = [acceptor EXCEPT ![s] = [pc |-> pc, dial |-> e]]
           /\ pc = "add" => e = d
      /\ \/ /\ socket' = [socket EXCEPT ![d].open = TRUE, ![d].reader = "read"]
            /\ laptop' = [laptop EXCEPT ![d].pc = "open"]
         \/ /\ laptop' = [laptop EXCEPT ![d].pc = "ended"]
            /\ socket' = socket
  <2>1. d \in Dials \cup {Nobody}
    BY <1>1, <1>d DEF DialTyped, AcceptorType
  <2> QED BY <2>1, <1>d DEF Handshake, AcceptorAt
<1>3. d \in Dials /\ laptop[d].pc = "handshake"
  BY <1>1, <1>d, <1>2 DEF OneHandshake
<1>4. \A r \in 1..MaxStarts : r # s =>
        acceptor'[r] = acceptor[r] /\ (acceptor[r].pc = "handshake" => acceptor[r].dial # d)
  <2>1. \A r \in 1..MaxStarts : r # s => acceptor'[r] = acceptor[r]
    BY <1>1, <1>2 DEF DialTyped
  <2>2. \A r \in 1..MaxStarts : r # s /\ acceptor[r].pc = "handshake" => acceptor[r].dial # d
    BY <1>1, <1>d, <1>2 DEF OneHandshake
  <2> QED BY <2>1, <2>2
<1>5. /\ acceptor' \in [1..MaxStarts -> AcceptorType]
      /\ acceptor'[s].pc # "handshake" /\ (acceptor'[s].pc = "add" => acceptor'[s].dial = d)
  BY <1>1, <1>2 DEF DialTyped, AcceptorType
<1>6. Fresh(d) /\ Held(d) /\ InStep(d) /\ Whole(laptop[d])
  BY <1>1, <1>3 DEF Dialled
<1>7. /\ ~socket[d].open /\ socket[d].out = Nobody /\ socket[d].reader = "none"
      /\ pipe[d] = <<>> /\ laptop[d].partial = "none"
  BY <1>3, <1>6 DEF Fresh
<1>8. socket[d] \in SocketType /\ laptop[d] \in LaptopType
  BY <1>1, <1>3 DEF DialTyped
<1>9. \A e \in Dials : e # d => socket'[e] = socket[e] /\ laptop'[e] = laptop[e]
  BY <1>1, <1>2, <1>3 DEF DialTyped
<1>10. /\ laptop'[d] \in LaptopType /\ laptop'[d].pc \in {"open", "ended"}
       /\ laptop'[d].partial = "none" /\ laptop'[d].torn = laptop[d].torn
  <2>0. laptop \in [Dials -> LaptopType]
    BY <1>1 DEF DialTyped
  <2>1. CASE laptop' = [laptop EXCEPT ![d].pc = "open"]
    <3>1. laptop'[d] = [laptop[d] EXCEPT !.pc = "open"]
      BY <1>3, <2>0, <2>1
    <3> QED BY <1>7, <1>8, <3>1 DEF LaptopType
  <2>2. CASE laptop' = [laptop EXCEPT ![d].pc = "ended"]
    <3>1. laptop'[d] = [laptop[d] EXCEPT !.pc = "ended"]
      BY <1>3, <2>0, <2>2
    <3> QED BY <1>7, <1>8, <3>1 DEF LaptopType
  <2> QED BY <1>2, <2>1, <2>2
<1>11. /\ socket'[d] \in SocketType /\ socket'[d].out = Nobody
       /\ socket'[d].reader \in {"none", "read"}
  <2>1. socket'[d] \in {socket[d], [socket[d] EXCEPT !.open = TRUE, !.reader = "read"]}
    BY <1>1, <1>2, <1>3 DEF DialTyped
  <2> QED BY <1>7, <1>8, <2>1 DEF SocketType
<1>12. DialTyped'
  <2>0. laptop' = [e \in Dials |-> laptop'[e]] /\ \A e \in Dials : laptop[e] \in LaptopType
    BY <1>1, <1>2 DEF DialTyped
  <2>1. laptop' \in [Dials -> LaptopType]
    <3>1. \A e \in Dials : laptop'[e] \in LaptopType
      BY <1>9, <1>10, <2>0
    <3> QED BY <2>0, <3>1
  <2>2. socket' \in [Dials -> SocketType]
    BY <1>1, <1>2, <1>3, <1>9, <1>11 DEF DialTyped
  <2> QED BY <1>1, <1>2, <1>5, <2>1, <2>2 DEF DialTyped
<1>13. OneHandshake'
  BY <1>1, <1>3, <1>4, <1>5, <1>9 DEF OneHandshake
<1>14. AtWork'
  <2>1. \A p \in Producers : sender[p].pc \in {"lock", "frame1", "frame2"} =>
          sender[p].dial \in Dials /\ sender[p].dial # d
    BY <1>1, <1>3 DEF AtWork
  <2> QED BY <1>1, <1>2, <1>9, <2>1 DEF AtWork
<1>15. Dialled(d)'
  <2>1. Fresh(d)'
    BY <1>10 DEF Fresh
  <2>2. Held(d)'
    BY <1>3, <1>11 DEF Held
  <2>3. Phase(d)' = "none"
    BY <1>11 DEF Phase
  <2>4. Fits(<<>>, "none") /\ Begun(<<>>, "none") = "none"
    BY DEF Fits, Begun, Before
  <2>5. InStep(d)'
    BY <1>2, <1>7, <1>10, <2>3, <2>4 DEF InStep
  <2>6. Whole(laptop[d])'
    BY <1>3, <1>6, <1>10 DEF Whole
  <2> QED BY <2>1, <2>2, <2>5, <2>6 DEF Dialled
<1>16. \A e \in Dials : Dialled(e)'
  BY <1>1, <1>2, <1>9, <1>15, Undisturbed
<1> QED BY <1>12, <1>13, <1>14, <1>16 DEF DialInv

\* Entering and leaving the monitor, and looking at the next client, touch no
\* socket; who goes on to one has found it open.
LEMMA MonitorSteps ==
  ASSUME DialInv, NEW p \in Producers,
         Broadcast(p) \/ EnterMonitor(p) \/ Leave(p) \/ \E d \in Dials : NextClient(p, d)
  PROVE  DialInv'
<1> USE DialInAssumption
<1>1. DialTyped /\ OneHandshake /\ AtWork /\ \A e \in Dials : Dialled(e)
  BY DEF DialInv
<1>2. /\ UNCHANGED <<service, acceptor, clients, socket, pipe, laptop>>
      /\ monitor' \in Producers \cup {Nobody}
  BY <1>1 DEF Broadcast, EnterMonitor, Leave, NextClient, DialTyped
<1>3. sender \in [Producers -> SenderType] /\ sender[p] \in SenderType
  BY <1>1 DEF DialTyped
<1>4. /\ sender[p].pc \in {"idle", "enter", "next"}
      /\ sender'[p] \in SenderType /\ sender'[p].pc \notin {"frame1", "frame2"}
      /\ sender'[p].pc = "lock" => sender'[p].dial \in Dials /\ socket[sender'[p].dial].open
      /\ \A q \in Producers : q # p => sender'[q] = sender[q]
      /\ sender' \in [Producers -> SenderType]
  <2>b. CASE Broadcast(p)
    <3>1. sender[p].pc = "idle" /\ sender' = [sender EXCEPT ![p].pc = "enter"]
      BY <2>b DEF Broadcast
    <3>2. sender'[p] = [sender[p] EXCEPT !.pc = "enter"]
      BY <1>3, <3>1
    <3>3. sender'[p] \in SenderType /\ sender'[p].pc = "enter"
      BY <1>3, <3>2 DEF SenderType
    <3>4. sender' \in [Producers -> SenderType] /\ \A q \in Producers : q # p => sender'[q] = sender[q]
      BY <1>3, <3>1, <3>2, <3>3
    <3> QED BY <3>1, <3>3, <3>4
  <2>1. CASE EnterMonitor(p)
    <3>1. /\ sender[p].pc = "enter" /\ clients \subseteq Dials
          /\ sender' = [sender EXCEPT ![p] = [pc |-> "next", todo |-> clients, dial |-> Nobody]]
      BY <1>1, <2>1 DEF EnterMonitor, DialTyped
    <3> QED BY <1>3, <3>1 DEF SenderType
  <2>2. CASE Leave(p)
    <3>1. sender[p].pc = "next" /\ sender' = [sender EXCEPT ![p].pc = "idle"]
      BY <2>2 DEF Leave
    <3>2. sender'[p] = [sender[p] EXCEPT !.pc = "idle"]
      BY <1>3, <3>1
    <3>3. sender'[p] \in SenderType /\ sender'[p].pc = "idle"
      BY <1>3, <3>2 DEF SenderType
    <3>4. sender' \in [Producers -> SenderType] /\ \A q \in Producers : q # p => sender'[q] = sender[q]
      BY <1>3, <3>1, <3>2, <3>3
    <3> QED BY <3>1, <3>3, <3>4
  <2>3. ASSUME NEW d \in Dials, NextClient(p, d)
        PROVE  /\ sender[p].pc \in {"idle", "enter", "next"}
               /\ sender'[p] \in SenderType /\ sender'[p].pc \notin {"frame1", "frame2"}
               /\ sender'[p].pc = "lock" => sender'[p].dial \in Dials /\ socket[sender'[p].dial].open
               /\ \A q \in Producers : q # p => sender'[q] = sender[q]
               /\ sender' \in [Producers -> SenderType]
    <3>1. /\ sender[p].pc = "next"
          /\ sender' = [sender EXCEPT ![p].todo = @ \ {d},
                          ![p].pc = IF socket[d].open THEN "lock" ELSE "next", ![p].dial = d]
      BY <2>3 DEF NextClient
    <3>2. sender'[p] = [pc |-> IF socket[d].open THEN "lock" ELSE "next",
                        todo |-> sender[p].todo \ {d}, dial |-> d]
      BY <1>3, <3>1 DEF SenderType
    <3>3. sender'[p] \in SenderType
      BY <1>3, <3>2 DEF SenderType
    <3>4. \A q \in Producers : q # p => sender'[q] = sender[q]
      BY <1>3, <3>1
    <3>5. sender' = [q \in Producers |-> sender'[q]]
      BY <1>3, <3>1
    <3>6. sender' \in [Producers -> SenderType]
      <4>1. \A q \in Producers : sender'[q] \in SenderType
        BY <1>3, <3>3, <3>4
      <4> QED BY <3>5, <4>1
    <3> QED BY <3>1, <3>2, <3>3, <3>4, <3>6
  <2> QED BY <2>b, <2>1, <2>2, <2>3
<1>5. DialTyped'
  BY <1>1, <1>2, <1>4 DEF DialTyped
<1>6. OneHandshake'
  BY <1>1, <1>2 DEF OneHandshake
<1>7. AtWork'
  <2>1. sender'[p].pc = "lock" => laptop[sender'[p].dial].pc \in {"open", "ended"}
    <3> SUFFICES ASSUME sender'[p].pc = "lock" PROVE laptop[sender'[p].dial].pc \in {"open", "ended"}
      OBVIOUS
    <3>1. PICK d \in Dials : d = sender'[p].dial /\ socket[d].open
      BY <1>4
    <3>2. Fresh(d) /\ laptop[d] \in LaptopType
      BY <1>1 DEF Dialled, DialTyped
    <3> QED BY <3>1, <3>2 DEF Fresh, LaptopType
  <2> QED BY <1>1, <1>2, <1>4, <2>1 DEF AtWork
<1>8. ASSUME NEW e \in Dials PROVE Dialled(e)'
  <2>1. socket[e].out # p
    BY <1>1, <1>4 DEF Dialled, Held
  <2> QED BY <1>1, <1>2, <1>4, <2>1, Undisturbed
<1> QED BY <1>5, <1>6, <1>7, <1>8 DEF DialInv

\* A step at one dial, which leaves its handshake alone.
LEMMA AtOneDial ==
  ASSUME DialInv, NEW d \in Dials,
         UNCHANGED <<service, acceptor, monitor>>, clients' \subseteq Dials,
         sender' \in [Producers -> SenderType],
         socket' \in [Dials -> SocketType], pipe' \in [Dials -> Seq(Pieces)],
         laptop' \in [Dials -> LaptopType],
         laptop[d].pc = "handshake" => laptop'[d].pc = "handshake",
         \A e \in Dials : e # d =>
           /\ socket'[e] = socket[e] /\ pipe'[e] = pipe[e] /\ laptop'[e] = laptop[e]
           /\ \A q \in Producers : socket[e].out = q => sender'[q] = sender[q],
         AtWork', Dialled(d)'
  PROVE  DialInv'
<1>1. DialTyped /\ OneHandshake /\ \A e \in Dials : Dialled(e)
  BY DEF DialInv
<1>2. DialTyped'
  BY <1>1 DEF DialTyped
<1>3. OneHandshake'
  BY <1>1 DEF OneHandshake
<1>4. \A e \in Dials : Dialled(e)'
  BY <1>1, Undisturbed
<1> QED BY <1>2, <1>3, <1>4 DEF DialInv

\* A producer takes the output that is free: nothing is begun there.
LEMMA OutputSteps ==
  ASSUME DialInv, NEW p \in Producers, TakeOutput(p)
  PROVE  DialInv'
<1> USE DialInAssumption
<1>1. DialTyped /\ OneHandshake /\ AtWork /\ \A e \in Dials : Dialled(e)
  BY DEF DialInv
<1>d. PICK d : d = sender[p].dial
  OBVIOUS
<1>2. sender[p].pc \in {"lock", "frame1", "frame2"}
  BY DEF TakeOutput
<1>3. d \in Dials /\ laptop[d].pc \in {"open", "ended"}
  BY <1>1, <1>2, <1>d DEF AtWork
<1>4. /\ sender \in [Producers -> SenderType] /\ sender[p] \in SenderType
      /\ socket \in [Dials -> SocketType] /\ socket[d] \in SocketType
      /\ pipe \in [Dials -> Seq(Pieces)] /\ pipe[d] \in Seq(Pieces)
      /\ laptop \in [Dials -> LaptopType] /\ clients \subseteq Dials
  BY <1>1, <1>3 DEF DialTyped
<1>5. Fresh(d) /\ Held(d) /\ InStep(d) /\ Whole(laptop[d])
  BY <1>1, <1>3 DEF Dialled
<1>6. p # d /\ p # Nobody /\ d # Nobody /\ d \notin Producers /\ Nobody \notin Producers
  BY <1>3
<1>7. ASSUME NEW e \in Dials, e # d PROVE socket[e].out # p
  BY <1>1, <1>7, <1>d DEF Dialled, Held
  <1>11. /\ sender[p].pc = "lock" /\ socket[d].out = Nobody
      /\ socket' = [socket EXCEPT ![d].out = p]
      /\ sender' = [sender EXCEPT ![p].pc = "frame1"]
      /\ UNCHANGED <<service, acceptor, clients, monitor, pipe, laptop>>
  BY <1>d DEF TakeOutput
<1>12. /\ sender' \in [Producers -> SenderType]
      /\ sender'[p].pc = "frame1" /\ sender'[p].dial = d
      /\ \A q \in Producers : q # p => sender'[q] = sender[q]
  BY <1>4, <1>d, <1>11 DEF SenderType
<1>13. /\ socket' \in [Dials -> SocketType]
      /\ socket'[d].out = p /\ socket'[d].reader = socket[d].reader
      /\ socket'[d].open = socket[d].open
      /\ \A e \in Dials : e # d => socket'[e] = socket[e]
  BY <1>3, <1>4, <1>11 DEF SocketType
<1>14. socket[d].reader \notin {"pong1", "pong2"}
  BY <1>5, <1>6, <1>11 DEF Held
<1>15. AtWork'
  <2>1. ASSUME NEW q \in Producers, q # p, sender[q].pc \in {"lock", "frame1", "frame2"}
        PROVE  /\ sender[q].dial \in Dials /\ laptop'[sender[q].dial].pc \in {"open", "ended"}
               /\ sender[q].pc \in {"frame1", "frame2"} => socket'[sender[q].dial].out = q
    <3>1. /\ sender[q].dial \in Dials /\ laptop[sender[q].dial].pc \in {"open", "ended"}
          /\ sender[q].pc \in {"frame1", "frame2"} => socket[sender[q].dial].out = q
      BY <1>1, <2>1 DEF AtWork
    <3>2. q # Nobody
      OBVIOUS
    <3> QED BY <3>1, <3>2, <1>11, <1>13
  <2> QED BY <1>3, <1>11, <1>12, <1>13, <2>1 DEF AtWork
<1>16. Held(d)' /\ Fresh(d)'
  BY <1>3, <1>6, <1>11, <1>12, <1>13, <1>14 DEF Held, Fresh
<1>17. Phase(d) = "none" /\ Phase(d)' = "none"
  BY <1>6, <1>11, <1>12, <1>13, <1>14 DEF Phase
<1>18. Breaks(d)' <=> Breaks(d)
  BY <1>11, <1>13 DEF Breaks, PeerOpen
<1>19. InStep(d)' /\ Whole(laptop[d])'
  BY <1>5, <1>11, <1>17, <1>18 DEF InStep, Whole
<1>20. Dialled(d)'
  BY <1>16, <1>19 DEF Dialled
<1>21. \A e \in Dials : e # d =>
        /\ socket'[e] = socket[e] /\ pipe'[e] = pipe[e] /\ laptop'[e] = laptop[e]
        /\ \A q \in Producers : socket[e].out = q => sender'[q] = sender[q]
  BY <1>7, <1>11, <1>12, <1>13
<1>22. laptop' \in [Dials -> LaptopType] /\ pipe' \in [Dials -> Seq(Pieces)]
       /\ laptop'[d] = laptop[d] /\ clients' \subseteq Dials
  BY <1>4, <1>11
<1> QED BY <1>3, <1>11, <1>12, <1>13, <1>15, <1>20, <1>21, <1>22, AtOneDial

\* A producer that is writing writes its next piece, which is the one that goes
\* on from what is begun; or the write fails, and closes the socket for good.
LEMMA WriterSteps ==
  ASSUME DialInv, NEW p \in Producers, WriteFrame(p) \/ WriteFails(p)
  PROVE  DialInv'
<1> USE DialInAssumption
<1>1. DialTyped /\ OneHandshake /\ AtWork /\ \A e \in Dials : Dialled(e)
  BY DEF DialInv
<1>d. PICK d, piece : d = sender[p].dial /\ piece = sender[p].pc
  OBVIOUS
<1>2. piece \in {"frame1", "frame2"}
  BY <1>d DEF WriteFrame, WriteFails
<1>3. d \in Dials /\ laptop[d].pc \in {"open", "ended"} /\ socket[d].out = p
  BY <1>1, <1>2, <1>d DEF AtWork
<1>4. /\ sender \in [Producers -> SenderType] /\ sender[p] \in SenderType
      /\ socket \in [Dials -> SocketType] /\ socket[d] \in SocketType
      /\ pipe \in [Dials -> Seq(Pieces)] /\ pipe[d] \in Seq(Pieces)
      /\ laptop \in [Dials -> LaptopType] /\ clients \subseteq Dials
  BY <1>1, <1>3 DEF DialTyped
<1>5. Fresh(d) /\ Held(d) /\ InStep(d) /\ Whole(laptop[d])
  BY <1>1, <1>3 DEF Dialled
<1>6. p # d /\ p # Nobody /\ d # Nobody /\ Nobody \notin Producers
  BY <1>3
<1>7. ASSUME NEW e \in Dials, e # d PROVE socket[e].out # p
  BY <1>1, <1>7, <1>d DEF Dialled, Held
<1>8. \A q \in Producers : q # p /\ sender[q].pc \in {"lock", "frame1", "frame2"} =>
        /\ sender[q].dial \in Dials /\ laptop[sender[q].dial].pc \in {"open", "ended"}
        /\ sender[q].pc \in {"frame1", "frame2"} =>
             sender[q].dial # d /\ socket[sender[q].dial].out = q
  BY <1>1, <1>3 DEF AtWork
<1>9. socket[d].reader \notin {"pong1", "pong2"}
  BY <1>3, <1>5, <1>6 DEF Held
<1>10. CASE WriteFrame(p)
  <2>1. /\ ~Breaks(d) /\ pipe' = [pipe EXCEPT ![d] = Append(pipe[d], piece)]
        /\ IF piece = "frame1"
             THEN sender' = [sender EXCEPT ![p].pc = "frame2"] /\ socket' = socket
             ELSE /\ sender' = [sender EXCEPT ![p].pc = "next"]
                  /\ socket' = [socket EXCEPT ![d].out = Nobody]
        /\ UNCHANGED <<service, acceptor, clients, monitor, laptop>>
    BY <1>10, <1>3, <1>4, <1>d DEF WriteFrame, Writable, Breaks
  <2>2. /\ sender' \in [Producers -> SenderType]
        /\ sender'[p].pc = (IF piece = "frame1" THEN "frame2" ELSE "next")
        /\ sender'[p].dial = d
        /\ \A q \in Producers : q # p => sender'[q] = sender[q]
    <3>1. sender' = [sender EXCEPT ![p].pc = IF piece = "frame1" THEN "frame2" ELSE "next"]
      BY <1>2, <2>1
    <3> QED BY <1>4, <1>d, <3>1 DEF SenderType
  <2>3. /\ socket' \in [Dials -> SocketType]
        /\ socket'[d].out = (IF piece = "frame1" THEN p ELSE Nobody)
        /\ socket'[d].reader = socket[d].reader /\ socket'[d].open = socket[d].open
        /\ \A e \in Dials : e # d => socket'[e] = socket[e]
    <3>1. CASE piece = "frame1"
      BY <1>3, <1>4, <2>1, <3>1
    <3>2. CASE piece # "frame1"
      <4>1. socket' = [socket EXCEPT ![d].out = Nobody]
        BY <2>1, <3>2
      <4> QED BY <1>3, <1>4, <3>2, <4>1 DEF SocketType
    <3> QED BY <3>1, <3>2
  <2>4. AtWork'
    BY <1>3, <1>8, <2>1, <2>2, <2>3 DEF AtWork
  <2>5. Phase(d) = Needs(piece) /\ Phase(d)' = After(piece)
    <3>1. CASE piece = "frame1"
      BY <1>3, <1>d, <2>2, <2>3, <3>1 DEF Phase, Needs, After
    <3>2. CASE piece = "frame2"
      BY <1>3, <1>6, <1>9, <1>d, <2>2, <2>3, <3>2 DEF Phase, Needs, After
    <3> QED BY <1>2, <3>1, <3>2
  <2>6. piece \in Pieces /\ Fits(pipe[d], laptop[d].partial)
        /\ Needs(piece) = Begun(pipe[d], laptop[d].partial)
    BY <1>2, <1>5, <2>1, <2>5 DEF Pieces, InStep
  <2>7. /\ pipe'[d] = Append(pipe[d], piece) /\ Append(pipe[d], piece) \in Seq(Pieces)
        /\ pipe' \in [Dials -> Seq(Pieces)] /\ \A e \in Dials : e # d => pipe'[e] = pipe[e]
    <3>1. Append(pipe[d], piece) \in Seq(Pieces)
      BY <1>4, <2>6, AppendProperties
    <3> QED BY <1>3, <1>4, <2>1, <3>1
  <2>8. InStep(d)'
    BY <1>4, <2>1, <2>5, <2>6, <2>7, FittingAppend DEF InStep
  <2>9. Held(d)' /\ Fresh(d)' /\ Whole(laptop[d])'
    BY <1>3, <1>5, <1>6, <1>9, <2>1, <2>2, <2>3 DEF Held, Fresh, Whole
  <2>10. Dialled(d)'
    BY <2>8, <2>9 DEF Dialled
  <2>11. \A e \in Dials : e # d =>
          /\ socket'[e] = socket[e] /\ pipe'[e] = pipe[e] /\ laptop'[e] = laptop[e]
          /\ \A q \in Producers : socket[e].out = q => sender'[q] = sender[q]
    BY <1>7, <2>1, <2>2, <2>3, <2>7
  <2>12. laptop' \in [Dials -> LaptopType] /\ laptop'[d] = laptop[d] /\ clients' \subseteq Dials
         /\ UNCHANGED <<service, acceptor, monitor>>
    BY <1>4, <2>1
  <2> QED BY <1>3, <2>2, <2>3, <2>4, <2>7, <2>10, <2>11, <2>12, AtOneDial
<1>11. CASE WriteFails(p)
  <2>1. /\ socket' = [socket EXCEPT ![d].out = Nobody, ![d].open = FALSE]
        /\ sender' = [sender EXCEPT ![p].pc = "next"]
        /\ clients' \subseteq clients
        /\ UNCHANGED <<service, acceptor, monitor, pipe, laptop>>
    BY <1>11, <1>d DEF WriteFails
  <2>2. /\ sender' \in [Producers -> SenderType] /\ sender'[p].pc = "next"
        /\ \A q \in Producers : q # p => sender'[q] = sender[q]
    BY <1>4, <2>1 DEF SenderType
  <2>3. /\ socket' \in [Dials -> SocketType]
        /\ socket'[d].out = Nobody /\ socket'[d].reader = socket[d].reader
        /\ ~socket'[d].open
        /\ \A e \in Dials : e # d => socket'[e] = socket[e]
    <3>1. socket'[d] = [open |-> FALSE, out |-> Nobody, reader |-> socket[d].reader,
                        ping |-> socket[d].ping]
      BY <1>3, <1>4, <2>1 DEF SocketType
    <3>2. socket'[d] \in SocketType
      BY <1>4, <3>1 DEF SocketType
    <3>3. \A e \in Dials : e # d => socket'[e] = socket[e]
      BY <1>4, <2>1
    <3>4. socket' = [e \in Dials |-> socket'[e]]
      BY <1>4, <2>1
    <3>5. socket' \in [Dials -> SocketType]
      <4>1. \A e \in Dials : socket'[e] \in SocketType
        BY <1>4, <3>2, <3>3
      <4> QED BY <3>4, <4>1
    <3> QED BY <3>1, <3>3, <3>5
  <2>4. AtWork'
    BY <1>3, <1>8, <2>1, <2>2, <2>3 DEF AtWork
  <2>5. InStep(d)'
    BY <1>5, <2>1, <2>3 DEF InStep, Breaks
  <2>6. Held(d)' /\ Fresh(d)' /\ Whole(laptop[d])'
    BY <1>3, <1>5, <1>6, <1>9, <2>1, <2>3 DEF Held, Fresh, Whole
  <2>7. Dialled(d)'
    BY <2>5, <2>6 DEF Dialled
  <2>8. \A e \in Dials : e # d =>
          /\ socket'[e] = socket[e] /\ pipe'[e] = pipe[e] /\ laptop'[e] = laptop[e]
          /\ \A q \in Producers : socket[e].out = q => sender'[q] = sender[q]
    BY <1>7, <2>1, <2>2, <2>3
  <2>9. laptop' \in [Dials -> LaptopType] /\ pipe' \in [Dials -> Seq(Pieces)]
        /\ laptop'[d] = laptop[d] /\ clients' \subseteq Dials
        /\ UNCHANGED <<service, acceptor, monitor>>
    BY <1>4, <2>1
  <2> QED BY <1>3, <2>2, <2>3, <2>4, <2>7, <2>8, <2>9, AtOneDial
<1> QED BY <1>10, <1>11

\* What a reader does to its own socket, when the producers' locks stay.
LEMMA ReaderMoves ==
  ASSUME DialInv, NEW d \in Dials, socket[d].reader # "none", NEW r \in SocketType,
         socket' = [socket EXCEPT ![d] = r],
         socket[d].out \in Producers => r.out = socket[d].out,
         clients' \subseteq Dials, UNCHANGED <<service, acceptor, monitor, sender, laptop>>,
         pipe' \in [Dials -> Seq(Pieces)], \A e \in Dials : e # d => pipe'[e] = pipe[e],
         Held(d)', InStep(d)'
  PROVE  DialInv'
<1> USE DialInAssumption
<1>1. DialTyped /\ AtWork /\ Dialled(d)
  BY DEF DialInv
<1>2. /\ socket \in [Dials -> SocketType] /\ laptop \in [Dials -> LaptopType]
      /\ sender \in [Producers -> SenderType]
  BY <1>1 DEF DialTyped
<1>3. /\ socket' \in [Dials -> SocketType] /\ socket'[d] = r
      /\ \A e \in Dials : e # d => socket'[e] = socket[e]
  BY <1>2
<1>4. laptop[d].pc \notin {"idle", "backlog", "handshake"}
  BY <1>1 DEF Dialled, Fresh
<1>5. Fresh(d)' /\ Whole(laptop[d])'
  BY <1>1, <1>4 DEF Dialled, Fresh
<1>6. AtWork'
  <2>1. ASSUME NEW p \in Producers, sender[p].pc \in {"frame1", "frame2"}
        PROVE  socket'[sender[p].dial].out = p
    <3>1. sender[p].dial \in Dials /\ socket[sender[p].dial].out = p
      BY <1>1, <2>1 DEF AtWork
    <3> QED BY <1>3, <3>1
  <2> QED BY <1>1, <2>1 DEF AtWork
<1>7. Dialled(d)'
  BY <1>5 DEF Dialled
<1>8. \A e \in Dials : e # d =>
        /\ socket'[e] = socket[e] /\ pipe'[e] = pipe[e] /\ laptop'[e] = laptop[e]
        /\ \A q \in Producers : socket[e].out = q => sender'[q] = sender[q]
  BY <1>3
<1> QED BY <1>2, <1>3, <1>6, <1>7, <1>8, AtOneDial

\* A reader between two reads: its PING, its end, and close() in two halves.
LEMMA ReaderSteps ==
  ASSUME DialInv, NEW d \in Dials,
         ReadPing(d) \/ TakeOutputToPong(d) \/ ReadEnds(d) \/ CloseSocket(d) \/ RemoveClient(d)
  PROVE  DialInv'
<1> USE DialInAssumption
<1>1. /\ socket \in [Dials -> SocketType] /\ socket[d] \in SocketType
      /\ pipe \in [Dials -> Seq(Pieces)] /\ clients \subseteq Dials
      /\ Held(d) /\ InStep(d)
  BY DEF DialInv, DialTyped, Dialled
<1>2. /\ UNCHANGED <<service, acceptor, monitor, sender, pipe, laptop>> /\ clients' \subseteq Dials
      /\ socket[d].reader \in {"read", "pong", "close", "remove"}
  BY <1>1 DEF ReadPing, TakeOutputToPong, ReadEnds, CloseSocket, RemoveClient, ReaderAt
<1>3. socket[d].out # d /\ d \notin Producers /\ d # Nobody /\ Nobody \notin Producers
  BY <1>1, <1>2 DEF Held
<1>4. \E r \in SocketType :
        /\ socket' = [socket EXCEPT ![d] = r]
        /\ r.open => socket[d].open
        /\ \/ r.out = socket[d].out /\ r.reader \in {"pong", "close", "remove", "done"}
           \/ r.out = d /\ socket[d].out = Nobody /\ r.reader = "pong1"
  <2>1. CASE ReadPing(d)
    <3> DEFINE r == [socket[d] EXCEPT !.reader = "pong", !.ping = FALSE]
    <3>1. socket' = [socket EXCEPT ![d] = r]
      BY <2>1 DEF ReadPing
    <3>2. r \in SocketType /\ (r.open => socket[d].open) /\ r.out = socket[d].out /\ r.reader = "pong"
      BY <1>1 DEF SocketType
    <3> HIDE DEF r
    <3> QED BY <3>1, <3>2
  <2>2. CASE TakeOutputToPong(d)
    <3> DEFINE r == [socket[d] EXCEPT !.reader = "pong1", !.out = d]
    <3>1. socket' = [socket EXCEPT ![d] = r] /\ socket[d].out = Nobody
      BY <2>2 DEF TakeOutputToPong, OutputFree
    <3>2. r \in SocketType /\ (r.open => socket[d].open) /\ r.out = d /\ r.reader = "pong1"
      BY <1>1 DEF SocketType
    <3> HIDE DEF r
    <3> QED BY <3>1, <3>2
  <2>3. CASE ReadEnds(d)
    <3> DEFINE r == [socket[d] EXCEPT !.reader = "close"]
    <3>1. socket' = [socket EXCEPT ![d] = r]
      BY <2>3 DEF ReadEnds, ReaderAt
    <3>2. r \in SocketType /\ (r.open => socket[d].open) /\ r.out = socket[d].out /\ r.reader = "close"
      BY <1>1 DEF SocketType
    <3> HIDE DEF r
    <3> QED BY <3>1, <3>2
  <2>4. CASE CloseSocket(d)
    <3> DEFINE r == [socket[d] EXCEPT !.open = FALSE,
                                  !.reader = IF socket[d].open THEN "remove" ELSE "done"]
    <3>1. socket' = [socket EXCEPT ![d] = r]
      BY <2>4 DEF CloseSocket
    <3>2. r \in SocketType /\ (r.open => socket[d].open) /\ r.out = socket[d].out /\ r.reader \in {"remove", "done"}
      BY <1>1 DEF SocketType
    <3> HIDE DEF r
    <3> QED BY <3>1, <3>2
  <2>5. CASE RemoveClient(d)
    <3> DEFINE r == [socket[d] EXCEPT !.reader = "done"]
    <3>1. socket' = [socket EXCEPT ![d] = r]
      BY <2>5 DEF RemoveClient, ReaderAt
    <3>2. r \in SocketType /\ (r.open => socket[d].open) /\ r.out = socket[d].out /\ r.reader = "done"
      BY <1>1 DEF SocketType
    <3> HIDE DEF r
    <3> QED BY <3>1, <3>2
  <2> QED BY <2>1, <2>2, <2>3, <2>4, <2>5
<1>5. PICK r \in SocketType :
        /\ socket' = [socket EXCEPT ![d] = r]
        /\ r.open => socket[d].open
        /\ \/ r.out = socket[d].out /\ r.reader \in {"pong", "close", "remove", "done"}
           \/ r.out = d /\ socket[d].out = Nobody /\ r.reader = "pong1"
  BY <1>4
<1>6. socket'[d] = r
  BY <1>1, <1>5
<1>7. Held(d)'
  BY <1>1, <1>2, <1>3, <1>5, <1>6 DEF Held
<1>8. Phase(d)' = Phase(d)
  BY <1>2, <1>3, <1>5, <1>6 DEF Phase
<1>9. InStep(d)'
  <2>1. Breaks(d) => Breaks(d)'
    BY <1>2, <1>5, <1>6 DEF Breaks, PeerOpen
  <2> QED BY <1>1, <1>2, <1>8, <2>1 DEF InStep
<1>10. socket[d].out \in Producers => r.out = socket[d].out
  BY <1>3, <1>5
<1> QED BY <1>1, <1>2, <1>5, <1>7, <1>9, <1>10, ReaderMoves

\* The PONG, in the output it holds.
LEMMA PongSteps ==
  ASSUME DialInv, NEW d \in Dials, WritePong(d) PROVE DialInv'
<1> USE DialInAssumption
<1>1. /\ socket \in [Dials -> SocketType] /\ socket[d] \in SocketType
      /\ pipe \in [Dials -> Seq(Pieces)] /\ pipe[d] \in Seq(Pieces) /\ clients \subseteq Dials
      /\ Held(d) /\ InStep(d)
  BY DEF DialInv, DialTyped, Dialled
<1>2. PICK piece : piece = socket[d].reader
  OBVIOUS
<1>3. /\ UNCHANGED <<service, acceptor, clients, monitor, sender, laptop>>
      /\ piece \in {"pong1", "pong2"} /\ piece \in Pieces
  BY <1>2 DEF WritePong, Pieces
<1>4. socket[d].out = d /\ d \notin Producers /\ d # Nobody /\ Nobody \notin Producers
  BY <1>1, <1>2, <1>3 DEF Held
<1>5. socket[d] = [open |-> socket[d].open, out |-> d, reader |-> piece, ping |-> socket[d].ping]
  BY <1>1, <1>2, <1>4 DEF SocketType
<1>6. Phase(d) = Needs(piece)
  BY <1>2, <1>3, <1>4 DEF Phase, Needs
<1>7. CASE Writable(d) /\ pipe' = [pipe EXCEPT ![d] = Append(pipe[d], piece)]
  <2> DEFINE r == IF piece = "pong1" THEN [socket[d] EXCEPT !.reader = "pong2"]
                  ELSE [socket[d] EXCEPT !.reader = "read", !.out = Nobody]
  <2>1. socket' = [socket EXCEPT ![d] = r]
    <3>0. ~Breaks(d)
      BY <1>7 DEF Writable, Breaks
    <3>1. CASE piece = "pong1"
      BY <1>2, <3>0, <3>1 DEF WritePong, ReaderAt
    <3>2. CASE piece = "pong2"
      BY <1>2, <3>0, <3>2 DEF WritePong
    <3> QED BY <1>3, <3>1, <3>2
  <2>a. /\ r \in SocketType /\ r.open = socket[d].open
        /\ r.out = (IF piece = "pong1" THEN d ELSE Nobody)
        /\ r.reader = (IF piece = "pong1" THEN "pong2" ELSE "read")
    <3>1. CASE piece = "pong1"
      BY <1>1, <1>4, <3>1 DEF SocketType
    <3>2. CASE piece # "pong1"
      BY <1>1, <3>2 DEF SocketType
    <3> QED BY <3>1, <3>2
  <2> HIDE DEF r
  <2>2. r \in SocketType /\ socket'[d] = r
    BY <1>1, <2>1, <2>a
  <2>3. Held(d)'
    BY <1>3, <1>4, <2>2, <2>a DEF Held
  <2>4. Phase(d)' = After(piece)
    BY <1>3, <1>4, <2>2, <2>a DEF Phase, After
  <2>5. /\ pipe'[d] = Append(pipe[d], piece) /\ Append(pipe[d], piece) \in Seq(Pieces)
        /\ pipe' \in [Dials -> Seq(Pieces)] /\ \A e \in Dials : e # d => pipe'[e] = pipe[e]
    <3>1. Append(pipe[d], piece) \in Seq(Pieces)
      BY <1>1, <1>3, AppendProperties
    <3> QED BY <1>1, <1>7, <3>1
  <2>6. ~Breaks(d)
    BY <1>7 DEF Writable, Breaks
  <2>7. Fits(pipe[d], laptop[d].partial) /\ Needs(piece) = Begun(pipe[d], laptop[d].partial)
    BY <1>1, <1>6, <2>6 DEF InStep
  <2>8. InStep(d)'
    BY <1>1, <1>3, <2>4, <2>5, <2>7, FittingAppend DEF InStep
  <2>9. socket[d].out \notin Producers /\ socket[d].reader # "none"
    BY <1>2, <1>3, <1>4
  <2> QED BY <1>1, <1>3, <2>1, <2>2, <2>3, <2>5, <2>8, <2>9, ReaderMoves
<1>8. CASE Breaks(d) /\ UNCHANGED pipe
           /\ socket' = [socket EXCEPT ![d].reader = "close", ![d].out = Nobody]
  <2> DEFINE r == [open |-> socket[d].open, out |-> Nobody, reader |-> "close",
                   ping |-> socket[d].ping]
  <2>1. socket' = [socket EXCEPT ![d] = r]
    BY <1>1, <1>5, <1>8
  <2>2. r \in SocketType /\ socket'[d] = r
    BY <1>1, <2>1 DEF SocketType
  <2>3. Held(d)'
    BY <1>4, <2>2 DEF Held
  <2>4. Breaks(d)'
    BY <1>3, <1>8, <2>2 DEF Breaks, PeerOpen
  <2>5. InStep(d)'
    BY <1>1, <1>3, <1>8, <2>4 DEF InStep
  <2>6. socket[d].out \notin Producers /\ socket[d].reader # "none"
    BY <1>2, <1>3, <1>4
  <2> HIDE DEF r
  <2> QED BY <1>1, <1>3, <1>8, <2>1, <2>2, <2>3, <2>5, <2>6, ReaderMoves
<1> QED BY <1>2, <1>7, <1>8 DEF WritePong

\* What the laptop does with a dial that is not in its handshake.
LEMMA LaptopMoves ==
  ASSUME DialInv, NEW d \in Dials, NEW it \in LaptopType,
         laptop' = [laptop EXCEPT ![d] = it], laptop[d].pc # "handshake",
         laptop[d].pc \in {"open", "ended"} => it.pc \in {"open", "ended"},
         UNCHANGED <<service, acceptor, clients, monitor, sender, socket>>,
         pipe' \in [Dials -> Seq(Pieces)], \A e \in Dials : e # d => pipe'[e] = pipe[e],
         Fresh(d)', InStep(d)', Whole(it)
  PROVE  DialInv'
<1>1. /\ laptop \in [Dials -> LaptopType] /\ socket \in [Dials -> SocketType]
      /\ sender \in [Producers -> SenderType] /\ clients \subseteq Dials
      /\ Held(d) /\ AtWork
  BY DEF DialInv, DialTyped, Dialled
<1>2. /\ laptop' \in [Dials -> LaptopType] /\ laptop'[d] = it
      /\ \A e \in Dials : e # d => laptop'[e] = laptop[e]
  BY <1>1
<1>3. AtWork'
  <2>1. \A p \in Producers : sender[p].pc \in {"lock", "frame1", "frame2"} =>
          sender[p].dial \in Dials /\ laptop'[sender[p].dial].pc \in {"open", "ended"}
    BY <1>1, <1>2 DEF AtWork
  <2> QED BY <1>1, <2>1 DEF AtWork
<1>4. Held(d)'
  BY <1>1 DEF Held
<1>5. Dialled(d)'
  BY <1>2, <1>4 DEF Dialled
<1>6. \A e \in Dials : e # d =>
        /\ socket'[e] = socket[e] /\ pipe'[e] = pipe[e] /\ laptop'[e] = laptop[e]
        /\ \A q \in Producers : socket[e].out = q => sender'[q] = sender[q]
  BY <1>2
<1> QED BY <1>1, <1>2, <1>3, <1>5, <1>6, AtOneDial

\* Dialling, falling asleep and hanging up: nothing is read.
LEMMA LaptopSteps ==
  ASSUME DialInv, NEW d \in Dials, Dial(d) \/ Freeze(d) \/ HangUpDial(d) PROVE DialInv'
<1>1. /\ laptop \in [Dials -> LaptopType] /\ laptop[d] \in LaptopType
      /\ pipe \in [Dials -> Seq(Pieces)] /\ Fresh(d) /\ InStep(d) /\ Whole(laptop[d])
  BY DEF DialInv, DialTyped, Dialled
<1>2. UNCHANGED <<service, acceptor, clients, monitor, sender, socket, pipe>>
  BY DEF Dial, Freeze, HangUpDial, PhoneElse
<1>3. \E it \in LaptopType :
        /\ laptop' = [laptop EXCEPT ![d] = it]
        /\ it.partial = laptop[d].partial /\ it.torn = laptop[d].torn
        /\ \/ laptop[d].pc = "idle" /\ it.pc \in {"backlog", "ended"}
           \/ laptop[d].pc = "open" /\ it.pc \in {"open", "ended"}
  <2>1. CASE Dial(d)
    <3> DEFINE it == [laptop[d] EXCEPT !.pc = IF service.socket = 0 THEN "ended" ELSE "backlog"]
    <3>1. laptop' = [laptop EXCEPT ![d] = it] /\ laptop[d].pc = "idle"
      BY <2>1 DEF Dial
    <3>2. /\ it \in LaptopType /\ it.partial = laptop[d].partial /\ it.torn = laptop[d].torn
          /\ it.pc \in {"backlog", "ended"}
      BY <1>1 DEF LaptopType
    <3> HIDE DEF it
    <3> QED BY <3>1, <3>2
  <2>2. CASE Freeze(d)
    <3> DEFINE it == [laptop[d] EXCEPT !.frozen = TRUE]
    <3>1. laptop' = [laptop EXCEPT ![d] = it] /\ laptop[d].pc = "open"
      BY <2>2 DEF Freeze
    <3>2. /\ it \in LaptopType /\ it.partial = laptop[d].partial /\ it.torn = laptop[d].torn
          /\ it.pc = laptop[d].pc
      BY <1>1 DEF LaptopType
    <3> HIDE DEF it
    <3> QED BY <3>1, <3>2
  <2>3. CASE HangUpDial(d)
    <3> DEFINE it == [laptop[d] EXCEPT !.pc = "ended"]
    <3>1. laptop' = [laptop EXCEPT ![d] = it] /\ laptop[d].pc = "open"
      BY <2>3 DEF HangUpDial
    <3>2. /\ it \in LaptopType /\ it.partial = laptop[d].partial /\ it.torn = laptop[d].torn
          /\ it.pc = "ended"
      BY <1>1 DEF LaptopType
    <3> HIDE DEF it
    <3> QED BY <3>1, <3>2
  <2> QED BY <2>1, <2>2, <2>3
<1>4. PICK it \in LaptopType :
        /\ laptop' = [laptop EXCEPT ![d] = it]
        /\ it.partial = laptop[d].partial /\ it.torn = laptop[d].torn
        /\ \/ laptop[d].pc = "idle" /\ it.pc \in {"backlog", "ended"}
           \/ laptop[d].pc = "open" /\ it.pc \in {"open", "ended"}
  BY <1>3
<1>5. laptop'[d] = it
  BY <1>1, <1>4
<1>6. Fresh(d)'
  BY <1>1, <1>2, <1>4, <1>5 DEF Fresh
<1>7. InStep(d)'
  <2>1. ~Breaks(d)' => ~Breaks(d)
    BY <1>2, <1>4, <1>5 DEF Breaks, PeerOpen
  <2>2. Phase(d)' = Phase(d)
    BY <1>2 DEF Phase
  <2> QED BY <1>1, <1>2, <1>4, <1>5, <2>1, <2>2 DEF InStep
<1>8. Whole(it)
  BY <1>1, <1>4 DEF Whole
<1>9. laptop[d].pc # "handshake" /\ (laptop[d].pc \in {"open", "ended"} => it.pc \in {"open", "ended"})
  BY <1>4
<1> QED BY <1>1, <1>2, <1>4, <1>6, <1>7, <1>8, <1>9, LaptopMoves

\* A PING changes what the reader will find.
LEMMA PingSteps ==
  ASSUME DialInv, NEW d \in Dials, Ping(d) PROVE DialInv'
<1>1. /\ socket \in [Dials -> SocketType] /\ socket[d] \in SocketType
      /\ pipe \in [Dials -> Seq(Pieces)] /\ clients \subseteq Dials
      /\ Fresh(d) /\ Held(d) /\ InStep(d)
  BY DEF DialInv, DialTyped, Dialled
<1>2. /\ UNCHANGED <<service, acceptor, clients, monitor, sender, pipe, laptop>>
      /\ laptop[d].pc = "open" /\ socket' = [socket EXCEPT ![d].ping = TRUE]
  BY DEF Ping, PhoneElse
<1>3. PICK r : r = [socket[d] EXCEPT !.ping = TRUE]
  OBVIOUS
<1>4. /\ r \in SocketType /\ r.out = socket[d].out /\ r.reader = socket[d].reader
      /\ r.open = socket[d].open
  BY <1>1, <1>3 DEF SocketType
<1>5. socket' = [socket EXCEPT ![d] = r]
  BY <1>2, <1>3
<1>6. /\ socket'[d] = r /\ socket' \in [Dials -> SocketType]
      /\ \A e \in Dials : e # d => socket'[e] = socket[e]
  BY <1>1, <1>4, <1>5
<1>7. Held(d)' /\ Fresh(d)'
  BY <1>1, <1>2, <1>4, <1>6 DEF Held, Fresh
<1>8. InStep(d)'
  <2>1. Breaks(d)' <=> Breaks(d)
    BY <1>2, <1>4, <1>6 DEF Breaks, PeerOpen
  <2>2. Phase(d)' = Phase(d)
    BY <1>2, <1>4, <1>6 DEF Phase
  <2> QED BY <1>1, <1>2, <2>1, <2>2 DEF InStep
<1>9. Dialled(d)' /\ AtWork'
  <2>1. Whole(laptop[d])'
    BY <1>2 DEF DialInv, Dialled
  <2>2. \A p \in Producers : sender[p].pc \in {"frame1", "frame2"} =>
          socket'[sender[p].dial].out = socket[sender[p].dial].out
    BY <1>4, <1>6 DEF DialInv, AtWork
  <2>3. AtWork'
    BY <1>2, <2>2 DEF DialInv, AtWork
  <2> QED BY <1>7, <1>8, <2>1, <2>3 DEF Dialled
<1>10. \A e \in Dials : e # d =>
        /\ socket'[e] = socket[e] /\ pipe'[e] = pipe[e] /\ laptop'[e] = laptop[e]
        /\ \A q \in Producers : socket[e].out = q => sender'[q] = sender[q]
  BY <1>2, <1>6
<1>11. sender \in [Producers -> SenderType] /\ laptop \in [Dials -> LaptopType]
  BY DEF DialInv, DialTyped
<1> QED BY <1>1, <1>2, <1>6, <1>9, <1>10, <1>11, AtOneDial

\* The laptop takes the oldest piece, which fits; a whole frame may end the dial.
LEMMA TakeSteps ==
  ASSUME DialInv, NEW d \in Dials, Take(d) PROVE DialInv'
<1>1. /\ laptop \in [Dials -> LaptopType] /\ laptop[d] \in LaptopType
      /\ pipe \in [Dials -> Seq(Pieces)] /\ pipe[d] \in Seq(Pieces)
      /\ Fresh(d) /\ InStep(d) /\ Whole(laptop[d])
  BY DEF DialInv, DialTyped, Dialled
<1>2. PICK piece, partial : piece = Head(pipe[d]) /\ partial = laptop[d].partial
  OBVIOUS
<1> DEFINE fits == partial = CASE piece = "frame2" -> "frame1" [] piece = "pong2" -> "pong1"
                                [] OTHER -> "none"
           begun == IF piece \in {"frame1", "pong1"} THEN piece ELSE "none"
<1>3. /\ UNCHANGED <<service, acceptor, clients, monitor, sender, socket>>
      /\ laptop[d].pc = "open" /\ pipe[d] # <<>>
      /\ pipe' = [pipe EXCEPT ![d] = Tail(pipe[d])]
      /\ \E pc \in {"open", "ended"} :
           laptop' = [laptop EXCEPT ![d] = [laptop[d] EXCEPT !.pc = pc, !.torn = @ \/ ~fits,
                                                            !.partial = begun]]
  <2>1. PICK pc \in {"open", "ended"} :
          laptop' = [laptop EXCEPT ![d].pc = pc, ![d].torn = @ \/ ~fits, ![d].partial = begun]
    BY <1>2 DEF Take
  <2>2. laptop' = [laptop EXCEPT ![d] = [laptop[d] EXCEPT !.pc = pc, !.torn = @ \/ ~fits,
                                                          !.partial = begun]]
    BY <2>1, <1>1
  <2> QED BY <1>2, <2>2 DEF Take, PhoneElse
<1>4. /\ piece \in Pieces /\ Needs(piece) = partial /\ Tail(pipe[d]) \in Seq(Pieces)
      /\ Fits(Tail(pipe[d]), After(piece))
      /\ Begun(Tail(pipe[d]), After(piece)) = Begun(pipe[d], partial)
  BY <1>1, <1>2, <1>3, FittingTail DEF InStep
<1>5. fits /\ begun = After(piece) /\ begun \in {"none", "frame1", "pong1"}
  BY <1>4 DEF Needs, After
<1>6. ~laptop[d].torn
  BY <1>1 DEF Whole
<1> HIDE DEF fits, begun
<1>9. PICK to \in LaptopType :
        /\ laptop' = [laptop EXCEPT ![d] = to]
        /\ to.pc \in {"open", "ended"} /\ to.partial = After(piece) /\ Whole(to)
  <2>1. PICK pc \in {"open", "ended"} :
           laptop' = [laptop EXCEPT ![d] = [laptop[d] EXCEPT !.pc = pc, !.torn = @ \/ ~fits,
                                                            !.partial = begun]]
    BY <1>3
  <2>2. PICK t : t = (laptop[d].torn \/ ~fits)
    OBVIOUS
  <2>3. t = FALSE
    BY <1>5, <1>6, <2>2
  <2>4. laptop' = [laptop EXCEPT ![d] = [laptop[d] EXCEPT !.pc = pc, !.torn = FALSE, !.partial = begun]]
    <3>1. (laptop[d].torn \/ ~fits) = FALSE
      BY <2>2, <2>3
    <3> QED BY <2>1, <3>1, Zenon
  <2>5. PICK to : to = [laptop[d] EXCEPT !.pc = pc, !.torn = FALSE, !.partial = begun]
    OBVIOUS
  <2>6. to \in LaptopType /\ ~to.torn /\ to.pc = pc /\ to.partial = begun
    BY <1>1, <1>5, <2>5 DEF LaptopType
  <2> QED BY <1>5, <2>4, <2>5, <2>6 DEF Whole
<1>10. /\ pipe' \in [Dials -> Seq(Pieces)] /\ pipe'[d] = Tail(pipe[d])
       /\ \A e \in Dials : e # d => pipe'[e] = pipe[e]
       /\ laptop'[d] = to
  BY <1>1, <1>3, <1>4, <1>9
<1>11. Fresh(d)'
  BY <1>9, <1>10 DEF Fresh
<1>12. InStep(d)'
  <2>1. ~Breaks(d)' => ~Breaks(d)
    BY <1>3 DEF Breaks, PeerOpen
  <2>2. Phase(d)' = Phase(d)
    BY <1>3 DEF Phase
  <2> QED BY <1>1, <1>2, <1>4, <1>9, <1>10, <2>1, <2>2 DEF InStep
<1> QED BY <1>3, <1>9, <1>10, <1>11, <1>12, LaptopMoves

LEMMA DialSteps == DialInv /\ [DialInNext]_dialVars => DialInv'
<1> SUFFICES ASSUME DialInv, [DialInNext]_dialVars PROVE DialInv'
  OBVIOUS
<1>1. CASE UNCHANGED dialVars
  <2>1. /\ service' = service /\ acceptor' = acceptor /\ clients' = clients /\ monitor' = monitor
        /\ sender' = sender /\ socket' = socket /\ pipe' = pipe /\ laptop' = laptop
    BY <1>1 DEF dialVars
  <2>2. \A d \in Dials : Dialled(d)'
    BY <2>1, Undisturbed DEF DialInv
  <2>3. AtWork' /\ OneHandshake'
    BY <2>1 DEF DialInv, AtWork, OneHandshake
  <2> QED BY <2>1, <2>2, <2>3 DEF DialInv, DialTyped
<1>2. CASE Bind \/ Started \/ StopFlag \/ StopClients \/ StopServer
  BY <1>2, ServiceSteps, StopSteps
<1>3. ASSUME NEW s \in 1..MaxStarts,
             \/ AcceptCheck(s) \/ AcceptFails(s) \/ Handshake(s) \/ AddClient(s)
             \/ \E d \in Dials : Accept(s, d)
      PROVE  DialInv'
  BY <1>3, ServiceSteps, HandshakeSteps, AcceptSteps
<1>4. ASSUME NEW p \in Producers,
             \/ Broadcast(p) \/ EnterMonitor(p) \/ TakeOutput(p) \/ WriteFrame(p) \/ WriteFails(p) \/ Leave(p)
             \/ \E d \in Dials : NextClient(p, d)
      PROVE  DialInv'
  BY <1>4, MonitorSteps, OutputSteps, WriterSteps
<1>5. ASSUME NEW d \in Dials,
             ReaderStep(d) \/ Dial(d) \/ Ping(d) \/ Freeze(d) \/ Take(d) \/ HangUpDial(d)
      PROVE  DialInv'
  BY <1>5, ReaderSteps, PongSteps, LaptopSteps, PingSteps, TakeSteps DEF ReaderStep
<1> QED BY <1>1, <1>2, <1>3, <1>4, <1>5 DEF DialInNext

\* DialedWhole, for any producers, dials, starts and kernel buffers: what a dial
\* reads is whole messages, whoever writes and whenever a socket is closed.
THEOREM DialsAreWhole == DialInSpec => []DialedWhole
<1>1. DialInv => DialedWhole
  BY DEF DialInv, Dialled, Whole, DialedWhole
<1> QED BY DialStarts, DialSteps, <1>1, PTL DEF DialInSpec

(****************************** The way out ******************************)

\* A socket that is open is one whose reader has not yet closed it.
Reading == {"read", "pong", "pong1", "pong2", "close"}
OpenIsRead == \A d \in Dials : socket[d].open => socket[d].reader \in Reading

\* A step at one dial's socket keeps it when it keeps it there.
LEMMA ReadAtOneDial ==
  ASSUME DialTyped, OpenIsRead, NEW d \in Dials, NEW to,
         socket' = [socket EXCEPT ![d] = to], to.open => to.reader \in Reading
  PROVE  OpenIsRead'
  BY DEF DialTyped, OpenIsRead

LEMMA OpenIsReadSteps ==
  DialInv /\ OpenIsRead /\ [DialInNext]_dialVars => OpenIsRead'
<1> SUFFICES ASSUME DialInv, OpenIsRead, [DialInNext]_dialVars PROVE OpenIsRead'
  OBVIOUS
<1>1. /\ DialTyped /\ socket \in [Dials -> SocketType]
      /\ \A d \in Dials : socket[d].open => socket[d].reader \in Reading
  BY DEF DialInv, DialTyped, OpenIsRead
<1>2. CASE socket' = socket
  BY <1>1, <1>2 DEF OpenIsRead
<1>3. CASE StopClients
  BY <1>1, <1>3 DEF StopClients, OpenIsRead, SocketType
<1>4. ASSUME NEW s \in 1..MaxStarts, Handshake(s), socket' # socket PROVE OpenIsRead'
  <2> DEFINE d == acceptor[s].dial
             to == [socket[d] EXCEPT !.open = TRUE, !.reader = "read"]
  <2>1. d \in Dials /\ socket' = [socket EXCEPT ![d] = to]
    BY <1>4 DEF Handshake, DialInv, OneHandshake
  <2>2. to.reader \in Reading
    BY <1>1, <2>1 DEF SocketType, Reading
  <2> HIDE DEF d, to
  <2> QED BY <1>1, <2>1, <2>2, ReadAtOneDial
<1>5. ASSUME NEW p \in Producers, TakeOutput(p) \/ WriteFrame(p) \/ WriteFails(p), socket' # socket
      PROVE  OpenIsRead'
  <2> DEFINE d == sender[p].dial
             old == socket[d]
  <2>1. d \in Dials
    BY <1>5 DEF TakeOutput, WriteFrame, WriteFails, DialInv, AtWork
  <2>2. PICK to \in {[old EXCEPT !.out = p], [old EXCEPT !.out = Nobody],
                     [old EXCEPT !.out = Nobody, !.open = FALSE]} :
          socket' = [socket EXCEPT ![d] = to]
    BY <1>5 DEF TakeOutput, WriteFrame, WriteFails
  <2>3. to.open => to.reader \in Reading
    BY <1>1, <2>1, <2>2 DEF SocketType
  <2> HIDE DEF d, old
  <2> QED BY <1>1, <2>1, <2>2, <2>3, ReadAtOneDial
<1>6. ASSUME NEW d \in Dials, ReaderStep(d), socket' # socket PROVE OpenIsRead'
  <2>1. ASSUME NEW pc \in Reading, NEW out, NEW ping,
               socket' = [socket EXCEPT ![d] = [@ EXCEPT !.reader = pc, !.out = out, !.ping = ping]]
        PROVE  OpenIsRead'
    <3> DEFINE to == [socket[d] EXCEPT !.reader = pc, !.out = out, !.ping = ping]
    <3>1. socket' = [socket EXCEPT ![d] = to]
      BY <2>1
    <3>2. to.reader \in Reading
      BY <1>1 DEF SocketType
    <3> HIDE DEF to
    <3> QED BY <1>1, <3>1, <3>2, ReadAtOneDial
  <2>2. socket[d] = [open |-> socket[d].open, out |-> socket[d].out, reader |-> socket[d].reader,
                     ping |-> socket[d].ping]
    BY <1>1 DEF SocketType
  <2>3. CASE ReadPing(d)
    <3>1. socket' = [socket EXCEPT ![d] = [@ EXCEPT !.reader = "pong", !.out = socket[d].out,
                                                    !.ping = FALSE]]
      BY <1>1, <2>2, <2>3 DEF ReadPing
    <3> QED BY <2>1, <3>1 DEF Reading
  <2>4. CASE TakeOutputToPong(d)
    <3>1. socket' = [socket EXCEPT ![d] = [@ EXCEPT !.reader = "pong1", !.out = d,
                                                    !.ping = socket[d].ping]]
      BY <1>1, <2>2, <2>4 DEF TakeOutputToPong
    <3> QED BY <2>1, <3>1 DEF Reading
  <2>5. CASE WritePong(d)
    <3>1. CASE socket' = [socket EXCEPT ![d].reader = "pong2"]
      <4>1. socket' = [socket EXCEPT ![d] = [@ EXCEPT !.reader = "pong2", !.out = socket[d].out,
                                                      !.ping = socket[d].ping]]
        BY <1>1, <2>2, <3>1
      <4> QED BY <2>1, <4>1 DEF Reading
    <3>2. CASE socket' = [socket EXCEPT ![d].reader = "read", ![d].out = Nobody]
      <4>1. socket' = [socket EXCEPT ![d] = [@ EXCEPT !.reader = "read", !.out = Nobody,
                                                      !.ping = socket[d].ping]]
        BY <1>1, <2>2, <3>2
      <4> QED BY <2>1, <4>1 DEF Reading
    <3>3. CASE socket' = [socket EXCEPT ![d].reader = "close", ![d].out = Nobody]
      <4>1. socket' = [socket EXCEPT ![d] = [@ EXCEPT !.reader = "close", !.out = Nobody,
                                                      !.ping = socket[d].ping]]
        BY <1>1, <2>2, <3>3
      <4> QED BY <2>1, <4>1 DEF Reading
    <3> QED BY <2>5, <3>1, <3>2, <3>3 DEF WritePong, ReaderAt
  <2>6. CASE ReadEnds(d)
    <3>1. socket' = [socket EXCEPT ![d] = [@ EXCEPT !.reader = "close", !.out = socket[d].out,
                                                    !.ping = socket[d].ping]]
      BY <1>1, <2>2, <2>6 DEF ReadEnds, ReaderAt
    <3> QED BY <2>1, <3>1 DEF Reading
  <2>7. CASE CloseSocket(d)
    <3> DEFINE to == [socket[d] EXCEPT !.open = FALSE,
                        !.reader = IF socket[d].open THEN "remove" ELSE "done"]
    <3>1. socket' = [socket EXCEPT ![d] = to]
      BY <2>7 DEF CloseSocket
    <3>2. ~to.open
      BY <2>2
    <3> HIDE DEF to
    <3> QED BY <1>1, <3>1, <3>2, ReadAtOneDial
  <2>8. CASE RemoveClient(d)
    <3> DEFINE to == [socket[d] EXCEPT !.reader = "done"]
    <3>1. socket' = [socket EXCEPT ![d] = to] /\ socket[d].reader = "remove"
      BY <2>8 DEF RemoveClient, ReaderAt
    <3>2. ~socket[d].open
      BY <1>1, <3>1 DEF Reading
    <3>3. ~to.open
      BY <2>2, <3>2
    <3> HIDE DEF to
    <3> QED BY <1>1, <3>1, <3>3, ReadAtOneDial
  <2> QED BY <1>6, <2>3, <2>4, <2>5, <2>6, <2>7, <2>8 DEF ReaderStep
<1>7. ASSUME NEW d \in Dials, Ping(d) PROVE OpenIsRead'
  <2> DEFINE to == [socket[d] EXCEPT !.ping = TRUE]
  <2>1. socket' = [socket EXCEPT ![d] = to]
    BY <1>7 DEF Ping
  <2>2. to.open => to.reader \in Reading
    BY <1>1 DEF SocketType
  <2> HIDE DEF to
  <2> QED BY <1>1, <2>1, <2>2, ReadAtOneDial
<1>8. CASE Bind \/ Started \/ StopFlag \/ StopServer
  BY <1>2, <1>8 DEF Bind, Started, StopFlag, StopServer
<1>9. ASSUME NEW s \in 1..MaxStarts,
             AcceptCheck(s) \/ AcceptFails(s) \/ AddClient(s) \/ \E d \in Dials : Accept(s, d)
      PROVE  OpenIsRead'
  BY <1>2, <1>9 DEF AcceptCheck, AcceptFails, AddClient, Accept
<1>10. ASSUME NEW p \in Producers,
              Broadcast(p) \/ EnterMonitor(p) \/ Leave(p) \/ \E d \in Dials : NextClient(p, d)
       PROVE  OpenIsRead'
  BY <1>2, <1>10 DEF Broadcast, EnterMonitor, Leave, NextClient
<1>11. ASSUME NEW d \in Dials, Dial(d) \/ Freeze(d) \/ Take(d) \/ HangUpDial(d)
       PROVE  OpenIsRead'
  BY <1>2, <1>11 DEF Dial, Freeze, Take, HangUpDial
<1>12. CASE UNCHANGED dialVars
  BY <1>2, <1>12 DEF dialVars
<1> QED BY <1>2, <1>3, <1>4, <1>5, <1>6, <1>7, <1>8, <1>9, <1>10, <1>11, <1>12 DEF DialInNext

\* The reader is about to close the socket, or may give up waiting for bytes.
CanClose(d) == socket[d].reader = "read" \/ (socket[d].reader = "close" /\ CloseReady)

BlockedHasReader ==
  \A p \in Producers :
    LET d == sender[p].dial
    IN  sender[p].pc \in {"frame1", "frame2"} /\ ~Breaks(d) =>
          CanClose(d) \/ socket[d].reader = "pong"

\* What BroadcastHasWayOut says without ENABLED: a producer that is blocked in a
\* write, with the monitor of clients in its hand, is never without a reader that
\* can close that socket, and needs no lock to do so, unless the reader waits
\* to answer a PING (InboundWebSocketServer.kt 85-97, 113-157, 218-230).
THEOREM BlockedIsWatched == DialInSpec => []BlockedHasReader
<1>1. DialInInit => OpenIsRead
  BY DEF DialInInit, OpenIsRead
<1>2. DialInv /\ OpenIsRead => BlockedHasReader
  <2> SUFFICES ASSUME DialInv, OpenIsRead, NEW p \in Producers,
                      sender[p].pc \in {"frame1", "frame2"}, ~Breaks(sender[p].dial)
               PROVE  CanClose(sender[p].dial) \/ socket[sender[p].dial].reader = "pong"
    BY DEF BlockedHasReader
  <2> DEFINE d == sender[p].dial
  <2>1. d \in Dials /\ socket[d].out = p
    BY DEF DialInv, AtWork
  <2>2. socket[d].reader \in Reading
    BY <2>1 DEF OpenIsRead, Breaks
  <2>3. socket[d].reader \notin {"pong1", "pong2"}
    <3>1. p # d
      BY <2>1, DialInAssumption
    <3> QED BY <2>1, <3>1 DEF DialInv, Dialled, Held
  <2> QED BY <2>2, <2>3 DEF CanClose, CloseReady, Reading
<1> QED BY DialStarts, DialSteps, OpenIsReadSteps, <1>1, <1>2, PTL DEF DialInSpec

=============================================================================
