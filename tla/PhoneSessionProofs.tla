-------------------------- MODULE PhoneSessionProofs --------------------------
(***************************************************************************)
(* Proofs about PhoneSession, for any number of services, coroutines,      *)
(* sockets and packets.                                                    *)
(*                                                                         *)
(* The phone's half never looks at the server, so its invariant PhoneInv   *)
(* stands alone: every packet under way was numbered by its instance's     *)
(* counter, and once, and the packets of one loop leave in the order of    *)
(* their numbers.  With the links typed by it every step of the session is *)
(* a step of PacketServer or leaves the server alone, and what             *)
(* PacketServerProofs proves of the server holds of the session.  The two  *)
(* halves meet in Ahead: whatever a loop still has under way is newer than *)
(* what a connection has last accepted from it over the same socket.       *)
(***************************************************************************)
EXTENDS PhoneSession, PacketServerProofs

\* A packet under way; a coroutine that holds one, and one between two.
Message == [loop : Coroutines, kind : Kinds, instance : Instances, number : 1..MaxNumber]
Holding == [kind : Kinds, instance : Instances, at : {"send"}, number : 1..MaxNumber]
Waiting == [kind : Kinds, instance : Instances, at : {"check", "number"}, number : {0}]
Loops == {Idle} \cup Waiting \cup Holding

PhoneTyped ==
  /\ active \in [Kinds -> {0} \cup Instances]
  /\ started \in [Kinds -> {0} \cup Instances]
  /\ counter \in [Kinds -> [Instances -> 0..MaxNumber]]
  /\ loop \in [Coroutines -> Loops]
  /\ link \in [Lines -> Seq(Message)]
  /\ current \in Sockets
  /\ launched \in 0..MaxLaunches
  /\ newest \in [Phones -> {<<>>} \cup (Sockets \X Coroutines \X Kinds \X Instances)]
  /\ refused \subseteq Kinds \X Instances

\* The packet was numbered by its instance's counter.
Issued(m) == m.number <= counter[m.kind][m.instance]

NumbersIssued ==
  /\ \A x \in Places : Issued(At(x))
  /\ \A c \in Sending : Issued(Packet(c))

\* Packets of one loop, as one instance numbered them, go up where they queue and
\* from the sockets to the transport's queue to the loop's hand.
Below(m, n) ==
  m.loop = n.loop /\ m.kind = n.kind /\ m.instance = n.instance => m.number < n.number

Sorted(l) == \A i, j \in 1..Len(l) : i < j => Below(l[i], l[j])

LinesSorted ==
  /\ \A a \in Lines : Sorted(link[a])
  /\ \A s \in Sockets : \A i \in 1..Len(link[s]), j \in 1..Len(link[Outbox]) :
       Below(link[s][i], link[Outbox][j])

HandsLast == \A c \in Sending, x \in Places : Below(At(x), Packet(c))

PhoneInv == PhoneTyped /\ NumbersIssued /\ NumbersUnique /\ LinesSorted /\ HandsLast

\* What the connection of p accepted last is older than m, if it came from the
\* loop of m over socket s.
Newer(p, s, m) == newest[p] = Origin(s, m) => connections[p].sequence < m.number

Ahead ==
  \A p \in Connected :
    /\ \A s \in Sockets :
         /\ \A i \in 1..Len(link[s]) : Newer(p, s, link[s][i])
         /\ \A i \in 1..Len(link[Outbox]) : Newer(p, s, link[Outbox][i])
         /\ \A c \in Sending : Newer(p, s, Packet(c))
    /\ newest[p] # <<>> => connections[p].sequence <= counter[newest[p][3]][newest[p][4]]

-----------------------------------------------------------------------------
(* Coroutines, packets and places. *)

\* A coroutine is free, between packets, or holds one.
LEMMA LoopCases ==
  ASSUME NEW r \in Loops
  PROVE  /\ r.at = "free" <=> r = Idle
         /\ r.at \in {"check", "number"} <=> r \in Waiting
         /\ r.at = "send" <=> r \in Holding
         /\ r.at \in {"free", "check", "number", "send"}
         /\ r.kind \in Kinds \cup {"none"}
         /\ r.instance \in {0} \cup Instances
         /\ r.number \in 0..MaxNumber
         /\ r.at # "free" => r.kind \in Kinds /\ r.instance \in Instances
<1>1. Idle.at = "free" /\ Idle \notin Waiting /\ Idle \notin Holding
  BY DEF Idle, Waiting, Holding
<1>2. \A w \in Waiting : w.at \in {"check", "number"} /\ w # Idle /\ w \notin Holding
  BY DEF Idle, Waiting, Holding
<1>3. \A m \in Holding : m.at = "send" /\ m # Idle /\ m \notin Waiting
  BY DEF Idle, Waiting, Holding
<1>4. r = Idle \/ r \in Waiting \/ r \in Holding
  BY DEF Loops
<1>5. /\ r.kind \in Kinds \cup {"none"}
      /\ r.instance \in {0} \cup Instances
      /\ r.number \in 0..MaxNumber
      /\ r # Idle => r.kind \in Kinds /\ r.instance \in Instances
  <2>1. 0 \in 0..MaxNumber
    BY SessionAssumption
  <2>2. CASE r = Idle
    BY <2>1, <2>2 DEF Idle
  <2>3. CASE r \in Waiting
    BY <2>1, <2>3 DEF Waiting
  <2>4. CASE r \in Holding
    BY <2>4, SessionAssumption DEF Holding
  <2> QED BY <2>2, <2>3, <2>4, <1>4
<1> QED BY <1>1, <1>2, <1>3, <1>4, <1>5

\* The fields of a packet.
LEMMA MessageFields ==
  ASSUME NEW m \in Message
  PROVE  /\ m.loop \in Coroutines /\ m.kind \in Kinds /\ m.instance \in Instances
         /\ m.number \in 1..MaxNumber /\ m.number \in Nat /\ m.number >= 1
         /\ m.number \in Sequence
<1>1. m.loop \in Coroutines /\ m.kind \in Kinds /\ m.instance \in Instances
      /\ m.number \in 1..MaxNumber
  BY DEF Message
<1> QED BY <1>1, SessionAssumption, ServerAssumption DEF Sequence

\* What a coroutine that sends has in its hand.
LEMMA HandTyped ==
  ASSUME loop \in [Coroutines -> Loops], NEW c \in Sending
  PROVE  /\ c \in Coroutines /\ Packet(c) \in Message
         /\ Packet(c).loop = c /\ Packet(c).kind = loop[c].kind
         /\ Packet(c).instance = loop[c].instance /\ Packet(c).number = loop[c].number
         /\ Identity(Packet(c)) = Identity(loop[c])
<1>1. c \in Coroutines /\ loop[c] \in Loops /\ loop[c].at = "send"
  BY DEF Sending
<1>2. loop[c] \in Holding
  BY <1>1, LoopCases
<1> QED BY <1>1, <1>2 DEF Holding, Message, Packet, Identity

\* The places of any lines of packets.
PlacesOf(l) == UNION {{a} \X (1..Len(l[a])) : a \in Lines}

LEMMA PlaceIs ==
  ASSUME NEW l
  PROVE  \A x : x \in PlacesOf(l) <=>
           x = <<x[1], x[2]>> /\ x[1] \in Lines /\ x[2] \in 1..Len(l[x[1]])
<1>1. ASSUME NEW x \in PlacesOf(l)
      PROVE  x = <<x[1], x[2]>> /\ x[1] \in Lines /\ x[2] \in 1..Len(l[x[1]])
  <2>1. PICK a \in Lines : x \in {a} \X (1..Len(l[a]))
    BY DEF PlacesOf
  <2> QED BY <2>1
<1>2. ASSUME NEW x, x = <<x[1], x[2]>> /\ x[1] \in Lines /\ x[2] \in 1..Len(l[x[1]])
      PROVE  x \in PlacesOf(l)
  <2>1. x \in {x[1]} \X (1..Len(l[x[1]]))
    BY <1>2
  <2> QED BY <1>2, <2>1 DEF PlacesOf
<1> QED BY <1>1, <1>2

LEMMA PlacesAre == Places = PlacesOf(link) /\ Places' = PlacesOf(link')
  BY DEF Places, PlacesOf

\* A packet at a place is one of the phone's.
LEMMA AtTyped ==
  ASSUME link \in [Lines -> Seq(Message)], NEW x \in Places
  PROVE  At(x) \in Message /\ x[1] \in Lines /\ x[2] \in 1..Len(link[x[1]])
<1>1. x[1] \in Lines /\ x[2] \in 1..Len(link[x[1]])
  BY PlaceIs, PlacesAre
<1>2. link[x[1]] \in Seq(Message)
  BY <1>1
<1> QED BY <1>1, <1>2 DEF At

\* The oldest packet leaves a line, and those behind it keep their order.
LEMMA LineTail ==
  ASSUME NEW l \in Seq(Message), l # <<>>
  PROVE  /\ Head(l) = l[1] /\ l[1] \in Message /\ 1 \in 1..Len(l)
         /\ Tail(l) \in Seq(Message)
         /\ Len(Tail(l)) = Len(l) - 1 /\ Len(l) \in Nat
         /\ \A i \in 1..Len(Tail(l)) : Tail(l)[i] = l[i + 1] /\ i + 1 \in 1..Len(l)
<1>1. Len(l) \in Nat /\ Len(l) # 0
  OBVIOUS
<1>2. Tail(l) \in Seq(Message) /\ Len(Tail(l)) = Len(l) - 1 /\ Head(l) = l[1]
  BY HeadTailProperties
<1>3. \A i \in 1..Len(Tail(l)) : Tail(l)[i] = l[i + 1]
  BY <1>1, <1>2
<1> QED BY <1>1, <1>2, <1>3

\* A packet joins a line behind the others.
LEMMA LineAppend ==
  ASSUME NEW l \in Seq(Message), NEW m \in Message
  PROVE  /\ Append(l, m) \in Seq(Message)
         /\ Len(Append(l, m)) = Len(l) + 1 /\ Len(l) \in Nat
         /\ Append(l, m)[Len(l) + 1] = m
         /\ \A i \in 1..Len(l) : Append(l, m)[i] = l[i]
         /\ \A i \in 1..Len(Append(l, m)) : i \in 1..Len(l) \/ i = Len(l) + 1
  BY AppendProperties

LEMMA TailSorted ==
  ASSUME NEW l \in Seq(Message), l # <<>>, Sorted(l)
  PROVE  Sorted(Tail(l)) /\ \A i \in 1..Len(Tail(l)) : Below(Head(l), Tail(l)[i])
<1>1. /\ Head(l) = l[1] /\ 1 \in 1..Len(l) /\ Len(l) \in Nat
      /\ \A i \in 1..Len(Tail(l)) : Tail(l)[i] = l[i + 1] /\ i + 1 \in 1..Len(l)
  BY LineTail
<1>2. \A i, j \in 1..Len(Tail(l)) : i < j => Below(Tail(l)[i], Tail(l)[j])
  <2> SUFFICES ASSUME NEW i \in 1..Len(Tail(l)), NEW j \in 1..Len(Tail(l)), i < j
               PROVE  Below(Tail(l)[i], Tail(l)[j])
    OBVIOUS
  <2>1. i + 1 < j + 1
    OBVIOUS
  <2> QED BY <1>1, <2>1 DEF Sorted
<1>3. \A i \in 1..Len(Tail(l)) : Below(Head(l), Tail(l)[i])
  <2> SUFFICES ASSUME NEW i \in 1..Len(Tail(l)) PROVE Below(Head(l), Tail(l)[i])
    OBVIOUS
  <2>1. 1 < i + 1
    OBVIOUS
  <2> QED BY <1>1, <2>1 DEF Sorted
<1> QED BY <1>2, <1>3 DEF Sorted

LEMMA AppendSorted ==
  ASSUME NEW l \in Seq(Message), NEW m \in Message, Sorted(l),
         \A i \in 1..Len(l) : Below(l[i], m)
  PROVE  Sorted(Append(l, m))
<1> DEFINE t == Append(l, m)
<1>1. /\ t[Len(l) + 1] = m /\ Len(l) \in Nat /\ Len(t) = Len(l) + 1
      /\ \A i \in 1..Len(l) : t[i] = l[i]
      /\ \A i \in 1..Len(t) : i \in 1..Len(l) \/ i = Len(l) + 1
  BY LineAppend
<1> HIDE DEF t
<1>2. ASSUME NEW i \in 1..Len(t), NEW j \in 1..Len(t), i < j PROVE Below(t[i], t[j])
  <2>1. i \in 1..Len(l)
    BY <1>1, <1>2
  <2>2. CASE j \in 1..Len(l)
    BY <2>1, <2>2, <1>1, <1>2 DEF Sorted
  <2>3. CASE j = Len(l) + 1
    BY <2>1, <2>3, <1>1
  <2> QED BY <2>2, <2>3, <1>1
<1> QED BY <1>2 DEF Sorted, t

LEMMA OutboxApart == Outbox \in Lines /\ Outbox \notin Sockets /\ Sockets \subseteq Lines
                     /\ \A a \in Lines : a # Outbox => a \in Sockets
  BY SessionAssumption DEF Lines

-----------------------------------------------------------------------------
(* The phone's half. *)

LEMMA InitPhone == SessionInit => PhoneInv
<1> SUFFICES ASSUME SessionInit PROVE PhoneInv
  OBVIOUS
<1>1. Sending = {} /\ \A a \in Lines : link[a] = <<>> /\ Len(link[a]) = 0
  BY DEF SessionInit, Sending, Idle
<1>2. Places = {}
  BY <1>1 DEF Places
<1>3. NumbersIssued /\ NumbersUnique /\ HandsLast
  BY <1>1, <1>2 DEF NumbersIssued, NumbersUnique, HandsLast
<1>4. LinesSorted
  BY <1>1, OutboxApart DEF LinesSorted, Sorted
<1>5. PhoneTyped
  BY SessionAssumption DEF SessionInit, PhoneTyped, Loops
<1> QED BY <1>3, <1>4, <1>5 DEF PhoneInv

\* The numbers stay issued and apart when packets only move from place to place
\* or leave, and no loop gets a new one.
LEMMA MovedPlaces ==
  ASSUME PhoneInv, UNCHANGED counter, NEW f,
         \A x \in Places' : f[x] \in Places /\ At(x)' = At(f[x]),
         \A x, y \in Places' : x # y => f[x] # f[y],
         \A c \in Sending' : c \in Sending /\ loop'[c] = loop[c]
  PROVE  NumbersIssued' /\ NumbersUnique' /\ HandsLast'
<1>1. NumbersIssued /\ NumbersUnique /\ HandsLast
  BY DEF PhoneInv
<1>2. \A c \in Sending' : c \in Sending /\ Packet(c)' = Packet(c)
  BY DEF Packet
<1>3. NumbersIssued'
  <2>1. \A x \in Places' : Issued(At(x)) '
    BY <1>1 DEF NumbersIssued, Issued
  <2>2. \A c \in Sending' : Issued(Packet(c))'
    BY <1>1, <1>2 DEF NumbersIssued, Issued
  <2> QED BY <2>1, <2>2 DEF NumbersIssued
<1>4. NumbersUnique'
  <2>1. \A x, y \in Places' : x # y => Identity(At(x)') # Identity(At(y)')
    BY <1>1 DEF NumbersUnique
  <2>2. \A c \in Sending', x \in Places' : Identity(loop'[c]) # Identity(At(x)')
    BY <1>1 DEF NumbersUnique
  <2>3. \A c, d \in Sending' : c # d => Identity(loop'[c]) # Identity(loop'[d])
    BY <1>1 DEF NumbersUnique
  <2> QED BY <2>1, <2>2, <2>3 DEF NumbersUnique
<1>5. HandsLast'
  BY <1>1, <1>2 DEF HandsLast, Below
<1> QED BY <1>3, <1>4, <1>5

\* Nothing moves.
LEMMA QuietKeepsNumbers ==
  ASSUME PhoneInv, UNCHANGED <<counter, link>>,
         \A c \in Sending' : c \in Sending /\ loop'[c] = loop[c]
  PROVE  NumbersIssued' /\ NumbersUnique' /\ LinesSorted' /\ HandsLast'
<1> DEFINE f == [x \in Places |-> x]
<1>1. Places' = Places /\ \A x : At(x)' = At(x)
  BY DEF Places, At
<1>2. /\ \A x \in Places' : f[x] \in Places /\ At(x)' = At(f[x])
      /\ \A x, y \in Places' : x # y => f[x] # f[y]
  BY <1>1
<1> HIDE DEF f
<1>3. NumbersIssued' /\ NumbersUnique' /\ HandsLast'
  BY <1>2, MovedPlaces
<1>4. LinesSorted'
  BY DEF PhoneInv, LinesSorted
<1> QED BY <1>3, <1>4

LEMMA StartKeepsPhone ==
  ASSUME PhoneInv, NEW k \in Kinds, NEW c \in Coroutines, StartCommand(k, c)
  PROVE  PhoneInv'
<1> DEFINE i == IF active[k] = 0 THEN started[k] + 1 ELSE active[k]
           r == [kind |-> k, instance |-> i, at |-> "check", number |-> 0]
<1>1. PhoneTyped
  BY DEF PhoneInv
<1>2. i \in Instances
  <2>1. active[k] \in {0} \cup Instances /\ started[k] \in {0} \cup Instances
    BY <1>1 DEF PhoneTyped
  <2>2. active[k] # 0 \/ started[k] < MaxStarts
    BY DEF StartCommand
  <2> QED BY <2>1, <2>2, SessionAssumption DEF Instances
<1>3. /\ active' = [active EXCEPT ![k] = i]
      /\ started' = [started EXCEPT ![k] = IF active[k] = 0 THEN i ELSE @]
      /\ loop' = [loop EXCEPT ![c] = r]
      /\ launched' = launched + 1 /\ launched < MaxLaunches
      /\ UNCHANGED <<counter, link, current, newest, refused>>
  BY DEF StartCommand, laptopVars
<1> HIDE DEF i
<1>4. r \in Waiting /\ r.at = "check"
  BY <1>2 DEF Waiting
<1> HIDE DEF r
<1>5. loop' \in [Coroutines -> Loops]
  BY <1>1, <1>3, <1>4 DEF PhoneTyped, Loops
<1>6. active' \in [Kinds -> {0} \cup Instances] /\ started' \in [Kinds -> {0} \cup Instances]
  BY <1>1, <1>2, <1>3 DEF PhoneTyped
<1>7. launched' \in 0..MaxLaunches
  BY <1>1, <1>3, SessionAssumption DEF PhoneTyped
<1>8. PhoneTyped'
  BY <1>1, <1>3, <1>5, <1>6, <1>7 DEF PhoneTyped
<1>9. \A d \in Sending' : d \in Sending /\ loop'[d] = loop[d]
  BY <1>1, <1>3, <1>4 DEF Sending, PhoneTyped
<1> QED BY <1>3, <1>8, <1>9, QuietKeepsNumbers DEF PhoneInv

LEMMA CheckKeepsPhone ==
  ASSUME PhoneInv, NEW c \in Coroutines, CheckActive(c)
  PROVE  /\ PhoneInv'
         /\ \A d \in Sending' : d \in Sending /\ loop'[d] = loop[d]
<1> DEFINE r == IF active[loop[c].kind] = loop[c].instance
                THEN [loop[c] EXCEPT !.at = "number"] ELSE Idle
<1>1. PhoneTyped /\ loop[c] \in Loops /\ loop[c].at = "check"
  BY DEF PhoneInv, PhoneTyped, CheckActive
<1>2. loop[c] \in Waiting
  BY <1>1, LoopCases
<1>3. loop' = [loop EXCEPT ![c] = r]
  BY <1>1 DEF CheckActive, PhoneTyped
<1>4. r \in Loops /\ r.at # "send"
  BY <1>2 DEF Loops, Waiting, Idle
<1> HIDE DEF r
<1>5. loop' \in [Coroutines -> Loops]
  BY <1>1, <1>3, <1>4 DEF PhoneTyped
<1>6. UNCHANGED <<active, started, counter, launched, link, current, newest, refused>>
  BY DEF CheckActive, laptopVars
<1>7. PhoneTyped'
  BY <1>1, <1>5, <1>6 DEF PhoneTyped
<1>8. \A d \in Sending' : d \in Sending /\ loop'[d] = loop[d]
  BY <1>1, <1>3, <1>4 DEF Sending, PhoneTyped
<1> QED BY <1>6, <1>7, <1>8, QuietKeepsNumbers DEF PhoneInv

\* What Number(c) does: the counter passes everything it has given out.
LEMMA NumberDoes ==
  ASSUME PhoneTyped, NEW c \in Coroutines, Number(c)
  PROVE  LET k == loop[c].kind
             i == loop[c].instance
             n == counter[k][i] + 1
             r == [loop[c] EXCEPT !.at = "send", !.number = n]
         IN  /\ k \in Kinds /\ i \in Instances
             /\ n \in 1..MaxNumber /\ n \in Nat /\ counter[k][i] \in Nat
             /\ r \in Holding /\ r.kind = k /\ r.instance = i /\ r.number = n
             /\ loop' = [loop EXCEPT ![c] = r] /\ loop'[c] = r
             /\ \A d \in Coroutines \ {c} : loop'[d] = loop[d]
             /\ counter' \in [Kinds -> [Instances -> 0..MaxNumber]]
             /\ counter'[k][i] = n
             /\ \A l \in Kinds, j \in Instances :
                  /\ counter[l][j] <= counter'[l][j]
                  /\ counter[l][j] \in Nat /\ counter'[l][j] \in Nat
<1> DEFINE k == loop[c].kind
           i == loop[c].instance
           n == counter[k][i] + 1
           r == [loop[c] EXCEPT !.at = "send", !.number = n]
<1>1. loop[c] \in Loops /\ loop[c].at = "number"
  BY DEF PhoneTyped, Number
<1>2. loop[c] \in Waiting /\ k \in Kinds /\ i \in Instances
  BY <1>1, LoopCases
<1>3. counter[k] \in [Instances -> 0..MaxNumber] /\ counter[k][i] \in 0..MaxNumber
      /\ counter[k][i] < MaxNumber
  BY <1>2 DEF PhoneTyped, Number
<1>4. n \in 1..MaxNumber
  BY <1>3, SessionAssumption
<1>5. r \in Holding /\ r.kind = k /\ r.instance = i /\ r.number = n
  <2> HIDE DEF n
  <2> QED BY <1>2, <1>4 DEF Waiting, Holding
<1>6. /\ counter' = [counter EXCEPT ![k] = [counter[k] EXCEPT ![i] = n]]
      /\ loop' = [loop EXCEPT ![c] = r]
  BY <1>1, <1>2, <1>3 DEF Number, PhoneTyped
<1> HIDE DEF r
<1>7. n \in 0..MaxNumber /\ counter[k][i] <= n
  BY <1>3, <1>4
<1>8. loop'[c] = r /\ \A d \in Coroutines \ {c} : loop'[d] = loop[d]
  BY <1>6 DEF PhoneTyped
<1>9. /\ counter' \in [Kinds -> [Instances -> 0..MaxNumber]]
      /\ counter'[k][i] = n
      /\ \A l \in Kinds, j \in Instances : counter[l][j] <= counter'[l][j]
                                           /\ counter[l][j] \in Nat /\ counter'[l][j] \in Nat
  <2> HIDE DEF n
  <2>2. [counter[k] EXCEPT ![i] = n] \in [Instances -> 0..MaxNumber]
    BY <1>3, <1>7
  <2>3. counter' \in [Kinds -> [Instances -> 0..MaxNumber]]
    BY <1>6, <2>2 DEF PhoneTyped
  <2>4. counter'[k] = [counter[k] EXCEPT ![i] = n] /\ \A l \in Kinds \ {k} : counter'[l] = counter[l]
    BY <1>2, <1>6 DEF PhoneTyped
  <2>5. counter'[k][i] = n /\ \A j \in Instances \ {i} : counter'[k][j] = counter[k][j]
    BY <1>2, <1>3, <2>4
  <2>6. \A l \in Kinds, j \in Instances : counter[l][j] \in Nat /\ counter'[l][j] \in Nat
    BY <2>3 DEF PhoneTyped
  <2> QED BY <1>7, <2>3, <2>4, <2>5, <2>6
<1>10. n \in Nat /\ counter[k][i] \in Nat
  BY <1>3
<1> QED BY <1>2, <1>4, <1>5, <1>6, <1>8, <1>9, <1>10 DEF r

\* A packet gets the number after every one its instance has given out.
LEMMA NumberKeepsPhone ==
  ASSUME PhoneInv, NEW c \in Coroutines, Number(c)
  PROVE  PhoneInv'
<1> DEFINE k == loop[c].kind
           i == loop[c].instance
           n == counter[k][i] + 1
           r == [loop[c] EXCEPT !.at = "send", !.number = n]
<1>1. PhoneTyped /\ NumbersIssued /\ NumbersUnique /\ LinesSorted /\ HandsLast
  BY DEF PhoneInv
<1>2. /\ k \in Kinds /\ i \in Instances
      /\ n \in 1..MaxNumber /\ n \in Nat /\ counter[k][i] \in Nat
      /\ r \in Holding /\ r.kind = k /\ r.instance = i /\ r.number = n
      /\ loop' = [loop EXCEPT ![c] = r] /\ loop'[c] = r
      /\ \A d \in Coroutines \ {c} : loop'[d] = loop[d]
      /\ counter' \in [Kinds -> [Instances -> 0..MaxNumber]]
      /\ counter'[k][i] = n
      /\ \A l \in Kinds, j \in Instances : /\ counter[l][j] <= counter'[l][j]
                                           /\ counter[l][j] \in Nat /\ counter'[l][j] \in Nat
  BY <1>1, NumberDoes
<1>3. counter[k][i] < n
  BY <1>2
<1>4. UNCHANGED <<active, started, launched, link, current, newest, refused>>
  BY DEF Number, laptopVars
<1> HIDE DEF k, i, n, r
<1>5. PhoneTyped'
  <2>1. loop' \in [Coroutines -> Loops]
    BY <1>1, <1>2 DEF PhoneTyped, Loops
  <2> QED BY <1>1, <1>2, <1>4, <2>1 DEF PhoneTyped
<1>6. \A m \in Message : Issued(m) =>
         /\ m.number <= counter'[m.kind][m.instance]
         /\ Identity(m) # Identity(r)
         /\ m.kind = k /\ m.instance = i => m.number < n
  <2> SUFFICES ASSUME NEW m \in Message, Issued(m)
               PROVE  /\ m.number <= counter'[m.kind][m.instance]
                      /\ Identity(m) # Identity(r)
                      /\ m.kind = k /\ m.instance = i => m.number < n
    OBVIOUS
  <2>1. m.kind \in Kinds /\ m.instance \in Instances /\ m.number \in Nat
    BY MessageFields
  <2>2. m.number <= counter[m.kind][m.instance]
    BY DEF Issued
  <2>3. counter[m.kind][m.instance] \in Nat /\ counter'[m.kind][m.instance] \in Nat
        /\ counter[m.kind][m.instance] <= counter'[m.kind][m.instance]
    BY <1>2, <2>1
  <2>4. m.kind = k /\ m.instance = i => m.number < n
    BY <1>2, <1>3, <2>1, <2>2
  <2>5. Identity(m) # Identity(r)
    BY <1>2, <2>1, <2>4 DEF Identity
  <2> QED BY <2>1, <2>2, <2>3, <2>4, <2>5
<1>7. Places' = Places /\ \A x : At(x)' = At(x)
  BY <1>4 DEF Places, At
<1>8. \A x \in Places : At(x) \in Message /\ Issued(At(x))
  BY <1>1, AtTyped DEF PhoneTyped, NumbersIssued
<1>9. \A d \in Sending : /\ d \in Coroutines /\ Packet(d) \in Message /\ Issued(Packet(d))
                         /\ Identity(Packet(d)) = Identity(loop[d])
  BY <1>1, HandTyped DEF PhoneTyped, NumbersIssued
<1>10. /\ \A d \in Sending' : d = c \/ (d \in Sending /\ loop'[d] = loop[d])
       /\ Packet(c)'.loop = c /\ Packet(c)'.kind = k /\ Packet(c)'.instance = i
       /\ Packet(c)'.number = n
       /\ \A d \in Coroutines \ {c} : Packet(d)' = Packet(d)
  <2>1. \A d \in Sending' : d = c \/ (d \in Sending /\ loop'[d] = loop[d])
    BY <1>2 DEF Sending
  <2>2. \A d \in Coroutines \ {c} : Packet(d)' = Packet(d)
    BY <1>2 DEF Packet
  <2> QED BY <1>2, <2>1, <2>2 DEF Packet
<1>11. NumbersIssued'
  <2>1. \A x \in Places' : Issued(At(x))'
    BY <1>6, <1>7, <1>8 DEF Issued
  <2>2. Issued(Packet(c))'
    BY <1>2, <1>10 DEF Issued
  <2>3. \A d \in Sending' : d # c => Issued(Packet(d))'
    BY <1>6, <1>9, <1>10 DEF Issued
  <2> QED BY <2>1, <2>2, <2>3 DEF NumbersIssued
<1>12. NumbersUnique'
  <2>1. \A x, y \in Places' : x # y => Identity(At(x)') # Identity(At(y)')
    BY <1>1, <1>7 DEF NumbersUnique
  <2>2. \A d \in Sending', x \in Places' : Identity(loop'[d]) # Identity(At(x)')
    <3> SUFFICES ASSUME NEW d \in Sending', NEW x \in Places
                 PROVE  Identity(loop'[d]) # Identity(At(x))
      BY <1>7
    <3>1. CASE d = c
      BY <3>1, <1>2, <1>6, <1>8
    <3>2. CASE d # c
      BY <3>2, <1>1, <1>10 DEF NumbersUnique
    <3> QED BY <3>1, <3>2
  <2>3. \A d, e \in Sending' : d # e => Identity(loop'[d]) # Identity(loop'[e])
    <3> SUFFICES ASSUME NEW d \in Sending', NEW e \in Sending', d # e
                 PROVE  Identity(loop'[d]) # Identity(loop'[e])
      OBVIOUS
    <3>1. CASE d = c
      <4>1. e \in Sending /\ loop'[e] = loop[e]
        BY <3>1, <1>10
      <4> QED BY <3>1, <4>1, <1>2, <1>6, <1>9
    <3>2. CASE e = c
      <4>1. d \in Sending /\ loop'[d] = loop[d]
        BY <3>2, <1>10
      <4> QED BY <3>2, <4>1, <1>2, <1>6, <1>9
    <3>3. CASE d # c /\ e # c
      BY <3>3, <1>1, <1>10 DEF NumbersUnique
    <3> QED BY <3>1, <3>2, <3>3
  <2> QED BY <2>1, <2>2, <2>3 DEF NumbersUnique
<1>13. HandsLast'
  <2> SUFFICES ASSUME NEW d \in Sending', NEW x \in Places
               PROVE  Below(At(x), Packet(d)')
    BY <1>7 DEF HandsLast, Below
  <2>1. CASE d = c
    BY <2>1, <1>6, <1>8, <1>10 DEF Below
  <2>2. CASE d # c
    <3>1. d \in Sending /\ d \in Coroutines /\ Packet(d)' = Packet(d)
      BY <2>2, <1>9, <1>10
    <3> QED BY <3>1, <1>1 DEF HandsLast
  <2> QED BY <2>1, <2>2
<1>14. LinesSorted'
  BY <1>1, <1>4 DEF LinesSorted
<1> QED BY <1>5, <1>11, <1>12, <1>13, <1>14 DEF PhoneInv

\* What Transmit(c) does to the lines and to the loop.
LEMMA TransmitDoes ==
  ASSUME PhoneTyped, NEW c \in Coroutines, Transmit(c)
  PROVE  /\ c \in Sending /\ Packet(c) \in Message
         /\ link' \in [Lines -> Seq(Message)]
         /\ link'[Outbox] = Append(link[Outbox], Packet(c))
         /\ \A a \in Sockets : link'[a] = link[a]
         /\ loop' \in [Coroutines -> Loops]
         /\ \A d \in Sending' : d \in Sending /\ d # c /\ loop'[d] = loop[d]
                                /\ Packet(d)' = Packet(d)
<1> DEFINE r == [loop[c] EXCEPT !.at = "check", !.number = 0]
<1>1. loop[c] \in Loops /\ loop[c].at = "send" /\ c \in Sending
  BY DEF PhoneTyped, Transmit, Sending
<1>2. loop[c] \in Holding /\ Packet(c) \in Message
  BY <1>1, LoopCases, HandTyped DEF PhoneTyped
<1>3. r \in Waiting /\ r.at = "check"
  BY <1>2 DEF Waiting, Holding
<1>4. /\ link' = [link EXCEPT ![Outbox] = Append(link[Outbox], Packet(c))]
      /\ loop' = [loop EXCEPT ![c] = r]
  BY <1>1, OutboxApart DEF Transmit, PhoneTyped
<1> HIDE DEF r
<1>5. loop' \in [Coroutines -> Loops]
  BY <1>3, <1>4 DEF PhoneTyped, Loops
<1>6. Append(link[Outbox], Packet(c)) \in Seq(Message)
  BY <1>2, OutboxApart, LineAppend DEF PhoneTyped
<1>7. /\ link' \in [Lines -> Seq(Message)]
      /\ link'[Outbox] = Append(link[Outbox], Packet(c))
      /\ \A a \in Sockets : link'[a] = link[a]
  BY <1>4, <1>6, OutboxApart DEF PhoneTyped
<1>8. \A d \in Sending' : d \in Sending /\ d # c /\ loop'[d] = loop[d]
  BY <1>3, <1>4 DEF Sending, PhoneTyped
<1>9. \A d \in Sending' : Packet(d)' = Packet(d)
  BY <1>8 DEF Packet
<1> QED BY <1>1, <1>2, <1>5, <1>7, <1>8, <1>9

\* A packet goes from the loop's hand to the end of the transport's queue.
LEMMA TransmitKeepsPhone ==
  ASSUME PhoneInv, NEW c \in Coroutines, Transmit(c)
  PROVE  PhoneInv'
<1> DEFINE l == link[Outbox]
           n == Len(l) + 1
           y == <<Outbox, n>>
<1>1. PhoneTyped /\ NumbersIssued /\ NumbersUnique /\ LinesSorted /\ HandsLast
  BY DEF PhoneInv
<1>2. /\ c \in Sending /\ Packet(c) \in Message
      /\ link' \in [Lines -> Seq(Message)]
      /\ link'[Outbox] = Append(l, Packet(c))
      /\ \A a \in Sockets : link'[a] = link[a]
      /\ loop' \in [Coroutines -> Loops]
      /\ \A d \in Sending' : d \in Sending /\ d # c /\ loop'[d] = loop[d]
                             /\ Packet(d)' = Packet(d)
  BY <1>1, TransmitDoes
<1>3. UNCHANGED <<active, started, counter, launched, current, newest, refused>>
  BY DEF Transmit, laptopVars
<1>4. PhoneTyped'
  BY <1>1, <1>2, <1>3 DEF PhoneTyped
<1>5. /\ l \in Seq(Message) /\ Len(l) \in Nat
      /\ Len(link'[Outbox]) = n
      /\ link'[Outbox][n] = Packet(c)
      /\ \A i \in 1..Len(l) : link'[Outbox][i] = l[i]
      /\ \A i \in 1..n : i \in 1..Len(l) \/ i = n
  <2>1. l \in Seq(Message)
    BY <1>1, OutboxApart DEF PhoneTyped
  <2> QED BY <1>2, <2>1, LineAppend
<1> HIDE DEF l, n
<1>6. \A x \in Places' : (x \in Places /\ At(x)' = At(x)) \/ (x = y /\ At(x)' = Packet(c))
  <2> SUFFICES ASSUME NEW x \in Places'
               PROVE  (x \in Places /\ At(x)' = At(x)) \/ (x = y /\ At(x)' = Packet(c))
    OBVIOUS
  <2>1. x = <<x[1], x[2]>> /\ x[1] \in Lines /\ x[2] \in 1..Len(link'[x[1]])
    BY PlaceIs, PlacesAre
  <2>2. CASE x[1] \in Sockets
    BY <2>1, <2>2, <1>2, PlaceIs, PlacesAre DEF At
  <2>3. CASE x[1] = Outbox
    <3>1. CASE x[2] \in 1..Len(l)
      BY <2>1, <2>3, <3>1, <1>5, PlaceIs, PlacesAre DEF At, l
    <3>2. CASE x[2] = n
      BY <2>1, <2>3, <3>2, <1>5 DEF At
    <3> QED BY <2>1, <2>3, <3>1, <3>2, <1>5
  <2> QED BY <2>1, <2>2, <2>3, OutboxApart
<1>7. \A x \in Places : Issued(At(x)) /\ Identity(Packet(c)) # Identity(At(x))
                        /\ Below(At(x), Packet(c))
  BY <1>1, <1>2, HandTyped DEF NumbersIssued, NumbersUnique, HandsLast, PhoneTyped
<1>8. \A d \in Sending' : /\ Issued(Packet(d)) /\ Identity(loop[d]) # Identity(Packet(c))
                          /\ Below(Packet(c), Packet(d))
  <2>1. \A d \in Sending : /\ Packet(d).loop = d
                           /\ Identity(Packet(d)) = Identity(loop[d])
    BY <1>1, HandTyped DEF PhoneTyped
  <2> QED BY <1>1, <1>2, <2>1 DEF NumbersIssued, NumbersUnique, Below
<1>9. NumbersIssued'
  <2>1. Issued(Packet(c))
    BY <1>1, <1>2 DEF NumbersIssued
  <2>2. \A x \in Places' : Issued(At(x))'
    BY <1>3, <1>6, <1>7, <2>1 DEF Issued
  <2>3. \A d \in Sending' : Issued(Packet(d))'
    BY <1>2, <1>3, <1>8 DEF Issued
  <2> QED BY <2>2, <2>3 DEF NumbersIssued
<1>10. NumbersUnique'
  <2>1. \A x, z \in Places' : x # z => Identity(At(x)') # Identity(At(z)')
    <3> SUFFICES ASSUME NEW x \in Places', NEW z \in Places', x # z
                 PROVE  Identity(At(x)') # Identity(At(z)')
      OBVIOUS
    <3>1. CASE x \in Places /\ At(x)' = At(x) /\ z \in Places /\ At(z)' = At(z)
      BY <3>1, <1>1 DEF NumbersUnique
    <3>2. CASE x = y /\ At(x)' = Packet(c)
      BY <3>2, <1>6, <1>7
    <3>3. CASE z = y /\ At(z)' = Packet(c)
      BY <3>3, <1>6, <1>7
    <3> QED BY <3>1, <3>2, <3>3, <1>6
  <2>2. \A d \in Sending', x \in Places' : Identity(loop'[d]) # Identity(At(x)')
    BY <1>1, <1>2, <1>6, <1>8 DEF NumbersUnique
  <2>3. \A d, e \in Sending' : d # e => Identity(loop'[d]) # Identity(loop'[e])
    BY <1>1, <1>2 DEF NumbersUnique
  <2> QED BY <2>1, <2>2, <2>3 DEF NumbersUnique
<1>11. HandsLast'
  <2>1. \A d \in Sending', x \in Places' : Below(At(x)', Packet(d)')
    BY <1>1, <1>2, <1>6, <1>8 DEF HandsLast
  <2> QED BY <2>1 DEF HandsLast, Below
<1>12. LinesSorted'
  <2>1. \A i \in 1..Len(l) : Below(l[i], Packet(c))
    <3> SUFFICES ASSUME NEW i \in 1..Len(l) PROVE Below(l[i], Packet(c))
      OBVIOUS
    <3>1. <<Outbox, i>> \in Places /\ At(<<Outbox, i>>) = l[i]
      BY OutboxApart, PlaceIs, PlacesAre DEF At, l
    <3> QED BY <3>1, <1>7
  <2>2. Sorted(l)
    BY <1>1, OutboxApart DEF LinesSorted, l
  <2>3. Sorted(link'[Outbox])
    BY <1>2, <1>5, <2>1, <2>2, AppendSorted
  <2>4. \A a \in Lines : Sorted(link'[a])
    BY <1>1, <1>2, <2>3, OutboxApart DEF LinesSorted
  <2>5. ASSUME NEW s \in Sockets, NEW i \in 1..Len(link'[s]), NEW j \in 1..Len(link'[Outbox])
        PROVE  Below(link'[s][i], link'[Outbox][j])
    <3>1. link'[s] = link[s] /\ i \in 1..Len(link[s])
      BY <1>2, <2>5
    <3>2. CASE j \in 1..Len(l)
      BY <3>1, <3>2, <1>1, <1>5 DEF LinesSorted, l
    <3>3. CASE j = n
      <4>1. <<s, i>> \in Places /\ At(<<s, i>>) = link[s][i]
        BY <3>1, OutboxApart, PlaceIs, PlacesAre DEF At
      <4> QED BY <4>1, <3>1, <3>3, <1>5, <1>7
    <3> QED BY <3>2, <3>3, <1>5
  <2> QED BY <2>4, <2>5 DEF LinesSorted, Below
<1> QED BY <1>4, <1>9, <1>10, <1>11, <1>12 DEF PhoneInv

\* What taking the oldest packet off a line does.
LEMMA LineShrinks ==
  ASSUME PhoneInv, NEW a \in Lines, link[a] # <<>>, link' = [link EXCEPT ![a] = Tail(@)]
  PROVE  /\ link' \in [Lines -> Seq(Message)]
         /\ Head(link[a]) \in Message
         /\ link'[a] = Tail(link[a]) /\ \A b \in Lines \ {a} : link'[b] = link[b]
         /\ \A i \in 1..Len(link'[a]) : /\ link'[a][i] = link[a][i + 1]
                                        /\ i + 1 \in 1..Len(link[a])
         /\ Sorted(link'[a])
         /\ \A i \in 1..Len(link'[a]) : Below(Head(link[a]), link'[a][i])
<1>1. link \in [Lines -> Seq(Message)] /\ link[a] \in Seq(Message) /\ Sorted(link[a])
  BY DEF PhoneInv, PhoneTyped, LinesSorted
<1>2. /\ Tail(link[a]) \in Seq(Message) /\ Head(link[a]) \in Message
      /\ \A i \in 1..Len(Tail(link[a])) : /\ Tail(link[a])[i] = link[a][i + 1]
                                          /\ i + 1 \in 1..Len(link[a])
  BY <1>1, LineTail
<1>3. Sorted(Tail(link[a])) /\ \A i \in 1..Len(Tail(link[a])) : Below(Head(link[a]), Tail(link[a])[i])
  BY <1>1, TailSorted
<1>4. link'[a] = Tail(link[a]) /\ \A b \in Lines \ {a} : link'[b] = link[b]
  BY <1>1
<1>5. link' \in [Lines -> Seq(Message)]
  BY <1>1, <1>2
<1> QED BY <1>2, <1>3, <1>4, <1>5

\* A packet lost, or received, leaves its socket.
LEMMA LeavingKeepsPhone ==
  ASSUME PhoneInv, NEW s \in Sockets, link[s] # <<>>, link' = [link EXCEPT ![s] = Tail(@)],
         UNCHANGED <<phoneVars, current>>, refused' \subseteq Kinds \X Instances,
         newest' \in [Phones -> {<<>>} \cup (Sockets \X Coroutines \X Kinds \X Instances)]
  PROVE  PhoneInv'
<1>1. PhoneTyped /\ LinesSorted /\ s \in Lines
  BY OutboxApart DEF PhoneInv
<1>2. UNCHANGED <<active, started, counter, loop, launched>>
  BY DEF phoneVars
<1>3. /\ link' \in [Lines -> Seq(Message)]
      /\ link'[s] = Tail(link[s]) /\ \A b \in Lines \ {s} : link'[b] = link[b]
      /\ \A i \in 1..Len(link'[s]) : link'[s][i] = link[s][i + 1] /\ i + 1 \in 1..Len(link[s])
      /\ Sorted(link'[s])
  BY <1>1, LineShrinks
<1>4. PhoneTyped'
  BY <1>1, <1>2, <1>3 DEF PhoneTyped
<1>5. NumbersIssued' /\ NumbersUnique' /\ HandsLast'
  <2> DEFINE g(x) == IF x[1] = s THEN <<s, x[2] + 1>> ELSE x
             f == [x \in Places' |-> g(x)]
  <2>1. \A x \in Places' : g(x) \in Places /\ At(x)' = At(g(x))
                           /\ x = <<x[1], x[2]>> /\ x[2] \in Nat
    <3> SUFFICES ASSUME NEW x \in Places'
                 PROVE  g(x) \in Places /\ At(x)' = At(g(x))
                        /\ x = <<x[1], x[2]>> /\ x[2] \in Nat
      OBVIOUS
    <3>1. x = <<x[1], x[2]>> /\ x[1] \in Lines /\ x[2] \in 1..Len(link'[x[1]])
      BY PlaceIs, PlacesAre
    <3>2. CASE x[1] = s
      <4>1. g(x) = <<s, x[2] + 1>> /\ x[2] + 1 \in 1..Len(link[s])
            /\ link'[s][x[2]] = link[s][x[2] + 1]
        BY <3>1, <3>2, <1>3
      <4> HIDE DEF g
      <4> QED BY <3>1, <3>2, <4>1, <1>1, PlaceIs, PlacesAre DEF At
    <3>3. CASE x[1] # s
      <4>1. g(x) = x /\ link'[x[1]] = link[x[1]]
        BY <3>1, <3>3, <1>3
      <4> HIDE DEF g
      <4>2. x \in Places
        BY <3>1, <4>1, PlaceIs, PlacesAre
      <4>3. At(x)' = At(x)
        BY <4>1 DEF At
      <4>4. x[2] \in Nat
        BY <3>1
      <4> QED BY <3>1, <4>1, <4>2, <4>3, <4>4
    <3> QED BY <3>2, <3>3
  <2>2. \A x, y \in Places' : x # y => g(x) # g(y)
    <3> SUFFICES ASSUME NEW x \in Places', NEW y \in Places', g(x) = g(y) PROVE x = y
      OBVIOUS
    <3>1. /\ x = <<x[1], x[2]>> /\ x[2] \in Nat
          /\ y = <<y[1], y[2]>> /\ y[2] \in Nat
      BY <2>1
    <3> QED BY <3>1
  <2>3. \A x \in Places' : f[x] = g(x)
    OBVIOUS
  <2>4. \A c \in Sending' : c \in Sending /\ loop'[c] = loop[c]
    BY <1>2 DEF Sending
  <2> HIDE DEF f, g
  <2>5. /\ \A x \in Places' : f[x] \in Places /\ At(x)' = At(f[x])
        /\ \A x, y \in Places' : x # y => f[x] # f[y]
    BY <2>1, <2>2, <2>3
  <2> QED BY <1>2, <2>4, <2>5, MovedPlaces
<1>6. LinesSorted'
  <2>1. link'[Outbox] = link[Outbox]
    BY <1>3, OutboxApart
  <2>2. \A a \in Lines : Sorted(link'[a])
    BY <1>1, <1>3 DEF LinesSorted
  <2>3. ASSUME NEW t \in Sockets, NEW i \in 1..Len(link'[t]), NEW j \in 1..Len(link'[Outbox])
        PROVE  Below(link'[t][i], link'[Outbox][j])
    BY <2>1, <2>3, <1>1, <1>3, OutboxApart DEF LinesSorted
  <2> QED BY <2>2, <2>3 DEF LinesSorted, Below
<1> QED BY <1>4, <1>5, <1>6 DEF PhoneInv

\* What Ship does to the lines.
LEMMA ShipDoes ==
  ASSUME PhoneInv, Ship
  PROVE  LET l == link[Outbox]
             k == link[current]
         IN  /\ current \in Sockets /\ l # <<>> /\ l \in Seq(Message) /\ k \in Seq(Message)
             /\ Head(l) = l[1] /\ 1 \in 1..Len(l) /\ Head(l) \in Message
             /\ link' \in [Lines -> Seq(Message)]
             /\ link'[Outbox] = Tail(l)
             /\ \A i \in 1..Len(Tail(l)) : Tail(l)[i] = l[i + 1] /\ i + 1 \in 1..Len(l)
             /\ link'[current] = Append(k, l[1])
             /\ Len(k) \in Nat /\ link'[current][Len(k) + 1] = l[1]
             /\ \A i \in 1..Len(k) : link'[current][i] = k[i]
             /\ \A i \in 1..Len(link'[current]) : i \in 1..Len(k) \/ i = Len(k) + 1
             /\ \A a \in Lines \ {Outbox, current} : link'[a] = link[a]
<1> DEFINE l == link[Outbox]
           k == link[current]
<1>1. /\ link \in [Lines -> Seq(Message)] /\ current \in Sockets
      /\ Outbox # current /\ Outbox \in Lines /\ current \in Lines /\ l # <<>>
      /\ link' = [link EXCEPT ![Outbox] = Tail(l), ![current] = Append(k, Head(l))]
  BY OutboxApart DEF PhoneInv, PhoneTyped, Ship
<1>2. l \in Seq(Message) /\ k \in Seq(Message)
  BY <1>1
<1>3. /\ link'[Outbox] = Tail(l) /\ link'[current] = Append(k, Head(l))
      /\ \A a \in Lines \ {Outbox, current} : link'[a] = link[a]
  BY <1>1
<1> HIDE DEF l, k
<1>4. /\ Head(l) = l[1] /\ l[1] \in Message /\ 1 \in 1..Len(l) /\ Tail(l) \in Seq(Message)
      /\ \A i \in 1..Len(Tail(l)) : Tail(l)[i] = l[i + 1] /\ i + 1 \in 1..Len(l)
  BY <1>1, <1>2, LineTail
<1>5. /\ Append(k, l[1]) \in Seq(Message) /\ Len(k) \in Nat
      /\ Append(k, l[1])[Len(k) + 1] = l[1]
      /\ \A i \in 1..Len(k) : Append(k, l[1])[i] = k[i]
      /\ \A i \in 1..Len(Append(k, l[1])) : i \in 1..Len(k) \/ i = Len(k) + 1
  BY <1>2, <1>4, LineAppend
<1>6. link' \in [Lines -> Seq(Message)]
  BY <1>1, <1>4, <1>5
<1> QED BY <1>1, <1>2, <1>3, <1>4, <1>5, <1>6 DEF l, k

\* The oldest packet the transport queues goes to the end of the socket's line.
LEMMA ShipKeepsPhone ==
  ASSUME PhoneInv, Ship
  PROVE  PhoneInv'
<1> DEFINE l == link[Outbox]
           k == link[current]
           w == <<current, Len(k) + 1>>
           g(x) == IF x[1] = Outbox THEN <<Outbox, x[2] + 1>>
                   ELSE IF x = w THEN <<Outbox, 1>> ELSE x
           f == [x \in Places' |-> g(x)]
<1>1. PhoneTyped /\ LinesSorted
  BY DEF PhoneInv
<1>2. /\ current \in Sockets /\ l # <<>> /\ l \in Seq(Message) /\ k \in Seq(Message)
      /\ Head(l) = l[1] /\ 1 \in 1..Len(l) /\ Head(l) \in Message
      /\ link' \in [Lines -> Seq(Message)]
      /\ link'[Outbox] = Tail(l)
      /\ \A i \in 1..Len(Tail(l)) : Tail(l)[i] = l[i + 1] /\ i + 1 \in 1..Len(l)
      /\ link'[current] = Append(k, l[1])
      /\ Len(k) \in Nat /\ link'[current][Len(k) + 1] = l[1]
      /\ \A i \in 1..Len(k) : link'[current][i] = k[i]
      /\ \A i \in 1..Len(link'[current]) : i \in 1..Len(k) \/ i = Len(k) + 1
      /\ \A a \in Lines \ {Outbox, current} : link'[a] = link[a]
  BY ShipDoes
<1>3. UNCHANGED <<active, started, counter, loop, launched, current, newest, refused>>
  BY DEF Ship, laptopVars, phoneVars
<1>4. PhoneTyped'
  BY <1>1, <1>2, <1>3 DEF PhoneTyped
<1>5. \A x \in Places' : /\ g(x) \in Places /\ At(x)' = At(g(x))
                         /\ x = <<x[1], x[2]>> /\ x[2] \in Nat /\ x[2] >= 1
                         /\ x[1] \in Lines
                         /\ x[1] = current => x = w \/ x[2] \in 1..Len(k)
  <2> SUFFICES ASSUME NEW x \in Places'
               PROVE  /\ g(x) \in Places /\ At(x)' = At(g(x))
                      /\ x = <<x[1], x[2]>> /\ x[2] \in Nat /\ x[2] >= 1 /\ x[1] \in Lines
                      /\ x[1] = current => x = w \/ x[2] \in 1..Len(k)
    OBVIOUS
  <2>1. x = <<x[1], x[2]>> /\ x[1] \in Lines /\ x[2] \in 1..Len(link'[x[1]])
    BY PlaceIs, PlacesAre
  <2>2. x[1] = current => x = w \/ x[2] \in 1..Len(k)
    BY <2>1, <1>2
  <2>3. CASE x[1] = Outbox
    <3>1. g(x) = <<Outbox, x[2] + 1>> /\ x[2] + 1 \in 1..Len(l)
          /\ link'[Outbox][x[2]] = l[x[2] + 1]
      BY <2>1, <2>3, <1>2
    <3> HIDE DEF g, w
    <3>2. g(x) \in Places
      BY <3>1, OutboxApart, PlaceIs, PlacesAre
    <3>3. At(x)' = At(g(x))
      BY <2>1, <2>3, <3>1 DEF At
    <3> QED BY <2>1, <2>2, <3>2, <3>3
  <2>4. CASE x = w
    <3>1. g(x) = <<Outbox, 1>> /\ x[1] = current /\ x[2] = Len(k) + 1
      BY <2>4, <1>2, OutboxApart
    <3>2. g(x) \in Places
      <4> HIDE DEF g, w
      <4> QED BY <3>1, <1>2, OutboxApart, PlaceIs, PlacesAre
    <3>3. At(x)' = At(g(x))
      <4> HIDE DEF g, w
      <4> QED BY <3>1, <1>2 DEF At
    <3> QED BY <2>1, <2>2, <3>2, <3>3
  <2>5. CASE x[1] # Outbox /\ x # w
    <3>1. g(x) = x
      BY <2>5
    <3> HIDE DEF g, w
    <3>2. x[2] \in 1..Len(link[x[1]]) /\ link'[x[1]][x[2]] = link[x[1]][x[2]]
      <4>1. CASE x[1] = current
        BY <4>1, <2>2, <2>5, <1>2
      <4>2. CASE x[1] # current
        <5>1. link'[x[1]] = link[x[1]]
          BY <4>2, <2>1, <2>5, <1>2
        <5> QED BY <5>1, <2>1
      <4> QED BY <4>1, <4>2
    <3>3. x \in Places
      BY <2>1, <3>2, PlaceIs, PlacesAre
    <3> QED BY <2>1, <2>2, <3>1, <3>2, <3>3 DEF At
  <2> QED BY <2>3, <2>4, <2>5
<1>6. \A x, y \in Places' : x # y => g(x) # g(y)
  <2> SUFFICES ASSUME NEW x \in Places', NEW y \in Places', g(x) = g(y) PROVE x = y
    OBVIOUS
  <2>1. /\ x = <<x[1], x[2]>> /\ x[2] \in Nat /\ x[2] >= 1
        /\ y = <<y[1], y[2]>> /\ y[2] \in Nat /\ y[2] >= 1
    BY <1>5
  <2>2. current # Outbox
    BY <1>2, OutboxApart
  <2>3. CASE x[1] = Outbox
    <3>1. g(x) = <<Outbox, x[2] + 1>>
      BY <2>3
    <3> QED BY <2>1, <2>3, <3>1
  <2>4. CASE y[1] = Outbox
    <3>1. g(y) = <<Outbox, y[2] + 1>>
      BY <2>4
    <3> QED BY <2>1, <2>4, <3>1
  <2>5. CASE x[1] # Outbox /\ y[1] # Outbox
    BY <2>1, <2>5
  <2> QED BY <2>3, <2>4, <2>5
<1>7. NumbersIssued' /\ NumbersUnique' /\ HandsLast'
  <2>1. \A x \in Places' : f[x] = g(x)
    OBVIOUS
  <2>2. \A c \in Sending' : c \in Sending /\ loop'[c] = loop[c]
    BY <1>3 DEF Sending
  <2> HIDE DEF f, g, w
  <2>3. /\ \A x \in Places' : f[x] \in Places /\ At(x)' = At(f[x])
        /\ \A x, y \in Places' : x # y => f[x] # f[y]
    BY <1>5, <1>6, <2>1
  <2> QED BY <1>3, <2>2, <2>3, MovedPlaces
<1> HIDE DEF f, g, w
<1>8. LinesSorted'
  <2>1. Sorted(l) /\ Sorted(k) /\ \A i \in 1..Len(k) : Below(k[i], l[1])
    BY <1>1, <1>2, OutboxApart DEF LinesSorted
  <2>2. Sorted(Tail(l)) /\ \A i \in 1..Len(Tail(l)) : Below(l[1], Tail(l)[i])
    BY <1>2, <2>1, TailSorted
  <2>3. Sorted(Append(k, l[1]))
    <3> HIDE DEF k, l
    <3> QED BY <1>2, <2>1, AppendSorted
  <2>4. \A a \in Lines : Sorted(link'[a])
    BY <1>1, <1>2, <2>2, <2>3 DEF LinesSorted
  <2>5. ASSUME NEW t \in Sockets, NEW i \in 1..Len(link'[t]), NEW j \in 1..Len(link'[Outbox])
        PROVE  Below(link'[t][i], link'[Outbox][j])
    <3>1. /\ link'[Outbox][j] = Tail(l)[j] /\ j \in 1..Len(Tail(l))
          /\ Tail(l)[j] = l[j + 1] /\ j + 1 \in 1..Len(l)
      BY <1>2, <2>5
    <3>2. CASE t = current /\ i = Len(k) + 1
      BY <3>1, <3>2, <1>2, <2>2
    <3>3. CASE ~(t = current /\ i = Len(k) + 1)
      <4>1. i \in 1..Len(link[t]) /\ link'[t][i] = link[t][i]
        <5>1. CASE t = current
          BY <5>1, <2>5, <3>3, <1>2
        <5>2. CASE t # current
          BY <5>2, <2>5, <1>2, OutboxApart
        <5> QED BY <5>1, <5>2
      <4> QED BY <3>1, <4>1, <1>1, <1>2 DEF LinesSorted
    <3> QED BY <3>2, <3>3
  <2> QED BY <2>4, <2>5 DEF LinesSorted, Below
<1> QED BY <1>4, <1>7, <1>8 DEF PhoneInv

\* A packet the server reads is one of the phone's.
LEMMA OldestTyped ==
  ASSUME PhoneInv, NEW s \in Sockets, link[s] # <<>>
  PROVE  Head(link[s]) \in Message /\ Head(link[s]) = link[s][1] /\ 1 \in 1..Len(link[s])
<1>1. link[s] \in Seq(Message)
  BY OutboxApart DEF PhoneInv, PhoneTyped
<1> QED BY <1>1, LineTail

\* What the handler of a socket does to the lines and to the histories.
LEMMA DeliverDoes ==
  ASSUME PhoneInv, NEW s \in Sockets, NEW p \in Phones, Deliver(s, p)
  PROVE  LET m == Head(link[s])
         IN  /\ link[s] # <<>> /\ m \in Message /\ link' = [link EXCEPT ![s] = Tail(@)]
             /\ UNCHANGED <<phoneVars, current>>
             /\ refused' \subseteq Kinds \X Instances
             /\ newest' \in [Phones -> {<<>>} \cup (Sockets \X Coroutines \X Kinds \X Instances)]
<1> DEFINE m == Head(link[s])
<1>1. /\ link[s] # <<>> /\ link' = [link EXCEPT ![s] = Tail(@)]
      /\ UNCHANGED <<phoneVars, current>>
      /\ refused' = refused \/ refused' = refused \cup {<<m.kind, m.instance>>}
      /\ newest' = newest \/ newest' = [newest EXCEPT ![p] = Origin(s, m)]
  BY DEF Deliver
<1>2. m \in Message
  BY <1>1, OldestTyped
<1> HIDE DEF m
<1>3. m.loop \in Coroutines /\ m.kind \in Kinds /\ m.instance \in Instances
  BY <1>2, MessageFields
<1>4. Origin(s, m) \in Sockets \X Coroutines \X Kinds \X Instances
  BY <1>3 DEF Origin
<1>5. /\ refused \subseteq Kinds \X Instances
      /\ newest \in [Phones -> {<<>>} \cup (Sockets \X Coroutines \X Kinds \X Instances)]
  BY DEF PhoneInv, PhoneTyped
<1>6. refused' \subseteq Kinds \X Instances
  BY <1>1, <1>3, <1>5
<1>7. newest' \in [Phones -> {<<>>} \cup (Sockets \X Coroutines \X Kinds \X Instances)]
  BY <1>1, <1>4, <1>5
<1> QED BY <1>1, <1>2, <1>6, <1>7 DEF m

LEMMA NextPhone == PhoneInv /\ [SessionNext]_sessionVars => PhoneInv'
<1> SUFFICES ASSUME PhoneInv, [SessionNext]_sessionVars PROVE PhoneInv'
  OBVIOUS
<1>t. PhoneTyped
  BY DEF PhoneInv
<1>1. ASSUME NEW k \in Kinds, Destroy(k) PROVE PhoneInv'
  <2>1. /\ active' = [active EXCEPT ![k] = 0]
        /\ UNCHANGED <<started, counter, loop, launched, link, current, newest, refused>>
    BY <1>1 DEF Destroy, laptopVars
  <2>2. PhoneTyped'
    BY <1>t, <2>1 DEF PhoneTyped
  <2>3. \A c \in Sending' : c \in Sending /\ loop'[c] = loop[c]
    BY <2>1 DEF Sending
  <2> QED BY <2>1, <2>2, <2>3, QuietKeepsNumbers DEF PhoneInv
<1>2. ASSUME NEW s \in Sockets, Lose(s) PROVE PhoneInv'
  BY <1>2, <1>t, LeavingKeepsPhone DEF Lose, laptopVars, PhoneTyped
<1>3. ASSUME NEW s \in Sockets, NEW p \in Phones, Deliver(s, p) PROVE PhoneInv'
  BY <1>3, DeliverDoes, LeavingKeepsPhone
<1>4. ASSUME \/ \E s \in Sockets : Reconnect(s)
             \/ ServerSide \/ UNCHANGED sessionVars
      PROVE  PhoneInv'
  <2>1. /\ UNCHANGED <<active, started, counter, loop, launched, link, newest, refused>>
        /\ current' \in Sockets
    BY <1>4, <1>t DEF Reconnect, ServerSide, sessionVars, laptopVars, phoneVars, PhoneTyped
  <2>2. PhoneTyped'
    BY <1>t, <2>1 DEF PhoneTyped
  <2>3. \A c \in Sending' : c \in Sending /\ loop'[c] = loop[c]
    BY <2>1 DEF Sending
  <2> QED BY <2>1, <2>2, <2>3, QuietKeepsNumbers DEF PhoneInv
<1> QED BY <1>1, <1>2, <1>3, <1>4, StartKeepsPhone, CheckKeepsPhone, NumberKeepsPhone,
           TransmitKeepsPhone, ShipKeepsPhone DEF SessionNext

\* The invariant of the phone's half, whatever the server does.
THEOREM PhoneInvariance == SessionSpec => []PhoneInv
<1> QED BY InitPhone, NextPhone, PTL DEF SessionSpec

\* The packets a service instance has under way carry different numbers, for
\* any number of coroutines that onStartCommand launched into it and of sockets
\* the transport has used: the counter is incremented and read at once, and a
\* number given out stays below it (CaptureService.kt 187).
THEOREM NumbersAreUnique == SessionSpec => []NumbersUnique
<1>1. PhoneInv => NumbersUnique
  BY DEF PhoneInv
<1> QED BY <1>1, PhoneInvariance, PTL

-----------------------------------------------------------------------------
(* The server's half. *)

\* Every step of the session is one the server takes, or leaves it alone.
LEMMA SessionStep ==
  PhoneInv /\ [SessionNext]_sessionVars => [Next]_vars
<1> SUFFICES ASSUME PhoneInv, [SessionNext]_sessionVars PROVE [Next]_vars
  OBVIOUS
<1>1. ASSUME NEW s \in Sockets, NEW p \in Phones, Deliver(s, p) PROVE Next
  <2>1. Head(link[s]).number \in Sequence
    BY <1>1, OldestTyped, MessageFields DEF Deliver
  <2>2. \/ RateLimited(s, p) \/ Accept(s, p, Head(link[s]).number)
        \/ Duplicate(s, p, Head(link[s]).number)
    BY <1>1 DEF Deliver
  <2>3. OnPacket(s)
    BY <2>1, <2>2 DEF OnPacket
  <2> QED BY <2>3 DEF Next
<1>2. CASE ServerSide
  <2>1. current \in Sockets
    BY DEF PhoneInv, PhoneTyped
  <2> QED BY <1>2, <2>1 DEF ServerSide, Next
<1>3. ASSUME NEW k \in Kinds, Destroy(k) \/ \E c \in Coroutines : StartCommand(k, c)
      PROVE  UNCHANGED vars
  BY <1>3 DEF Destroy, StartCommand, laptopVars
<1>4. ASSUME NEW c \in Coroutines, CheckActive(c) \/ Number(c) \/ Transmit(c)
      PROVE  UNCHANGED vars
  BY <1>4 DEF CheckActive, Number, Transmit, laptopVars
<1>5. CASE \/ Ship \/ \E s \in Sockets : Reconnect(s) \/ Lose(s)
           \/ UNCHANGED sessionVars
  BY <1>5 DEF Ship, Reconnect, Lose, sessionVars, laptopVars
<1> QED BY <1>1, <1>2, <1>3, <1>4, <1>5 DEF SessionNext

\* The server of the session is the server of PacketServer: what the services
\* send is among the packets it was specified for, so that every theorem of
\* PacketServerProofs holds while the services are started, stopped and
\* restarted and the transport changes sockets (websocket_server.py 151-221).
THEOREM SessionServes == SessionSpec => Spec
<1>1. SessionInit => Init
  BY DEF SessionInit
<1> QED BY <1>1, PhoneInvariance, SessionStep, PTL DEF SessionSpec, Spec

\* So the stream that the laptop reads of a phone is never out of order and never
\* repeats, through any restarts of the phone's services and any packets the
\* transport loses or an old socket delivers late, and the server's queues, books,
\* rate limit and gauge are right (websocket_server.py 134-221).
THEOREM SessionStreams ==
  SessionSpec => /\ ImplementsStream
                 /\ [](QueueInOrder /\ GapsAccounted /\ EveryPacketCounted)
                 /\ [](RateBounded /\ GaugeMatches)
<1> QED BY SessionServes, Refinement, QueuesInOrder, DroppedFramesExact, BooksComplete,
           RateLimitHolds, GaugeExact, PTL

\* Type correctness of the composition, for any services, sockets and bounds.
THEOREM SessionTypeCorrect == SessionSpec => []SessionTypeOK
<1>1. PhoneInv /\ TypeOK => SessionTypeOK
  <2> SUFFICES ASSUME PhoneInv, TypeOK PROVE SessionTypeOK
    OBVIOUS
  <2>1. PhoneTyped
    BY DEF PhoneInv
  <2>2. \A c \in Coroutines : loop[c] \in Loops
    BY <2>1 DEF PhoneTyped
  <2> QED BY <2>1, <2>2, LoopCases DEF SessionTypeOK, PhoneTyped
<1> QED BY <1>1, PhoneInvariance, SessionServes, TypeCorrect, PTL

-----------------------------------------------------------------------------
(* The two halves together. *)

\* A connection that a packet left as it was, or created, has heard nothing new.
LEMMA RefusedIsNotHeard ==
  ASSUME TypeOK, NEW s \in Sockets, NEW p \in Phones, Store(s, p, Lookup(p))
  PROVE  \A r \in Connected' : \/ /\ r \in Connected
                                  /\ connections'[r].sequence = connections[r].sequence
                               \/ connections'[r].sequence = -1
<1>1. Lookup(p) \in Conn
  BY LookupFields
<1>2. Connected' = Connected \cup {p}
  BY <1>1, StoreConnected
<1>3. connections'[p] = Lookup(p) /\ \A r \in Phones \ {p} : connections'[r] = connections[r]
  BY DEF Store, TypeOK
<1>4. p \in Connected => Lookup(p).sequence = connections[p].sequence
  BY LookupFields
<1>5. p \notin Connected => Lookup(p).sequence = -1
  BY LookupFields
<1>6. \A r \in Connected : r \in Phones
  BY DEF Connected
<1> QED BY <1>2, <1>3, <1>4, <1>5, <1>6

\* A packet that is accepted becomes the newest of its connection, and of no other.
LEMMA AcceptedIsHeard ==
  ASSUME IInv, NEW s \in Sockets, NEW p \in Phones, NEW q \in Sequence, Accept(s, p, q)
  PROVE  /\ connections'[p].sequence = q
         /\ \A r \in Connected' : r # p => /\ r \in Connected
                                           /\ connections'[r].sequence = connections[r].sequence
<1>1. TypeOK /\ Lookup(p) \in Conn
  BY LookupFields DEF IInv
<1>2. Store(s, p, Enqueued(Lookup(p), q)) /\ q > Lookup(p).sequence
  BY DEF Accept
<1>3. /\ Ordered(Lookup(p), taken[p]) /\ Accounted(Lookup(p), acceptedAt[p])
      /\ taken[p] \in Int /\ acceptedAt[p] \in Seq(Nat) /\ now \in Nat
  BY <1>1, LookupOrdered DEF TypeOK
<1>4. Enqueued(Lookup(p), q) \in Conn
  BY <1>1, <1>2, <1>3, EnqueuedOrdered
<1>5. Enqueued(Lookup(p), q).sequence = q
  BY <1>1 DEF Enqueued, Conn
<1>6. Connected' = Connected \cup {p}
  BY <1>1, <1>2, <1>4, StoreConnected
<1>7. /\ connections'[p] = Enqueued(Lookup(p), q)
      /\ \A r \in Phones \ {p} : connections'[r] = connections[r]
  BY <1>1, <1>2 DEF Store, TypeOK
<1>8. \A r \in Connected : r \in Phones
  BY DEF Connected
<1> QED BY <1>5, <1>6, <1>7, <1>8

\* Sockets that open and close, and the consumer, teach the server nothing.
LEMMA SocketsHearNothing ==
  ASSUME TypeOK, \/ \E s \in Sockets : Connect(s) \/ Close(s)
                 \/ \E p \in Phones : Take(p)
  PROVE  \A r \in Connected' : r \in Connected
                               /\ connections'[r].sequence = connections[r].sequence
<1>1. ASSUME NEW s \in Sockets, Connect(s)
      PROVE  \A r \in Connected' : r \in Connected /\ connections'[r] = connections[r]
  <2>1. connections' = connections
    BY <1>1 DEF Connect
  <2> QED BY <2>1 DEF Connected
<1>2. ASSUME NEW s \in Sockets, Close(s)
      PROVE  \A r \in Connected' : r \in Connected /\ connections'[r] = connections[r]
  <2>1. Connected' \subseteq Connected
    BY <1>2, CloseConnected
  <2>2. \A r \in Phones : connections'[r] = NoConn \/ connections'[r] = connections[r]
    BY <1>2 DEF Close, TypeOK
  <2>3. \A r \in Connected' : connections'[r] = connections[r]
    BY <2>2 DEF Connected
  <2> QED BY <2>1, <2>3
<1>3. ASSUME NEW p \in Phones, Take(p)
      PROVE  \A r \in Connected' : r \in Connected
                                   /\ connections'[r].sequence = connections[r].sequence
  <2>1. Connected' = Connected
    BY <1>3, TakeConnected
  <2>2. connections[p] \in Conn
    BY <1>3 DEF Take, TypeOK
  <2>3. /\ connections'[p] = [connections[p] EXCEPT !.queue = Tail(@)]
        /\ \A r \in Phones \ {p} : connections'[r] = connections[r]
    BY <1>3 DEF Take, TypeOK
  <2>4. connections'[p].sequence = connections[p].sequence
    BY <2>2, <2>3 DEF Conn
  <2> QED BY <2>1, <2>3, <2>4 DEF Connected
<1> QED BY <1>1, <1>2, <1>3

LEMMA InitAhead == SessionInit => Ahead
  BY DEF SessionInit, Init, Ahead, Connected

\* Connections that heard nothing, and packets that only moved towards the server.
LEMMA AheadMoves ==
  ASSUME PhoneInv, PhoneInv', Ahead, newest' = newest, UNCHANGED counter,
         \A r \in Connected' : \/ /\ r \in Connected
                                  /\ connections'[r].sequence = connections[r].sequence
                               \/ connections'[r].sequence = -1,
         \A s \in Sockets : \A i \in 1..Len(link'[s]) :
            \/ \E j \in 1..Len(link[s]) : link'[s][i] = link[s][j]
            \/ \E j \in 1..Len(link[Outbox]) : link'[s][i] = link[Outbox][j],
         \A i \in 1..Len(link'[Outbox]) :
            \/ \E j \in 1..Len(link[Outbox]) : link'[Outbox][i] = link[Outbox][j]
            \/ \E c \in Sending : link'[Outbox][i] = Packet(c),
         \A c \in Sending' : c \in Sending /\ Packet(c)' = Packet(c)
  PROVE  Ahead'
<1> SUFFICES ASSUME NEW p \in Connected'
             PROVE  /\ \A s \in Sockets :
                         /\ \A i \in 1..Len(link'[s]) : Newer(p, s, link[s][i])'
                         /\ \A i \in 1..Len(link'[Outbox]) : Newer(p, s, link[Outbox][i])'
                         /\ \A c \in Sending' : Newer(p, s, Packet(c))'
                    /\ newest'[p] # <<>> =>
                         connections'[p].sequence <= counter'[newest'[p][3]][newest'[p][4]]
  BY DEF Ahead
<1>t. PhoneTyped /\ PhoneTyped'
  BY DEF PhoneInv
<1>1. CASE p \in Connected /\ connections'[p].sequence = connections[p].sequence
  <2>1. \A s \in Sockets : /\ \A i \in 1..Len(link[s]) : Newer(p, s, link[s][i])
                           /\ \A i \in 1..Len(link[Outbox]) : Newer(p, s, link[Outbox][i])
                           /\ \A c \in Sending : Newer(p, s, Packet(c))
    BY <1>1 DEF Ahead
  <2>2. \A s \in Sockets : /\ \A i \in 1..Len(link'[s]) : Newer(p, s, link'[s][i])
                           /\ \A i \in 1..Len(link'[Outbox]) : Newer(p, s, link'[Outbox][i])
                           /\ \A c \in Sending' : Newer(p, s, Packet(c)')
    BY <2>1
  <2>3. newest[p] # <<>> => connections[p].sequence <= counter[newest[p][3]][newest[p][4]]
    BY <1>1 DEF Ahead
  <2> QED BY <1>1, <2>2, <2>3 DEF Newer
<1>2. CASE connections'[p].sequence = -1
  <2>1. \A m \in Message : -1 < m.number
    BY MessageFields
  <2>2. \A s \in Sockets : \A i \in 1..Len(link'[s]) : link'[s][i] \in Message
    BY <1>t, OutboxApart DEF PhoneTyped
  <2>3. \A i \in 1..Len(link'[Outbox]) : link'[Outbox][i] \in Message
    BY <1>t, OutboxApart DEF PhoneTyped
  <2>4. \A c \in Sending' : Packet(c)' \in Message
    BY <1>t, HandTyped DEF PhoneTyped
  <2>5. newest'[p] # <<>> => -1 <= counter'[newest'[p][3]][newest'[p][4]]
    <3> SUFFICES ASSUME newest'[p] # <<>>
                 PROVE  -1 <= counter'[newest'[p][3]][newest'[p][4]]
      OBVIOUS
    <3>1. newest'[p] \in Sockets \X Coroutines \X Kinds \X Instances
      BY <1>t DEF PhoneTyped, Connected
    <3>2. newest'[p][3] \in Kinds /\ newest'[p][4] \in Instances
      BY <3>1
    <3>3. counter'[newest'[p][3]][newest'[p][4]] \in 0..MaxNumber
      BY <1>t, <3>2 DEF PhoneTyped
    <3> QED BY <3>3
  <2> QED BY <1>2, <2>1, <2>2, <2>3, <2>4, <2>5 DEF Newer
<1> QED BY <1>1, <1>2

\* The loop's next number passes its counter, and so all a connection accepted
\* from any loop of the instance.
LEMMA NumberKeepsAhead ==
  ASSUME PhoneInv, TypeOK, Ahead, NEW c \in Coroutines, Number(c)
  PROVE  Ahead'
<1> DEFINE k == loop[c].kind
           i == loop[c].instance
           n == counter[k][i] + 1
           r == [loop[c] EXCEPT !.at = "send", !.number = n]
<1>t. PhoneTyped
  BY DEF PhoneInv
<1>1. /\ k \in Kinds /\ i \in Instances
      /\ n \in Nat /\ counter[k][i] \in Nat
      /\ r.kind = k /\ r.instance = i /\ r.number = n
      /\ loop'[c] = r
      /\ \A d \in Coroutines \ {c} : loop'[d] = loop[d]
      /\ \A l \in Kinds, j \in Instances : /\ counter[l][j] <= counter'[l][j]
                                           /\ counter[l][j] \in Nat /\ counter'[l][j] \in Nat
  BY <1>t, NumberDoes
<1>2. counter[k][i] < n
  BY <1>1
<1>3. UNCHANGED <<vars, link, newest>>
  BY DEF Number, laptopVars
<1>4. UNCHANGED <<connections, link, newest>> /\ Connected' = Connected
  BY <1>3 DEF vars, Connected
<1> HIDE DEF k, i, n, r
<1>5. Packet(c)' = [loop |-> c, kind |-> k, instance |-> i, number |-> n]
  BY <1>1 DEF Packet
<1>6. \A d \in Sending' : d = c \/ (d \in Sending /\ Packet(d)' = Packet(d))
  BY <1>1 DEF Sending, Packet
<1> SUFFICES ASSUME NEW p \in Connected
             PROVE  /\ \A s \in Sockets :
                         /\ \A j \in 1..Len(link[s]) : Newer(p, s, link[s][j])
                         /\ \A j \in 1..Len(link[Outbox]) : Newer(p, s, link[Outbox][j])
                         /\ \A d \in Sending' : Newer(p, s, Packet(d)')
                    /\ newest[p] # <<>> =>
                         connections[p].sequence <= counter'[newest[p][3]][newest[p][4]]
  BY <1>4 DEF Ahead, Newer
<1>7. p \in Phones /\ connections[p].sequence \in Int
  BY DEF Connected, TypeOK, Conn
<1>8. newest[p] # <<>> => /\ newest[p][3] \in Kinds /\ newest[p][4] \in Instances
                          /\ connections[p].sequence <= counter[newest[p][3]][newest[p][4]]
  <2>1. newest[p] # <<>> => newest[p] \in Sockets \X Coroutines \X Kinds \X Instances
    BY <1>t, <1>7 DEF PhoneTyped
  <2> QED BY <2>1 DEF Ahead
<1>9. newest[p] # <<>> => connections[p].sequence <= counter'[newest[p][3]][newest[p][4]]
  <2> SUFFICES ASSUME newest[p] # <<>>
               PROVE  connections[p].sequence <= counter'[newest[p][3]][newest[p][4]]
    OBVIOUS
  <2> DEFINE a == counter[newest[p][3]][newest[p][4]]
             b == counter'[newest[p][3]][newest[p][4]]
  <2>1. a \in Nat /\ b \in Nat /\ a <= b /\ connections[p].sequence <= a
    BY <1>1, <1>8
  <2> HIDE DEF a, b
  <2>2. connections[p].sequence <= b
    BY <1>7, <2>1
  <2> QED BY <2>2 DEF b
<1>10. \A s \in Sockets : Newer(p, s, Packet(c)')
  <2> SUFFICES ASSUME NEW s \in Sockets, newest[p] = <<s, c, k, i>>
               PROVE  connections[p].sequence < n
    BY <1>5 DEF Newer, Origin
  <2>1. newest[p] # <<>> /\ newest[p][3] = k /\ newest[p][4] = i
    OBVIOUS
  <2>2. connections[p].sequence <= counter[k][i]
    BY <1>8, <2>1
  <2> QED BY <1>1, <1>2, <1>7, <2>2
<1>11. \A s \in Sockets : \A d \in Sending' : Newer(p, s, Packet(d)')
  BY <1>6, <1>10 DEF Ahead
<1> QED BY <1>9, <1>11 DEF Ahead

\* An accepted packet is older than what its loop has behind it on the socket, and
\* in the transport's queue and its hand.
LEMMA DeliverKeepsAhead ==
  ASSUME PhoneInv, PhoneInv', IInv, Ahead,
         NEW s \in Sockets, NEW p \in Phones, Deliver(s, p)
  PROVE  Ahead'
<1> DEFINE m == Head(link[s])
           Later(r, t, n) == newest'[r] = Origin(t, n) => connections'[r].sequence < n.number
<1>1. /\ link[s] # <<>> /\ m \in Message /\ link' = [link EXCEPT ![s] = Tail(@)]
      /\ UNCHANGED <<phoneVars, current>>
  BY DeliverDoes
<1>2. UNCHANGED <<counter, loop>> /\ Sending' = Sending /\ \A c : Packet(c)' = Packet(c)
  BY <1>1 DEF phoneVars, Sending, Packet
<1>3. s \in Lines /\ s # Outbox /\ link[s] \in Seq(Message) /\ TypeOK /\ PhoneTyped
  BY OutboxApart DEF PhoneInv, PhoneTyped, IInv
<1>4. /\ \A b \in Lines \ {s} : link'[b] = link[b]
      /\ \A i \in 1..Len(link'[s]) : link'[s][i] = link[s][i + 1] /\ i + 1 \in 1..Len(link[s])
      /\ \A i \in 1..Len(link'[s]) : Below(m, link'[s][i])
  BY <1>1, <1>3, LineShrinks
<1>5. m = link[s][1] /\ 1 \in 1..Len(link[s])
  BY <1>1, OldestTyped
<1> HIDE DEF m
<1>6. link'[Outbox] = link[Outbox]
  BY <1>3, <1>4, OutboxApart
<1>7. \A t \in Sockets : \A i \in 1..Len(link'[t]) :
         \E j \in 1..Len(link[t]) : link'[t][i] = link[t][j]
  BY <1>4, OutboxApart
<1>8. CASE newest' = newest /\ (RateLimited(s, p) \/ Duplicate(s, p, m.number))
  <2>1. Store(s, p, Lookup(p))
    BY <1>8 DEF RateLimited, Duplicate
  <2>2. \A r \in Connected' : \/ /\ r \in Connected
                                 /\ connections'[r].sequence = connections[r].sequence
                              \/ connections'[r].sequence = -1
    BY <1>3, <2>1, RefusedIsNotHeard
  <2> QED BY <1>2, <1>6, <1>7, <1>8, <2>2, AheadMoves
<1>9. CASE newest' = [newest EXCEPT ![p] = Origin(s, m)] /\ Accept(s, p, m.number)
  <2>1. m.number \in Sequence /\ m.number \in Nat
        /\ m.loop \in Coroutines /\ m.kind \in Kinds /\ m.instance \in Instances
    BY <1>1, MessageFields
  <2>2. /\ connections'[p].sequence = m.number
        /\ \A r \in Connected' : r # p => /\ r \in Connected
                                          /\ connections'[r].sequence = connections[r].sequence
    BY <1>9, <2>1, AcceptedIsHeard
  <2>3. newest'[p] = Origin(s, m) /\ \A r \in Phones \ {p} : newest'[r] = newest[r]
    BY <1>3, <1>9 DEF PhoneTyped
  <2>4. \A t \in Sockets : \A n : Origin(t, n) = Origin(s, m) =>
           t = s /\ n.loop = m.loop /\ n.kind = m.kind /\ n.instance = m.instance
    BY DEF Origin
  <2>5. ASSUME NEW n, Below(m, n), NEW t \in Sockets PROVE Later(p, t, n)
    BY <2>2, <2>3, <2>4, <2>5 DEF Below
  <2>6. \A t \in Sockets : \A i \in 1..Len(link'[t]) : Later(p, t, link'[t][i])
    <3> SUFFICES ASSUME NEW t \in Sockets, NEW i \in 1..Len(link'[t])
                 PROVE  Later(p, t, link'[t][i])
      OBVIOUS
    <3>1. CASE t = s
      <4>1. Below(m, link'[s][i])
        BY <3>1, <1>4
      <4> QED BY <3>1, <4>1, <2>5
    <3>2. CASE t # s
      BY <3>2, <2>3, <2>4
    <3> QED BY <3>1, <3>2
  <2>7. \A i \in 1..Len(link[Outbox]) : Below(m, link[Outbox][i])
    BY <1>5 DEF PhoneInv, LinesSorted
  <2>8. \A c \in Sending : Below(m, Packet(c))
    <3>1. <<s, 1>> \in Places /\ At(<<s, 1>>) = m
      BY <1>3, <1>5, PlaceIs, PlacesAre DEF At
    <3> QED BY <3>1 DEF PhoneInv, HandsLast
  <2>9. newest'[p][3] = m.kind /\ newest'[p][4] = m.instance
        /\ m.number <= counter[m.kind][m.instance]
    <3>1. <<s, 1>> \in Places /\ At(<<s, 1>>) = m
      BY <1>3, <1>5, PlaceIs, PlacesAre DEF At
    <3>2. m.number <= counter[m.kind][m.instance]
      BY <3>1 DEF PhoneInv, NumbersIssued, Issued
    <3> QED BY <3>2, <2>3 DEF Origin
  <2>10. ASSUME NEW r \in Connected'
         PROVE  /\ \A t \in Sockets :
                     /\ \A i \in 1..Len(link'[t]) : Later(r, t, link'[t][i])
                     /\ \A i \in 1..Len(link[Outbox]) : Later(r, t, link[Outbox][i])
                     /\ \A c \in Sending : Later(r, t, Packet(c))
                /\ newest'[r] # <<>> =>
                     connections'[r].sequence <= counter[newest'[r][3]][newest'[r][4]]
    <3>1. CASE r = p
      <4>1. \A t \in Sockets : \A i \in 1..Len(link[Outbox]) : Later(p, t, link'[Outbox][i])
        BY <1>6, <2>5, <2>7
      <4>2. \A t \in Sockets : \A c \in Sending : Later(p, t, Packet(c))
        BY <1>2, <2>5, <2>8
      <4> QED BY <3>1, <1>6, <2>2, <2>6, <2>9, <4>1, <4>2
    <3>2. CASE r # p
      <4>1. r \in Connected /\ connections'[r].sequence = connections[r].sequence
            /\ newest'[r] = newest[r]
        BY <3>2, <2>2, <2>3 DEF Connected
      <4>2. \A t \in Sockets : /\ \A i \in 1..Len(link[t]) : Newer(r, t, link[t][i])
                               /\ \A i \in 1..Len(link[Outbox]) : Newer(r, t, link[Outbox][i])
                               /\ \A c \in Sending : Newer(r, t, Packet(c))
        BY <4>1 DEF Ahead
      <4>3. newest[r] # <<>> => connections[r].sequence <= counter[newest[r][3]][newest[r][4]]
        BY <4>1 DEF Ahead
      <4>4. \A t \in Sockets : \A i \in 1..Len(link'[t]) : Newer(r, t, link'[t][i])
        BY <1>7, <4>2
      <4> QED BY <1>2, <1>6, <4>1, <4>2, <4>3, <4>4 DEF Newer
    <3> QED BY <3>1, <3>2
  <2> QED BY <1>2, <1>6, <2>10 DEF Ahead, Newer
<1> QED BY <1>8, <1>9 DEF Deliver, m

LEMMA NextAhead ==
  PhoneInv /\ PhoneInv' /\ IInv /\ Ahead /\ [SessionNext]_sessionVars => Ahead'
<1> SUFFICES ASSUME PhoneInv, PhoneInv', IInv, Ahead, [SessionNext]_sessionVars
             PROVE  Ahead'
  OBVIOUS
<1>t. TypeOK /\ PhoneTyped
  BY DEF IInv, PhoneInv
<1>s. ASSUME connections' = connections
      PROVE  \A r \in Connected' : r \in Connected
                                   /\ connections'[r].sequence = connections[r].sequence
  BY <1>s DEF Connected
<1>q. ASSUME UNCHANGED <<connections, newest, counter, link>>,
             \A c \in Sending' : c \in Sending /\ loop'[c] = loop[c]
      PROVE  Ahead'
  <2>1. \A c \in Sending' : c \in Sending /\ Packet(c)' = Packet(c)
    BY <1>q DEF Packet
  <2> QED BY <1>q, <1>s, <2>1, AheadMoves
<1>1. ASSUME NEW k \in Kinds, NEW c \in Coroutines, StartCommand(k, c) PROVE Ahead'
  <2>1. UNCHANGED <<connections, newest, counter, link>>
    BY <1>1 DEF StartCommand, laptopVars, vars
  <2>2. \A d \in Coroutines : loop'[d] = loop[d] \/ loop'[d].at = "check"
    BY <1>t, <1>1 DEF StartCommand, PhoneTyped
  <2>3. \A d \in Sending' : d \in Sending /\ loop'[d] = loop[d]
    BY <1>t, <2>2 DEF Sending, PhoneTyped
  <2> QED BY <2>1, <2>3, <1>q
<1>2. ASSUME NEW c \in Coroutines, CheckActive(c) PROVE Ahead'
  <2>1. UNCHANGED <<connections, newest, counter, link>>
    BY <1>2 DEF CheckActive, laptopVars, vars
  <2> QED BY <1>2, <2>1, <1>q, CheckKeepsPhone
<1>3. CASE \/ \E k \in Kinds : Destroy(k)
           \/ \E s \in Sockets : Reconnect(s)
           \/ UNCHANGED sessionVars
  <2>1. UNCHANGED <<connections, newest, counter, link, loop>>
    BY <1>3 DEF Destroy, Reconnect, sessionVars, laptopVars, phoneVars, vars
  <2>2. \A c \in Sending' : c \in Sending /\ loop'[c] = loop[c]
    BY <2>1 DEF Sending
  <2> QED BY <2>1, <2>2, <1>q
<1>4. ASSUME NEW c \in Coroutines, Transmit(c) PROVE Ahead'
  <2>1. UNCHANGED <<connections, newest, counter>>
    BY <1>4 DEF Transmit, laptopVars, vars
  <2>2. /\ c \in Sending /\ Packet(c) \in Message
        /\ link'[Outbox] = Append(link[Outbox], Packet(c))
        /\ \A a \in Sockets : link'[a] = link[a]
        /\ \A d \in Sending' : d \in Sending /\ Packet(d)' = Packet(d)
    BY <1>t, <1>4, TransmitDoes
  <2>3. link[Outbox] \in Seq(Message)
    BY <1>t, OutboxApart DEF PhoneTyped
  <2>4. \A i \in 1..Len(link'[Outbox]) :
          \/ \E j \in 1..Len(link[Outbox]) : link'[Outbox][i] = link[Outbox][j]
          \/ link'[Outbox][i] = Packet(c)
    BY <2>2, <2>3, LineAppend
  <2> QED BY <1>s, <2>1, <2>2, <2>4, AheadMoves
<1>5. CASE Ship
  <2> DEFINE l == link[Outbox]
             k == link[current]
  <2>1. UNCHANGED <<connections, newest, counter, loop, current>>
    BY <1>5 DEF Ship, laptopVars, phoneVars, vars
  <2>2. /\ current \in Sockets /\ 1 \in 1..Len(l)
        /\ link'[Outbox] = Tail(l)
        /\ \A i \in 1..Len(Tail(l)) : Tail(l)[i] = l[i + 1] /\ i + 1 \in 1..Len(l)
        /\ link'[current][Len(k) + 1] = l[1]
        /\ \A i \in 1..Len(k) : link'[current][i] = k[i]
        /\ \A i \in 1..Len(link'[current]) : i \in 1..Len(k) \/ i = Len(k) + 1
        /\ \A a \in Lines \ {Outbox, current} : link'[a] = link[a]
    BY <1>5, ShipDoes
  <2> HIDE DEF l, k
  <2>3. \A s \in Sockets : \A i \in 1..Len(link'[s]) :
          \/ \E j \in 1..Len(link[s]) : link'[s][i] = link[s][j]
          \/ \E j \in 1..Len(link[Outbox]) : link'[s][i] = link[Outbox][j]
    <3> SUFFICES ASSUME NEW s \in Sockets, NEW i \in 1..Len(link'[s])
                 PROVE  \/ \E j \in 1..Len(link[s]) : link'[s][i] = link[s][j]
                        \/ \E j \in 1..Len(link[Outbox]) : link'[s][i] = link[Outbox][j]
      OBVIOUS
    <3>1. CASE s = current
      BY <3>1, <2>2 DEF l, k
    <3>2. CASE s # current
      BY <3>2, <2>2, OutboxApart
    <3> QED BY <3>1, <3>2
  <2>4. \A i \in 1..Len(link'[Outbox]) : \E j \in 1..Len(link[Outbox]) :
          link'[Outbox][i] = link[Outbox][j]
    BY <2>2 DEF l
  <2>5. \A c \in Sending' : c \in Sending /\ Packet(c)' = Packet(c)
    BY <2>1 DEF Sending, Packet
  <2> QED BY <1>s, <2>1, <2>3, <2>4, <2>5, AheadMoves
<1>6. ASSUME NEW s \in Sockets, Lose(s) PROVE Ahead'
  <2>1. /\ UNCHANGED <<connections, newest, counter, loop>>
        /\ link[s] # <<>> /\ link' = [link EXCEPT ![s] = Tail(@)]
    BY <1>6 DEF Lose, laptopVars, phoneVars, vars
  <2>2. /\ \A b \in Lines \ {s} : link'[b] = link[b]
        /\ \A i \in 1..Len(link'[s]) : link'[s][i] = link[s][i + 1] /\ i + 1 \in 1..Len(link[s])
    BY <2>1, LineShrinks, OutboxApart
  <2>3. link'[Outbox] = link[Outbox]
        /\ \A t \in Sockets : \A i \in 1..Len(link'[t]) :
             \E j \in 1..Len(link[t]) : link'[t][i] = link[t][j]
    BY <2>2, OutboxApart
  <2>4. \A c \in Sending' : c \in Sending /\ Packet(c)' = Packet(c)
    BY <2>1 DEF Sending, Packet
  <2> QED BY <1>s, <2>1, <2>3, <2>4, AheadMoves
<1>7. CASE ServerSide
  <2>1. UNCHANGED <<newest, counter, loop, link>>
    BY <1>7 DEF ServerSide, phoneVars
  <2>2. \A r \in Connected' : r \in Connected
                              /\ connections'[r].sequence = connections[r].sequence
    <3>1. current \in Sockets
      BY <1>t DEF PhoneTyped
    <3> QED BY <3>1, <1>t, <1>7, SocketsHearNothing DEF ServerSide
  <2>3. \A c \in Sending' : c \in Sending /\ Packet(c)' = Packet(c)
    BY <2>1 DEF Sending, Packet
  <2> QED BY <2>1, <2>2, <2>3, AheadMoves
<1> QED BY <1>1, <1>2, <1>3, <1>4, <1>5, <1>6, <1>7, <1>t, NumberKeepsAhead,
           DeliverKeepsAhead DEF SessionNext

\* The server never refuses a packet as a duplicate because of what it has heard
\* from the same loop over the same socket: with both services running, launched
\* any number of times and restarted, and any number of sockets, what overtakes a
\* packet is another loop or another socket (CaptureService.kt 168-193,
\* ChirpService.kt 142-188, websocket_server.py 201).
THEOREM OwnStreamIsHeard == SessionSpec => []OwnStreamHeard
<1>1. PhoneInv /\ Ahead => OwnStreamHeard
  <2> SUFFICES ASSUME PhoneInv, Ahead, NEW s \in Sockets, NEW p \in Connected,
                      link[s] # <<>>, newest[p] = Origin(s, Head(link[s]))
               PROVE  connections[p].sequence < Head(link[s]).number
    BY DEF OwnStreamHeard
  <2>1. Head(link[s]) = link[s][1] /\ 1 \in 1..Len(link[s])
    BY OldestTyped
  <2> QED BY <2>1 DEF Ahead, Newer
<1>2. SessionSpec => []IInv
  BY SessionServes, Invariance, PTL
<1>3. SessionSpec => []Ahead
  BY <1>2, InitAhead, NextAhead, PhoneInvariance, PTL DEF SessionSpec
<1> QED BY <1>1, <1>3, PhoneInvariance, PTL

=============================================================================
