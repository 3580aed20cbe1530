------------------------ MODULE TransportClientProofs ------------------------
(***************************************************************************)
(* Theorems about TransportClient for any number of producers, packets and *)
(* sockets and any queue capacity.                                         *)
(***************************************************************************)
EXTENDS TransportClient, TLAPS, FiniteSetTheorems, SequenceTheorems

-----------------------------------------------------------------------------
(* Types.  A packet reaches the wire from the sender's hand and a socket    *)
(* reaches the field from the sender's variable, so their types need that   *)
(* hand and variable are filled where the sender uses them.                 *)

SenderShape ==
  /\ ~started => sender = "stopped"
  /\ holding # <<>> <=> sender \in {"ensure", "assign", "send"}
  /\ using # NoSocket <=> sender \in {"assign", "send"}
  /\ \A p \in Producers : Offering(p) => sends[p] > 0

Typed == TypeOK /\ SenderShape

LEMMA TypedInit == Init => Typed
<1> USE TransportAssumption
<1> SUFFICES ASSUME Init PROVE Typed
  OBVIOUS
<1>q. queue \in Seq(Packet) /\ wire \in Seq(Packet)
  BY DEF Init
<1>m. 0 \in 0..MaxBackoff /\ 0 \in 0..MaxSends
  OBVIOUS
<1>1. TypeOK
  BY <1>q, <1>m DEF Init, TypeOK
<1>2. SenderShape
  BY DEF Init, SenderShape, Offering
<1> QED BY <1>1, <1>2 DEF Typed

\* A producer's step.
LEMMA ProducerTyped ==
  ASSUME Typed, NEW p \in Producers, Producer(p)
  PROVE  Typed'
<1> USE TransportAssumption
<1>t. TypeOK /\ SenderShape
  BY DEF Typed
<1>q. queue \in Seq(Packet) /\ droppedCount \in Nat
  BY <1>t DEF TypeOK
<1>1. CASE SendUnstarted(p)
  BY <1>1, <1>t DEF Typed, TypeOK, SenderShape, SendUnstarted, socketVars, Offering
<1>2. CASE Send(p)
  <2>1. /\ sends' \in [Producers -> 0..MaxSends]
        /\ sends'[p] = sends[p] + 1 /\ sends'[p] \in 1..MaxSends
        /\ \A r \in Producers \ {p} : sends'[r] = sends[r]
    BY <1>2, <1>t DEF TypeOK, Send
  <2>2. queue' \in Seq(Packet)
    <3> DEFINE k == <<p, sends'[p]>>
    <3>1. k \in Packet
      BY <2>1 DEF Packet
    <3>2. queue' = queue \/ queue' = Append(queue, k)
      BY <1>2 DEF Send
    <3> HIDE DEF k
    <3> QED BY <1>q, <3>1, <3>2, AppendProperties
  <2>3. /\ producing' \in [Producers -> {"idle", "full", "polled"}]
        /\ \A r \in Producers \ {p} : producing'[r] = producing[r]
    BY <1>2, <1>t DEF TypeOK, Send, Goto
  <2>4. TypeOK'
    BY <1>2, <1>t, <2>1, <2>2, <2>3 DEF TypeOK, Send, senderVars, logs, socketVars
  <2>5. SenderShape'
    BY <1>2, <1>t, <2>1, <2>3 DEF SenderShape, Send, senderVars, logs, socketVars, Offering
  <2> QED BY <2>4, <2>5 DEF Typed
<1>3. CASE PollOldest(p)
  <2>1. queue' \in Seq(Packet) /\ droppedCount' \in Nat
    <3>1. \/ queue # <<>> /\ queue' = Tail(queue) /\ droppedCount' = droppedCount + 1
          \/ UNCHANGED <<queue, droppedCount>>
      BY <1>3 DEF PollOldest
    <3> QED BY <1>q, <3>1, HeadTailProperties
  <2>2. /\ producing' \in [Producers -> {"idle", "full", "polled"}]
        /\ \A r \in Producers \ {p} : producing'[r] = producing[r]
    BY <1>3, <1>t DEF TypeOK, PollOldest, Goto
  <2>3. TypeOK'
    BY <1>3, <1>t, <2>1, <2>2 DEF TypeOK, PollOldest, senderVars, logs, socketVars
  <2>4. SenderShape'
    BY <1>3, <1>t, <2>2 DEF SenderShape, PollOldest, senderVars, logs, socketVars, Offering
  <2> QED BY <2>3, <2>4 DEF Typed
<1>4. CASE OfferAgain(p)
  <2>1. Mine(p) \in Packet
    <3>1. sends[p] \in 0..MaxSends /\ sends[p] > 0
      BY <1>4, <1>t DEF TypeOK, SenderShape, Offering, OfferAgain
    <3> QED BY <3>1 DEF Mine, Packet
  <2>2. queue' \in Seq(Packet) /\ droppedCount' \in Nat
    <3>1. \/ queue' = Append(queue, Mine(p)) /\ UNCHANGED droppedCount
          \/ UNCHANGED queue /\ droppedCount' = droppedCount + 1
      BY <1>4 DEF OfferAgain
    <3> QED BY <1>q, <2>1, <3>1, AppendProperties
  <2>3. /\ producing' \in [Producers -> {"idle", "full", "polled"}]
        /\ producing'[p] = "idle"
        /\ \A r \in Producers \ {p} : producing'[r] = producing[r]
    BY <1>4, <1>t DEF TypeOK, OfferAgain, Goto
  <2>4. TypeOK'
    BY <1>4, <1>t, <2>2, <2>3 DEF TypeOK, OfferAgain, senderVars, logs, socketVars
  <2>5. SenderShape'
    BY <1>4, <1>t, <2>3 DEF SenderShape, OfferAgain, senderVars, logs, socketVars, Offering
  <2> QED BY <2>4, <2>5 DEF Typed
<1> QED BY <1>1, <1>2, <1>3, <1>4 DEF Producer

LEMMA SenderTyped == ASSUME Typed, Sender PROVE Typed'
<1> USE TransportAssumption
<1>t. TypeOK /\ SenderShape
  BY DEF Typed
<1>h. \A k \in Packet : k # <<>>
  BY DEF Packet
<1>1. CASE Take
  <2>1. holding' \in Packet /\ queue' \in Seq(Packet)
    BY <1>1, <1>t DEF TypeOK, Take
  <2> QED BY <1>1, <1>t, <1>h, <2>1 DEF Typed, TypeOK, SenderShape, Take, socketVars, logs, Offering
<1>2. CASE Reuse
  BY <1>2, <1>t DEF Typed, TypeOK, SenderShape, Reuse, queueVars, socketVars, logs, Offering
<1>3. CASE NewWebSocket
  <2>1. PICK w \in Unused : /\ using' = w
                            /\ state' = [state EXCEPT ![w] = "connecting"]
                            /\ callback' = [callback EXCEPT ![w] = "none"]
    BY <1>3 DEF NewWebSocket
  <2>2. w \in Sockets
    BY DEF Unused
  <2> QED BY <1>3, <1>t, <2>1, <2>2 DEF Typed, TypeOK, SenderShape, NewWebSocket,
                    queueVars, logs, Offering
<1>4. CASE Assign
  BY <1>4, <1>t DEF Typed, TypeOK, SenderShape, Assign, queueVars, socketVars, logs, Offering
<1>5. CASE BadUrl
  BY <1>5, <1>t DEF Typed, TypeOK, SenderShape, BadUrl, queueVars, socketVars, logs, Offering
<1>6. CASE SendOnSocket
  <2>1. holding \in Packet
    BY <1>6, <1>t DEF TypeOK, SenderShape, SendOnSocket
  <2>2. wire' \in Seq(Packet)
    BY <1>6, <1>t, <2>1 DEF TypeOK, SendOnSocket
  <2> QED BY <1>6, <1>t, <2>2 DEF Typed, TypeOK, SenderShape, SendOnSocket, queueVars,
                    socketVars, logs, Offering
<1>7. CASE ResetBackoff
  BY <1>7, <1>t DEF Typed, TypeOK, SenderShape, ResetBackoff, queueVars, socketVars, logs, Offering
<1>8. CASE SenderClose
  BY <1>8, <1>t DEF Typed, TypeOK, SenderShape, SenderClose, Closed, queueVars, logs, Offering
<1>9. CASE SenderForget
  BY <1>9, <1>t DEF Typed, TypeOK, SenderShape, SenderForget, queueVars, socketVars, logs, Offering
<1>10. CASE Backoff
  BY <1>10, <1>t DEF Typed, TypeOK, SenderShape, Backoff, queueVars, socketVars, logs, Offering
<1>11. CASE Doubled
  BY <1>11, <1>t DEF Typed, TypeOK, SenderShape, Doubled, queueVars, socketVars, logs, Offering
<1> QED BY <1>1, <1>2, <1>3, <1>4, <1>5, <1>6, <1>7, <1>8, <1>9, <1>10, <1>11 DEF Sender

LEMMA OkHttpTyped == ASSUME Typed, NEW w \in Sockets, OkHttp(w) PROVE Typed'
<1> USE TransportAssumption
<1>t. TypeOK /\ SenderShape
  BY DEF Typed
<1>1. CASE OnOpen(w)
  BY <1>1, <1>t DEF Typed, TypeOK, SenderShape, OnOpen, queueVars, senderVars, logs, Offering
<1>2. CASE Terminal(w)
  BY <1>2, <1>t DEF Typed, TypeOK, SenderShape, Terminal, queueVars, senderVars, logs, Offering
<1>3. CASE CallbackClose(w)
  BY <1>3, <1>t DEF Typed, TypeOK, SenderShape, CallbackClose, Closed, queueVars,
                    senderVars, logs, Offering
<1>4. CASE CallbackForget(w)
  BY <1>4, <1>t DEF Typed, TypeOK, SenderShape, CallbackForget, queueVars, senderVars, logs, Offering
<1> QED BY <1>1, <1>2, <1>3, <1>4 DEF OkHttp

LEMMA TypedStep == Typed /\ [Next]_vars => Typed'
<1> SUFFICES ASSUME Typed, [Next]_vars PROVE Typed'
  OBVIOUS
<1>1. CASE Start
  BY <1>1 DEF Typed, TypeOK, SenderShape, Start, logs, queueVars, socketVars, Offering
<1>2. CASE UNCHANGED vars
  BY <1>2 DEF Typed, TypeOK, SenderShape, vars, queueVars, senderVars, logs, socketVars, Offering
<1> QED BY <1>1, <1>2, ProducerTyped, SenderTyped, OkHttpTyped DEF Next

\* Every variable keeps its type: in particular only packets reach the wire and
\* only sockets the field (lines 119-178).
THEOREM TypeCorrect == Spec => []TypeOK
<1>1. Typed => TypeOK
  BY DEF Typed
<1> QED BY <1>1, TypedInit, TypedStep, PTL DEF Spec

-----------------------------------------------------------------------------
(* One live socket.  closeQuietly works on whatever the field holds, so it    *)
(* matters that no two sockets are ever in the middle of anything: the next   *)
(* one is opened only when every callback of the last has run.                *)

\* Never opened, or dead with its closeQuietly behind it.
Retired(w) == state[w] = "unused" \/ (state[w] = "dead" /\ callback[w] = "done")

SocketInv ==
  /\ \A w \in Sockets :
       ~Retired(w) => IF sender = "assign" THEN w = using ELSE w = webSocket
  /\ sender \in {"assign", "failed", "forget"} => webSocket = NoSocket
  /\ \A w \in Sockets : state[w] = "dead" <=> callback[w] # "none"

LEMMA SocketInit == Init => SocketInv
  BY DEF Init, SocketInv, Retired

LEMMA SenderKeepsSocket ==
  ASSUME Typed, SocketInv, Sender
  PROVE  SocketInv'
<1> USE TransportAssumption
<1>t. /\ webSocket \in Sockets \cup {NoSocket} /\ using \in Sockets \cup {NoSocket}
      /\ using # NoSocket <=> sender \in {"assign", "send"}
      /\ state \in [Sockets -> {"unused", "connecting", "open", "closing", "dead"}]
      /\ callback \in [Sockets -> {"none", "close", "forget", "done"}]
  BY DEF Typed, TypeOK, SenderShape
<1>1. CASE Take \/ Reuse \/ BadUrl \/ SendOnSocket \/ ResetBackoff \/ Backoff
           \/ Doubled
  BY <1>1 DEF SocketInv, Retired, Take, Reuse, BadUrl, SendOnSocket, ResetBackoff,
              Backoff, Doubled, socketVars
<1>2. CASE NewWebSocket
  <2>1. PICK w \in Unused : /\ using' = w
                            /\ state' = [state EXCEPT ![w] = "connecting"]
                            /\ callback' = [callback EXCEPT ![w] = "none"]
    BY <1>2 DEF NewWebSocket
  <2>2. w \in Sockets
    BY DEF Unused
  <2>3. webSocket = NoSocket /\ webSocket' = webSocket /\ sender' = "assign"
        /\ sender = "ensure"
    BY <1>2 DEF NewWebSocket
  <2>4. \A v \in Sockets : Retired(v)
    BY <1>t, <2>3 DEF SocketInv
  <2>5. \A v \in Sockets \ {w} : Retired(v)'
    BY <1>t, <2>1, <2>4 DEF Retired
  <2> QED BY <1>t, <2>1, <2>2, <2>3, <2>5 DEF SocketInv
<1>3. CASE Assign
  BY <1>3, <1>t DEF SocketInv, Retired, Assign, socketVars
<1>4. CASE SenderClose
  <2>1. state' = state
    BY <1>4, <1>t DEF SocketInv, SenderClose, Closed
  <2> QED BY <1>4, <2>1 DEF SocketInv, Retired, SenderClose
<1>5. CASE SenderForget
  BY <1>5 DEF SocketInv, Retired, SenderForget, socketVars
<1> QED BY <1>1, <1>2, <1>3, <1>4, <1>5 DEF Sender

LEMMA OkHttpKeepsSocket ==
  ASSUME Typed, SocketInv, NEW w \in Sockets, OkHttp(w)
  PROVE  SocketInv'
<1> USE TransportAssumption
<1>t. /\ webSocket \in Sockets \cup {NoSocket} /\ using \in Sockets \cup {NoSocket}
      /\ using # NoSocket <=> sender \in {"assign", "send"}
      /\ state \in [Sockets -> {"unused", "connecting", "open", "closing", "dead"}]
      /\ callback \in [Sockets -> {"none", "close", "forget", "done"}]
  BY DEF Typed, TypeOK, SenderShape
<1>1. CASE OnOpen(w)
  BY <1>1, <1>t DEF SocketInv, Retired, OnOpen, senderVars, logs
<1>2. CASE Terminal(w)
  BY <1>2, <1>t DEF SocketInv, Retired, Terminal, senderVars, logs
<1>3. CASE CallbackClose(w)
  BY <1>3, <1>t DEF SocketInv, Retired, CallbackClose, Closed, senderVars, logs
<1>4. CASE CallbackForget(w)
  <2>1. ~Retired(w)
    BY <1>4 DEF Retired, CallbackForget, SocketInv
  <2>2. \A v \in Sockets \ {w} : Retired(v)
    BY <1>t, <2>1 DEF SocketInv
  <2>3. \A v \in Sockets : Retired(v)'
    BY <1>4, <1>t, <2>2 DEF Retired, CallbackForget, SocketInv
  <2> QED BY <1>4, <1>t, <2>3 DEF SocketInv, CallbackForget, senderVars, logs
<1> QED BY <1>1, <1>2, <1>3, <1>4 DEF OkHttp

LEMMA SocketStep == Typed /\ SocketInv /\ [Next]_vars => SocketInv'
<1> SUFFICES ASSUME Typed, SocketInv, [Next]_vars PROVE SocketInv'
  OBVIOUS
<1>1. CASE Start
  BY <1>1 DEF Typed, SenderShape, SocketInv, Retired, Start, socketVars
<1>2. ASSUME NEW p \in Producers, Producer(p) PROVE SocketInv'
  BY <1>2 DEF SocketInv, Retired, Producer, SendUnstarted, Send, PollOldest, OfferAgain,
              senderVars, logs, socketVars
<1>3. CASE UNCHANGED vars
  BY <1>3 DEF SocketInv, Retired, vars, senderVars, logs, socketVars
<1> QED BY <1>1, <1>2, <1>3, SenderKeepsSocket, OkHttpKeepsSocket DEF Next

\* However late a callback runs and whatever fails, the phone never streams
\* over two sockets at once (lines 147-178).
THEOREM OneLiveSocket == Spec => []SingleLiveSocket
<1>1. Typed /\ SocketInv => SingleLiveSocket
  <2> SUFFICES ASSUME Typed, SocketInv PROVE SingleLiveSocket
    OBVIOUS
  <2> DEFINE live == {w \in Sockets : Accepts(w)}
             one == IF sender = "assign" THEN using ELSE webSocket
  <2>1. live \in SUBSET {one}
    BY DEF SocketInv, Retired, Accepts
  <2>2. IsFiniteSet({one}) /\ Cardinality({one}) = 1
    BY FS_Singleton
  <2> HIDE DEF live, one
  <2>3. IsFiniteSet(live) /\ Cardinality(live) <= Cardinality({one})
    BY <2>1, <2>2, FS_Subset
  <2>4. Cardinality(live) <= 1
    BY <2>2, <2>3
  <2> QED BY <2>4 DEF live, SingleLiveSocket
<1> QED BY <1>1, TypedInit, TypedStep, SocketInit, SocketStep, PTL DEF Spec

-----------------------------------------------------------------------------
(* The packets on their way.  What every step does to Underway is one of      *)
(* three things: nothing, one packet more at the end, or one packet less      *)
(* somewhere, and all three keep a sequence in order.                         *)

InOrder(s) == \A i, j \in 1..Len(s) : i < j /\ s[i][1] = s[j][1] => s[i][2] < s[j][2]

\* t is s without its k-th element.
Without(s, t, k) ==
  /\ Len(t) = Len(s) - 1 /\ k \in 1..Len(s)
  /\ \A i \in 1..Len(t) : t[i] = IF i < k THEN s[i] ELSE s[i + 1]

LEMMA WithoutInOrder ==
  ASSUME NEW s \in Seq(Packet), NEW t \in Seq(Packet), NEW k, Without(s, t, k), InOrder(s)
  PROVE  /\ InOrder(t)
         /\ \A i \in 1..Len(t) : \E j \in 1..Len(s) : t[i] = s[j]
<1> DEFINE at(i) == IF i < k THEN i ELSE i + 1
<1>1. \A i \in 1..Len(t) : at(i) \in 1..Len(s) /\ t[i] = s[at(i)]
  BY DEF Without
<1>2. \A i, j \in 1..Len(t) : i < j => at(i) < at(j)
  BY DEF Without
<1> HIDE DEF at
<1>3. InOrder(t)
  <2> SUFFICES ASSUME NEW i \in 1..Len(t), NEW j \in 1..Len(t), i < j, t[i][1] = t[j][1]
               PROVE  t[i][2] < t[j][2]
    BY DEF InOrder
  <2>1. /\ at(i) \in 1..Len(s) /\ at(j) \in 1..Len(s) /\ at(i) < at(j)
        /\ t[i] = s[at(i)] /\ t[j] = s[at(j)]
    BY <1>1, <1>2
  <2> QED BY <2>1 DEF InOrder
<1> QED BY <1>1, <1>3

LEMMA AppendInOrder ==
  ASSUME NEW s \in Seq(Packet), NEW k \in Packet, InOrder(s),
         \A i \in 1..Len(s) : s[i][1] = k[1] => s[i][2] < k[2]
  PROVE  InOrder(Append(s, k))
<1> DEFINE t == Append(s, k)
<1>1. /\ Len(t) = Len(s) + 1 /\ Len(s) \in Nat
      /\ \A i \in 1..Len(s) : t[i] = s[i]
      /\ t[Len(s) + 1] = k
  BY AppendProperties
<1> HIDE DEF t
<1>2. ASSUME NEW i \in 1..Len(t), NEW j \in 1..Len(t), i < j, t[i][1] = t[j][1]
      PROVE  t[i][2] < t[j][2]
  <2>1. i \in 1..Len(s) /\ t[i] = s[i]
    BY <1>1, <1>2
  <2>2. CASE j \in 1..Len(s)
    BY <1>1, <1>2, <2>1, <2>2 DEF InOrder
  <2>3. CASE j = Len(s) + 1
    BY <1>1, <1>2, <2>1, <2>3
  <2> QED BY <1>1, <2>2, <2>3
<1> QED BY <1>2 DEF InOrder, t

\* Taking the first element off the second of two sequences.
LEMMA WithoutFirst ==
  ASSUME NEW a \in Seq(Packet), NEW b \in Seq(Packet), b # <<>>
  PROVE  Without(a \o b, a \o Tail(b), Len(a) + 1)
<1>1. /\ Tail(b) \in Seq(Packet) /\ Len(Tail(b)) = Len(b) - 1
      /\ \A i \in 1..Len(Tail(b)) : Tail(b)[i] = b[i + 1]
      /\ Len(a) \in Nat /\ Len(b) \in Nat /\ Len(b) > 0
  BY HeadTailProperties
<1> DEFINE t == Tail(b)
<1>2. /\ Len(a \o b) = Len(a) + Len(b)
      /\ \A i \in 1..Len(a) + Len(b) :
           (a \o b)[i] = IF i <= Len(a) THEN a[i] ELSE b[i - Len(a)]
  BY ConcatProperties
<1>3. /\ Len(a \o t) = Len(a) + Len(t)
      /\ \A i \in 1..Len(a) + Len(t) :
           (a \o t)[i] = IF i <= Len(a) THEN a[i] ELSE t[i - Len(a)]
  BY <1>1, ConcatProperties
<1> DEFINE x == a \o b
           y == a \o t
<1>4. /\ Len(x) = Len(a) + Len(b) /\ Len(y) = Len(a) + Len(t)
      /\ Len(t) = Len(b) - 1
      /\ \A i \in 1..Len(t) : t[i] = b[i + 1]
      /\ \A i \in 1..Len(a) + Len(b) :
           x[i] = IF i <= Len(a) THEN a[i] ELSE b[i - Len(a)]
      /\ \A i \in 1..Len(a) + Len(t) :
           y[i] = IF i <= Len(a) THEN a[i] ELSE t[i - Len(a)]
  BY <1>1, <1>2, <1>3
<1> HIDE DEF t, x, y
<1>5. ASSUME NEW i \in 1..Len(y)
      PROVE  y[i] = IF i < Len(a) + 1 THEN x[i] ELSE x[i + 1]
  <2>1. CASE i <= Len(a)
    BY <1>1, <1>4, <2>1
  <2>2. CASE ~(i <= Len(a))
    <3>1. i - Len(a) \in 1..Len(t) /\ y[i] = t[i - Len(a)]
      <4> DEFINE n == Len(a)
                 m == Len(t)
      <4>1. /\ n \in Nat /\ m \in Nat /\ i \in 1..n + m /\ ~(i <= n)
            /\ \A j \in 1..n + m : y[j] = IF j <= n THEN a[j] ELSE t[j - n]
        BY <1>1, <1>2, <1>4, <2>2
      <4> HIDE DEF n, m
      <4>2. i - n \in 1..m
        BY <4>1
      <4>3. y[i] = t[i - n]
        BY <4>1
      <4> QED BY <4>2, <4>3 DEF n, m
    <3>2. y[i] = b[i - Len(a) + 1]
      BY <1>4, <3>1
    <3>3. i + 1 \in 1..Len(a) + Len(b) /\ ~(i + 1 <= Len(a))
      BY <1>1, <1>4, <2>2
    <3>4. x[i + 1] = b[i + 1 - Len(a)]
      BY <1>4, <3>3
    <3>5. i + 1 - Len(a) = i - Len(a) + 1
      BY <1>1
    <3> QED BY <1>1, <2>2, <3>2, <3>4, <3>5
  <2> QED BY <1>1, <2>1, <2>2
<1>6. Len(a) + 1 \in 1..Len(x) /\ Len(y) = Len(x) - 1
  BY <1>1, <1>4
<1>7. Without(x, y, Len(a) + 1)
  BY <1>5, <1>6 DEF Without
<1> QED BY <1>7 DEF x, y, t

\* In order, and nothing newer than what each producer has placed.
Kept(s, placed) ==
  /\ InOrder(s)
  /\ \A i \in 1..Len(s) : s[i][2] <= placed[s[i][1]]

\* What one step does to the packets on their way.
OneMove(s, t, f, g) ==
  \/ t = s
  \/ \E k \in Int : Without(s, t, k)
  \/ \E k \in Packet : t = Append(s, k) /\ f[k[1]] < k[2] /\ k[2] <= g[k[1]]

LEMMA KeptStep ==
  ASSUME NEW s \in Seq(Packet), NEW t \in Seq(Packet),
         NEW f \in [Producers -> Nat], NEW g \in [Producers -> Nat],
         Kept(s, f), \A p \in Producers : f[p] <= g[p], OneMove(s, t, f, g)
  PROVE  Kept(t, g)
<1>1. \A x \in Packet : x[1] \in Producers /\ x[2] \in Nat
  BY TransportAssumption DEF Packet
<1>2. \A i \in 1..Len(s) : /\ s[i][1] \in Producers /\ s[i][2] \in Nat
                           /\ s[i][2] <= f[s[i][1]] /\ s[i][2] <= g[s[i][1]]
  <2> TAKE i \in 1..Len(s)
  <2>1. s[i] \in Packet
    OBVIOUS
  <2>2. s[i][1] \in Producers /\ s[i][2] \in Nat /\ s[i][2] <= f[s[i][1]]
    BY <1>1, <2>1 DEF Kept
  <2> QED BY <2>2
<1>3. CASE t = s
  BY <1>2, <1>3 DEF Kept
<1>4. ASSUME NEW k \in Int, Without(s, t, k) PROVE Kept(t, g)
  <2>1. /\ InOrder(t)
        /\ \A i \in 1..Len(t) : \E j \in 1..Len(s) : t[i] = s[j]
    BY <1>4, WithoutInOrder DEF Kept
  <2> QED BY <1>2, <2>1 DEF Kept
<1>5. ASSUME NEW k \in Packet, t = Append(s, k), f[k[1]] < k[2], k[2] <= g[k[1]]
      PROVE  Kept(t, g)
  <2>1. k[1] \in Producers /\ k[2] \in Nat /\ f[k[1]] \in Nat /\ g[k[1]] \in Nat
    BY <1>1
  <2>2. \A i \in 1..Len(s) : s[i][1] = k[1] => s[i][2] < k[2]
    BY <1>2, <1>5, <2>1
  <2>3. InOrder(t)
    BY <1>5, <2>2, AppendInOrder DEF Kept
  <2>4. /\ Len(t) = Len(s) + 1 /\ Len(s) \in Nat
        /\ \A i \in 1..Len(s) : t[i] = s[i]
        /\ t[Len(s) + 1] = k
    BY <1>5, AppendProperties
  <2>5. ASSUME NEW i \in 1..Len(t) PROVE t[i][2] <= g[t[i][1]]
    <3>1. CASE i \in 1..Len(s)
      BY <1>2, <2>4, <3>1
    <3>2. CASE i = Len(s) + 1
      BY <1>5, <2>4, <3>2
    <3> QED BY <2>4, <3>1, <3>2
  <2> QED BY <2>3, <2>5 DEF Kept
<1> QED BY <1>3, <1>4, <1>5 DEF OneMove

\* A packet on its way is one its producer is done with, so that the next one
\* it places is newer than all of them.
OrderInv == Kept(Underway, Placed) /\ Len(queue) <= QueueCap

LEMMA ThreePartsType ==
  ASSUME NEW w \in Seq(Packet), NEW h \in Packet \cup {<<>>}, NEW q \in Seq(Packet),
         NEW in, in = IF h = <<>> THEN <<>> ELSE <<h>>
  PROVE  in \in Seq(Packet) /\ w \o in \in Seq(Packet) /\ w \o in \o q \in Seq(Packet)
<1>1. in \in Seq(Packet)
  OBVIOUS
<1>2. w \o in \in Seq(Packet)
  BY <1>1, ConcatProperties
<1> QED BY <1>1, <1>2, ConcatProperties

LEMMA OrderKept ==
  ASSUME Typed, Typed', OrderInv, Len(queue') <= QueueCap,
         \A p \in Producers : Placed[p] <= Placed'[p],
         OneMove(Underway, Underway', Placed, Placed')
  PROVE  OrderInv'
<1>t. /\ wire \in Seq(Packet) /\ holding \in Packet \cup {<<>>} /\ queue \in Seq(Packet)
      /\ wire' \in Seq(Packet) /\ holding' \in Packet \cup {<<>>} /\ queue' \in Seq(Packet)
  BY DEF Typed, TypeOK
<1>1. Underway \in Seq(Packet)
  BY <1>t, ThreePartsType DEF Underway, InHand
<1>2. Underway' \in Seq(Packet)
  BY <1>t, ThreePartsType DEF Underway, InHand
<1>3. Placed \in [Producers -> Nat] /\ Placed' \in [Producers -> Nat]
  <2>1. /\ \A p \in Producers : sends[p] \in Nat /\ (Offering(p) => sends[p] > 0)
        /\ \A p \in Producers : sends'[p] \in Nat /\ (Offering(p)' => sends'[p] > 0)
    BY DEF Typed, TypeOK, SenderShape
  <2>2. ASSUME NEW p \in Producers PROVE Placed[p] \in Nat /\ Placed'[p] \in Nat
    BY <2>1 DEF Placed
  <2>3. Placed = [p \in Producers |-> Placed[p]] /\ Placed' = [p \in Producers |-> Placed'[p]]
    BY DEF Placed
  <2> QED BY <2>2, <2>3
<1>4. Kept(Underway, Placed)
  BY DEF OrderInv
<1>5. Kept(Underway', Placed')
  BY <1>1, <1>2, <1>3, <1>4, KeptStep
<1> QED BY <1>5 DEF OrderInv, Kept, InOrder

\* A packet that joins the queue goes to the end of what is on its way; one
\* evicted from it, or lost in the sender's hand, leaves from the middle.
LEMMA QueueEnds ==
  ASSUME Typed, UNCHANGED <<wire, holding>>
  PROVE  /\ \A k \in Packet : queue' = Append(queue, k) => Underway' = Append(Underway, k)
         /\ queue # <<>> /\ queue' = Tail(queue)
              => \E k \in Int : Without(Underway, Underway', k)
         /\ queue' = queue => Underway' = Underway
<1> DEFINE front == wire \o InHand
<1>t. wire \in Seq(Packet) /\ holding \in Packet \cup {<<>>} /\ queue \in Seq(Packet)
  BY DEF Typed, TypeOK
<1>1. front \in Seq(Packet)
  BY <1>t, ThreePartsType DEF InHand
<1>2. Underway = front \o queue /\ Underway' = front \o queue'
  BY DEF Underway, InHand
<1> HIDE DEF front
<1>3. ASSUME NEW k \in Packet, queue' = Append(queue, k) PROVE Underway' = Append(Underway, k)
  <2>1. front \o queue \in Seq(Packet) /\ <<k>> \in Seq(Packet)
    BY <1>t, <1>1, ConcatProperties
  <2>2. queue' = queue \o <<k>>
    BY <1>t, <1>3, AppendIsConcat
  <2>3. front \o (queue \o <<k>>) = (front \o queue) \o <<k>>
    BY <1>t, <1>1, <2>1, ConcatAssociative
  <2>4. Append(front \o queue, k) = (front \o queue) \o <<k>>
    BY <2>1, AppendIsConcat
  <2> QED BY <1>2, <2>2, <2>3, <2>4
<1>4. ASSUME queue # <<>>, queue' = Tail(queue)
      PROVE  \E k \in Int : Without(Underway, Underway', k)
  <2>1. Without(front \o queue, front \o Tail(queue), Len(front) + 1)
    BY <1>t, <1>1, <1>4, WithoutFirst
  <2>2. Len(front) + 1 \in Int
    BY <1>1
  <2> QED BY <1>2, <1>4, <2>1, <2>2
<1> QED BY <1>2, <1>3, <1>4

LEMMA ProducerKeepsOrder ==
  ASSUME Typed, Typed', OrderInv, NEW p \in Producers, Producer(p)
  PROVE  OrderInv'
<1> USE TransportAssumption
<1>t. /\ queue \in Seq(Packet) /\ Len(queue) <= QueueCap
      /\ producing \in [Producers -> {"idle", "full", "polled"}]
      /\ sends \in [Producers -> 0..MaxSends]
      /\ \A r \in Producers : Offering(r) => sends[r] > 0
      /\ Placed \in [Producers -> Nat]
  <2>1. /\ queue \in Seq(Packet)
        /\ producing \in [Producers -> {"idle", "full", "polled"}]
        /\ sends \in [Producers -> 0..MaxSends]
    BY DEF Typed, TypeOK
  <2>2. Len(queue) <= QueueCap
    BY DEF OrderInv
  <2>3. \A r \in Producers : Offering(r) => sends[r] > 0
    BY DEF Typed, SenderShape
  <2>4. Placed \in [Producers -> Nat]
    <3>1. ASSUME NEW r \in Producers
          PROVE  (IF Offering(r) THEN sends[r] - 1 ELSE sends[r]) \in Nat
      <4>1. sends[r] \in Nat /\ (Offering(r) => sends[r] > 0)
        BY <2>1, <2>3
      <4> QED BY <4>1
    <3> QED BY <3>1 DEF Placed
  <2> QED BY <2>1, <2>2, <2>3, <2>4
<1>h. UNCHANGED <<wire, holding>>
  BY DEF Producer, SendUnstarted, Send, PollOldest, OfferAgain, senderVars, logs
<1>k. <<p, sends'[p]>> \in Packet
  <2>1. sends'[p] \in 0..MaxSends
    BY DEF Typed, TypeOK
  <2>2. sends'[p] > 0
    BY <1>t DEF Producer, SendUnstarted, Send, PollOldest, OfferAgain, Offering
  <2> QED BY <2>1, <2>2 DEF Packet
<1> DEFINE k == <<p, sends'[p]>>
<1>l. Len(queue) \in Nat /\ Len(Append(queue, k)) = Len(queue) + 1
      /\ (queue # <<>> => Len(Tail(queue)) = Len(queue) - 1)
  BY <1>t, <1>k, AppendProperties, HeadTailProperties
<1>1. CASE SendUnstarted(p)
  <2>1. \A r \in Producers : Placed[r] <= Placed'[r]
    BY <1>1, <1>t DEF SendUnstarted, Placed, Offering
  <2>2. queue' = queue
    BY <1>1 DEF SendUnstarted
  <2>3. OneMove(Underway, Underway', Placed, Placed')
    BY <1>h, <2>2, QueueEnds DEF OneMove
  <2> QED BY <1>t, <2>1, <2>2, <2>3, OrderKept
<1>2. CASE Send(p)
  <2>1. CASE Len(queue) < QueueCap
    <3>1. queue' = Append(queue, k) /\ Placed[p] = sends[p] /\ Placed'[p] = sends[p] + 1
          /\ sends'[p] = sends[p] + 1
      BY <1>2, <1>t, <2>1 DEF Send, Placed, Offering
    <3>2. \A r \in Producers : Placed[r] <= Placed'[r]
      BY <1>2, <1>t, <2>1 DEF Send, Placed, Offering
    <3>3. Underway' = Append(Underway, k)
      BY <1>h, <1>k, <3>1, QueueEnds
    <3>4. k \in Packet /\ k[1] = p /\ k[2] = sends'[p]
      BY <1>k
    <3> HIDE DEF k
    <3>5. Placed[k[1]] < k[2] /\ k[2] <= Placed'[k[1]]
      BY <1>t, <3>1, <3>4
    <3>6. OneMove(Underway, Underway', Placed, Placed')
      BY <3>3, <3>4, <3>5 DEF OneMove
    <3> QED BY <1>t, <1>l, <2>1, <3>1, <3>2, <3>6, OrderKept
  <2>2. CASE ~(Len(queue) < QueueCap)
    <3>1. \A r \in Producers : Placed[r] <= Placed'[r]
      BY <1>2, <1>t, <2>2 DEF Send, Goto, Placed, Offering
    <3>2. queue' = queue
      BY <1>2, <2>2 DEF Send
    <3>3. OneMove(Underway, Underway', Placed, Placed')
      BY <1>h, <3>2, QueueEnds DEF OneMove
    <3> QED BY <1>t, <3>1, <3>2, <3>3, OrderKept
  <2> QED BY <2>1, <2>2
<1>3. CASE PollOldest(p)
  <2>1. \A r \in Producers : Placed[r] <= Placed'[r]
    BY <1>3, <1>t DEF PollOldest, Goto, Placed, Offering
  <2>2. \/ queue # <<>> /\ queue' = Tail(queue)
        \/ queue' = queue
    BY <1>3 DEF PollOldest
  <2>3. OneMove(Underway, Underway', Placed, Placed')
    BY <1>h, <2>2, QueueEnds DEF OneMove
  <2>4. Len(queue') <= QueueCap
    BY <1>t, <1>l, <2>2
  <2> QED BY <2>1, <2>3, <2>4, OrderKept
<1>4. CASE OfferAgain(p)
  <2>1. /\ Placed[p] = sends[p] - 1 /\ Placed'[p] = sends[p] /\ sends' = sends
        /\ \A r \in Producers : Placed[r] <= Placed'[r]
    BY <1>4, <1>t DEF OfferAgain, Goto, Placed, Offering
  <2>2. CASE Len(queue) < QueueCap
    <3>1. queue' = Append(queue, k)
      BY <1>4, <2>1, <2>2 DEF OfferAgain, Mine
    <3>2. Underway' = Append(Underway, k)
      BY <1>h, <1>k, <3>1, QueueEnds
    <3>3. k \in Packet /\ k[1] = p /\ k[2] = sends[p]
      BY <1>k, <2>1
    <3> HIDE DEF k
    <3>4. Placed[k[1]] < k[2] /\ k[2] <= Placed'[k[1]]
      BY <1>t, <2>1, <3>3
    <3>5. OneMove(Underway, Underway', Placed, Placed')
      BY <3>2, <3>3, <3>4 DEF OneMove
    <3> QED BY <1>t, <1>l, <2>1, <2>2, <3>1, <3>5, OrderKept
  <2>3. CASE ~(Len(queue) < QueueCap)
    <3>1. queue' = queue
      BY <1>4, <2>3 DEF OfferAgain
    <3>2. OneMove(Underway, Underway', Placed, Placed')
      BY <1>h, <3>1, QueueEnds DEF OneMove
    <3> QED BY <1>t, <2>1, <3>1, <3>2, OrderKept
  <2> QED BY <2>2, <2>3
<1> QED BY <1>1, <1>2, <1>3, <1>4 DEF Producer

LEMMA SenderKeepsOrder ==
  ASSUME Typed, Typed', OrderInv, Sender
  PROVE  OrderInv'
<1> USE TransportAssumption
<1>t. /\ queue \in Seq(Packet) /\ Len(queue) <= QueueCap /\ wire \in Seq(Packet)
      /\ holding \in Packet \cup {<<>>}
      /\ holding # <<>> <=> sender \in {"ensure", "assign", "send"}
      /\ Placed \in [Producers -> Nat]
  BY DEF Typed, TypeOK, SenderShape, OrderInv, Placed
<1>s. /\ UNCHANGED <<sends, producing>>
      /\ Placed' = Placed
      /\ \A r \in Producers : Placed[r] <= Placed'[r]
  <2>1. UNCHANGED <<sends, producing>>
    BY DEF Sender, Take, Reuse, NewWebSocket, Assign, BadUrl, SendOnSocket, ResetBackoff,
           SenderClose, SenderForget, Backoff, Doubled, queueVars, logs
  <2>2. Placed' = Placed
    BY <2>1 DEF Placed, Offering
  <2> QED BY <1>t, <2>1, <2>2
<1>o. ASSUME Underway' = Underway, Len(queue') <= QueueCap PROVE OrderInv'
  BY <1>s, <1>o, OrderKept DEF OneMove
<1>h. ASSUME holding \in Packet
      PROVE  /\ (wire \o <<holding>>) \o queue = wire \o (<<holding>> \o queue)
             /\ wire \o <<holding>> = Append(wire, holding)
             /\ Without(wire \o (<<holding>> \o queue), wire \o queue, Len(wire) + 1)
  <2> DEFINE b == <<holding>> \o queue
  <2>1. <<holding>> \in Seq(Packet)
    BY <1>h
  <2>2. b \in Seq(Packet) /\ Len(b) = 1 + Len(queue)
        /\ \A i \in 1..1 + Len(queue) : b[i] = IF i <= 1 THEN <<holding>>[i] ELSE queue[i - 1]
    BY <1>t, <2>1, ConcatProperties
  <2>3. b # <<>> /\ Tail(b) = queue
    <3> HIDE DEF b
    <3>1. b # <<>> /\ Len(queue) \in Nat
      BY <1>t, <2>2
    <3>2. Tail(b) \in Seq(Packet) /\ Len(Tail(b)) = Len(queue)
          /\ \A i \in 1..Len(queue) : Tail(b)[i] = b[i + 1]
      BY <2>2, <3>1, HeadTailProperties
    <3>3. \A i \in 1..Len(queue) : Tail(b)[i] = queue[i]
      <4> TAKE i \in 1..Len(queue)
      <4>1. i + 1 \in 1..1 + Len(queue) /\ ~(i + 1 <= 1) /\ i + 1 - 1 = i
        BY <3>1
      <4> QED BY <2>2, <3>2, <4>1
    <3> QED BY <1>t, <3>1, <3>2, <3>3, SeqEqual
  <2> HIDE DEF b
  <2>4. Without(wire \o b, wire \o queue, Len(wire) + 1)
    BY <1>t, <2>2, <2>3, WithoutFirst
  <2>5. (wire \o <<holding>>) \o queue = wire \o b
    BY <1>t, <2>1, ConcatAssociative DEF b
  <2>6. wire \o <<holding>> = Append(wire, holding)
    BY <1>h, <1>t, AppendIsConcat
  <2> QED BY <2>4, <2>5, <2>6 DEF b
<1>n. \A x \in Packet : x # <<>>
  BY DEF Packet
<1>e. wire \o <<>> = wire
  BY <1>t, ConcatEmptySeq
<1>1. CASE Take
  <2>1. /\ queue # <<>> /\ holding = <<>> /\ holding' = Head(queue)
        /\ queue' = Tail(queue) /\ wire' = wire
    BY <1>1, <1>t DEF Take
  <2>2. /\ Head(queue) \in Packet /\ Tail(queue) \in Seq(Packet)
        /\ Len(Tail(queue)) = Len(queue) - 1 /\ Len(queue) \in Nat
        /\ \A i \in 1..Len(Tail(queue)) : Tail(queue)[i] = queue[i + 1]
    BY <1>t, <2>1, HeadTailProperties
  <2>3. queue = <<Head(queue)>> \o Tail(queue)
    BY <1>t, <2>1, <2>2
  <2>4. Head(queue) # <<>>
    BY <1>n, <2>2
  <2> DEFINE h == Head(queue)
             r == Tail(queue)
  <2>5. Underway = wire \o queue
    BY <1>e, <2>1 DEF Underway, InHand
  <2>6. Underway' = (wire \o <<h>>) \o r
    BY <2>1, <2>4 DEF Underway, InHand
  <2>7. h \in Packet /\ r \in Seq(Packet) /\ queue = <<h>> \o r
    BY <2>2, <2>3
  <2> HIDE DEF h, r
  <2>8. <<h>> \in Seq(Packet)
    BY <2>7
  <2>9. (wire \o <<h>>) \o r = wire \o (<<h>> \o r)
    BY <1>t, <2>7, <2>8, ConcatAssociative
  <2>10. Underway' = Underway
    BY <2>5, <2>6, <2>7, <2>9
  <2>11. Len(queue') <= QueueCap
    BY <1>t, <2>1, <2>2
  <2> QED BY <1>o, <2>10, <2>11
<1>2. CASE BadUrl
  <2>1. /\ holding \in Packet /\ holding # <<>> /\ holding' = <<>>
        /\ queue' = queue /\ wire' = wire
    BY <1>2, <1>t DEF BadUrl, queueVars, logs
  <2>2. Underway = (wire \o <<holding>>) \o queue /\ Underway' = wire \o queue
    BY <1>e, <2>1 DEF Underway, InHand
  <2>3. Without(Underway, Underway', Len(wire) + 1)
    BY <1>h, <2>1, <2>2, Zenon
  <2>5. Len(wire) + 1 \in Int
    BY <1>t
  <2>4. OneMove(Underway, Underway', Placed, Placed')
    BY <2>3, <2>5 DEF OneMove
  <2> QED BY <1>t, <1>s, <2>1, <2>4, OrderKept
<1>3. CASE SendOnSocket
  <2>1. /\ holding \in Packet /\ holding # <<>> /\ holding' = <<>> /\ queue' = queue
        /\ wire' = Append(wire, holding) \/ wire' = wire
    BY <1>3, <1>t DEF SendOnSocket, queueVars
  <2>2. Underway = (wire \o <<holding>>) \o queue
    BY <2>1 DEF Underway, InHand
  <2>3. CASE wire' = Append(wire, holding)
    <3>1. Append(wire, holding) \in Seq(Packet)
      BY <1>t, <2>1, AppendProperties
    <3>2. wire' \o <<>> = wire'
      BY <2>3, <3>1, ConcatEmptySeq
    <3>3. Underway' = wire' \o queue
      BY <2>1, <3>2 DEF Underway, InHand
    <3>4. Underway' = Underway
      BY <1>h, <2>1, <2>2, <2>3, <3>3
    <3> QED BY <1>o, <1>t, <2>1, <3>4
  <2>4. CASE wire' = wire
    <3>1. Underway' = wire \o queue
      BY <1>e, <2>1, <2>4 DEF Underway, InHand
    <3>2. Without(Underway, Underway', Len(wire) + 1)
      BY <1>h, <2>1, <2>2, <3>1, Zenon
    <3>4. Len(wire) + 1 \in Int
      BY <1>t
    <3>3. OneMove(Underway, Underway', Placed, Placed')
      BY <3>2, <3>4 DEF OneMove
    <3> QED BY <1>t, <1>s, <2>1, <3>3, OrderKept
  <2> QED BY <2>1, <2>3, <2>4
<1>4. CASE Reuse \/ NewWebSocket \/ Assign \/ ResetBackoff \/ SenderClose
           \/ SenderForget \/ Backoff \/ Doubled
  <2>1. UNCHANGED <<queue, holding, wire>>
    BY <1>4 DEF Reuse, NewWebSocket, Assign, ResetBackoff, SenderClose, SenderForget,
                Backoff, Doubled, queueVars, logs
  <2>2. Underway' = Underway
    BY <2>1 DEF Underway, InHand
  <2> QED BY <1>o, <1>t, <2>1, <2>2
<1> QED BY <1>1, <1>2, <1>3, <1>4 DEF Sender

LEMMA OrderStep == Typed /\ Typed' /\ OrderInv /\ [Next]_vars => OrderInv'
<1> SUFFICES ASSUME Typed, Typed', OrderInv, [Next]_vars PROVE OrderInv'
  OBVIOUS
<1>1. ASSUME UNCHANGED <<queue, sends, producing, wire, holding>> PROVE OrderInv'
  <2>1. Underway' = Underway /\ Placed' = Placed
    BY <1>1 DEF Underway, InHand, Placed, Offering
  <2> QED BY <1>1, <2>1 DEF OrderInv, Kept, InOrder
<1>2. CASE Start
  BY <1>1, <1>2 DEF Start, logs, queueVars
<1>3. ASSUME NEW w \in Sockets, OkHttp(w) PROVE OrderInv'
  BY <1>1, <1>3 DEF OkHttp, OnOpen, Terminal, CallbackClose, CallbackForget, queueVars,
                    senderVars, logs
<1>4. CASE UNCHANGED vars
  BY <1>1, <1>4 DEF vars, queueVars, senderVars, logs
<1> QED BY <1>2, <1>3, <1>4, ProducerKeepsOrder, SenderKeepsOrder DEF Next

LEMMA OrderInit == Init => OrderInv
<1> SUFFICES ASSUME Init PROVE OrderInv
  OBVIOUS
<1>1. Underway = <<>>
  BY ConcatEmptySeq DEF Init, Underway, InHand
<1>2. Len(<<>>) = 0
  OBVIOUS
<1> QED BY <1>1, <1>2, TransportAssumption DEF Init, OrderInv, Kept, InOrder

\* Packets of one producer leave in the order it sent them and none twice, and
\* the queue keeps to its capacity, whatever drops, failures and reconnects
\* come in between and whatever the other producers do (lines 86-144).
THEOREM OrderOfSends == Spec => []SendOrderKept
<1>1. Typed /\ OrderInv => SendOrderKept
  <2> SUFFICES ASSUME Typed, OrderInv PROVE SendOrderKept
    OBVIOUS
  <2>1. ASSUME NEW p \in Producers, Offering(p), NEW i \in 1..Len(Underway),
               Underway[i] = Mine(p)
        PROVE  FALSE
    <3>1. Mine(p)[1] = p /\ Mine(p)[2] = sends[p] /\ Placed[p] = sends[p] - 1
      BY <2>1 DEF Mine, Placed
    <3>2. sends[p] <= sends[p] - 1
      BY <2>1, <3>1 DEF OrderInv, Kept
    <3>3. sends[p] \in Int
      BY TransportAssumption DEF Typed, TypeOK
    <3> QED BY <3>2, <3>3
  <2> QED BY <2>1 DEF SendOrderKept, OrderInv, Kept, InOrder
<1>2. Typed /\ [Next]_vars => Typed'
  BY TypedStep
<1> QED BY <1>1, <1>2, TypedInit, OrderInit, OrderStep, PTL DEF Spec

-----------------------------------------------------------------------------
(* The count of the drops.  DropsCounted is inductive as it stands, given what *)
(* the producers hold in mid-call (SenderShape).                               *)

LEMMA OffersFinite ==
  /\ IsFiniteSet({p \in Producers : Offering(p)})
  /\ Offers \in Nat
<1>1. {p \in Producers : Offering(p)} \in SUBSET Producers
  OBVIOUS
<1>2. IsFiniteSet({p \in Producers : Offering(p)})
  BY <1>1, TransportAssumption, FS_Subset
<1> QED BY <1>2, FS_CardinalityType DEF Offers

\* A producer enters or leaves the stretch between its two offers.
LEMMA OffersMove ==
  ASSUME Typed, NEW p \in Producers, NEW step, Goto(p, step)
  PROVE  /\ producing[p] = "idle" /\ step # "idle" => Offers' = Offers + 1
         /\ producing[p] # "idle" /\ step = "idle" => Offers' = Offers - 1
         /\ producing[p] # "idle" /\ step # "idle" => Offers' = Offers
<1> DEFINE S == {q \in Producers : producing[q] # "idle"}
           T == {q \in Producers : producing'[q] # "idle"}
<1>1. producing' = [producing EXCEPT ![p] = step] /\ DOMAIN producing = Producers
  BY DEF Goto, Typed, TypeOK
<1>2. S \in SUBSET Producers /\ IsFiniteSet(S)
  <2>1. S \in SUBSET Producers
    OBVIOUS
  <2> QED BY <2>1, TransportAssumption, FS_Subset
<1>3. Offers = Cardinality(S) /\ Offers' = Cardinality(T)
  BY DEF Offers, Offering
<1>4. /\ p \in S <=> producing[p] # "idle"
      /\ step # "idle" => T = S \cup {p}
      /\ step = "idle" => T = S \ {p}
  BY <1>1
<1> HIDE DEF S, T
<1>5. /\ Cardinality(S \cup {p}) = IF p \in S THEN Cardinality(S) ELSE Cardinality(S) + 1
      /\ Cardinality(S \ {p}) = IF p \in S THEN Cardinality(S) - 1 ELSE Cardinality(S)
  BY <1>2, FS_AddElement, FS_RemoveElement
<1> QED BY <1>3, <1>4, <1>5

LEMMA PassedFinite == ASSUME NEW S \in SUBSET Packet PROVE IsFiniteSet(S)
<1>1. IsFiniteSet(1..MaxSends)
  BY TransportAssumption, FS_Interval
<1>2. IsFiniteSet(Packet)
  BY <1>1, TransportAssumption, FS_Product DEF Packet
<1> QED BY <1>2, FS_Subset

\* A call of send() passes one packet more.
LEMMA PassedGrows ==
  ASSUME Typed, NEW p \in Producers, sends[p] < MaxSends,
         sends' = [sends EXCEPT ![p] = @ + 1]
  PROVE  Cardinality(Passed') = Cardinality(Passed) + 1
<1> USE TransportAssumption
<1> DEFINE new == <<p, sends[p] + 1>>
<1>t. sends \in [Producers -> 0..MaxSends]
  BY DEF Typed, TypeOK
<1>1. new \in Packet /\ new \notin Passed
  BY <1>t DEF Packet, Passed
<1>2. Passed' = Passed \cup {new}
  <2>1. ASSUME NEW q \in Producers, NEW n \in 1..MaxSends
        PROVE  n <= sends'[q] <=> n <= sends[q] \/ (q = p /\ n = sends[p] + 1)
    BY <1>t, <2>1
  <2>2. \A k \in Packet : /\ k[1] \in Producers /\ k[2] \in 1..MaxSends
                          /\ k = new <=> k[1] = p /\ k[2] = sends[p] + 1
    BY DEF Packet
  <2>3. \A k \in Packet : k \in Passed' <=> k \in Passed \/ k = new
    BY <2>1, <2>2 DEF Passed
  <2>4. Passed \in SUBSET Packet /\ Passed' \in SUBSET Packet
    BY DEF Passed
  <2> HIDE DEF new
  <2> QED BY <1>1, <2>3, <2>4
<1>3. IsFiniteSet(Passed)
  <2>1. Passed \in SUBSET Packet
    BY DEF Passed
  <2> QED BY <2>1, PassedFinite
<1> HIDE DEF new
<1> QED BY <1>1, <1>2, <1>3, FS_AddElement

LEMMA BooksInit == Init => DropsCounted
<1> SUFFICES ASSUME Init PROVE DropsCounted
  OBVIOUS
<1>1. Passed = {}
  <2>1. \A k \in Packet : k[1] \in Producers /\ k[2] \in 1..MaxSends
    BY DEF Packet
  <2> QED BY <2>1, TransportAssumption DEF Init, Passed
<1>2. {p \in Producers : Offering(p)} = {}
  BY DEF Init, Offering
<1>3. Cardinality(Passed) = 0 /\ Offers = 0
  BY <1>1, <1>2, FS_EmptySet DEF Offers
<1>4. Len(queue) = 0 /\ droppedCount = 0 /\ taken = 0 /\ early = 0
  BY DEF Init
<1> QED BY <1>3, <1>4 DEF DropsCounted

\* Nothing else touches the books.
LEMMA BooksUntouched ==
  ASSUME DropsCounted, UNCHANGED <<queue, droppedCount, taken, early, sends, producing>>
  PROVE  DropsCounted'
<1>1. Offers' = Offers /\ Passed' = Passed
  BY DEF Offers, Offering, Passed
<1> QED BY <1>1 DEF DropsCounted

LEMMA ProducerKeepsBooks ==
  ASSUME Typed, DropsCounted, NEW p \in Producers, Producer(p)
  PROVE  DropsCounted'
<1>t. /\ queue \in Seq(Packet) /\ droppedCount \in Nat /\ taken \in Nat /\ early \in Nat
      /\ producing \in [Producers -> {"idle", "full", "polled"}]
      /\ sends \in [Producers -> 0..MaxSends]
      /\ \A r \in Producers : Offering(r) => sends[r] > 0
  BY DEF Typed, TypeOK, SenderShape
<1>o. Offers \in Nat
  BY OffersFinite
<1>h. taken' = taken
  BY DEF Producer, SendUnstarted, Send, PollOldest, OfferAgain, senderVars, logs
<1> DEFINE books == Cardinality(Passed)
           books1 == Cardinality(Passed')
           len == Len(queue)
           len1 == Len(queue')
<1>b. books = len + Offers + droppedCount + taken + early
  BY DEF DropsCounted
<1>n. ASSUME books1 = len1 + Offers' + droppedCount' + taken + early'
      PROVE  DropsCounted'
  BY <1>n, <1>h DEF DropsCounted
<1>l. len \in Nat
  BY <1>t
<1>1. CASE SendUnstarted(p)
  <2>1. books1 = books + 1
    BY <1>1, PassedGrows DEF SendUnstarted
  <2>2. Offers' = Offers /\ len1 = len /\ droppedCount' = droppedCount /\ early' = early + 1
    BY <1>1 DEF SendUnstarted, Offers, Offering
  <2> HIDE DEF books, books1, len, len1
  <2> QED BY <1>t, <1>o, <1>l, <1>b, <1>n, <2>1, <2>2
<1>2. CASE Send(p)
  <2>1. books1 = books + 1 /\ droppedCount' = droppedCount /\ early' = early
    BY <1>2, PassedGrows DEF Send, senderVars, logs
  <2>2. CASE Len(queue) < QueueCap
    <3> DEFINE k == <<p, sends'[p]>>
    <3>1. queue' = Append(queue, k) /\ Offers' = Offers
      BY <1>2, <2>2 DEF Send, Offers, Offering
    <3>2. k \in Packet
      <4>1. sends'[p] \in 1..MaxSends
        BY <1>2, <1>t, TransportAssumption DEF Send
      <4> QED BY <4>1 DEF Packet
    <3> HIDE DEF k
    <3>3. len1 = len + 1
      BY <1>t, <3>1, <3>2, AppendProperties
    <3> HIDE DEF books, books1, len, len1
    <3> QED BY <1>t, <1>o, <1>l, <1>b, <1>n, <2>1, <3>1, <3>3
  <2>3. CASE ~(Len(queue) < QueueCap)
    <3>1. queue' = queue /\ Goto(p, "full") /\ producing[p] = "idle"
      BY <1>2, <2>3 DEF Send
    <3>2. Offers' = Offers + 1
      BY <3>1, OffersMove
    <3>3. len1 = len
      BY <3>1
    <3> HIDE DEF books, books1, len, len1
    <3> QED BY <1>t, <1>o, <1>l, <1>b, <1>n, <2>1, <3>2, <3>3
  <2> QED BY <2>2, <2>3
<1>3. CASE PollOldest(p)
  <2>1. Goto(p, "polled") /\ producing[p] = "full" /\ sends' = sends /\ early' = early
    BY <1>3 DEF PollOldest, senderVars, logs
  <2>2. Offers' = Offers
    BY <2>1, OffersMove
  <2>3. books1 = books
    BY <2>1 DEF Passed
  <2>4. \/ queue # <<>> /\ queue' = Tail(queue) /\ droppedCount' = droppedCount + 1
        \/ queue' = queue /\ droppedCount' = droppedCount
    BY <1>3 DEF PollOldest
  <2>5. \/ len1 = len - 1 /\ droppedCount' = droppedCount + 1
        \/ len1 = len /\ droppedCount' = droppedCount
    BY <1>t, <2>4, HeadTailProperties
  <2> HIDE DEF books, books1, len, len1
  <2> QED BY <1>t, <1>o, <1>l, <1>b, <1>n, <2>1, <2>2, <2>3, <2>5
<1>4. CASE OfferAgain(p)
  <2>1. Goto(p, "idle") /\ producing[p] = "polled" /\ sends' = sends /\ early' = early
    BY <1>4 DEF OfferAgain, senderVars, logs
  <2>2. Offers' = Offers - 1
    BY <2>1, OffersMove
  <2>3. books1 = books
    BY <2>1 DEF Passed
  <2>4. Mine(p) \in Packet
    <3>1. sends[p] \in 0..MaxSends /\ sends[p] > 0
      BY <1>t, <2>1 DEF Offering
    <3> QED BY <3>1, TransportAssumption DEF Mine, Packet
  <2>5. \/ queue' = Append(queue, Mine(p)) /\ droppedCount' = droppedCount
        \/ queue' = queue /\ droppedCount' = droppedCount + 1
    BY <1>4 DEF OfferAgain
  <2>6. \/ len1 = len + 1 /\ droppedCount' = droppedCount
        \/ len1 = len /\ droppedCount' = droppedCount + 1
    BY <1>t, <2>4, <2>5, AppendProperties
  <2> HIDE DEF books, books1, len, len1
  <2>7. books = len1 + (Offers - 1) + droppedCount' + taken + early
    <3>1. CASE len1 = len + 1 /\ droppedCount' = droppedCount
      BY <1>t, <1>o, <1>l, <1>b, <3>1
    <3>2. CASE len1 = len /\ droppedCount' = droppedCount + 1
      BY <1>t, <1>o, <1>l, <1>b, <3>2
    <3> QED BY <2>6, <3>1, <3>2
  <2> QED BY <1>n, <2>1, <2>2, <2>3, <2>7
<1> QED BY <1>1, <1>2, <1>3, <1>4 DEF Producer

LEMMA SenderKeepsBooks ==
  ASSUME Typed, DropsCounted, Sender
  PROVE  DropsCounted'
<1>t. queue \in Seq(Packet) /\ droppedCount \in Nat /\ taken \in Nat /\ early \in Nat
  BY DEF Typed, TypeOK
<1>1. CASE Take
  <2>1. /\ queue # <<>> /\ queue' = Tail(queue) /\ taken' = taken + 1
        /\ UNCHANGED <<droppedCount, early, sends, producing>>
    BY <1>1 DEF Take
  <2>2. Offers' = Offers /\ Passed' = Passed /\ Offers \in Nat
    BY <2>1, OffersFinite DEF Offers, Offering, Passed
  <2>3. Len(queue') = Len(queue) - 1 /\ Len(queue) \in Nat
    BY <1>t, <2>1, HeadTailProperties
  <2> QED BY <1>t, <2>1, <2>2, <2>3 DEF DropsCounted
<1>2. CASE Reuse \/ NewWebSocket \/ Assign \/ BadUrl \/ SendOnSocket \/ ResetBackoff
           \/ SenderClose \/ SenderForget \/ Backoff \/ Doubled
  BY <1>2, BooksUntouched DEF Reuse, NewWebSocket, Assign, BadUrl, SendOnSocket,
       ResetBackoff, SenderClose, SenderForget, Backoff, Doubled, queueVars, logs
<1> QED BY <1>1, <1>2 DEF Sender

LEMMA BooksStep == Typed /\ DropsCounted /\ [Next]_vars => DropsCounted'
<1> SUFFICES ASSUME Typed, DropsCounted, [Next]_vars PROVE DropsCounted'
  OBVIOUS
<1>1. CASE Start
  BY <1>1, BooksUntouched DEF Start, logs, queueVars
<1>2. ASSUME NEW w \in Sockets, OkHttp(w) PROVE DropsCounted'
  BY <1>2, BooksUntouched DEF OkHttp, OnOpen, Terminal, CallbackClose, CallbackForget,
       queueVars, senderVars, logs
<1>3. CASE UNCHANGED vars
  BY <1>3, BooksUntouched DEF vars, queueVars, senderVars, logs
<1> QED BY <1>1, <1>2, <1>3, ProducerKeepsBooks, SenderKeepsBooks DEF Next

\* With every producer and the sender in mid-call, each packet the started
\* transport was given waits, is offered, was taken by the sender, or was counted
\* as dropped exactly once (lines 98-121).
THEOREM DropsAreCounted == Spec => []DropsCounted
BY TypedInit, TypedStep, BooksInit, BooksStep, PTL DEF Spec

-----------------------------------------------------------------------------
(* The refinement of LossyLink: what the sender holds and what is queued are  *)
(* one line, which packets enter at its end and may be lost from, and whose   *)
(* head is what is sent.                                                      *)

\* What the sender holds stands in front of what is queued.
LEMMA HeldInFront ==
  ASSUME NEW h \in Packet, NEW q \in Seq(Packet)
  PROVE  LET s == <<h>> \o q
         IN  /\ s \in Seq(Packet) /\ s # <<>> /\ Len(s) = Len(q) + 1 /\ Len(q) \in Nat
             /\ Head(s) = h /\ Tail(s) = q
             /\ s[1] = h /\ \A i \in 1..Len(q) : s[i + 1] = q[i]
<1> DEFINE s == <<h>> \o q
           n == Len(q)
<1>1. <<h>> \in Seq(Packet) /\ n \in Nat
  OBVIOUS
<1>2. /\ s \in Seq(Packet) /\ Len(s) = 1 + n
      /\ \A i \in 1..1 + n : s[i] = IF i <= 1 THEN <<h>>[i] ELSE q[i - 1]
  BY <1>1, ConcatProperties
<1> HIDE DEF s
<1>3. s[1] = h /\ s # <<>>
  BY <1>1, <1>2
<1>4. ASSUME NEW i \in 1..n PROVE s[i + 1] = q[i]
  <2>1. i + 1 \in 1..1 + n /\ ~(i + 1 <= 1) /\ i + 1 - 1 = i
    BY <1>1
  <2> QED BY <1>2, <2>1
<1>5. /\ Head(s) = s[1] /\ Tail(s) \in Seq(Packet) /\ Len(Tail(s)) = n
      /\ \A i \in 1..n : Tail(s)[i] = s[i + 1]
  BY <1>1, <1>2, <1>3, HeadTailProperties
<1>6. Tail(s) = q
  BY <1>4, <1>5, SeqEqual
<1>7. Len(s) = n + 1
  BY <1>1, <1>2
<1> QED BY <1>1, <1>2, <1>3, <1>4, <1>5, <1>6, <1>7 DEF s

\* A packet lost from the front, and one lost behind the first.
LEMMA LostFromFront ==
  ASSUME NEW s \in Seq(Packet), s # <<>>
  PROVE  Link!RemoveAt(s, 1) = Tail(s) /\ 1 \in 1..Len(s)
<1>1. Len(s) \in Nat /\ Len(s) >= 1
  OBVIOUS
<1>2. SubSeq(s, 1, 0) = <<>>
  BY SubSeqEmpty
<1>3. SubSeq(s, 2, Len(s)) = Tail(s)
  BY <1>1, TailIsSubSeq
<1>4. Tail(s) \in Seq(Packet)
  BY HeadTailProperties
<1>5. <<>> \o Tail(s) = Tail(s)
  BY <1>4, ConcatEmptySeq
<1>6. 1 - 1 = 0 /\ 1 + 1 = 2
  OBVIOUS
<1> QED BY <1>1, <1>2, <1>3, <1>5, <1>6 DEF Link!RemoveAt

LEMMA LostBehindFirst ==
  ASSUME NEW h \in Packet, NEW q \in Seq(Packet), q # <<>>
  PROVE  /\ Link!RemoveAt(<<h>> \o q, 2) = <<h>> \o Tail(q)
         /\ 2 \in 1..Len(<<h>> \o q)
<1> DEFINE s == <<h>> \o q
           n == Len(q)
           a == SubSeq(s, 1, 1)
           b == SubSeq(s, 3, Len(s))
<1>1. /\ s \in Seq(Packet) /\ Len(s) = n + 1 /\ n \in Nat /\ n >= 1
      /\ s[1] = h /\ \A i \in 1..n : s[i + 1] = q[i]
  BY HeldInFront
<1>2. /\ Tail(q) \in Seq(Packet) /\ Len(Tail(q)) = n - 1
      /\ \A i \in 1..n - 1 : Tail(q)[i] = q[i + 1]
  BY HeadTailProperties
<1> HIDE DEF s, n
<1>3. a \in Seq(Packet) /\ Len(a) = 1 /\ a[1] = h
  BY <1>1
<1>4. /\ b \in Seq(Packet) /\ Len(b) = n - 1
      /\ \A i \in 1..n - 1 : b[i] = s[i + 2]
  BY <1>1
<1> HIDE DEF a, b
<1>5. a = <<h>>
  BY <1>3, SeqEqual
<1>6. ASSUME NEW i \in 1..n - 1 PROVE b[i] = Tail(q)[i]
  <2>1. i + 1 \in 1..n /\ (i + 1) + 1 = i + 2
    BY <1>1
  <2> QED BY <1>1, <1>2, <1>4, <2>1
<1>7. b = Tail(q)
  BY <1>2, <1>4, <1>6, SeqEqual
<1>8. 2 - 1 = 1 /\ 2 + 1 = 3
  OBVIOUS
<1>9. Link!RemoveAt(s, 2) = <<h>> \o Tail(q)
  BY <1>5, <1>7, <1>8 DEF Link!RemoveAt, a, b
<1>10. 2 \in 1..Len(s)
  BY <1>1
<1> QED BY <1>9, <1>10 DEF s

\* What has been handed to the transport and has not reached a socket.
Pending == InHand \o queue

\* A step of the queue while the sender's hand stays as it is.
LEMMA QueueIsLine ==
  ASSUME Typed, holding' = holding
  PROVE  /\ \A k \in Packet : queue' = Append(queue, k) => Pending' = Append(Pending, k)
         /\ queue # <<>> /\ queue' = Tail(queue)
              => \E k \in 1..Len(Pending) : Pending' = Link!RemoveAt(Pending, k)
         /\ queue' = queue => Pending' = Pending
         /\ Len(Pending) <= Len(queue) + 1
<1>t. holding \in Packet \cup {<<>>} /\ queue \in Seq(Packet)
  BY DEF Typed, TypeOK
<1>i. InHand' = InHand
  BY DEF InHand
<1>1. CASE holding = <<>>
  <2>1. InHand = <<>>
    BY <1>1 DEF InHand
  <2>2. Pending = queue
    BY <1>t, <2>1, ConcatEmptySeq DEF Pending
  <2>3. ASSUME NEW k \in Packet, queue' = Append(queue, k) PROVE Pending' = Append(Pending, k)
    <3>1. queue' \in Seq(Packet)
      BY <1>t, <2>3, AppendProperties
    <3>2. Pending' = queue'
      BY <1>i, <2>1, <3>1, ConcatEmptySeq DEF Pending
    <3> QED BY <2>2, <2>3, <3>2
  <2>4. ASSUME queue # <<>>, queue' = Tail(queue)
        PROVE  \E k \in 1..Len(Pending) : Pending' = Link!RemoveAt(Pending, k)
    <3>1. queue' \in Seq(Packet)
      BY <1>t, <2>4, HeadTailProperties
    <3>2. Pending' = queue'
      BY <1>i, <2>1, <3>1, ConcatEmptySeq DEF Pending
    <3> QED BY <1>t, <2>2, <2>4, <3>2, LostFromFront
  <2>5. Len(Pending) <= Len(queue) + 1
    BY <1>t, <2>2
  <2> QED BY <1>i, <2>3, <2>4, <2>5 DEF Pending
<1>2. CASE holding \in Packet
  <2>n. \A x \in Packet : x # <<>>
    BY DEF Packet
  <2>1. InHand = <<holding>>
    BY <1>2, <2>n DEF InHand
  <2>2. Pending = <<holding>> \o queue /\ Pending' = <<holding>> \o queue'
    BY <1>i, <2>1 DEF Pending
  <2>3. ASSUME NEW k \in Packet, queue' = Append(queue, k) PROVE Pending' = Append(Pending, k)
    <3>1. <<holding>> \in Seq(Packet) /\ <<k>> \in Seq(Packet)
      BY <1>2
    <3>2. queue' = queue \o <<k>>
      BY <1>t, <2>3, AppendIsConcat
    <3>3. <<holding>> \o (queue \o <<k>>) = (<<holding>> \o queue) \o <<k>>
      BY <1>t, <3>1, ConcatAssociative
    <3>4. <<holding>> \o queue \in Seq(Packet)
      BY <1>t, <3>1, ConcatProperties
    <3>5. Append(<<holding>> \o queue, k) = (<<holding>> \o queue) \o <<k>>
      BY <3>4, AppendIsConcat
    <3> QED BY <2>2, <3>2, <3>3, <3>5
  <2>4. ASSUME queue # <<>>, queue' = Tail(queue)
        PROVE  \E k \in 1..Len(Pending) : Pending' = Link!RemoveAt(Pending, k)
    BY <1>2, <1>t, <2>2, <2>4, LostBehindFirst
  <2>5. Len(Pending) <= Len(queue) + 1
    BY <1>2, <1>t, <2>2, HeldInFront
  <2> QED BY <2>2, <2>3, <2>4, <2>5
<1> QED BY <1>t, <1>1, <1>2

\* Names for the steps of the line.
LineStep == [Link!Next]_(Link!vars)

LEMMA LineIs ==
  /\ UNCHANGED <<wire, Pending, Placed>> => LineStep
  /\ \A k \in 1..Len(Pending) :
       Pending' = Link!RemoveAt(Pending, k) /\ UNCHANGED <<wire, Placed>> => LineStep
  /\ Pending # <<>> /\ wire' = Append(wire, Head(Pending)) /\ Pending' = Tail(Pending)
       /\ Placed' = Placed => LineStep
  /\ \A p \in Producers, n \in 1..MaxSends :
       n > Placed[p] /\ Placed' = [Placed EXCEPT ![p] = n] /\ wire' = wire
         => /\ Pending' = Pending => LineStep
            /\ Len(Pending) <= QueueCap /\ Pending' = Append(Pending, <<p, n>>) => LineStep
<1>1. UNCHANGED <<wire, Pending, Placed>> => LineStep
  BY DEF LineStep, Link!vars, Pending
<1>2. ASSUME NEW k \in 1..Len(Pending), Pending' = Link!RemoveAt(Pending, k),
             UNCHANGED <<wire, Placed>>
      PROVE  LineStep
  BY <1>2 DEF LineStep, Link!Next, Link!Lose, Pending
<1>3. ASSUME Pending # <<>>, wire' = Append(wire, Head(Pending)), Pending' = Tail(Pending),
             Placed' = Placed
      PROVE  LineStep
  BY <1>3 DEF LineStep, Link!Next, Link!Leave, Pending
<1>4. ASSUME NEW p \in Producers, NEW n \in 1..MaxSends, n > Placed[p],
             Placed' = [Placed EXCEPT ![p] = n], wire' = wire
      PROVE  /\ Pending' = Pending => LineStep
             /\ Len(Pending) <= QueueCap /\ Pending' = Append(Pending, <<p, n>>) => LineStep
  BY <1>4 DEF LineStep, Link!Next, Link!Enter, Link!TurnAway, Pending
<1> QED BY <1>1, <1>2, <1>3, <1>4

\* A producer is done with its packet when it has entered the line or is turned away.
LEMMA ProducerOfLine ==
  ASSUME Typed, Len(queue) <= QueueCap, NEW p \in Producers, Producer(p)
  PROVE  LineStep
<1> USE TransportAssumption
<1>t. /\ queue \in Seq(Packet)
      /\ producing \in [Producers -> {"idle", "full", "polled"}]
      /\ sends \in [Producers -> 0..MaxSends]
      /\ \A r \in Producers : Offering(r) => sends[r] > 0
  BY DEF Typed, TypeOK, SenderShape
<1>h. UNCHANGED <<wire, holding>>
  BY DEF Producer, SendUnstarted, Send, PollOldest, OfferAgain, senderVars, logs
<1>q. /\ \A k \in Packet : queue' = Append(queue, k) => Pending' = Append(Pending, k)
      /\ queue # <<>> /\ queue' = Tail(queue)
           => \E k \in 1..Len(Pending) : Pending' = Link!RemoveAt(Pending, k)
      /\ queue' = queue => Pending' = Pending
      /\ Len(Pending) <= Len(queue) + 1
  BY <1>h, QueueIsLine
<1>l. Len(queue) \in Nat /\ Len(Pending) \in Nat
  BY <1>t, <1>h DEF Pending, InHand, Typed, TypeOK
<1>s. ASSUME NEW n, n = sends'[p], sends'[p] \in 1..MaxSends,
             Placed[p] = sends'[p] - 1, Placed'[p] = sends'[p],
             \A r \in Producers \ {p} : Placed'[r] = Placed[r],
             \/ queue' = queue
             \/ Len(queue) < QueueCap /\ queue' = Append(queue, <<p, sends'[p]>>)
      PROVE  LineStep
  <2>1. n \in 1..MaxSends /\ n > Placed[p] /\ <<p, n>> \in Packet
    BY <1>s DEF Packet
  <2>2. Placed' = [Placed EXCEPT ![p] = n]
    BY <1>s DEF Placed
  <2>3. CASE queue' = queue
    BY <1>h, <1>q, <2>1, <2>2, <2>3, LineIs
  <2>4. CASE Len(queue) < QueueCap /\ queue' = Append(queue, <<p, n>>)
    <3>1. Len(Pending) <= QueueCap
      BY <1>l, <1>q, <2>4
    <3>2. Pending' = Append(Pending, <<p, n>>)
      BY <1>q, <2>1, <2>4
    <3> QED BY <1>h, <2>1, <2>2, <3>1, <3>2, LineIs
  <2> QED BY <1>s, <2>3, <2>4
<1>o. \A r \in Producers : Placed[r] = IF Offering(r) THEN sends[r] - 1 ELSE sends[r]
  BY DEF Placed
<1>p. \A r \in Producers : Placed'[r] = IF Offering(r)' THEN sends'[r] - 1 ELSE sends'[r]
  BY DEF Placed
<1>1. CASE SendUnstarted(p)
  <2>1. /\ sends[p] < MaxSends /\ sends' = [sends EXCEPT ![p] = @ + 1] /\ queue' = queue
        /\ producing[p] = "idle" /\ producing' = producing
    BY <1>1 DEF SendUnstarted
  <2>2. sends'[p] = sends[p] + 1 /\ sends'[p] \in 1..MaxSends
        /\ \A r \in Producers \ {p} : sends'[r] = sends[r]
    BY <1>t, <2>1
  <2>3. Placed[p] = sends'[p] - 1 /\ Placed'[p] = sends'[p]
        /\ \A r \in Producers \ {p} : Placed'[r] = Placed[r]
    BY <1>o, <1>p, <1>t, <2>1, <2>2 DEF Offering
  <2> QED BY <1>s, <2>1, <2>2, <2>3
<1>2. CASE Send(p)
  <2>1. /\ sends[p] < MaxSends /\ sends' = [sends EXCEPT ![p] = @ + 1]
        /\ producing[p] = "idle"
        /\ \/ Len(queue) < QueueCap /\ queue' = Append(queue, <<p, sends'[p]>>)
              /\ producing' = producing
           \/ queue' = queue /\ producing' = [producing EXCEPT ![p] = "full"]
    BY <1>2 DEF Send, Goto
  <2>2. sends'[p] = sends[p] + 1 /\ sends'[p] \in 1..MaxSends
        /\ \A r \in Producers \ {p} : sends'[r] = sends[r]
    BY <1>t, <2>1
  <2>3. CASE Len(queue) < QueueCap /\ queue' = Append(queue, <<p, sends'[p]>>)
             /\ producing' = producing
    <3>1. ~Offering(p) /\ \A r \in Producers : Offering(r)' = Offering(r)
      BY <2>1, <2>3 DEF Offering
    <3>2. sends[p] \in Int
      BY <1>t
    <3>3. Placed[p] = sends'[p] - 1 /\ Placed'[p] = sends'[p]
      BY <1>o, <1>p, <2>2, <3>1, <3>2
    <3>4. \A r \in Producers \ {p} : Placed'[r] = Placed[r]
      BY <1>o, <1>p, <2>2, <3>1
    <3> QED BY <1>s, <2>2, <2>3, <3>3, <3>4
  <2>4. CASE queue' = queue /\ producing' = [producing EXCEPT ![p] = "full"]
    <3>1. \A r \in Producers : Placed'[r] = Placed[r]
      BY <1>o, <1>p, <1>t, <2>1, <2>2, <2>4 DEF Offering
    <3>2. Placed' = Placed
      BY <3>1 DEF Placed
    <3> QED BY <1>h, <1>q, <2>4, <3>2, LineIs
  <2> QED BY <2>1, <2>3, <2>4
<1>3. CASE PollOldest(p)
  <2>1. /\ producing[p] = "full" /\ producing' = [producing EXCEPT ![p] = "polled"]
        /\ sends' = sends
        /\ (queue # <<>> /\ queue' = Tail(queue)) \/ queue' = queue
    BY <1>3 DEF PollOldest, Goto
  <2>2. \A r \in Producers : Offering(r)' = Offering(r)
    BY <1>t, <2>1 DEF Offering
  <2>3. Placed' = Placed
    BY <2>1, <2>2 DEF Placed
  <2> QED BY <1>h, <1>q, <2>1, <2>3, LineIs
<1>4. CASE OfferAgain(p)
  <2>1. /\ producing[p] = "polled" /\ producing' = [producing EXCEPT ![p] = "idle"]
        /\ sends' = sends
        /\ \/ Len(queue) < QueueCap /\ queue' = Append(queue, <<p, sends'[p]>>)
           \/ queue' = queue
    BY <1>4 DEF OfferAgain, Goto, Mine
  <2>2. sends'[p] \in 1..MaxSends
    BY <1>t, <2>1 DEF Offering
  <2>3. Placed[p] = sends'[p] - 1 /\ Placed'[p] = sends'[p]
        /\ \A r \in Producers \ {p} : Placed'[r] = Placed[r]
    BY <1>o, <1>p, <1>t, <2>1 DEF Offering
  <2> QED BY <1>s, <2>1, <2>2, <2>3
<1> QED BY <1>1, <1>2, <1>3, <1>4 DEF Producer

\* What the sender takes stays at the head of the line until it is sent or lost.
LEMMA SenderOfLine ==
  ASSUME Typed, Sender
  PROVE  LineStep
<1>t. /\ queue \in Seq(Packet) /\ holding \in Packet \cup {<<>>}
      /\ holding # <<>> <=> sender \in {"ensure", "assign", "send"}
  BY DEF Typed, TypeOK, SenderShape
<1>s. Placed' = Placed
  <2>1. UNCHANGED <<sends, producing>>
    BY DEF Sender, Take, Reuse, NewWebSocket, Assign, BadUrl, SendOnSocket, ResetBackoff,
           SenderClose, SenderForget, Backoff, Doubled, queueVars, logs
  <2> QED BY <2>1 DEF Placed, Offering
<1>n. \A x \in Packet : x # <<>>
  BY DEF Packet
<1>h. ASSUME holding \in Packet, holding' = <<>>, queue' = queue
      PROVE  /\ Pending \in Seq(Packet) /\ Pending # <<>>
             /\ Head(Pending) = holding /\ Pending' = Tail(Pending)
  <2>1. InHand = <<holding>> /\ InHand' = <<>>
    BY <1>h, <1>n DEF InHand
  <2>2. Pending = <<holding>> \o queue
    BY <2>1 DEF Pending
  <2>3. Pending' = queue
    BY <1>h, <1>t, <2>1, ConcatEmptySeq DEF Pending
  <2> QED BY <1>h, <1>t, <2>2, <2>3, HeldInFront
<1>1. CASE Take
  <2>1. /\ queue # <<>> /\ holding = <<>> /\ holding' = Head(queue)
        /\ queue' = Tail(queue) /\ wire' = wire
    BY <1>1, <1>t DEF Take
  <2>2. /\ Head(queue) \in Packet /\ Tail(queue) \in Seq(Packet)
        /\ Len(Tail(queue)) = Len(queue) - 1 /\ Len(queue) \in Nat
        /\ \A i \in 1..Len(Tail(queue)) : Tail(queue)[i] = queue[i + 1]
    BY <1>t, <2>1, HeadTailProperties
  <2>3. queue = <<Head(queue)>> \o Tail(queue)
    BY <1>t, <2>1, <2>2
  <2>4. InHand = <<>> /\ InHand' = <<Head(queue)>>
    BY <1>n, <2>1, <2>2 DEF InHand
  <2>5. Pending = queue
    BY <1>t, <2>4, ConcatEmptySeq DEF Pending
  <2>6. Pending' = Pending
    BY <2>1, <2>3, <2>4, <2>5 DEF Pending
  <2> QED BY <1>s, <2>1, <2>6, LineIs
<1>2. CASE BadUrl
  <2>1. holding \in Packet /\ holding' = <<>> /\ queue' = queue /\ wire' = wire
    BY <1>2, <1>t DEF BadUrl, queueVars, logs
  <2>2. Pending' = Link!RemoveAt(Pending, 1) /\ 1 \in 1..Len(Pending)
    BY <1>h, <2>1, LostFromFront
  <2> QED BY <1>s, <2>1, <2>2, LineIs
<1>3. CASE SendOnSocket
  <2>1. /\ holding \in Packet /\ holding' = <<>> /\ queue' = queue
        /\ wire' = Append(wire, holding) \/ wire' = wire
    BY <1>3, <1>t DEF SendOnSocket, queueVars
  <2>2. CASE wire' = wire
    <3>1. Pending' = Link!RemoveAt(Pending, 1) /\ 1 \in 1..Len(Pending)
      BY <1>h, <2>1, LostFromFront
    <3> QED BY <1>s, <2>2, <3>1, LineIs
  <2>3. CASE wire' = Append(wire, holding)
    BY <1>h, <1>s, <2>1, <2>3, LineIs
  <2> QED BY <2>1, <2>2, <2>3
<1>4. CASE Reuse \/ NewWebSocket \/ Assign \/ ResetBackoff \/ SenderClose
           \/ SenderForget \/ Backoff \/ Doubled
  <2>1. UNCHANGED <<queue, holding, wire>>
    BY <1>4 DEF Reuse, NewWebSocket, Assign, ResetBackoff, SenderClose, SenderForget,
                Backoff, Doubled, queueVars, logs
  <2>2. Pending' = Pending
    BY <2>1 DEF Pending, InHand
  <2> QED BY <1>s, <2>1, <2>2, LineIs
<1> QED BY <1>1, <1>2, <1>3, <1>4 DEF Sender

LEMMA StepOfLine == Typed /\ OrderInv /\ [Next]_vars => LineStep
<1> SUFFICES ASSUME Typed, OrderInv, [Next]_vars PROVE LineStep
  OBVIOUS
<1>1. ASSUME UNCHANGED <<queue, sends, producing, wire, holding>> PROVE LineStep
  <2>1. Pending' = Pending /\ Placed' = Placed
    BY <1>1 DEF Pending, InHand, Placed, Offering
  <2> QED BY <1>1, <2>1, LineIs
<1>2. CASE Start
  BY <1>1, <1>2 DEF Start, logs, queueVars
<1>3. ASSUME NEW w \in Sockets, OkHttp(w) PROVE LineStep
  BY <1>1, <1>3 DEF OkHttp, OnOpen, Terminal, CallbackClose, CallbackForget, queueVars,
                    senderVars, logs
<1>4. CASE UNCHANGED vars
  BY <1>1, <1>4 DEF vars, queueVars, senderVars, logs
<1>5. Len(queue) <= QueueCap
  BY DEF OrderInv
<1> QED BY <1>2, <1>3, <1>4, <1>5, ProducerOfLine, SenderOfLine DEF Next

\* The transport implements LossyLink: whatever its five kinds of threads do between
\* two accesses of a shared field, nothing is sent out of turn, twice, or without
\* having been handed over, for any producers, queue, sockets and packets
\* (TransportClient.kt 86-178).
THEOREM TransportIsLossyLink == Spec => ImplementsLink
<1>1. Init => Link!Init
  <2> SUFFICES ASSUME Init PROVE Link!Init
    OBVIOUS
  <2>1. InHand \o queue = <<>> /\ wire = <<>>
    BY ConcatEmptySeq DEF Init, InHand
  <2>2. Placed = [p \in Producers |-> 0]
    BY DEF Init, Placed, Offering
  <2> QED BY <2>1, <2>2 DEF Link!Init
<1>2. Typed /\ OrderInv /\ [Next]_vars => [Link!Next]_(Link!vars)
  BY StepOfLine DEF LineStep
<1> QED BY <1>1, <1>2, TypedInit, TypedStep, OrderInit, OrderStep, PTL
        DEF Spec, ImplementsLink, Link!Spec

=============================================================================
