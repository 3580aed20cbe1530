-------------------------- MODULE LivePipelineProofs --------------------------
(***************************************************************************)
(* Proofs about LivePipeline, for every finite set of phones, every choice *)
(* of the mortal ones, and all sizes of queue, buffer and window.          *)
(*                                                                         *)
(* TypeOK is inductive with the link it lacks between the two ends of a    *)
(* queue, that a phone without a connection has none, and with why a phone *)
(* that comes back under its old record will be rid of it.                 *)
(***************************************************************************)
EXTENDS LivePipeline, TLAPS

\* Pruning takes the queue along, and only a connection fills one.
QueuesConnected == \A p \in Phones \ connections : pending[p] = 0

\* The record of a phone that died was made by a socket of a life that is over.
DeadAreOrphans == connections \ alive \subseteq orphans

LiveInv == TypeOK /\ QueuesConnected /\ DeadAreOrphans

LEMMA SmallerBound ==
  ASSUME NEW m \in Nat, NEW n \in Nat
  PROVE  Smaller(m, n) \in 0..n /\ Smaller(m, n) \in Nat /\ Smaller(m, n) <= m
  BY DEF Smaller

LEMMA DrainedBound ==
  ASSUME TypeOK, NEW p \in Phones
  PROVE  /\ Drained(p) \in Nat /\ Drained(p) <= pending[p]
         /\ pending[p] - Drained(p) \in 0..QueueCap
         /\ pending[p] = 0 => pending[p] - Drained(p) = 0
<1>1. pending[p] \in Nat /\ pending[p] <= QueueCap /\ QueueCap \in Nat /\ MaxPop \in Nat
  <2>1. pending[p] \in 0..QueueCap
    BY DEF TypeOK
  <2> QED BY <2>1, LiveAssumption
<1>2. Drained(p) \in Nat /\ Drained(p) <= pending[p]
  <2>1. Smaller(pending[p], MaxPop) \in Nat /\ Smaller(pending[p], MaxPop) <= pending[p]
    BY <1>1, SmallerBound
  <2> QED BY <2>1, <1>1 DEF Drained
<1> QED BY <1>1, <1>2

LEMMA FilledBound ==
  ASSUME TypeOK, NEW p \in Phones
  PROVE  Filled(p) \in 0..BufferCap
<1>1. buffered[p] \in Nat /\ BufferCap \in Nat /\ Drained(p) \in Nat
  BY LiveAssumption, DrainedBound DEF TypeOK
<1>2. buffered[p] + Drained(p) \in Nat
  BY <1>1
<1> QED BY <1>1, <1>2, SmallerBound DEF Filled

LEMMA InitLive == Init => LiveInv
<1> SUFFICES ASSUME Init PROVE LiveInv
  OBVIOUS
<1>1. 0 \in 0..QueueCap /\ 0 \in 0..BufferCap /\ 0 \in 0..MaxKills
  BY LiveAssumption
<1>2. TypeOK
  BY <1>1 DEF Init, TypeOK
<1>3. QueuesConnected /\ DeadAreOrphans
  BY DEF Init, QueuesConnected, DeadAreOrphans
<1> QED BY <1>2, <1>3 DEF LiveInv

LEMMA IterateKeeps ==
  ASSUME LiveInv, Iterate
  PROVE  LiveInv'
<1>1. TypeOK /\ QueuesConnected /\ DeadAreOrphans
  BY DEF LiveInv
<1>2. UNCHANGED <<alive, connections, orphans, behind, registered, kills>>
  BY DEF Iterate
<1>3. pending' = [p \in Phones |-> pending[p] - Drained(p)]
  BY DEF Iterate
<1>4. pending' \in [Phones -> 0..QueueCap]
  BY <1>1, <1>3, DrainedBound
<1>5. buffered' \in [Phones -> 0..BufferCap]
  <2>1. buffered' = [p \in Phones |->
          IF p \in registered /\ Ready THEN Filled(p) - Window ELSE Filled(p)]
    BY DEF Iterate
  <2>2. ASSUME NEW p \in Phones
        PROVE  (IF p \in registered /\ Ready THEN Filled(p) - Window ELSE Filled(p))
                 \in 0..BufferCap
    <3>1. Filled(p) \in 0..BufferCap /\ BufferCap \in Nat /\ Window \in Nat
      BY <1>1, FilledBound, LiveAssumption
    <3>2. p \in registered /\ Ready => Filled(p) >= Window
      BY DEF Ready
    <3>3. p \in registered /\ Ready => Filled(p) - Window \in 0..BufferCap
      BY <3>1, <3>2
    <3> QED BY <3>1, <3>3
  <2> QED BY <2>1, <2>2
<1>6. fresh' \in BOOLEAN /\ crashed' \in BOOLEAN
  BY DEF Iterate
<1>7. TypeOK'
  BY <1>1, <1>2, <1>4, <1>5, <1>6 DEF TypeOK
<1>8. QueuesConnected' /\ DeadAreOrphans'
  BY <1>1, <1>2, <1>3, DrainedBound DEF QueuesConnected, DeadAreOrphans
<1> QED BY <1>7, <1>8 DEF LiveInv

LEMMA NextLive == LiveInv /\ [DrillNext]_vars => LiveInv'
<1> SUFFICES ASSUME LiveInv, [DrillNext]_vars PROVE LiveInv'
  OBVIOUS
<1> USE LiveAssumption
<1>1. TypeOK /\ QueuesConnected /\ DeadAreOrphans
  BY DEF LiveInv
<1>2. ASSUME NEW p \in Phones, Stream(p) PROVE LiveInv'
  <2>1. Smaller(pending[p] + 1, QueueCap) \in 0..QueueCap
    <3>1. pending[p] + 1 \in Nat /\ QueueCap \in Nat
      BY <1>1 DEF TypeOK
    <3> QED BY <3>1, SmallerBound
  <2>2. TypeOK'
    BY <1>1, <1>2, <2>1 DEF Stream, TypeOK
  <2>3. QueuesConnected' /\ DeadAreOrphans'
    BY <1>1, <1>2 DEF Stream, TypeOK, QueuesConnected, DeadAreOrphans
  <2> QED BY <2>2, <2>3 DEF LiveInv
<1>3. ASSUME NEW p \in Phones, Refuse(p) PROVE LiveInv'
  <2>1. TypeOK'
    BY <1>1, <1>3 DEF Refuse, TypeOK
  <2>2. QueuesConnected' /\ DeadAreOrphans'
    BY <1>1, <1>3 DEF Refuse, TypeOK, QueuesConnected, DeadAreOrphans
  <2> QED BY <2>1, <2>2 DEF LiveInv
<1>4. ASSUME NEW p \in Phones, Kill(p) PROVE LiveInv'
  <2>1. TypeOK'
    BY <1>1, <1>4 DEF Kill, TypeOK
  <2>2. QueuesConnected' /\ DeadAreOrphans'
    BY <1>1, <1>4 DEF Kill, TypeOK, QueuesConnected, DeadAreOrphans
  <2> QED BY <2>1, <2>2 DEF LiveInv
<1>5. ASSUME NEW p \in Phones, Revive(p) PROVE LiveInv'
  <2>1. TypeOK'
    BY <1>1, <1>5 DEF Revive, TypeOK, DeadAreOrphans
  <2>2. QueuesConnected' /\ DeadAreOrphans'
    BY <1>1, <1>5 DEF Revive, TypeOK, QueuesConnected, DeadAreOrphans
  <2> QED BY <2>1, <2>2 DEF LiveInv
<1>6. ASSUME NEW p \in Phones, Prune(p) PROVE LiveInv'
  <2>1. TypeOK'
    BY <1>1, <1>6 DEF Prune, TypeOK
  <2>2. QueuesConnected' /\ DeadAreOrphans'
    BY <1>1, <1>6 DEF Prune, TypeOK, QueuesConnected, DeadAreOrphans
  <2> QED BY <2>1, <2>2 DEF LiveInv
<1>7. ASSUME NEW p \in Phones, DropPhone(p) PROVE LiveInv'
  <2>1. TypeOK'
    BY <1>1, <1>7 DEF DropPhone, TypeOK
  <2>2. QueuesConnected' /\ DeadAreOrphans'
    BY <1>1, <1>7 DEF DropPhone, TypeOK, QueuesConnected, DeadAreOrphans
  <2> QED BY <2>1, <2>2 DEF LiveInv
<1>8. CASE UNCHANGED vars
  BY <1>1, <1>8 DEF vars, LiveInv, TypeOK, QueuesConnected, DeadAreOrphans
<1> QED BY <1>2, <1>3, <1>4, <1>5, <1>6, <1>7, <1>8, IterateKeeps DEF DrillNext, LoopNext

\* The invariant of the drill, and so of the loop without an operator.
THEOREM Invariance == DrillSpec => []LiveInv
<1> QED BY InitLive, NextLive, PTL DEF DrillSpec

\* Type correctness of the drill: no queue or buffer is overdrawn or overfull,
\* for any sizes (live_two_phones_radar.py 136-218, dsp_loop.py 130-236).
THEOREM TypeCorrect == DrillSpec => []TypeOK
<1>1. LiveInv => TypeOK
  BY DEF LiveInv
<1> QED BY <1>1, Invariance, PTL

\* Without an operator no phone is ever dropped, and live_loop does not raise
\* even when every phone was killed.
AllRegistered == registered = Phones /\ (Phones # {} => ~crashed)

THEOREM NobodyIsDropped == LiveSpec => []AllRegistered
<1>1. Init => AllRegistered
  BY DEF Init, AllRegistered
<1>2. AllRegistered /\ [LoopNext]_vars => AllRegistered'
  <2> SUFFICES ASSUME AllRegistered, [LoopNext]_vars PROVE AllRegistered'
    OBVIOUS
  <2>1. ASSUME NEW p \in Phones, Stream(p) \/ Refuse(p) \/ Kill(p) \/ Revive(p) \/ Prune(p)
        PROVE  AllRegistered'
    BY <2>1 DEF AllRegistered, Stream, Refuse, Kill, Revive, Prune
  <2>2. CASE Iterate
    BY <2>2 DEF AllRegistered, Iterate
  <2>3. CASE UNCHANGED vars
    BY <2>3 DEF AllRegistered, vars
  <2> QED BY <2>1, <2>2, <2>3 DEF LoopNext
<1> QED BY <1>1, <1>2, PTL DEF LiveSpec

=============================================================================
