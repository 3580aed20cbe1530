---------------------------- MODULE LivePipeline ----------------------------
(***************************************************************************)
(* The live composition, tools/live_two_phones_radar.py: phones streaming  *)
(* into PacketServer, and live_loop, which every 10 ms drains the queues   *)
(* of the connected phones into DspLoop and calls step().  Packets are     *)
(* counted and not told apart (PacketServer and DspLoop look at which ones *)
(* they are), so that the system can run forever and liveness be checked;  *)
(* of the numbers only this is kept: whether a restarted phone's are past  *)
(* those on record.                                                        *)
(*                                                                         *)
(* live_loop awaits only its sleep, so an iteration is one action.         *)
(***************************************************************************)
EXTENDS Integers, FiniteSets

CONSTANTS
  Phones,     \* the phones registered with the aligner at start-up
  Mortal,     \* phones that may be killed, and may come back
  QueueCap,   \* maxsize of a connection's queue
  MaxPop,     \* max_packets_per_phone
  Window,     \* packets in a window (window_n_frames)
  BufferCap,  \* packets in a full rolling buffer (one second)
  MaxKills    \* bound: kills

ASSUME LiveAssumption ==
  /\ IsFiniteSet(Phones) /\ Mortal \subseteq Phones
  /\ QueueCap \in Nat \ {0} /\ MaxPop \in Nat \ {0} /\ Window \in Nat \ {0}
  /\ BufferCap \in Nat /\ BufferCap >= Window
  /\ MaxKills \in Nat

VARIABLES
  alive,        \* phones whose app is running
  connections,  \* keys of the server's _connections
  orphans,      \* connections whose record an earlier life's socket made
  behind,       \* phones whose numbers are not past the one on record
  pending,      \* per phone: packets on its connection's queue
  buffered,     \* per phone: packets in the loop's buffer
  registered,   \* phones the aligner knows
  fresh,        \* whether the last iteration produced a frame
  crashed,      \* whether step() raised out of live_loop
  kills

vars == <<alive, connections, orphans, behind, pending, buffered, registered, fresh, crashed, kills>>

Smaller(m, n) == IF m < n THEN m ELSE n

Init ==
  /\ alive = Phones
  /\ connections = {}
  /\ orphans = {}
  /\ behind = {}
  /\ pending = [p \in Phones |-> 0]
  /\ buffered = [p \in Phones |-> 0]
  /\ registered = Phones
  /\ fresh = FALSE
  /\ crashed = FALSE
  /\ kills = 0

\* _on_packet for a packet of p that is queued: it makes the record on first
\* sight, and drops the oldest packet of a full queue.
Stream(p) ==
  /\ p \in alive \ behind
  /\ connections' = connections \cup {p}
  /\ pending' = [pending EXCEPT ![p] = Smaller(@ + 1, QueueCap)]
  /\ UNCHANGED <<alive, orphans, behind, buffered, registered, fresh, crashed, kills>>

\* _on_packet for a packet of p that is refused, being over the rate limit or
\* numbered no higher than the one on record.  After enough of the latter the
\* next number is higher.
Refuse(p) ==
  /\ p \in alive
  /\ connections' = connections \cup {p}
  /\ behind' \in {behind, behind \ {p}}
  /\ UNCHANGED <<alive, orphans, pending, buffered, registered, fresh, crashed, kills>>

Kill(p) ==
  /\ p \in alive \cap Mortal
  /\ kills < MaxKills
  /\ alive' = alive \ {p}
  /\ orphans' = orphans \cup ({p} \cap connections)
  /\ kills' = kills + 1
  /\ UNCHANGED <<connections, behind, pending, buffered, registered, fresh, crashed>>

\* The app starts again and numbers from 0, under the record of its last life
\* if the server has not pruned that.
Revive(p) ==
  /\ p \in Phones \ alive
  /\ alive' = alive \cup {p}
  /\ behind' = behind \cup ({p} \cap connections)
  /\ UNCHANGED <<connections, orphans, pending, buffered, registered, fresh, crashed, kills>>

\* The socket of a dead phone closes and _handle_connection prunes the record
\* it made, whoever streams under it by then.
Prune(p) ==
  /\ p \in orphans
  /\ connections' = connections \ {p}
  /\ orphans' = orphans \ {p}
  /\ behind' = behind \ {p}
  /\ pending' = [pending EXCEPT ![p] = 0]
  /\ UNCHANGED <<alive, buffered, registered, fresh, crashed, kills>>

\* DspLoop.drop_phone, called for a phone that is no longer connected: live_loop
\* has no such call, the operator of the kill-a-phone drill makes it.
DropPhone(p) ==
  /\ p \in registered \ (connections \cup alive)
  /\ registered' = registered \ {p}
  /\ buffered' = [buffered EXCEPT ![p] = 0]
  /\ UNCHANGED <<alive, connections, orphans, behind, pending, fresh, crashed, kills>>

\* pop_from_queues skips the connected phones the aligner does not know.
Drained(p) ==
  IF p \in connections \cap registered THEN Smaller(pending[p], MaxPop) ELSE 0

\* Mutant: the rolling buffer is not cut back.
FilledUncut(p) == buffered[p] + Drained(p)

\* What pop_from_queues leaves in a phone's buffer.
Filled(p) == Smaller(buffered[p] + Drained(p), BufferCap)

\* Mutant: dropped phones are waited for.
ReadyAll == \A p \in Phones : Filled(p) >= Window

Ready == \A p \in registered : Filled(p) >= Window

\* One iteration of live_loop: pop_from_queues, then step().
Iterate ==
  /\ ~crashed
  /\ pending' = [p \in Phones |-> pending[p] - Drained(p)]
  /\ crashed' = (registered = {})
  /\ fresh' = (Ready /\ registered # {})
  /\ buffered' = [p \in Phones |->
       IF p \in registered /\ Ready THEN Filled(p) - Window ELSE Filled(p)]
  /\ UNCHANGED <<alive, connections, orphans, behind, registered, kills>>

LoopNext ==
  \/ \E p \in Phones : Stream(p) \/ Refuse(p) \/ Kill(p) \/ Revive(p) \/ Prune(p)
  \/ Iterate

\* The drill adds the operator.
DrillNext == LoopNext \/ \E p \in Phones : DropPhone(p)

\* A phone that is alive captures a frame every 20 ms, which with a heartbeat a
\* second is within the rate limit, and numbers them upwards: while it is not
\* behind, packets of it are queued.  The event loop runs live_loop after every
\* sleep, and the WebSocket keep-alive closes the socket of a dead phone.
\* Nothing makes a phone die, come back or catch up.
LoopFairness ==
  /\ WF_vars(Iterate)
  /\ \A p \in Phones : WF_vars(Stream(p)) /\ WF_vars(Prune(p))

LiveSpec == Init /\ [][LoopNext]_vars /\ LoopFairness

\* In the drill the operator drops a phone that stays away.
DrillSpec ==
  /\ Init /\ [][DrillNext]_vars /\ LoopFairness
  /\ \A p \in Phones : WF_vars(DropPhone(p))

-----------------------------------------------------------------------------
TypeOK ==
  /\ alive \subseteq Phones
  /\ connections \subseteq Phones
  /\ behind \subseteq orphans /\ orphans \subseteq connections
  /\ pending \in [Phones -> 0..QueueCap]
  /\ buffered \in [Phones -> 0..BufferCap]
  /\ registered \subseteq Phones
  /\ fresh \in BOOLEAN
  /\ crashed \in BOOLEAN
  /\ kills \in 0..MaxKills

\* The array keeps going: frames never stop for good, whatever fills up, is
\* evicted or is skipped on the way (the drill of test_dsp_loop_kill_phone.py;
\* live_loop lines 136-218).
KeepsGoing == []<>fresh

=============================================================================
