-------------------------- MODULE PacketServerClaims --------------------------
(***************************************************************************)
(* What the operator's documents say about a consumer that is too slow,    *)
(* stated over PacketServer with a history variable the code does not keep. *)
(***************************************************************************)
EXTENDS PacketServerMC

VARIABLE evicted   \* whether a full queue ever gave up a packet

hvars == <<vars, evicted>>

HInit == Init /\ evicted = FALSE

HNext ==
  /\ Next
  /\ evicted' = (evicted \/ /\ metrics'["decoded"] > metrics["decoded"]
                            /\ \E p \in Connected :
                                 /\ connections'[p] # NoConn
                                 /\ connections'[p].sequence # connections[p].sequence
                                 /\ Len(connections[p].queue) = QueueCap)

HSpec == HInit /\ [][HNext]_hvars

\* docs/TROUBLESHOOTING.md: when the consumer hangs, "the
\* shruti_dropped_frames_total counter is climbing".  A consumer that loses
\* packets because it is slow sees them in that counter.
StarvationIsVisible == evicted => metrics["dropped"] > 0

=============================================================================
