------------------------------ MODULE LossyLink ------------------------------
(***************************************************************************)
(* What the phone's transport promises the services that send over it: a   *)
(* line of bounded length in which a packet may be lost wherever it stands *)
(* but never overtakes another, is repeated or comes back.  placed[p] is   *)
(* the number of the newest packet that producer p is done with, pending   *)
(* what has not reached a socket yet and wire what has, oldest first.      *)
(***************************************************************************)
EXTENDS Integers, Sequences, SequencesExt

CONSTANTS Producers, QueueCap, MaxSends

VARIABLES wire, pending, placed

vars == <<wire, pending, placed>>

Init ==
  /\ wire = <<>>
  /\ pending = <<>>
  /\ placed = [p \in Producers |-> 0]

\* The n-th packet of p, newer than all before it, at the end of the line.
Enter(p, n) ==
  /\ n > placed[p]
  /\ Len(pending) <= QueueCap
  /\ pending' = Append(pending, <<p, n>>)
  /\ placed' = [placed EXCEPT ![p] = n]
  /\ UNCHANGED wire

\* It is turned away: there is no transport yet, or no room again.
TurnAway(p, n) ==
  /\ n > placed[p]
  /\ placed' = [placed EXCEPT ![p] = n]
  /\ UNCHANGED <<wire, pending>>

Lose(k) ==
  /\ pending' = RemoveAt(pending, k)
  /\ UNCHANGED <<wire, placed>>

\* The oldest packet is the one that is sent.
Leave ==
  /\ pending # <<>>
  /\ wire' = Append(wire, Head(pending))
  /\ pending' = Tail(pending)
  /\ UNCHANGED placed

Next ==
  \/ \E p \in Producers, n \in 1..MaxSends : Enter(p, n) \/ TurnAway(p, n)
  \/ \E k \in 1..Len(pending) : Lose(k)
  \/ Leave

Spec == Init /\ [][Next]_vars

=============================================================================
