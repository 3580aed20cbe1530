----------------------------- MODULE LossyStream -----------------------------
(***************************************************************************)
(* What the receiver promises the rest of the laptop about each phone: a   *)
(* stream that may lose packets but never repeats or reorders them, for as *)
(* long as the phone stays up.  high[p] is the newest packet offered to    *)
(* the consumer, taken[p] the newest it took, -1 before the first.         *)
(***************************************************************************)
EXTENDS Integers

CONSTANTS Phones, Sequence

VARIABLES up, high, taken

vars == <<up, high, taken>>

Init ==
  /\ up = {}
  /\ high = [p \in Phones |-> -1]
  /\ taken = [p \in Phones |-> -1]

Open(p) ==
  /\ p \notin up
  /\ up' = up \cup {p}
  /\ UNCHANGED <<high, taken>>

Offer(p, q) ==
  /\ q > high[p]
  /\ up' = up \cup {p}
  /\ high' = [high EXCEPT ![p] = q]
  /\ UNCHANGED taken

Take(p, q) ==
  /\ p \in up
  /\ taken[p] < q /\ q <= high[p]
  /\ taken' = [taken EXCEPT ![p] = q]
  /\ UNCHANGED <<up, high>>

GoDown(p) ==
  /\ p \in up
  /\ up' = up \ {p}
  /\ high' = [high EXCEPT ![p] = -1]
  /\ taken' = [taken EXCEPT ![p] = -1]

Next ==
  \E p \in Phones :
    \/ Open(p)
    \/ GoDown(p)
    \/ \E q \in Sequence : Offer(p, q) \/ Take(p, q)

Spec == Init /\ [][Next]_vars

=============================================================================
