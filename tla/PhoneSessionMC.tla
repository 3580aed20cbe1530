--------------------------- MODULE PhoneSessionMC ---------------------------
(* Small instances of PhoneSession for TLC. *)
EXTENDS PhoneSession, TLC

SamePhone == [s \in Sockets |-> Phones]

\* Neither sockets nor coroutines are told apart by anything but their name.
Symmetry == Permutations(Sockets) \cup Permutations(Coroutines)

=============================================================================
