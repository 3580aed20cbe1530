--------------------------- MODULE PacketServerMC ---------------------------
(* Small instances of PacketServer for TLC. *)
EXTENDS PacketServer

\* One identity per socket: the first phone reconnects on a second socket
\* while its first one may still be open.
FixedIdentity ==
  [s \in Sockets |-> IF s = "s3" THEN {"p2"} ELSE {"p1"}]

\* The operator changes the phone's identity while its socket stays open.
ChangingIdentity == [s \in Sockets |-> Phones]

=============================================================================
