-------------------------- MODULE TransportClientMC --------------------------
(* What the documentation of TransportClient promises, for TLC.              *)
EXTENDS TransportClient

\* docs/OPERATIONS.md: "Phones will reconnect automatically."  A dead socket
\* does not stay the one the phone sends over.
Reconnects ==
  \A w \in Sockets :
    webSocket = w /\ state[w] = "dead" ~> webSocket # w \/ state[w] # "dead"

=============================================================================
