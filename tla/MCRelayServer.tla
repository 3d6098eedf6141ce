--------------------------- MODULE MCRelayServer ---------------------------
(* Two hosts and two clients on one code are interchangeable: only behaviours *)
(* in which the first of each is served first are explored.                   *)
EXTENDS RelayServer

CONSTANTS h1, h2, c1, c2

InOrder ==
  /\ handler'[h2] # "accept" => handler'[h1] # "accept"
  /\ handler'[c2] # "accept" => handler'[c1] # "accept"
=============================================================================
