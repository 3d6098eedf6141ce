----------------------------- MODULE MCNetwork ------------------------------
(* Three connections, three slots. *)
EXTENDS Network
=============================================================================
