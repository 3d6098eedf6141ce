---------------------------- MODULE MCNetplayFsm ----------------------------
(* Two matches: to the second retry menu and past it; the network may fail in every *)
(* kind of state.                                                                   *)
EXTENDS NetplayFsm

AllKinds == 1..9
=============================================================================
