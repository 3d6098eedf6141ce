----------------------------- MODULE MCRollback -----------------------------
(* Instances of Rollback: who presses what, and when; and what the network loses. *)
EXTENDS Rollback

(* One frame decides: a blow, which meets a block, a wrong block or nothing. *)
OneClash(p, frame) ==
  IF frame # 3 THEN {0} ELSE IF p = 1 THEN {0, Attack} ELSE Input

(* Player 1 strikes twice; player 2 meets the first blow only. *)
TwoBlows(p, frame) == IF frame = 1 \/ (frame = 2 /\ p = 1) THEN {Attack} ELSE {0}

(* Nothing of player 2 reaches player 1 after its first message. *)
FirstOnly == EndFrame(remote[1], 0) <= Delay + 1

=============================================================================
