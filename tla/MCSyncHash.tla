----------------------------- MODULE MCSyncHash -----------------------------
(* Instances of SyncHash: player 2 has one frame to be mispredicted at. *)
EXTENDS SyncHash

OneSurprise(p, frame) == IF p = 2 /\ frame = 1 THEN {1} ELSE {0}
=============================================================================
