----------------------------- MODULE MCSpectate -----------------------------
(* A first round, one spectator that joins at any moment. *)
EXTENDS Spectate

(* Inputs of the character select and of the round are archived while they are played. *)
MCRoute == << "CharaSelect", "Loading", "InGame", "Skippable" >>
MCMaxFrame == << 3, 1, 6, 1 >>

(* A round that goes on after its first inputs have been archived. *)
MCLongRound == << 1, 1, 9, 1 >>
=============================================================================
