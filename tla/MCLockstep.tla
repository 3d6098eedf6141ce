----------------------------- MODULE MCLockstep -----------------------------
(* Instances of Lockstep for TLC where the window holds the drift. *)
EXTENDS Lockstep

ASSUME TheWindowFits == WindowFits
=============================================================================
