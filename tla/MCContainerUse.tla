--------------------------- MODULE MCContainerUse ---------------------------
(* Bounds for ContainerUse, and mutants of the container's operations. *)
EXTENDS ContainerUse
=============================================================================
