--------------------------- MODULE MCXRLifecycle ---------------------------
(* Instances of XRLifecycle for TLC. *)
EXTENDS XRLifecycle

=============================================================================
