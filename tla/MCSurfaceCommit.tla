---------------------------- MODULE MCSurfaceCommit ----------------------------
(* SurfaceCommit on small instances; the configurations give the bounds. *)
EXTENDS SurfaceCommit

=============================================================================
