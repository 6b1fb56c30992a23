-------------------------- MODULE MCStartWatchdog --------------------------
(* A small instance of StartWatchdog for TLC. *)
EXTENDS StartWatchdog

=============================================================================
