--------------------------- MODULE MCSessionLock ---------------------------
(* Small instances of SessionLock for TLC. *)
EXTENDS SessionLock, TLC

\* Locks, lock surfaces, outputs and ordinary surfaces are interchangeable.
LockSymmetry == Permutations(Locks) \cup Permutations(Surfaces)
                  \cup Permutations(Monitors) \cup Permutations(Apps)

=============================================================================
