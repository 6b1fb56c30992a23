-------------------------- MODULE CrashSafeSession --------------------------
(***************************************************************************)
(* What start-hyprland promises of a session: it is locked and unlocked    *)
(* while the compositor runs, and a crash never unlocks it.  A restart     *)
(* shows the session as the crash left it; the one thing a crash may do to *)
(* the lock is to complete a lock, or undo an unlock, it interrupted.      *)
(***************************************************************************)
VARIABLES
    life,  \* the compositor serves the session, is being replaced, or is gone
    sess   \* what the user finds: "locked", "unlocked", or "none" when gone

svars == <<life, sess>>

Init == life = "down" /\ sess = "unlocked"

Lock    == life = "up" /\ sess' = "locked" /\ UNCHANGED life
Unlock  == life = "up" /\ sess = "locked" /\ sess' = "unlocked" /\ UNCHANGED life
Crash   == life = "up" /\ life' = "down" /\ sess' \in {sess, "locked"}
Restart == life = "down" /\ life' = "up" /\ UNCHANGED sess
End     == life # "over" /\ life' = "over" /\ sess' = "none"

Next == Lock \/ Unlock \/ Crash \/ Restart \/ End

Spec == Init /\ [][Next]_svars

=============================================================================
