---------------------------- MODULE CommitStream ----------------------------
(***************************************************************************)
(* What the queue of surface states promises a client: its commits become  *)
(* the current state in the order it sent them, each at most once, and the *)
(* ones that never do are given up for good.  How long a commit waits and  *)
(* for what is not said here.                                              *)
(***************************************************************************)
EXTENDS Naturals

VARIABLES
    sent,     \* the number of commits sent so far; a commit is its number
    waiting,  \* the commits that wait
    shown     \* the last commit that became current, 0 at first

svars == <<sent, waiting, shown>>

Init == sent = 0 /\ waiting = {} /\ shown = 0

\* The last commit S takes in becomes current, after all earlier ones of S
\* and before all that still wait; what is in neither was given up.
Advance(avail) ==
    /\ waiting' \subseteq avail
    /\ \/ shown' = shown
       \/ /\ shown' \in avail \ waiting'
          /\ shown' > shown
          /\ \A i \in waiting' : i > shown'

Next ==
    /\ sent' \in {sent, sent + 1}
    /\ Advance(waiting \cup {i \in {sent'} : i > sent})

Spec == Init /\ [][Next]_svars

=============================================================================
