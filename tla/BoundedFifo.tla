----------------------------- MODULE BoundedFifo -----------------------------
(***************************************************************************)
(* What the frame->main channel promises: what was accepted comes out one  *)
(* at a time, in order, unchanged; at most Room entries wait; the only way *)
(* to lose accepted entries is to clear the whole channel.                 *)
(***************************************************************************)
EXTENDS Naturals, Sequences

CONSTANTS Entries, Nothing, Room

VARIABLES
    waiting,  \* the accepted entries
    taken     \* the entry the reader works on, or Nothing

Init == waiting = <<>> /\ taken = Nothing

Accept ==
    /\ Len(waiting) < Room
    /\ \E e \in Entries : waiting' = Append(waiting, e)
    /\ UNCHANGED taken

Take ==
    /\ waiting # <<>> /\ taken = Nothing
    /\ taken' = Head(waiting)
    /\ waiting' = Tail(waiting)

Finish == taken # Nothing /\ taken' = Nothing /\ UNCHANGED waiting

Clear == waiting' = <<>> /\ taken = Nothing /\ UNCHANGED taken

Next == Accept \/ Take \/ Finish \/ Clear

Spec == Init /\ [][Next]_<<waiting, taken>>

=============================================================================
