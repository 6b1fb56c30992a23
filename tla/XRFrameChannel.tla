--------------------------- MODULE XRFrameChannel ---------------------------
(***************************************************************************)
(* The channel from the OpenXR frame thread to the main thread: the ring   *)
(* CXRSPSCRing, the eventfd that wakes the main thread, and the draining   *)
(* of the one and the other.  One action per access to a shared variable,  *)
(* in program order; the release and acquire orders of the code forbid the *)
(* reorderings this leaves out.  What the entries mean, and when the       *)
(* channel is set up and torn down, is said by the module that extends it. *)
(*                                                                         *)
(* Left out: m_l2dRefStale and the viewpoint samples, which ride the same  *)
(* wake-up but not the ring.                                               *)
(***************************************************************************)
EXTENDS Naturals

CONSTANTS
    Cap,       \* slots of the ring; one of them always stays empty
    Entries,   \* what may be sent
    Motion,    \* the entries that may be dropped: MOTION_ABS and AXIS
    Nothing    \* a slot without an entry

ASSUME ChannelAssumption ==
    /\ Cap \in Nat /\ Cap >= 2
    /\ Motion \subseteq Entries
    /\ Nothing \notin Entries

VARIABLES
    head,      \* m_head, written by the frame thread
    tail,      \* m_tail, written by the main thread
    slots,     \* m_buf; a slot that was moved from holds Nothing
    efd,       \* the eventfd is readable
    overflow,  \* m_queueOverflowed
    stage,     \* what the frame thread does next inside enqueue()
    item,      \* the entry it is sending, until it is published
    drain,     \* where the main thread is inside onFrameChannelReadable
    got,       \* the entry it popped
    req        \* m_frameRequestedTeardown

ringVars == <<head, tail, slots>>
chanVars == <<head, tail, slots, efd, overflow, stage, item, drain, got, req>>

Index == 0..(Cap - 1)

\* Mutation: The index does not wrap.
Nxt_NoWrap(i) == i + 1

\* (i + 1) & MASK; the capacity is a power of two.
Nxt(i) == IF i + 1 = Cap THEN 0 ELSE i + 1

\* The slots from t on up to the one before h, round the end of the buffer.
Between(t, h) == {i \in Index : IF t <= h THEN t <= i /\ i < h
                                         ELSE t <= i \/ i < h}

\* The slots that hold entries the reader has not taken.
Filled == Between(tail, head)

ChannelTypeOK ==
    /\ head \in Index /\ tail \in Index
    /\ slots \in [Index -> Entries \cup {Nothing}]
    /\ efd \in BOOLEAN /\ overflow \in BOOLEAN /\ req \in BOOLEAN
    /\ stage \in {"idle", "write", "publish", "wake"}
    /\ item \in Entries \cup {Nothing}
    /\ drain \in {"off", "pop", "advance", "dispatch", "flags"}
    /\ got \in Entries \cup {Nothing}

ChannelInit ==
    /\ head = 0 /\ tail = 0 /\ slots = [i \in Index |-> Nothing]
    /\ efd = FALSE /\ overflow = FALSE /\ req = FALSE
    /\ stage = "idle" /\ item = Nothing
    /\ drain = "off" /\ got = Nothing

-----------------------------------------------------------------------------
(* The frame thread *)

\* enqueue(e) up to the test for a full ring.  An entry that does not fit is
\* gone; if it was not a droppable one, that is logged once.
Enqueue(e) ==
    /\ stage = "idle"
    /\ IF Nxt(head) = tail
       THEN /\ overflow' = (overflow \/ e \notin Motion)
            /\ UNCHANGED <<stage, item>>
       ELSE stage' = "write" /\ item' = e /\ UNCHANGED overflow
    /\ UNCHANGED <<ringVars, efd, drain, got, req>>

WriteSlot ==
    /\ stage = "write"
    /\ slots' = [slots EXCEPT ![head] = item]
    /\ stage' = "publish"
    /\ UNCHANGED <<head, tail, efd, overflow, item, drain, got, req>>

PublishHead ==
    /\ stage = "publish"
    /\ head' = Nxt(head)
    /\ stage' = "wake" /\ item' = Nothing
    /\ UNCHANGED <<tail, slots, efd, overflow, drain, got, req>>

WakeMain ==
    /\ stage = "wake"
    /\ efd' = TRUE
    /\ stage' = "idle"
    /\ UNCHANGED <<ringVars, overflow, item, drain, got, req>>

PushStep == WriteSlot \/ PublishHead \/ WakeMain

\* The exit path of the frame loop: the flag, then the wake-up of enqueue().
RequestTeardown ==
    /\ stage = "idle"
    /\ req' = TRUE
    /\ stage' = "wake"
    /\ UNCHANGED <<ringVars, efd, overflow, item, drain, got>>

-----------------------------------------------------------------------------
(* The main thread *)

\* onFrameChannelReadable: the counter is read before the ring.
ReadEventFd ==
    /\ drain = "off" /\ efd
    /\ efd' = FALSE
    /\ drain' = "pop"
    /\ UNCHANGED <<ringVars, overflow, stage, item, got, req>>

\* Mutation: The slot after the tail is read.
PopSlot_WrongSlot ==
    /\ drain = "pop" /\ tail # head
    /\ got' = IF slots[Nxt(tail)] = Nothing THEN slots[tail] ELSE slots[Nxt(tail)]
    /\ slots' = [slots EXCEPT ![tail] = Nothing]
    /\ drain' = "advance"
    /\ UNCHANGED <<head, tail, efd, overflow, stage, item, req>>

PopSlot ==
    /\ drain = "pop" /\ tail # head
    /\ got' = slots[tail]
    /\ slots' = [slots EXCEPT ![tail] = Nothing]
    /\ drain' = "advance"
    /\ UNCHANGED <<head, tail, efd, overflow, stage, item, req>>

PublishTail ==
    /\ drain = "advance"
    /\ tail' = Nxt(tail)
    /\ drain' = "dispatch"
    /\ UNCHANGED <<head, slots, efd, overflow, stage, item, got, req>>

\* The entry is handled; the handler is the other module's.
Dispatched ==
    /\ drain = "dispatch"
    /\ got' = Nothing
    /\ drain' = "pop"
    /\ UNCHANGED <<ringVars, efd, overflow, stage, item, req>>

FoundEmpty ==
    /\ drain = "pop" /\ tail = head
    /\ drain' = "flags"
    /\ UNCHANGED <<ringVars, efd, overflow, stage, item, got, req>>

\* Mutation: The eventfd is read at the end of the callback.
ExchangeFlag_ReadsLate ==
    /\ drain = "flags"
    /\ req' = FALSE /\ efd' = FALSE
    /\ drain' = "off"
    /\ UNCHANGED <<ringVars, overflow, stage, item, got>>

\* The end of the callback: the flag is exchanged.
ExchangeFlag ==
    /\ drain = "flags"
    /\ req' = FALSE
    /\ drain' = "off"
    /\ UNCHANGED <<ringVars, efd, overflow, stage, item, got>>

\* Mutation: The ring is not reset.
ResetChannel_KeepsRing(flag, lost) ==
    /\ efd' = FALSE /\ overflow' = lost /\ req' = flag
    /\ UNCHANGED <<ringVars, stage, item, drain, got>>

\* teardownFrameChannel, and setupFrameChannel of the next start: both are
\* called while no frame thread exists.
ResetChannel(flag, lost) ==
    /\ head' = 0 /\ tail' = 0
    /\ slots' = [i \in Index |-> Nothing]
    /\ efd' = FALSE
    /\ overflow' = lost
    /\ req' = flag
    /\ UNCHANGED <<stage, item, drain, got>>

-----------------------------------------------------------------------------
(* Correctness *)

\* Nobody reads a slot that is being written: the slot the producer writes
\* is outside the filled part, whatever the reader did since the producer
\* looked, and the reader only takes what was written.
SlotsApart ==
    /\ stage \in {"write", "publish"} => head \notin Filled /\ Nxt(head) # tail
    /\ \A i \in Filled : slots[i] = Nothing <=> (drain = "advance" /\ i = tail)
    /\ drain \in {"advance", "dispatch"} => got \in Entries

\* No wake-up is lost, as long as there is a session: when the main thread does
\* not drain, an entry in the ring or the teardown flag means that the eventfd
\* is readable or about to be.
WakeIsComing ==
    \/ efd \/ stage = "wake"
    \/ /\ drain \in {"off", "flags"} => head = tail
       /\ drain = "off" => ~req

\* The ring is a FIFO (BoundedFifo): its entries in order, and the entry the
\* reader works on once the slot is free again.
Count(t, h) == IF t <= h THEN h - t ELSE h + Cap - t
Slot(t, k)  == IF t + k <= Cap THEN t + k - 1 ELSE t + k - 1 - Cap
Contents == [k \in 1..Count(tail, head) |->
                IF k = 1 /\ drain = "advance" THEN got ELSE slots[Slot(tail, k)]]
Taken == IF drain = "dispatch" THEN got ELSE Nothing

Fifo == INSTANCE BoundedFifo WITH
            waiting <- Contents,
            taken <- Taken,
            Room <- Cap - 1

ChannelIsFifo == Fifo!Spec

=============================================================================
