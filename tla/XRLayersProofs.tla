--------------------------- MODULE XRLayersProofs ---------------------------
(***************************************************************************)
(* For every set of monitors and every capacity of the ring: nobody reads  *)
(* a slot that is being written, no wake-up is lost, the frame thread      *)
(* never draws a layer the main thread let go of, an ack is about the      *)
(* layer that was to be removed, and it is lost only with a line in the    *)
(* log.                                                                    *)
(*                                                                         *)
(* The invariants are not inductive as they stands: that an ack is about a *)
(* layer being removed needs that there is only one ack per removal,       *)
(* wherever it is on its way, and that needs what the frame thread's       *)
(* snapshot has to do with the flags the main thread sets meanwhile.       *)
(***************************************************************************)
EXTENDS XRLayers, SequenceTheorems, TLAPS

\* What a stage of enqueue() and of the drain says of what they hold.
ChannelInv ==
    /\ stage \in {"write", "publish"} <=> item # Nothing
    /\ stage \in {"write", "publish"} => Nxt(head) # tail
    /\ stage = "publish" => slots[head] = item
    /\ drain \in {"advance", "dispatch"} <=> got # Nothing
    /\ drain = "advance" => tail # head /\ slots[tail] = Nothing
    /\ \A i \in Filled : slots[i] = Nothing => drain = "advance" /\ i = tail

\* A frame thread exists exactly while the session does, and what it left is
\* gone with it.
ThreadInv ==
    /\ thread # "none" <=> running \/ stopping
    /\ stopping => ~running /\ drain = "off"
    /\ thread \in {"none", "exited"} => stage = "idle"
    /\ thread = "none" => drain = "off" /\ pending = {} /\ swapchain = {}
    /\ thread # "remove" => toRemove = {}
    /\ thread = "none" => active = {} /\ removed = {}

\* The snapshot and the flags.
LayersInv ==
    /\ acked \subseteq pending /\ pending \subseteq layers
    /\ swapchain \subseteq layers /\ swapchain \cap acked = {}
    /\ active \subseteq layers /\ active \cap acked = {}
    /\ toRemove \subseteq pending /\ toRemove \cap acked \subseteq removed
    /\ active \cap toRemove = {}

\* One ack per removal: not sent yet, being sent, in the ring, or popped.
OneAck ==
    /\ got \notin removed /\ item \notin removed
    /\ got \in Names => got # item
    /\ \A i \in Filled : /\ slots[i] \notin removed
                         /\ slots[i] \in Names => slots[i] # got /\ slots[i] # item
    /\ \A i, j \in Filled : slots[i] = slots[j] /\ slots[i] \in Names => i = j

AcksAreAcked == AcksUnderWay \subseteq acked

LayersInvariant ==
    /\ TypeOK /\ ChannelInv /\ ThreadInv /\ LayersInv /\ OneAck
    /\ AcksAreAcked /\ LostAckIsLogged

-----------------------------------------------------------------------------
(* The ring *)

\* The index after an index is another index.
LEMMA NxtIsIndex == ASSUME NEW i \in Index PROVE Nxt(i) \in Index /\ Nxt(i) # i
  BY ChannelAssumption DEF Index, Nxt

\* A slot that is written joins the entries, one that is read leaves them.
LEMMA PushFills ==
    ASSUME NEW t \in Index, NEW h \in Index, Nxt(h) # t
    PROVE  h \notin Between(t, h) /\ Between(t, Nxt(h)) = Between(t, h) \cup {h}
  BY ChannelAssumption DEF Index, Nxt, Between

LEMMA PopFrees ==
    ASSUME NEW t \in Index, NEW h \in Index, t # h
    PROVE  t \in Between(t, h) /\ Between(Nxt(t), h) = Between(t, h) \ {t}
  BY ChannelAssumption DEF Index, Nxt, Between

LEMMA EmptyRing == ASSUME NEW h \in Index PROVE Between(h, h) = {}
  BY DEF Index, Between

LEMMA FilledIsIndices == Filled \subseteq Index
  BY DEF Filled, Between

-----------------------------------------------------------------------------
(* The channel by itself *)

\* A reset while neither side is at work.
Reset ==
    /\ stage = "idle" /\ drain = "off"
    /\ \E flag, lost \in BOOLEAN : ResetChannel(flag, lost)

ChannelMove ==
    \/ WriteSlot \/ PublishHead \/ WakeMain
    \/ \E e \in Entries : Enqueue(e)
    \/ RequestTeardown
    \/ ReadEventFd \/ PopSlot \/ PublishTail \/ Dispatched \/ FoundEmpty \/ ExchangeFlag
    \/ UNCHANGED chanVars

ChannelStep == ChannelMove \/ Reset

LEMMA ChannelTypes ==
    ASSUME ChannelTypeOK, ChannelStep
    PROVE  ChannelTypeOK'
  <1>. USE ChannelAssumption, NxtIsIndex DEF ChannelTypeOK
  <1>0. 0 \in Index
    BY DEF Index
  <1>1. CASE WriteSlot
    BY <1>1 DEF WriteSlot
  <1>2. CASE PublishHead \/ WakeMain
    BY <1>2 DEF PublishHead, WakeMain, ringVars
  <1>3. ASSUME NEW e \in Entries, Enqueue(e) PROVE ChannelTypeOK'
    <2>1. overflow' \in BOOLEAN
      BY <1>3 DEF Enqueue
    <2>. QED BY <1>3, <2>1 DEF Enqueue, ringVars
  <1>4. CASE RequestTeardown \/ ReadEventFd \/ FoundEmpty \/ ExchangeFlag
    BY <1>4 DEF RequestTeardown, ReadEventFd, FoundEmpty, ExchangeFlag, ringVars
  <1>5. CASE PopSlot
    BY <1>5 DEF PopSlot
  <1>6. CASE PublishTail \/ Dispatched
    BY <1>6 DEF PublishTail, Dispatched, ringVars
  <1>7. CASE Reset
    <2>1. PICK flag \in BOOLEAN, lost \in BOOLEAN : ResetChannel(flag, lost)
      BY <1>7 DEF Reset
    <2>. QED BY <1>0, <2>1 DEF ResetChannel
  <1>8. CASE UNCHANGED chanVars
    BY <1>8 DEF chanVars
  <1>. QED BY <1>1, <1>2, <1>3, <1>4, <1>5, <1>6, <1>7, <1>8 DEF ChannelStep, ChannelMove

LEMMA ChannelKept ==
    ASSUME ChannelTypeOK, ChannelInv, ChannelStep
    PROVE  ChannelInv'
  <1>. USE ChannelAssumption DEF ChannelTypeOK, ChannelInv
  <1>1. CASE WriteSlot
    <2>1. head \notin Filled /\ Filled' = Filled
      BY <1>1, PushFills DEF WriteSlot, Filled
    <2>. QED BY <1>1, <2>1, FilledIsIndices DEF WriteSlot
  <1>2. CASE PublishHead
    <2>1. Nxt(head) # tail /\ Filled' = Filled \cup {head}
      BY <1>2, PushFills, EmptyRing, NxtIsIndex DEF PublishHead, Filled
    <2>. QED BY <1>2, <2>1 DEF PublishHead
  <1>3. CASE WakeMain \/ RequestTeardown
    BY <1>3 DEF WakeMain, RequestTeardown, ringVars, Filled
  <1>4. ASSUME NEW e \in Entries, Enqueue(e) PROVE ChannelInv'
    BY <1>4 DEF Enqueue, ringVars, Filled
  <1>5. CASE ReadEventFd \/ FoundEmpty \/ ExchangeFlag
    BY <1>5 DEF ReadEventFd, FoundEmpty, ExchangeFlag, ringVars, Filled
  <1>6. CASE PopSlot
    <2>1. tail \in Filled /\ Filled' = Filled
      BY <1>6, PopFrees DEF PopSlot, Filled
    <2>2. stage \in {"write", "publish"} => head # tail
      BY <1>6 DEF PopSlot
    <2>. QED BY <1>6, <2>1, <2>2, FilledIsIndices DEF PopSlot
  <1>7. CASE PublishTail
    <2>1. Filled' = Filled \ {tail}
      BY <1>7, PopFrees DEF PublishTail, Filled
    <2>2. stage \in {"write", "publish"} => Nxt(head) # tail'
      BY <1>7, NxtIsIndex DEF PublishTail, Nxt, Index
    <2>. QED BY <1>7, <2>1, <2>2 DEF PublishTail
  <1>8. CASE Dispatched
    BY <1>8 DEF Dispatched, ringVars, Filled
  <1>9. CASE Reset
    <2>1. UNCHANGED <<stage, item, drain, got>> /\ Filled' = {}
      BY <1>9, EmptyRing DEF Reset, ResetChannel, Filled, Index
    <2>. QED BY <1>9, <2>1 DEF Reset
  <1>10. CASE UNCHANGED chanVars
    BY <1>10 DEF chanVars, Filled
  <1>. QED BY <1>1, <1>2, <1>3, <1>4, <1>5, <1>6, <1>7, <1>8, <1>9, <1>10 DEF ChannelStep, ChannelMove

-----------------------------------------------------------------------------
(* The system *)

LEMMA NamesAreEntries == Names \subseteq Entries \ Motion /\ Nothing \notin Names
  BY LayersAssumption, ChannelAssumption

\* The system steps of the channel, each with what it leaves alone.
LEMMA SystemStep ==
    ASSUME TypeOK, ThreadInv, [Next]_vars
    PROVE  ChannelMove \/ (Reset /\ (Start \/ thread' = "none"))
  <1>. USE DEF ChannelMove
  <1>1. ASSUME NEW n \in Names, CreateXRMonitor(n) \/ DestroyXRMonitor(n) \/ OutputDestroyed(n)
        PROVE  UNCHANGED chanVars
    BY <1>1 DEF CreateXRMonitor, DestroyXRMonitor, OutputDestroyed, BeginRemoval
  <1>2. CASE Start
    <2>1. stage = "idle" /\ drain = "off"
      BY <1>2 DEF Start, InLoop, ThreadInv
    <2>. QED BY <1>2, <2>1 DEF Start, Reset
  <1>3. ASSUME Stop PROVE ChannelMove \/ (Reset /\ thread' = "none")
    <2>1. CASE StopIdle
      BY <2>1 DEF StopIdle, ThreadInv, Reset, TypeOK, ChannelTypeOK, frameVars
    <2>. QED BY <1>3, <2>1 DEF Stop, StopRunning
  <1>4. CASE UserStops \/ DeferredStop
    BY <1>3, <1>4 DEF UserStops, DeferredStop
  <1>5. CASE StopJoined
    BY <1>5 DEF StopJoined, ThreadInv, Reset, TypeOK, ChannelTypeOK
  <1>6. CASE FrameChannelReadable
    BY <1>6 DEF FrameChannelReadable
  <1>7. CASE CallbackStep
    BY <1>7 DEF CallbackStep, DrainStep, Dispatch, LeaveCallback
  <1>8. CASE ExitRequested
    BY <1>8 DEF ExitRequested
  <1>9. CASE FrameStep
    <2>1. CASE Push
      BY <2>1 DEF Push, PushStep
    <2>2. CASE LoopExits \/ PollEvents \/ Snapshot \/ DropRemoved \/ Draw
      BY <2>2 DEF LoopExits, PollEvents, Snapshot, DropRemoved, Draw
    <2>3. ASSUME NEW n \in Names, RemoveLayer(n) \/ ReportLayerRemoved(n)
          PROVE  ChannelMove
      BY <2>3, NamesAreEntries DEF RemoveLayer, ReportLayerRemoved
    <2>4. CASE Pace \/ EndFrame
      BY <2>4, ChannelAssumption, LayersAssumption DEF Pace, EndFrame
    <2>. QED BY <1>9, <2>1, <2>2, <2>3, <2>4 DEF FrameStep
  <1>10. CASE UNCHANGED vars
    BY <1>10 DEF vars, chanVars
  <1>. QED BY <1>1, <1>2, <1>4, <1>5, <1>6, <1>7, <1>8, <1>9, <1>10 DEF Next, UserStep

\* TypeOK in the groups that the steps change together.
SetTypes ==
    /\ layers \subseteq Names /\ output \subseteq Names
    /\ pending \subseteq Names /\ acked \subseteq Names /\ swapchain \subseteq Names
    /\ active \subseteq Names /\ toRemove \subseteq Names
    /\ ackedRefs \subseteq Names /\ removed \subseteq Names
FlagTypes ==
    /\ thread \in LoopPlaces \cup {"none", "exited"}
    /\ running \in BOOLEAN /\ stopping \in BOOLEAN /\ later \in BOOLEAN

LEMMA TypeParts == TypeOK <=> ChannelTypeOK /\ SetTypes /\ FlagTypes
  BY DEF TypeOK, SetTypes, FlagTypes

LEMMA TypePartsKept == TypeOK' <=> ChannelTypeOK' /\ SetTypes' /\ FlagTypes'
  BY DEF TypeOK, SetTypes, FlagTypes

LEMMA TypesKept ==
    ASSUME TypeOK, ThreadInv, [Next]_vars
    PROVE  TypeOK'
  <1>0. ChannelTypeOK'
    BY SystemStep, ChannelTypes DEF TypeOK, ChannelStep
  <1>. SUFFICES SetTypes' /\ FlagTypes'
    BY <1>0, TypePartsKept
  <1>. USE TypeParts DEF SetTypes, FlagTypes
  <1>1. ASSUME NEW n \in Names, CreateXRMonitor(n) PROVE SetTypes' /\ FlagTypes'
    BY <1>1 DEF CreateXRMonitor, frameVars, mainVars
  <1>2. ASSUME NEW n \in Names, NEW out \in SUBSET Names, BeginRemoval(n, out)
        PROVE  SetTypes' /\ FlagTypes'
    BY <1>2 DEF BeginRemoval, Forget, frameVars, mainVars
  <1>3. ASSUME NEW n \in Names, DestroyXRMonitor(n) \/ OutputDestroyed(n)
        PROVE  SetTypes' /\ FlagTypes'
    BY <1>2, <1>3 DEF DestroyXRMonitor, OutputDestroyed
  <1>4. CASE Start
    BY <1>4 DEF Start, Forget, LoopPlaces
  <1>5. ASSUME Stop, later' \in BOOLEAN PROVE SetTypes' /\ FlagTypes'
    BY <1>5 DEF Stop, StopIdle, StopRunning, TeardownLayers, layerVars, frameVars
  <1>6. CASE UserStops \/ DeferredStop
    BY <1>5, <1>6 DEF UserStops, DeferredStop
  <1>7. CASE StopJoined
    BY <1>7 DEF StopJoined, TeardownLayers
  <1>8. CASE FrameChannelReadable \/ DrainStep \/ Push
    BY <1>8 DEF FrameChannelReadable, DrainStep, Push, layerVars, frameVars, mainVars
  <1>9. CASE Dispatch
    BY <1>9 DEF Dispatch, Forget, layerVars, frameVars, mainVars
  <1>10. CASE LeaveCallback
    <2>1. later' \in BOOLEAN
      BY <1>10 DEF LeaveCallback, ChannelTypeOK
    <2>. QED BY <1>10, <2>1 DEF LeaveCallback, layerVars, frameVars
  <1>11. CASE LoopExits \/ PollEvents \/ ExitRequested \/ Snapshot
    BY <1>11 DEF LoopExits, PollEvents, ExitRequested, Snapshot, LoopPlaces, layerVars, mainVars
  <1>12. ASSUME NEW n \in Names, RemoveLayer(n) \/ ReportLayerRemoved(n)
         PROVE  SetTypes' /\ FlagTypes'
    BY <1>12 DEF RemoveLayer, ReportLayerRemoved, layerVars, mainVars
  <1>13. CASE DropRemoved \/ Pace \/ Draw \/ EndFrame
    BY <1>13 DEF DropRemoved, Pace, Draw, EndFrame, LoopPlaces, layerVars, mainVars
  <1>14. CASE UNCHANGED vars
    BY <1>14 DEF vars
  <1>. QED BY <1>1, <1>3, <1>4, <1>6, <1>7, <1>8, <1>9, <1>10, <1>11, <1>12, <1>13, <1>14
           DEF Next, UserStep, CallbackStep, FrameStep

\* The frame thread leaves nothing behind: a stop clears what it had.
LEMMA ThreadKept ==
    ASSUME TypeOK, ThreadInv, LayersInv, [Next]_vars
    PROVE  ThreadInv'
  <1>. USE DEF ThreadInv
  <1>1. ASSUME NEW n \in Names, CreateXRMonitor(n) PROVE ThreadInv'
    BY <1>1 DEF CreateXRMonitor, chanVars, frameVars, mainVars
  <1>2. ASSUME NEW n \in Names, NEW out, InLoop, BeginRemoval(n, out) PROVE ThreadInv'
    BY <1>2 DEF BeginRemoval, Forget, InLoop, chanVars, frameVars, mainVars
  <1>3. ASSUME NEW n \in Names, DestroyXRMonitor(n) \/ OutputDestroyed(n) PROVE ThreadInv'
    BY <1>2, <1>3 DEF DestroyXRMonitor, OutputDestroyed
  <1>4. CASE Start
    BY <1>4 DEF Start, Forget, ResetChannel, InLoop
  <1>5. ASSUME InLoop, Stop PROVE ThreadInv'
    <2>1. CASE StopIdle
      BY <2>1 DEF StopIdle, TeardownLayers, ResetChannel, frameVars
    <2>2. CASE StopRunning
      BY <1>5, <2>2 DEF StopRunning, InLoop, chanVars, layerVars, frameVars
    <2>. QED BY <1>5, <2>1, <2>2 DEF Stop
  <1>6. CASE UserStops \/ DeferredStop
    BY <1>5, <1>6 DEF UserStops, DeferredStop
  <1>7. CASE StopJoined
    BY <1>7 DEF StopJoined, TeardownLayers, ResetChannel, LayersInv
  <1>8. CASE FrameChannelReadable
    BY <1>8 DEF FrameChannelReadable, ReadEventFd, InLoop, layerVars, frameVars, mainVars
  <1>9. CASE DrainStep \/ Dispatch \/ LeaveCallback
    <2>1. drain # "off" /\ UNCHANGED <<stage, frameVars, running, stopping>>
      BY <1>9 DEF DrainStep, Dispatch, LeaveCallback, PopSlot, PublishTail, FoundEmpty,
                  Dispatched, ExchangeFlag, frameVars, mainVars
    <2>. QED BY <2>1 DEF frameVars
  <1>10. CASE Push
    <2>1. stage # "idle" /\ UNCHANGED <<layerVars, frameVars, swapchain, running, stopping, drain>>
      BY <1>10 DEF Push, PushStep, WriteSlot, PublishHead, WakeMain, mainVars
    <2>. QED BY <2>1 DEF frameVars, layerVars
  <1>11. ASSUME NEW place \in LoopPlaces, At(place), drain' = drain, running' = running,
                stopping' = stopping, thread' # "none", thread' = "exited" => stage' = "idle",
                thread' # "remove" => toRemove' = {}
         PROVE  ThreadInv'
    BY <1>11 DEF At, LoopPlaces
  <1>12. CASE LoopExits \/ PollEvents \/ ExitRequested \/ Snapshot
    BY <1>11, <1>12 DEF LoopExits, PollEvents, ExitRequested, Snapshot, LoopPlaces, At,
                        RequestTeardown, chanVars, mainVars
  <1>13. ASSUME NEW n \in Names, RemoveLayer(n) \/ ReportLayerRemoved(n) PROVE ThreadInv'
    BY <1>11, <1>13 DEF RemoveLayer, ReportLayerRemoved, LoopPlaces, At, Enqueue, chanVars, mainVars
  <1>14. CASE DropRemoved \/ Pace \/ Draw \/ EndFrame
    BY <1>11, <1>14 DEF DropRemoved, Pace, Draw, EndFrame, LoopPlaces, At, Enqueue, chanVars,
                        mainVars
  <1>15. CASE UNCHANGED vars
    BY <1>15 DEF vars
  <1>. QED BY <1>1, <1>3, <1>4, <1>6, <1>7, <1>8, <1>9, <1>10, <1>12, <1>13, <1>14, <1>15
           DEF Next, UserStep, CallbackStep, FrameStep

\* A popped ack takes a layer away that nobody draws and that is in no
\* snapshot any more: its name is not among those still to be sent.
LEMMA LayersKept ==
    ASSUME TypeOK, ThreadInv, LayersInv, OneAck, AcksAreAcked, [Next]_vars
    PROVE  LayersInv'
  <1>. USE DEF LayersInv
  <1>1. ASSUME NEW n \in Names, CreateXRMonitor(n) PROVE LayersInv'
    BY <1>1 DEF CreateXRMonitor, frameVars
  <1>2. ASSUME NEW n \in Names, NEW out, InLoop, n \in layers, BeginRemoval(n, out)
        PROVE  LayersInv'
    <2>1. CASE running
      BY <1>2, <2>1 DEF BeginRemoval, frameVars
    <2>2. CASE ~running
      <3>1. thread = "none"
        BY <1>2, <2>2 DEF InLoop, ThreadInv
      <3>. QED BY <1>2, <2>2, <3>1 DEF BeginRemoval, Forget, frameVars, ThreadInv
    <2>. QED BY <2>1, <2>2
  <1>3. ASSUME NEW n \in Names, DestroyXRMonitor(n) \/ OutputDestroyed(n) PROVE LayersInv'
    BY <1>2, <1>3 DEF DestroyXRMonitor, OutputDestroyed
  <1>4. CASE Start
    BY <1>4 DEF Start, Forget, ThreadInv
  <1>5. ASSUME Stop PROVE LayersInv'
    <2>1. CASE StopIdle
      BY <2>1 DEF StopIdle, TeardownLayers, ThreadInv, frameVars
    <2>. QED BY <1>5, <2>1 DEF Stop, StopRunning, layerVars, frameVars
  <1>6. CASE UserStops \/ DeferredStop
    BY <1>5, <1>6 DEF UserStops, DeferredStop
  <1>7. CASE StopJoined
    BY <1>7 DEF StopJoined, TeardownLayers
  <1>8. CASE FrameChannelReadable \/ DrainStep \/ LeaveCallback \/ Push
    BY <1>8 DEF FrameChannelReadable, DrainStep, LeaveCallback, Push, layerVars, frameVars
  <1>9. CASE Dispatch
    <2>1. CASE got \in Names /\ got \in layers
      <3>1. got \in acked /\ got \notin removed
        BY <2>1 DEF AcksAreAcked, AcksUnderWay, OneAck
      <3>. QED BY <1>9, <2>1, <3>1 DEF Dispatch, Forget, frameVars
    <2>. QED BY <1>9, <2>1 DEF Dispatch, layerVars, frameVars
  <1>10. CASE LoopExits \/ PollEvents \/ ExitRequested
    BY <1>10 DEF LoopExits, PollEvents, ExitRequested, layerVars
  <1>11. CASE Snapshot
    BY <1>11 DEF Snapshot, layerVars
  <1>12. ASSUME NEW n \in Names, RemoveLayer(n) PROVE LayersInv'
    BY <1>12 DEF RemoveLayer
  <1>13. ASSUME NEW n \in Names, ReportLayerRemoved(n) PROVE LayersInv'
    <2>1. toRemove = {}
      BY <1>13 DEF ReportLayerRemoved, At, ThreadInv
    <2>. QED BY <1>13, <2>1 DEF ReportLayerRemoved, layerVars
  <1>14. CASE DropRemoved \/ Pace \/ Draw \/ EndFrame
    BY <1>14 DEF DropRemoved, Pace, Draw, EndFrame, layerVars
  <1>15. CASE UNCHANGED vars
    BY <1>15 DEF vars
  <1>. QED BY <1>1, <1>3, <1>4, <1>6, <1>7, <1>8, <1>9, <1>10, <1>11, <1>12, <1>13, <1>14, <1>15
           DEF Next, UserStep, CallbackStep, FrameStep

-----------------------------------------------------------------------------
(* The acks *)

AckInv == OneAck /\ AcksAreAcked /\ LostAckIsLogged

\* An entry moves through the channel: the acks stay the same, each in one
\* place.
LEMMA AcksMove ==
    ASSUME TypeOK, ChannelInv, AckInv, UNCHANGED <<acked, removed>>,
           \/ WriteSlot \/ PublishHead \/ WakeMain \/ RequestTeardown
           \/ ReadEventFd \/ PopSlot \/ PublishTail \/ FoundEmpty \/ ExchangeFlag
    PROVE  AckInv'
  <1>. USE ChannelAssumption, NamesAreEntries, FilledIsIndices
       DEF AckInv, OneAck, AcksAreAcked, LostAckIsLogged, AcksUnderWay, Sending, InRing
  <1>. ChannelTypeOK /\ removed \subseteq Names
    BY DEF TypeOK
  <1>1. CASE WriteSlot
    <2>1. head \notin Filled /\ Filled' = Filled
      BY <1>1, PushFills DEF WriteSlot, ChannelInv, ChannelTypeOK, Filled
    <2>2. \A i \in Filled : slots'[i] = slots[i]
      BY <1>1, <2>1 DEF WriteSlot, ChannelTypeOK
    <2>. QED BY <1>1, <2>1, <2>2 DEF WriteSlot
  <1>2. CASE PublishHead
    <2>1. head \notin Filled /\ Filled' = Filled \cup {head}
      BY <1>2, PushFills DEF PublishHead, ChannelInv, ChannelTypeOK, Filled
    <2>2. slots[head] = item /\ item # Nothing
      BY <1>2 DEF PublishHead, ChannelInv
    <2>. QED BY <1>2, <2>1, <2>2 DEF PublishHead
  <1>3. CASE PopSlot
    <2>1. tail \in Filled /\ Filled' = Filled
      BY <1>3, PopFrees DEF PopSlot, ChannelTypeOK, Filled
    <2>2. /\ got' = slots[tail] /\ got = Nothing
          /\ \A i \in Filled : slots'[i] = IF i = tail THEN Nothing ELSE slots[i]
      BY <1>3, <2>1 DEF PopSlot, ChannelTypeOK, ChannelInv
    <2>. QED BY <1>3, <2>1, <2>2 DEF PopSlot
  <1>4. CASE PublishTail
    <2>1. Filled' = Filled \ {tail} /\ slots[tail] = Nothing
      BY <1>4, PopFrees DEF PublishTail, ChannelInv, ChannelTypeOK, Filled
    <2>. QED BY <1>4, <2>1 DEF PublishTail
  <1>5. CASE WakeMain \/ RequestTeardown \/ ReadEventFd \/ FoundEmpty \/ ExchangeFlag
    BY <1>5 DEF WakeMain, RequestTeardown, ReadEventFd, FoundEmpty, ExchangeFlag, ringVars, Filled
  <1>. QED BY <1>1, <1>2, <1>3, <1>4, <1>5

\* An entry that names no monitor, sent or not.
LEMMA OthersPass ==
    ASSUME TypeOK, ChannelInv, AckInv, UNCHANGED <<acked, removed>>,
           NEW e \in Entries \ Names, Enqueue(e)
    PROVE  AckInv'
  <1>1. item = Nothing /\ UNCHANGED <<Filled, slots, got>>
    BY DEF Enqueue, ChannelInv, ringVars, Filled
  <1>2. item' \notin Names /\ (overflow => overflow')
    BY <1>1, NamesAreEntries DEF Enqueue
  <1>. QED BY <1>1, <1>2, NamesAreEntries
           DEF AckInv, OneAck, AcksAreAcked, LostAckIsLogged, AcksUnderWay, Sending, InRing,
               TypeOK

\* With an idle channel there are no acks, and none is missing if none of the
\* layers was acked.
LEMMA NoAcks ==
    ASSUME TypeOK, ChannelInv, stage = "idle", drain = "off",
           head' = 0, tail' = 0, UNCHANGED <<item, got>>, removed' = {}, acked' = {}
    PROVE  AckInv'
  <1>1. item' = Nothing /\ got' = Nothing
    BY DEF ChannelInv
  <1>2. Filled' = {}
    BY EmptyRing, ChannelAssumption DEF Filled, Index
  <1>. QED BY <1>1, <1>2, NamesAreEntries
           DEF AckInv, OneAck, AcksAreAcked, LostAckIsLogged, AcksUnderWay, Sending, InRing

\* A layer is acked once, and its ack is where the layer's name is.
LEMMA AcksKept ==
    ASSUME TypeOK, ChannelInv, ThreadInv, LayersInv, AckInv, [Next]_vars
    PROVE  AckInv'
  <1>0. ASSUME UNCHANGED <<head, tail, slots, item, got, overflow, acked, removed>>
        PROVE  AckInv'
    BY <1>0 DEF AckInv, OneAck, AcksAreAcked, LostAckIsLogged, AcksUnderWay, Sending, InRing, Filled
  <1>1. ASSUME NEW n \in Names, CreateXRMonitor(n) PROVE AckInv'
    BY <1>0, <1>1 DEF CreateXRMonitor, chanVars, frameVars
  <1>2. ASSUME NEW n \in Names, NEW out, InLoop, BeginRemoval(n, out) PROVE AckInv'
    <2>1. acked' = acked
      BY <1>2 DEF BeginRemoval, Forget, InLoop, ThreadInv, LayersInv
    <2>. QED BY <1>0, <1>2, <2>1 DEF BeginRemoval, chanVars, frameVars
  <1>3. ASSUME NEW n \in Names, DestroyXRMonitor(n) \/ OutputDestroyed(n) PROVE AckInv'
    BY <1>2, <1>3 DEF DestroyXRMonitor, OutputDestroyed
  <1>4. CASE Start
    <2>1. acked' = {} /\ removed' = {} /\ stage = "idle" /\ drain = "off"
      BY <1>4 DEF Start, Forget, InLoop, ThreadInv, LayersInv
    <2>. QED BY <1>4, <2>1, NoAcks DEF Start, ResetChannel
  <1>5. ASSUME Stop PROVE AckInv'
    <2>1. CASE StopIdle
      BY <2>1, NoAcks DEF StopIdle, TeardownLayers, ResetChannel, ThreadInv, frameVars
    <2>. QED BY <1>0, <1>5, <2>1 DEF Stop, StopRunning, chanVars, layerVars, frameVars
  <1>6. CASE UserStops \/ DeferredStop
    BY <1>5, <1>6 DEF UserStops, DeferredStop
  <1>7. CASE StopJoined
    BY <1>7, NoAcks DEF StopJoined, TeardownLayers, ResetChannel, ThreadInv
  <1>8. CASE FrameChannelReadable \/ DrainStep \/ LeaveCallback \/ Push
    BY <1>8, AcksMove DEF FrameChannelReadable, DrainStep, LeaveCallback, Push, PushStep,
                          layerVars, frameVars
  <1>9. CASE Dispatch
    <2>1. got' = Nothing /\ got # Nothing /\ UNCHANGED <<slots, item, overflow, removed, Filled>>
      BY <1>9 DEF Dispatch, Dispatched, ChannelInv, ringVars, frameVars, Filled
    <2>2. acked' = acked \ {got}
      BY <1>9 DEF Dispatch, Forget, layerVars, LayersInv, TypeOK
    <2>. QED BY <2>1, <2>2, NamesAreEntries
             DEF AckInv, OneAck, AcksAreAcked, LostAckIsLogged, AcksUnderWay, Sending, InRing,
                 TypeOK
  <1>10. CASE LoopExits \/ PollEvents \/ Snapshot \/ Draw
    BY <1>0, <1>10 DEF LoopExits, PollEvents, Snapshot, Draw, chanVars, layerVars
  <1>11. CASE ExitRequested
    BY <1>11, AcksMove DEF ExitRequested, layerVars
  <1>12. ASSUME NEW n \in Names, RemoveLayer(n) PROVE AckInv'
    <2>1. n \notin acked
      BY <1>12 DEF RemoveLayer, LayersInv
    <2>2. /\ acked' = acked \cup {n} /\ removed' = removed \cup {n}
          /\ UNCHANGED <<slots, item, got, overflow, Filled>>
      BY <1>12 DEF RemoveLayer, chanVars, Filled
    <2>3. n # got /\ n # item /\ \A i \in Filled : slots[i] # n
      BY <2>1, NamesAreEntries DEF AckInv, AcksAreAcked, AcksUnderWay, Sending, InRing
    <2>. QED BY <2>1, <2>2, <2>3
             DEF AckInv, OneAck, AcksAreAcked, LostAckIsLogged, AcksUnderWay, Sending, InRing
  <1>13. ASSUME NEW n \in Names, ReportLayerRemoved(n) PROVE AckInv'
    <2>1. n \in removed /\ removed' = removed \ {n} /\ acked' = acked
      BY <1>13 DEF ReportLayerRemoved, layerVars
    <2>2. item = Nothing /\ UNCHANGED <<slots, got, Filled>>
      BY <1>13 DEF ReportLayerRemoved, Enqueue, ChannelInv, ringVars, Filled
    <2>3. overflow' \/ (item' = n /\ overflow' = overflow)
      BY <1>13, NamesAreEntries DEF ReportLayerRemoved, Enqueue
    <2>4. item' \in {n, Nothing}
      BY <1>13, <2>2 DEF ReportLayerRemoved, Enqueue
    <2>. QED BY <2>1, <2>2, <2>3, <2>4, NamesAreEntries
             DEF AckInv, OneAck, AcksAreAcked, LostAckIsLogged, AcksUnderWay, Sending, InRing,
                 TypeOK
  <1>14. CASE DropRemoved
    BY <1>0, <1>14 DEF DropRemoved, chanVars, layerVars
  <1>15. CASE Pace \/ EndFrame
    <2>1. UNCHANGED chanVars \/ \E e \in Entries \ Names : Enqueue(e)
      BY <1>15, ChannelAssumption, LayersAssumption DEF Pace, EndFrame
    <2>. QED BY <1>0, <1>15, <2>1, OthersPass DEF Pace, EndFrame, chanVars, layerVars
  <1>16. CASE UNCHANGED vars
    BY <1>0, <1>16 DEF vars
  <1>. QED BY <1>1, <1>3, <1>4, <1>6, <1>7, <1>8, <1>9, <1>10, <1>11, <1>12, <1>13, <1>14, <1>15,
              <1>16
           DEF Next, UserStep, CallbackStep, FrameStep

-----------------------------------------------------------------------------
(* The theorems *)

LEMMA InvInit == Init => LayersInvariant
  <1>. SUFFICES ASSUME Init PROVE LayersInvariant
    OBVIOUS
  <1>. USE DEF Init, ChannelInit
  <1>1. 0 \in Index
    BY ChannelAssumption DEF Index
  <1>2. Filled = {}
    BY <1>1, EmptyRing DEF Filled
  <1>3. TypeOK
    BY <1>1 DEF TypeOK, ChannelTypeOK, LoopPlaces
  <1>4. ChannelInv
    BY <1>2 DEF ChannelInv
  <1>5. ThreadInv /\ LayersInv
    BY DEF ThreadInv, LayersInv
  <1>6. OneAck /\ AcksAreAcked /\ LostAckIsLogged
    BY <1>2, NamesAreEntries
       DEF OneAck, AcksAreAcked, LostAckIsLogged, AcksUnderWay, Sending, InRing
  <1>. QED BY <1>3, <1>4, <1>5, <1>6 DEF LayersInvariant

LEMMA InvKept == LayersInvariant /\ [Next]_vars => LayersInvariant'
  <1>. SUFFICES ASSUME LayersInvariant, [Next]_vars PROVE LayersInvariant'
    OBVIOUS
  <1>1. ChannelInv'
    BY SystemStep, ChannelKept DEF LayersInvariant, TypeOK, ChannelStep
  <1>2. TypeOK' /\ ThreadInv' /\ LayersInv'
    BY TypesKept, ThreadKept, LayersKept DEF LayersInvariant
  <1>3. AckInv'
    BY AcksKept DEF LayersInvariant, AckInv
  <1>. QED BY <1>1, <1>2, <1>3 DEF LayersInvariant, AckInv

THEOREM LayersInvariance == Spec => []LayersInvariant
  BY InvInit, InvKept, PTL DEF Spec

\* The variables keep their types.
THEOREM TypeCorrect == Spec => []TypeOK
  <1>1. LayersInvariant => TypeOK
    BY DEF LayersInvariant
  <1>. QED BY <1>1, LayersInvariance, PTL

\* Reader and writer of the ring never touch the same slot at the same time.
THEOREM NoSlotIsShared == Spec => []SlotsApart
  <1>1. LayersInvariant => SlotsApart
    <2>. SUFFICES ASSUME LayersInvariant PROVE SlotsApart
      OBVIOUS
    <2>. USE DEF LayersInvariant, TypeOK, ChannelTypeOK, ChannelInv
    <2>2. stage \in {"write", "publish"} => head \notin Filled /\ Nxt(head) # tail
      BY PushFills DEF Filled
    <2>3. drain = "advance" => tail \in Filled
      BY PopFrees DEF Filled
    <2>4. got # Nothing => got \in Entries
      OBVIOUS
    <2>. QED BY <2>2, <2>3, <2>4 DEF SlotsApart
  <1>. QED BY <1>1, LayersInvariance, PTL

\* The threads agree about the layers: what is drawn or taken apart exists, acks
\* find the layer they are about, swapchains belong to layers that exist.
THEOREM ThreadsAgree == Spec => []LayersAgree
  <1>1. LayersInvariant => LayersAgree
    BY DEF LayersInvariant, LayersInv, AcksAreAcked, LayersAgree
  <1>. QED BY <1>1, LayersInvariance, PTL

-----------------------------------------------------------------------------
(* The wake-up, and what a step takes away *)

\* The counter is read before the ring, and set after it.
LEMMA WakeMoves ==
    ASSUME WakeIsComing, ChannelMove
    PROVE  WakeIsComing'
  <1>. USE DEF WakeIsComing
  <1>1. CASE WriteSlot \/ PublishHead \/ WakeMain \/ RequestTeardown
    BY <1>1 DEF WriteSlot, PublishHead, WakeMain, RequestTeardown
  <1>2. ASSUME NEW e \in Entries, Enqueue(e) PROVE WakeIsComing'
    BY <1>2 DEF Enqueue, ringVars
  <1>3. CASE ReadEventFd \/ PopSlot \/ PublishTail
    BY <1>3 DEF ReadEventFd, PopSlot, PublishTail
  <1>4. CASE Dispatched \/ FoundEmpty \/ ExchangeFlag
    BY <1>4 DEF Dispatched, FoundEmpty, ExchangeFlag, ringVars
  <1>5. CASE UNCHANGED chanVars
    BY <1>5 DEF chanVars
  <1>. QED BY <1>1, <1>2, <1>3, <1>4, <1>5 DEF ChannelMove

\* Only a start makes a frame thread.
LEMMA OnlyStart ==
    ASSUME ThreadInv, [Next]_vars, thread = "none", thread' # "none"
    PROVE  Start
  <1>1. ~UserStep \/ Start
    BY DEF UserStep, CreateXRMonitor, DestroyXRMonitor, OutputDestroyed, BeginRemoval, UserStops,
           Stop, StopIdle, StopRunning, frameVars, ThreadInv
  <1>2. ~DeferredStop /\ ~StopJoined
    BY DEF DeferredStop, Stop, StopIdle, StopRunning, StopJoined, frameVars
  <1>3. ~FrameChannelReadable /\ ~CallbackStep
    BY DEF FrameChannelReadable, CallbackStep, DrainStep, Dispatch, LeaveCallback, PopSlot,
           PublishTail, FoundEmpty, Dispatched, ExchangeFlag, frameVars, ThreadInv
  <1>4. ~FrameStep /\ ~ExitRequested
    BY DEF FrameStep, ExitRequested, Push, PushStep, WriteSlot, PublishHead, WakeMain, LoopExits,
           PollEvents, Snapshot, RemoveLayer, ReportLayerRemoved, DropRemoved, Pace, Draw, EndFrame,
           At, frameVars
  <1>5. ~UNCHANGED vars
    BY DEF vars
  <1>. QED BY <1>1, <1>2, <1>3, <1>4, <1>5 DEF Next

\* Unless there is no frame thread, a wake-up is coming for what is left.
NoLostWake == thread # "none" => WakeIsComing

\* An entry or a request that the frame thread left is always about to wake
\* the main thread, and an ack is lost to a full ring only, with a line in the log.
THEOREM NoWakeIsLost == Spec => []NothingIsLost
  <1>1. Init => NoLostWake
    BY DEF Init, NoLostWake
  <1>2. LayersInvariant /\ NoLostWake /\ [Next]_vars => NoLostWake'
    <2>. SUFFICES ASSUME LayersInvariant, NoLostWake, [Next]_vars, thread' # "none"
                  PROVE  WakeIsComing'
      BY DEF NoLostWake
    <2>1. CASE Start
      BY <2>1 DEF Start, ResetChannel, InLoop, WakeIsComing
    <2>2. CASE ~Start
      <3>1. thread # "none"
        BY <2>2, OnlyStart DEF LayersInvariant
      <3>2. ChannelMove
        BY <2>2, SystemStep DEF LayersInvariant
      <3>. QED BY <3>1, <3>2, WakeMoves DEF NoLostWake
    <2>. QED BY <2>1, <2>2
  <1>3. LayersInvariant /\ NoLostWake => NothingIsLost
    BY DEF LayersInvariant, NoLostWake, NothingIsLost
  <1>. QED BY <1>1, <1>2, <1>3, LayersInvariance, PTL DEF Spec

\* While a session runs, a layer goes only after it was flagged for removal.
THEOREM LayersGoFlagged == Spec => OnlyPendingLayersGo
  <1>1. LayersInvariant /\ [Next]_vars =>
          (running /\ thread # "none" => (layers \ layers') \subseteq pending)
    <2>. SUFFICES ASSUME LayersInvariant, [Next]_vars, running, thread # "none"
                  PROVE  (layers \ layers') \subseteq pending
      OBVIOUS
    <2>1. CASE layers \subseteq layers'
      BY <2>1
    <2>2. CASE Dispatch
      <3>1. CASE got \in Names /\ got \in layers
        BY <2>2, <3>1
           DEF Dispatch, Forget, LayersInvariant, LayersInv, AcksAreAcked, AcksUnderWay
      <3>. QED BY <2>1, <2>2, <3>1 DEF Dispatch, layerVars
    <2>3. CASE UserStep
      BY <2>1, <2>3
         DEF UserStep, CreateXRMonitor, DestroyXRMonitor, OutputDestroyed, BeginRemoval, Start,
             UserStops, Stop, StopIdle, StopRunning, layerVars, InLoop
    <2>4. CASE FrameChannelReadable \/ DrainStep \/ LeaveCallback \/ DeferredStop \/ StopJoined
      BY <2>1, <2>4
         DEF FrameChannelReadable, DrainStep, LeaveCallback, DeferredStop, StopJoined,
             Stop, StopIdle, StopRunning, layerVars, LayersInvariant, ThreadInv
    <2>5. CASE FrameStep \/ ExitRequested
      BY <2>1, <2>5
         DEF FrameStep, ExitRequested, Push, LoopExits, PollEvents, Snapshot, RemoveLayer,
             ReportLayerRemoved, DropRemoved, Pace, Draw, EndFrame, layerVars
    <2>6. CASE UNCHANGED vars
      BY <2>1, <2>6 DEF vars
    <2>. QED BY <2>2, <2>3, <2>4, <2>5, <2>6 DEF Next, CallbackStep
  <1>. QED BY <1>1, LayersInvariance, PTL DEF Spec, OnlyPendingLayersGo

-----------------------------------------------------------------------------
(* The ring is a queue *)

LEMMA CountIsNat ==
    ASSUME NEW t \in Index, NEW h \in Index
    PROVE  /\ Count(t, h) \in 0..(Cap - 1)
           /\ Count(t, h) = 0 <=> t = h
  BY ChannelAssumption DEF Index, Count

LEMMA CountAfterPush ==
    ASSUME NEW t \in Index, NEW h \in Index, Nxt(h) # t
    PROVE  /\ Count(t, Nxt(h)) = Count(t, h) + 1
           /\ Slot(t, Count(t, h) + 1) = h
           /\ \A k \in 1..Count(t, h) : Slot(t, k) # h
  BY ChannelAssumption DEF Index, Count, Nxt, Slot

LEMMA CountAfterPop ==
    ASSUME NEW t \in Index, NEW h \in Index, t # h
    PROVE  /\ Count(Nxt(t), h) = Count(t, h) - 1
           /\ \A k \in 1..(Count(t, h) - 1) : Slot(Nxt(t), k) = Slot(t, k + 1)
           /\ \A k \in 2..Count(t, h) : Slot(t, k) # t
           /\ Slot(t, 1) = t
  BY ChannelAssumption DEF Index, Count, Nxt, Slot

LEMMA SlotIsFilled ==
    ASSUME NEW t \in Index, NEW h \in Index, NEW k \in 1..Count(t, h)
    PROVE  Slot(t, k) \in Between(t, h)
  BY ChannelAssumption DEF Index, Count, Slot, Between

LEMMA ContentsAreEntries ==
    ASSUME ChannelTypeOK, ChannelInv
    PROVE  Contents \in Seq(Entries) /\ Len(Contents) = Count(tail, head)
  <1>. DEFINE n == Count(tail, head)
  <1>1. n \in Nat
    BY CountIsNat DEF ChannelTypeOK
  <1>2. \A k \in 1..n : Contents[k] \in Entries
    <2>. SUFFICES ASSUME NEW k \in 1..n PROVE Contents[k] \in Entries
      OBVIOUS
    <2>1. Slot(tail, k) \in Filled
      BY SlotIsFilled DEF ChannelTypeOK, Filled
    <2>2. k # 1 => Slot(tail, k) # tail
      BY <1>1, CountAfterPop, CountIsNat DEF ChannelTypeOK
    <2>. QED BY <2>1, <2>2, CountAfterPop, FilledIsIndices DEF ChannelTypeOK, ChannelInv, Contents
  <1>3. DOMAIN Contents = 1..n
    BY DEF Contents
  <1>. QED BY <1>1, <1>2, <1>3 DEF Contents

\* Sequences given as functions.
LEMMA IsAppend ==
    ASSUME NEW S, NEW s \in Seq(S), NEW e \in S, NEW t,
           DOMAIN t = 1..(Len(s) + 1), t = [k \in DOMAIN t |-> t[k]],
           \A k \in 1..(Len(s) + 1) : t[k] = IF k = Len(s) + 1 THEN e ELSE s[k]
    PROVE  t = Append(s, e)
  <1>1. Len(s) \in Nat /\ \A k \in 1..Len(s) : s[k] \in S
    OBVIOUS
  <1>2. t \in [1..(Len(s) + 1) -> S]
    BY <1>1
  <1>3. t \in Seq(S) /\ Len(t) = Len(s) + 1
    BY <1>1, <1>2
  <1>. QED BY <1>1, <1>3, SeqEqual, AppendProperties

LEMMA IsTail ==
    ASSUME NEW S, NEW s \in Seq(S), s # <<>>, NEW t,
           DOMAIN t = 1..(Len(s) - 1), t = [k \in DOMAIN t |-> t[k]],
           \A k \in 1..(Len(s) - 1) : t[k] = s[k + 1]
    PROVE  t = Tail(s)
  <1>1. Len(s) \in Nat \ {0} /\ \A k \in 1..Len(s) : s[k] \in S
    OBVIOUS
  <1>2. t \in [1..(Len(s) - 1) -> S]
    BY <1>1
  <1>3. t \in Seq(S) /\ Len(t) = Len(s) - 1
    BY <1>1, <1>2
  <1>. QED BY <1>1, <1>3, SeqEqual, HeadTailProperties

LEMMA FifoStep ==
    ASSUME ChannelTypeOK, ChannelInv, ChannelStep
    PROVE  Fifo!Next \/ UNCHANGED <<Contents, Taken>>
  <1>. DEFINE n == Count(tail, head)
  <1>. USE ChannelAssumption DEF ChannelTypeOK, ChannelInv
  <1>0. n \in Nat /\ Contents \in Seq(Entries) /\ Len(Contents) = n
        /\ DOMAIN Contents = 1..n
    BY CountIsNat, ContentsAreEntries DEF Contents
  <1>1. CASE WriteSlot
    <2>1. \A k \in 1..n : Slot(tail, k) # head /\ Slot(tail, k) \in Index
      BY <1>1, CountAfterPush, SlotIsFilled DEF WriteSlot, Between
    <2>2. \A k \in 1..n : slots'[Slot(tail, k)] = slots[Slot(tail, k)]
      BY <1>1, <2>1 DEF WriteSlot
    <2>3. Contents' = Contents
      BY <1>1, <2>2 DEF WriteSlot, Contents
    <2>. QED BY <1>1, <2>3 DEF WriteSlot, Taken
  <1>2. CASE PublishHead
    <2>1. Count(tail', head') = n + 1 /\ Slot(tail, n + 1) = head /\ n < Cap - 1
      BY <1>2, CountAfterPush, CountIsNat, NxtIsIndex DEF PublishHead
    <2>2. slots[head] = item /\ item \in Entries
      BY <1>2 DEF PublishHead
    <2>3. drain = "advance" => n # 0
      BY CountIsNat
    <2>4. Contents' = Append(Contents, item)
      <3>1. Contents' = [k \in 1..(n + 1) |->
                            IF k = 1 /\ drain = "advance" THEN got ELSE slots[Slot(tail, k)]]
        BY <1>2, <2>1 DEF PublishHead, Contents
      <3>3. \A k \in 1..(n + 1) : Contents'[k] = IF k = n + 1 THEN item ELSE Contents[k]
        BY <1>0, <2>1, <2>2, <2>3, <3>1 DEF Contents
      <3>4. /\ DOMAIN Contents' = 1..(Len(Contents) + 1)
            /\ Contents' = [k \in DOMAIN Contents' |-> Contents'[k]]
        BY <1>0, <3>1
      <3>. HIDE DEF n
      <3>. QED BY <1>0, <2>2, <3>3, <3>4, IsAppend
    <2>. QED BY <1>0, <1>2, <2>1, <2>2, <2>4 DEF PublishHead, Fifo!Next, Fifo!Accept, Taken
  <1>3. CASE PopSlot
    <2>1. \A k \in 2..n : Slot(tail, k) # tail /\ Slot(tail, k) \in Index
      BY <1>0, <1>3, CountAfterPop, SlotIsFilled DEF PopSlot, Between
    <2>2. \A k \in 2..n : slots'[Slot(tail, k)] = slots[Slot(tail, k)]
      BY <1>3, <2>1 DEF PopSlot
    <2>3. Slot(tail, 1) = tail /\ got' = slots[tail] /\ drain = "pop" /\ drain' = "advance"
          /\ UNCHANGED <<head, tail>>
      BY <1>3, CountAfterPop DEF PopSlot
    <2>4. Contents' = Contents
      <3>1. Contents' = [k \in 1..n |-> IF k = 1 THEN got' ELSE slots'[Slot(tail, k)]]
        BY <2>3 DEF Contents
      <3>2. Contents = [k \in 1..n |-> slots[Slot(tail, k)]]
        BY <2>3 DEF Contents
      <3>3. \A k \in 1..n : (IF k = 1 THEN got' ELSE slots'[Slot(tail, k)]) = slots[Slot(tail, k)]
        BY <1>0, <2>2, <2>3
      <3>. QED BY <3>1, <3>2, <3>3
    <2>. QED BY <2>3, <2>4 DEF Taken
  <1>4. CASE PublishTail
    <2>1. /\ Count(tail', head') = n - 1 /\ n # 0
          /\ \A k \in 1..(n - 1) : Slot(tail', k) = Slot(tail, k + 1)
      BY <1>4, CountAfterPop, CountIsNat DEF PublishTail
    <2>2. Contents' = [k \in 1..(n - 1) |-> slots[Slot(tail', k)]]
      BY <1>4, <2>1 DEF PublishTail, Contents
    <2>3. \A k \in 1..(n - 1) : slots[Slot(tail', k)] = Contents[k + 1]
      BY <1>0, <2>1 DEF Contents
    <2>4. Contents # <<>>
      BY <1>0, <2>1
    <2>5. Contents' = Tail(Contents)
      <3>1. /\ DOMAIN Contents' = 1..(Len(Contents) - 1)
            /\ Contents' = [k \in DOMAIN Contents' |-> Contents'[k]]
        BY <1>0, <2>2
      <3>2. \A k \in 1..(n - 1) : Contents'[k] = Contents[k + 1]
        BY <2>2, <2>3
      <3>. HIDE DEF n
      <3>. QED BY <1>0, <2>4, <3>1, <3>2, IsTail
    <2>6. Contents # <<>> /\ Head(Contents) = got
      BY <1>0, <1>4, <2>1 DEF PublishTail, Contents
    <2>. QED BY <1>4, <2>5, <2>6 DEF PublishTail, Fifo!Next, Fifo!Take, Taken
  <1>5. CASE Dispatched
    BY <1>5 DEF Dispatched, ringVars, Contents, Fifo!Next, Fifo!Finish, Taken
  <1>6. ASSUME UNCHANGED <<head, tail, slots, got>>,
               drain' = drain \/ {drain, drain'} \subseteq {"off", "pop", "flags"}
        PROVE  UNCHANGED <<Contents, Taken>>
    BY <1>6 DEF Contents, Taken
  <1>7. CASE WakeMain \/ RequestTeardown \/ ReadEventFd \/ FoundEmpty \/ ExchangeFlag
    BY <1>6, <1>7 DEF WakeMain, RequestTeardown, ReadEventFd, FoundEmpty, ExchangeFlag, ringVars
  <1>8. ASSUME NEW e \in Entries, Enqueue(e) PROVE UNCHANGED <<Contents, Taken>>
    BY <1>6, <1>8 DEF Enqueue, ringVars
  <1>9. CASE Reset
    <2>1. Count(tail', head') = 0 /\ drain' = drain /\ got' = got
      BY <1>9 DEF Reset, ResetChannel, Count
    <2>2. Contents' = <<>>
      BY <2>1 DEF Contents
    <2>. QED BY <1>9, <2>1, <2>2 DEF Reset, Fifo!Next, Fifo!Clear, Taken
  <1>10. CASE UNCHANGED chanVars
    BY <1>6, <1>10 DEF chanVars
  <1>. QED BY <1>1, <1>2, <1>3, <1>4, <1>5, <1>7, <1>8, <1>9, <1>10 DEF ChannelStep, ChannelMove

\* The ring, read and written without a lock, is a bounded queue: what was
\* accepted comes out unchanged and in order.
THEOREM RingIsQueue == Spec => ChannelIsFifo
  <1>1. Init => Fifo!Init
    <2>. SUFFICES ASSUME Init PROVE Fifo!Init
      OBVIOUS
    <2>1. Count(tail, head) = 0
      BY DEF Init, ChannelInit, Count
    <2>2. Contents = <<>>
      BY <2>1 DEF Contents
    <2>. QED BY <2>2 DEF Init, ChannelInit, Fifo!Init, Taken
  <1>2. LayersInvariant /\ [Next]_vars => [Fifo!Next]_<<Contents, Taken>>
    BY SystemStep, FifoStep DEF LayersInvariant, TypeOK, ChannelStep
  <1>. QED BY <1>1, <1>2, LayersInvariance, PTL DEF Spec, ChannelIsFifo, Fifo!Spec

=============================================================================
