------------------------------- MODULE XRLayers -------------------------------
(***************************************************************************)
(* The XR monitors of COpenXRManager: their layer records, their headless  *)
(* outputs and their swapchains, created and destroyed by the main thread  *)
(* while the frame thread draws them, and the removal barrier between the  *)
(* two: m_pendingRemoval, the ack through the frame->main channel, and     *)
(* what start() and stop() do with a removal that is under way.            *)
(*                                                                         *)
(* Actors: the user and the config, which create and destroy monitors; the *)
(* backend, which may destroy an output by itself; the frame thread; the   *)
(* main thread.  A start() is one action: XRLifecycle has its steps.  All  *)
(* layers are m_createdByXR.                                               *)
(*                                                                         *)
(* Left out: what is drawn, plugging and unplugging, the listeners of a    *)
(* layer, quad suspension, the hidden view, a session that ends before it  *)
(* began.                                                                  *)
(***************************************************************************)
EXTENDS XRFrameChannel, FiniteSets

CONSTANTS
    Names,          \* monitor names
    Other,          \* the state events without an effect here: SCHEDULE_FRAMES...
    DestroyOnStop   \* openxr:destroy_monitors_on_stop

ASSUME LayersAssumption ==
    /\ Names \subseteq Entries          \* LAYER_REMOVED carries the name
    /\ Other \in Entries \ (Names \cup Motion)
    /\ Names \cap Motion = {}
    /\ DestroyOnStop \in BOOLEAN

VARIABLES
    layers,    \* the names in m_layers
    output,    \* the monitors whose output exists
    pending,   \* layers with m_pendingRemoval
    acked,     \* layers with m_removalAcked
    swapchain, \* layers with a swapchain and GL resources
    thread,    \* the frame thread: none, a place in its loop, exited
    running,   \* m_running
    active,    \* the layers it draws this frame (it holds a reference)
    toRemove,  \* the pending, not yet acked layers of its snapshot (the same)
    ackedRefs, \* and the pending ones it had acked before (the same)
    removed,   \* the names whose ack it has not sent yet
    stopping,  \* the main thread is inside stop(), joining
    later      \* a stop() is queued with doLater

frameVars == <<thread, active, toRemove, ackedRefs, removed>>
layerVars == <<layers, output, pending, acked>>
mainVars  == <<running, stopping, later>>
vars == <<head, tail, slots, efd, overflow, stage, item, drain, got, req,
          layers, output, pending, acked, swapchain,
          thread, running, active, toRemove, ackedRefs, removed, stopping, later>>

LoopPlaces == {"poll", "snapshot", "remove", "report", "draw", "input",
               "leave"}

TypeOK ==
    /\ ChannelTypeOK
    /\ layers \subseteq Names /\ output \subseteq Names
    /\ pending \subseteq Names /\ acked \subseteq Names
    /\ swapchain \subseteq Names
    /\ thread \in LoopPlaces \cup {"none", "exited"}
    /\ running \in BOOLEAN
    /\ active \subseteq Names /\ toRemove \subseteq Names
    /\ ackedRefs \subseteq Names /\ removed \subseteq Names
    /\ stopping \in BOOLEAN /\ later \in BOOLEAN

\* No session has been started and no monitor exists.
Init ==
    /\ ChannelInit
    /\ layers = {} /\ output = {} /\ pending = {} /\ acked = {} /\ swapchain = {}
    /\ thread = "none" /\ running = FALSE
    /\ active = {} /\ toRemove = {} /\ ackedRefs = {} /\ removed = {}
    /\ stopping = FALSE /\ later = FALSE

-----------------------------------------------------------------------------
(* Monitors, on the main thread *)

InLoop == drain = "off" /\ ~stopping

\* finalizeLayerRemoval for the layers S: the records go, with their flags,
\* and the outputs that still exist.
Forget(S) ==
    /\ layers' = layers \ S
    /\ pending' = pending \ S /\ acked' = acked \ S
    /\ output' = output \ S

\* createXRMonitor.  A name in use is refused, be it of a layer that is still
\* being removed.
CreateXRMonitor(n) ==
    /\ InLoop
    /\ n \notin layers /\ n \notin output
    /\ layers' = layers \cup {n} /\ output' = output \cup {n}
    /\ UNCHANGED <<chanVars, pending, acked, swapchain, frameVars, mainVars>>

\* Mutation: The barrier is skipped: the record and the output go at once.
BeginRemoval_NoBarrier(n, out) ==
    /\ Forget({n})
    /\ swapchain' = IF running THEN swapchain ELSE swapchain \ {n}
    /\ UNCHANGED <<chanVars, frameVars, mainVars>>

\* The barrier of a removal, or none without a frame thread: finalize then
\* destroys what the frame thread would have.
BeginRemoval(n, out) ==
    /\ IF running
       THEN /\ pending' = pending \cup {n} /\ output' = out
            /\ UNCHANGED <<layers, acked, swapchain>>
       ELSE /\ Forget({n})
            /\ swapchain' = swapchain \ {n}
    /\ UNCHANGED <<chanVars, frameVars, mainVars>>

\* The destroy verb, and a reconcile that finds the monitor not declared.
DestroyXRMonitor(n) == InLoop /\ n \in layers /\ BeginRemoval(n, output)

\* The output is destroyed by somebody else: the destroy listener.
OutputDestroyed(n) ==
    /\ InLoop
    /\ n \in layers \cap output
    /\ BeginRemoval(n, output \ {n})

-----------------------------------------------------------------------------
(* The session, on the main thread *)

\* A start() that succeeds: the channel is set up, layers whose output is gone
\* are dropped, the frame thread is spawned.
Start ==
    /\ InLoop /\ ~running /\ thread = "none"
    /\ ResetChannel(FALSE, FALSE)
    /\ Forget(layers \ output)
    /\ running' = TRUE /\ thread' = "poll"
    /\ UNCHANGED <<swapchain, active, toRemove, ackedRefs, removed, stopping, later>>

\* teardownLayers.  A layer that is kept forgets a removal under way.
TeardownLayers ==
    IF DestroyOnStop
    THEN /\ layers' = {} /\ pending' = {} /\ acked' = {}
         /\ output' = output \ layers
    ELSE /\ pending' = {} /\ acked' = {}
         /\ UNCHANGED <<layers, output>>

\* stop() without a frame thread, from UNAVAILABLE.  From DISABLED it returns at
\* once, which the model does not tell apart.
StopIdle ==
    /\ thread = "none"
    /\ TeardownLayers
    /\ ResetChannel(req, overflow)
    /\ UNCHANGED <<swapchain, frameVars, running, stopping>>

\* stop() up to the join.
StopRunning ==
    /\ running
    /\ running' = FALSE /\ stopping' = TRUE
    /\ UNCHANGED <<chanVars, layerVars, swapchain, frameVars>>

Stop == StopIdle \/ StopRunning

UserStops == InLoop /\ Stop /\ UNCHANGED later

DeferredStop == InLoop /\ later /\ later' = FALSE /\ Stop

\* stop() after the join: what the frame thread left is freed here.
StopJoined ==
    /\ stopping /\ thread = "exited"
    /\ thread' = "none"
    /\ active' = {} /\ toRemove' = {} /\ ackedRefs' = {} /\ removed' = {}
    /\ swapchain' = swapchain \ layers
    /\ TeardownLayers
    /\ ResetChannel(req, overflow)
    /\ stopping' = FALSE
    /\ UNCHANGED <<running, later>>

-----------------------------------------------------------------------------
(* The channel callback, on the main thread *)

\* The eventfd source exists while the session does.
FrameChannelReadable ==
    /\ InLoop /\ thread # "none"
    /\ ReadEventFd
    /\ UNCHANGED <<layerVars, swapchain, frameVars, mainVars>>

DrainStep ==
    /\ PopSlot \/ PublishTail \/ FoundEmpty
    /\ UNCHANGED <<layerVars, swapchain, frameVars, mainVars>>

\* dispatchStateEvent, dispatchInputEvent: LAYER_REMOVED finalizes the removal.
Dispatch ==
    /\ Dispatched
    /\ IF got \in Names /\ got \in layers THEN Forget({got}) ELSE UNCHANGED layerVars
    /\ UNCHANGED <<swapchain, frameVars, mainVars>>

\* The end of the callback: a requested teardown is deferred.
LeaveCallback ==
    /\ ExchangeFlag
    /\ later' = (later \/ req)
    /\ UNCHANGED <<layerVars, swapchain, frameVars, running, stopping>>

-----------------------------------------------------------------------------
(* The frame thread; it goes on from a place when nothing is being sent *)

At(place) == thread = place /\ stage = "idle"

Push == PushStep /\ UNCHANGED <<layerVars, swapchain, frameVars, mainVars>>

\* while (m_running), and the session's events: nothing new, or the end of the
\* session.
LoopExits ==
    /\ (At("poll") /\ ~running) \/ At("leave")
    /\ thread' = "exited"
    /\ UNCHANGED <<chanVars, layerVars, swapchain, active, toRemove, ackedRefs,
                   removed, mainVars>>

PollEvents ==
    /\ At("poll") /\ running
    /\ thread' = "snapshot"
    /\ UNCHANGED <<chanVars, layerVars, swapchain, active, toRemove, ackedRefs,
                   removed, mainVars>>

ExitRequested ==
    /\ At("poll") /\ running
    /\ RequestTeardown
    /\ thread' = "leave"
    /\ UNCHANGED <<layerVars, swapchain, active, toRemove, ackedRefs,
                   removed, mainVars>>

\* The snapshot under m_layersMu.  It takes in all pending layers; those acked
\* in an earlier frame are skipped below, and their references dropped with the
\* others.
Snapshot ==
    /\ At("snapshot")
    /\ active' = layers \ pending
    /\ toRemove' = pending \ acked /\ ackedRefs' = pending \cap acked
    /\ thread' = "remove"
    /\ UNCHANGED <<chanVars, layerVars, swapchain, removed, mainVars>>

\* A pending layer that was not acked loses its resources; its name is kept
\* for the ack.
RemoveLayer(n) ==
    /\ At("remove") /\ n \in toRemove \ removed
    /\ acked' = acked \cup {n}
    /\ swapchain' = swapchain \ {n}
    /\ removed' = removed \cup {n}
    /\ UNCHANGED <<chanVars, layers, output, pending, thread, active,
                   toRemove, ackedRefs, mainVars>>

\* Mutation: The acks are forgotten with the references.
DropRemoved_NoAck ==
    /\ At("remove") /\ toRemove \subseteq removed
    /\ toRemove' = {} /\ ackedRefs' = {} /\ removed' = {}
    /\ thread' = "report"
    /\ UNCHANGED <<chanVars, layerVars, swapchain, active, mainVars>>

\* toRemove.clear(): the references go before the acks are sent.
DropRemoved ==
    /\ At("remove") /\ toRemove \subseteq removed
    /\ toRemove' = {} /\ ackedRefs' = {}
    /\ thread' = "report"
    /\ UNCHANGED <<chanVars, layerVars, swapchain, active, removed, mainVars>>

ReportLayerRemoved(n) ==
    /\ At("report") /\ n \in removed
    /\ Enqueue(n)
    /\ removed' = removed \ {n}
    /\ UNCHANGED <<layerVars, swapchain, thread, active, toRemove, ackedRefs, mainVars>>

\* The state events of the frame, SCHEDULE_FRAMES among them (those of the
\* session's own events are sent a little earlier).
Pace ==
    /\ At("report") /\ removed = {}
    /\ Enqueue(Other) \/ UNCHANGED chanVars
    /\ thread' = "draw"
    /\ UNCHANGED <<layerVars, swapchain, active, toRemove, ackedRefs,
                   removed, mainVars>>

\* Every layer drawn has a swapchain then.
Draw ==
    /\ At("draw")
    /\ swapchain' = swapchain \cup active
    /\ thread' = "input"
    /\ UNCHANGED <<chanVars, layerVars, active, toRemove, ackedRefs, removed, mainVars>>

\* The pointer events of the frame; then the snapshot's references go.
EndFrame ==
    /\ At("input")
    /\ (\E e \in Motion : Enqueue(e)) \/ UNCHANGED chanVars
    /\ active' = {}
    /\ thread' = "poll"
    /\ UNCHANGED <<layerVars, swapchain, toRemove, ackedRefs, removed, mainVars>>

-----------------------------------------------------------------------------
FrameStep ==
    \/ Push \/ LoopExits \/ PollEvents \/ Snapshot
    \/ \E n \in Names : RemoveLayer(n) \/ ReportLayerRemoved(n)
    \/ DropRemoved \/ Pace \/ Draw \/ EndFrame

CallbackStep == DrainStep \/ Dispatch \/ LeaveCallback

UserStep ==
    \/ \E n \in Names : CreateXRMonitor(n) \/ DestroyXRMonitor(n) \/ OutputDestroyed(n)
    \/ Start \/ UserStops

Next == \/ UserStep \/ FrameChannelReadable \/ CallbackStep \/ StopJoined
        \/ DeferredStop \/ FrameStep \/ ExitRequested

Spec == Init /\ [][Next]_vars

\* The frame loop goes on (xrWaitFrame returns), and the event loop serves the
\* channel, the deferred stop and its own callbacks.
FairSpec ==
    /\ Spec
    /\ WF_vars(FrameStep) /\ WF_vars(FrameChannelReadable) /\ WF_vars(CallbackStep)
    /\ WF_vars(StopJoined) /\ WF_vars(DeferredStop)

-----------------------------------------------------------------------------
(* Correctness *)

\* The acks that are on their way.
Sending == {item} \ {Nothing}
InRing == {slots[i] : i \in Filled} \ {Nothing}
AcksUnderWay == (removed \cup Sending \cup InRing \cup {got}) \cap Names

\* The threads agree about the layers.  The main thread never lets go of one the
\* frame thread draws or takes apart.  An ack is about a layer that is being
\* removed, never about a live one that took the name.  No layer is forgotten
\* with its swapchain still allocated.
LayersAgree ==
    /\ active \cup toRemove \subseteq layers
    /\ AcksUnderWay \subseteq layers \cap pending \cap acked
    /\ swapchain \subseteq layers

\* An ack is only ever lost to a full ring, and then that was logged.
LostAckIsLogged == acked \subseteq AcksUnderWay \/ overflow

\* Nothing the frame thread sent waits for a wake-up that does not come, and
\* nothing is lost in silence.
NothingIsLost == (thread # "none" => WakeIsComing) /\ LostAckIsLogged

\* While a session runs, the only layers that go are those being removed.
OnlyPendingLayersGo ==
    [][running /\ thread # "none" => (layers \ layers') \subseteq pending]_vars

\* A removal that was begun comes to an end, unless its ack was lost.
RemovalEnds == \A n \in Names : n \in pending ~> n \notin pending \/ overflow

=============================================================================
