--------------------------- MODULE FrameScheduler ---------------------------
(***************************************************************************)
(* Late-frame rendering of one monitor (render:new_render_scheduling):     *)
(* CMonitorFrameScheduler over the output it renders for.  When the fence  *)
(* of a frame fires late, the next frame is rendered at once and committed *)
(* when the late one was presented; frame events are refused meanwhile.    *)
(*                                                                         *)
(* The output is the backend's: one page flip at a time, after which it    *)
(* emits present and frame, and frame also when it is idle and asked to.   *)
(*                                                                         *)
(* Left out: tearing, which renders past the scheduler; a session on       *)
(* another tty; a reload that turns the option off.                        *)
(***************************************************************************)
EXTENDS Naturals

CONSTANT MaxSyncs  \* bound: fences waited for; each is waited for by itself

ASSUME FrameSchedulerAssumption == MaxSyncs \in Nat \ {0, 1}

VARIABLES
    mon,     \* what the handlers work on, see Monitor
    wants,   \* a fullscreen client may be scanned out directly
    ignored  \* history: a fence fired unheard while frames were refused

vars == <<mon, wants, ignored>>

\* The scheduler: m_renderAtFrame, m_pendingThird, a refresh period has passed
\* since m_lastRenderBegun, fences that wait in doOnReadable, the commit that
\* onPresented deferred.
\* The monitor: m_damage, a frame rendered and not committed,
\* m_directScanoutIsActive, m_solitaryClient.
\* The output: needsFrame, a page flip is under way, a frame event is scheduled.
Monitor ==
    [atFrame : BOOLEAN, third : BOOLEAN, overdue : BOOLEAN,
     syncs : 0 .. MaxSyncs, later : BOOLEAN,
     damage : BOOLEAN, composed : BOOLEAN, scanout : BOOLEAN, solitary : BOOLEAN,
     needs : BOOLEAN, flip : BOOLEAN, event : BOOLEAN]

\* The state is what the handlers above it can hold.
TypeOK == mon \in Monitor /\ wants \in BOOLEAN /\ ignored \in BOOLEAN

-----------------------------------------------------------------------------
(* The output *)

\* needsFrame is set in any case; a flip under way will bring a frame event.
ScheduleFrame(m) == [m EXCEPT !.needs = TRUE, !.event = @ \/ ~m.flip]

\* commitPendingAndDoExplicitSync.  While a flip is under way the commit fails:
\* the buffer is rolled back and all is damaged again.
Commit(m) ==
    IF m.flip THEN [m EXCEPT !.composed = FALSE, !.damage = TRUE]
    ELSE [m EXCEPT !.composed = FALSE, !.needs = FALSE, !.flip = TRUE]

-----------------------------------------------------------------------------
(* Rendering *)

\* attemptDirectScanout, with a buffer that is fresh or already on the screen.
MayScanOut(m, fresh) == m.solitary /\ wants /\ (m.flip => m.scanout /\ ~fresh)

\* A buffer already on the screen is left there, a fresh one takes the place of
\* a frame that waits for its commit.
ScanOut(m, fresh) ==
    IF m.scanout /\ ~fresh THEN m
    ELSE [m EXCEPT !.scanout = TRUE, !.composed = FALSE,
                   !.needs = FALSE, !.flip = TRUE]

Compose(m) == [m EXCEPT !.scanout = FALSE, !.damage = FALSE, !.composed = TRUE]

\* renderMonitor: nothing to do, or direct scanout, or a frame of its own,
\* which leaves direct scanout.
RenderMonitor(m, commit, fresh) ==
    CASE ~m.needs /\ ~m.damage -> m
      [] (m.needs \/ m.damage) /\ MayScanOut(m, fresh) -> ScanOut(m, fresh)
      [] OTHER -> IF commit THEN Commit(Compose(m)) ELSE Compose(m)

-----------------------------------------------------------------------------
(* The scheduler *)

NewSchedulingEnabled(m) == ~m.scanout

\* Mutation: without a fence nothing lets frame events in again.
OnFinishRender_NoFallback(m, valid) ==
    IF valid THEN [m EXCEPT !.syncs = @ + 1] ELSE m

\* Without a fence (sync is not valid) frame events take over again.
OnFinishRender(m, valid) ==
    IF valid THEN [m EXCEPT !.syncs = @ + 1] ELSE [m EXCEPT !.atFrame = TRUE]

\* Mutation: every fence is waited for once more.
OnSyncFired_WaitsTwice(m, valid) ==
    IF m.scanout THEN m ELSE OnFinishRender(OnFinishRender(m, valid), valid)

\* The fence fired in time, or late: then the next frame is begun now, and
\* frame events are refused until its own fence fires.
OnSyncFired(m, valid) ==
    CASE ~NewSchedulingEnabled(m) -> m
      [] NewSchedulingEnabled(m) /\ ~m.overdue -> [m EXCEPT !.atFrame = TRUE]
      [] NewSchedulingEnabled(m) /\ m.overdue ->
            OnFinishRender(
                RenderMonitor([m EXCEPT !.third = TRUE, !.atFrame = FALSE,
                                        !.overdue = FALSE], FALSE, TRUE), valid)

\* Mutation: the frame begun late is not committed.
OnPresented_Forgets(m) ==
    IF NewSchedulingEnabled(m) THEN [m EXCEPT !.third = FALSE] ELSE m

\* The frame begun late is committed at the earliest convenience.
OnPresented(m) ==
    IF NewSchedulingEnabled(m) /\ m.third
    THEN [m EXCEPT !.third = FALSE, !.later = TRUE] ELSE m

\* Mutation: a frame begun late keeps frame events out.
OnFrame_WaitsForThird(m, valid, fresh) ==
    IF m.third \/ ~m.atFrame THEN [m EXCEPT !.solitary = wants]
    ELSE OnFinishRender(RenderMonitor([m EXCEPT !.overdue = FALSE], TRUE, fresh),
                        valid)

\* A frame event: what may be scanned out is looked at again in any case.
OnFrame(m, valid, fresh) ==
    LET checked == [m EXCEPT !.solitary = wants]
    IN  CASE ~NewSchedulingEnabled(m) -> RenderMonitor(checked, TRUE, fresh)
          [] NewSchedulingEnabled(m) /\ ~m.atFrame -> checked
          [] NewSchedulingEnabled(m) /\ m.atFrame ->
                OnFinishRender(
                    RenderMonitor([checked EXCEPT !.overdue = FALSE], TRUE, fresh),
                    valid)

-----------------------------------------------------------------------------
(* Events *)

\* The page flip: present, then frame unless one is scheduled anyway.  Fences of
\* earlier frames have fired by then, the one of this frame may be unheard;
\* what a presentation deferred runs before the next batch of events.
Flip(valid, fresh) ==
    /\ mon.flip /\ ~mon.later /\ mon.syncs < MaxSyncs
    /\ LET shown == OnPresented([mon EXCEPT !.flip = FALSE])
       IN  mon' = IF mon.event THEN shown ELSE OnFrame(shown, valid, fresh)
    /\ UNCHANGED <<wants, ignored>>

\* A scheduled frame event is dropped if a flip began meanwhile.
FrameEvent(valid, fresh) ==
    /\ mon.event /\ mon.syncs < MaxSyncs
    /\ LET due == [mon EXCEPT !.event = FALSE]
       IN  mon' = IF mon.flip THEN due ELSE OnFrame(due, valid, fresh)
    /\ UNCHANGED <<wants, ignored>>

\* The fence of a frame fires, the oldest first.
SyncFires(valid) ==
    /\ mon.syncs > 0
    /\ mon' = OnSyncFired([mon EXCEPT !.syncs = @ - 1], valid)
    /\ ignored' = (ignored \/ (mon.scanout /\ ~mon.atFrame))
    /\ UNCHANGED wants

\* The commit that onPresented deferred.
RunLater ==
    /\ mon.later
    /\ LET m == Commit([mon EXCEPT !.later = FALSE])
       IN  mon' = IF m.damage THEN ScheduleFrame(m) ELSE m
    /\ UNCHANGED <<wants, ignored>>

\* A client commits, or anything else on the screen changes.
Damage ==
    /\ mon' = ScheduleFrame([mon EXCEPT !.damage = TRUE])
    /\ UNCHANGED <<wants, ignored>>

\* A refresh period passes.
TimePasses ==
    /\ mon' = [mon EXCEPT !.overdue = TRUE]
    /\ UNCHANGED <<wants, ignored>>

\* What isDSBlocked looks at changes.
ScanoutAllowed ==
    /\ wants' = ~wants
    /\ UNCHANGED <<mon, ignored>>

-----------------------------------------------------------------------------
(* Specification *)

\* onConnect makes the scheduler and schedules the first frame.
Init ==
    /\ mon = [atFrame |-> TRUE, third |-> FALSE, overdue |-> TRUE, syncs |-> 0,
              later |-> FALSE, damage |-> TRUE, composed |-> FALSE,
              scanout |-> FALSE, solitary |-> FALSE,
              needs |-> TRUE, flip |-> FALSE, event |-> TRUE]
    /\ wants = FALSE /\ ignored = FALSE

Backend == \E valid, fresh \in BOOLEAN : Flip(valid, fresh) \/ FrameEvent(valid, fresh)
Fence == \E valid \in BOOLEAN : SyncFires(valid)

Next == Backend \/ Fence \/ RunLater \/ Damage \/ TimePasses \/ ScanoutAllowed

Spec == Init /\ [][Next]_vars

\* Flips complete, fences fire, scheduled events and deferred calls run.
FairSpec ==
    /\ Spec /\ WF_vars(RunLater) /\ WF_vars(Fence)
    /\ WF_vars(\E valid, fresh \in BOOLEAN : Flip(valid, fresh))
    /\ WF_vars(\E valid, fresh \in BOOLEAN : FrameEvent(valid, fresh))

-----------------------------------------------------------------------------
(* Properties *)

\* Frame events are refused and no fence is left to let them in again.
Stuck == ~mon.atFrame /\ mon.syncs = 0

\* As long as no fence fires unheard, frame events are refused only while one is
\* waited for.
BlockedAwaitsFence == Stuck => ignored

\* A frame that was rendered and not committed is not forgotten: the next
\* presentation commits it, or the commit is already deferred.
PendingFrameIsOwed == mon.composed => mon.third \/ mon.later

\* Frames that are asked for again and again are not refused for ever: what was
\* damaged is rendered or scanned out, unless the scheduler is stuck.
DamageIsRendered ==
    []<>mon.event => (mon.damage ~> ~mon.damage \/ mon.scanout \/ Stuck)

=============================================================================
