------------------------ MODULE FrameSchedulerProofs ------------------------
(***************************************************************************)
(* Type correctness of FrameScheduler, and its two safety invariants, for  *)
(* every number of fences.  Each handler is a function on the monitor, so  *)
(* each gets one lemma: what it asks of the monitor and what it promises.  *)
(***************************************************************************)
EXTENDS FrameScheduler, TLAPS

\* A frame rendered and not committed is owed a commit; nothing is owed while a
\* client's buffer is scanned out in its place.
Owed(m) == m.composed => (m.third \/ m.later) /\ ~m.scanout

\* Frames are let in, or a fence will let them in.
Open(m) == m.atFrame \/ m.syncs > 0

\* The inductive invariant.
Inv == TypeOK /\ Owed(mon) /\ (Open(mon) \/ ignored)

-----------------------------------------------------------------------------
(* What the handlers promise *)

LEMMA CommitKeeps ==
    ASSUME NEW m \in Monitor
    PROVE  /\ Commit(m) \in Monitor /\ ~Commit(m).composed
           /\ Commit(m).atFrame = m.atFrame /\ Commit(m).syncs = m.syncs
           /\ ScheduleFrame(m) \in Monitor /\ ScheduleFrame(m).composed = m.composed
           /\ ScheduleFrame(m).third = m.third /\ ScheduleFrame(m).later = m.later
           /\ ScheduleFrame(m).scanout = m.scanout
           /\ ScheduleFrame(m).atFrame = m.atFrame
           /\ ScheduleFrame(m).syncs = m.syncs
BY DEF Commit, ScheduleFrame, Monitor

\* A render leaves the scheduler alone, and owes at most the frame it composed.
LEMMA RenderKeeps ==
    ASSUME NEW m \in Monitor, NEW commit \in BOOLEAN, NEW fresh \in BOOLEAN,
           Owed(m), ~commit => m.third
    PROVE  LET r == RenderMonitor(m, commit, fresh)
           IN  r \in Monitor /\ Owed(r) /\ r.atFrame = m.atFrame /\ r.syncs = m.syncs
<1>1. ScanOut(m, fresh) \in Monitor /\ Owed(ScanOut(m, fresh))
      /\ ScanOut(m, fresh).atFrame = m.atFrame /\ ScanOut(m, fresh).syncs = m.syncs
  BY DEF ScanOut, Monitor, Owed
<1>2. Compose(m) \in Monitor /\ Compose(m).third = m.third /\ ~Compose(m).scanout
      /\ Compose(m).atFrame = m.atFrame /\ Compose(m).syncs = m.syncs
  BY DEF Compose, Monitor
<1>3. CASE ~m.needs /\ ~m.damage
  BY <1>3 DEF RenderMonitor
<1>4. CASE (m.needs \/ m.damage) /\ MayScanOut(m, fresh)
  BY <1>1, <1>4 DEF RenderMonitor
<1>5. CASE (m.needs \/ m.damage) /\ ~MayScanOut(m, fresh)
  <2>1. RenderMonitor(m, commit, fresh)
        = IF commit THEN Commit(Compose(m)) ELSE Compose(m)
    BY <1>5 DEF RenderMonitor
  <2>. QED  BY <2>1, <1>2, CommitKeeps DEF Owed
<1>. QED  BY <1>3, <1>4, <1>5

LEMMA FinishKeeps ==
    ASSUME NEW m \in Monitor, m.syncs < MaxSyncs, NEW valid \in BOOLEAN, Owed(m)
    PROVE  LET r == OnFinishRender(m, valid) IN r \in Monitor /\ Owed(r) /\ Open(r)
<1>1. m.syncs + 1 \in 0 .. MaxSyncs /\ m.syncs + 1 > 0
  BY FrameSchedulerAssumption DEF Monitor
<1>2. [m EXCEPT !.syncs = @ + 1] \in Monitor
      /\ [m EXCEPT !.syncs = @ + 1].syncs = m.syncs + 1
  BY <1>1 DEF Monitor
<1>3. CASE valid
  BY <1>1, <1>2, <1>3 DEF OnFinishRender, Monitor, Owed, Open
<1>4. CASE ~valid
  BY <1>4 DEF OnFinishRender, Monitor, Owed, Open
<1>. QED  BY <1>3, <1>4

\* Outside direct scanout a fence that fires leaves frames open.
LEMMA SyncKeeps ==
    ASSUME NEW m \in Monitor, m.syncs < MaxSyncs, NEW valid \in BOOLEAN, Owed(m)
    PROVE  LET r == OnSyncFired(m, valid)
           IN  /\ r \in Monitor /\ Owed(r)
               /\ IF m.scanout THEN r = m ELSE Open(r)
<1>1. CASE m.scanout
  BY <1>1 DEF OnSyncFired, NewSchedulingEnabled
<1>2. CASE ~m.scanout /\ ~m.overdue
  BY <1>2 DEF OnSyncFired, NewSchedulingEnabled, Monitor, Owed, Open
<1>3. CASE ~m.scanout /\ m.overdue
  <2>. DEFINE n == [m EXCEPT !.third = TRUE, !.atFrame = FALSE, !.overdue = FALSE]
  <2>1. n \in Monitor /\ Owed(n) /\ n.third /\ n.syncs = m.syncs
    BY DEF Monitor, Owed
  <2>2. OnSyncFired(m, valid) = OnFinishRender(RenderMonitor(n, FALSE, TRUE), valid)
    BY <1>3 DEF OnSyncFired, NewSchedulingEnabled
  <2>. HIDE DEF n
  <2>3. /\ RenderMonitor(n, FALSE, TRUE) \in Monitor
        /\ Owed(RenderMonitor(n, FALSE, TRUE))
        /\ RenderMonitor(n, FALSE, TRUE).syncs < MaxSyncs
    BY <2>1, RenderKeeps
  <2>. QED  BY <1>3, <2>2, <2>3, FinishKeeps
<1>. QED  BY <1>1, <1>2, <1>3

LEMMA PresentedKeeps ==
    ASSUME NEW m \in Monitor, Owed(m)
    PROVE  LET r == OnPresented(m)
           IN  r \in Monitor /\ Owed(r) /\ r.atFrame = m.atFrame /\ r.syncs = m.syncs
BY DEF OnPresented, NewSchedulingEnabled, Monitor, Owed

LEMMA FrameKeeps ==
    ASSUME NEW m \in Monitor, m.syncs < MaxSyncs, Owed(m),
           NEW valid \in BOOLEAN, NEW fresh \in BOOLEAN, wants \in BOOLEAN
    PROVE  LET r == OnFrame(m, valid, fresh)
           IN  r \in Monitor /\ Owed(r) /\ (Open(m) => Open(r))
<1>. DEFINE c == [m EXCEPT !.solitary = wants]
            n == [c EXCEPT !.overdue = FALSE]
<1>1. c \in Monitor /\ Owed(c) /\ c.atFrame = m.atFrame /\ c.syncs = m.syncs
  BY DEF Monitor, Owed
<1>2. n \in Monitor /\ Owed(n) /\ n.syncs = m.syncs
  BY DEF Monitor, Owed
<1>3. OnFrame(m, valid, fresh) =
        CASE m.scanout -> RenderMonitor(c, TRUE, fresh)
          [] ~m.scanout /\ ~m.atFrame -> c
          [] ~m.scanout /\ m.atFrame ->
                OnFinishRender(RenderMonitor(n, TRUE, fresh), valid)
  BY DEF OnFrame, NewSchedulingEnabled, Monitor
<1>. HIDE DEF c, n
<1>4. CASE m.scanout
  <2>1. OnFrame(m, valid, fresh) = RenderMonitor(c, TRUE, fresh)
    BY <1>3, <1>4
  <2>. DEFINE d == RenderMonitor(c, TRUE, fresh)
  <2>2. d \in Monitor /\ Owed(d) /\ d.atFrame = m.atFrame /\ d.syncs = m.syncs
    BY <1>1, RenderKeeps
  <2>. HIDE DEF d
  <2>. QED  BY <2>1, <2>2 DEF d, Open
<1>5. CASE ~m.scanout /\ ~m.atFrame
  BY <1>1, <1>3, <1>5 DEF Open
<1>6. CASE ~m.scanout /\ m.atFrame
  <2>1. /\ RenderMonitor(n, TRUE, fresh) \in Monitor
        /\ Owed(RenderMonitor(n, TRUE, fresh))
        /\ RenderMonitor(n, TRUE, fresh).syncs < MaxSyncs
    BY <1>2, RenderKeeps
  <2>2. OnFrame(m, valid, fresh) = OnFinishRender(RenderMonitor(n, TRUE, fresh), valid)
    BY <1>3, <1>6
  <2>. DEFINE d == RenderMonitor(n, TRUE, fresh)
  <2>3. d \in Monitor /\ Owed(d) /\ d.syncs < MaxSyncs
    BY <2>1
  <2>. HIDE DEF d
  <2>4. OnFinishRender(d, valid) \in Monitor /\ Owed(OnFinishRender(d, valid))
        /\ Open(OnFinishRender(d, valid))
    BY <2>3, FinishKeeps
  <2>. QED  BY <2>2, <2>4 DEF d
<1>. QED  BY <1>4, <1>5, <1>6

-----------------------------------------------------------------------------
(* The specification *)

LEMMA InitInv == Init => Inv
<1>. SUFFICES ASSUME Init PROVE Inv
  OBVIOUS
<1>1. 0 \in 0 .. MaxSyncs
  BY FrameSchedulerAssumption
<1>2. mon \in Monitor
  BY <1>1 DEF Init, Monitor
<1>3. Owed(mon) /\ Open(mon)
  BY DEF Init, Owed, Open
<1>. QED  BY <1>2, <1>3 DEF Init, Inv, TypeOK

LEMMA StepInv == Inv /\ [Next]_vars => Inv'
<1>. SUFFICES ASSUME Inv, [Next]_vars PROVE Inv'
  OBVIOUS
<1>. USE DEF Inv, TypeOK
<1>1. ASSUME NEW valid \in BOOLEAN, NEW fresh \in BOOLEAN, Flip(valid, fresh)
      PROVE  Inv'
  <2>. DEFINE m == [mon EXCEPT !.flip = FALSE]
  <2>1. m \in Monitor /\ Owed(m) /\ m.atFrame = mon.atFrame /\ m.syncs = mon.syncs
    BY DEF Monitor, Owed
  <2>2. mon.syncs < MaxSyncs /\ UNCHANGED <<wants, ignored>>
        /\ mon' = IF mon.event THEN OnPresented(m)
                  ELSE OnFrame(OnPresented(m), valid, fresh)
    BY <1>1 DEF Flip
  <2>. HIDE DEF m
  <2>3. OnPresented(m) \in Monitor /\ Owed(OnPresented(m))
        /\ OnPresented(m).syncs = mon.syncs /\ OnPresented(m).atFrame = mon.atFrame
    BY <2>1, PresentedKeeps
  <2>4. mon' \in Monitor /\ Owed(mon') /\ (Open(mon) => Open(mon'))
    BY <2>2, <2>3, FrameKeeps DEF Open
  <2>. QED  BY <2>2, <2>4 DEF Owed, Open
<1>2. ASSUME NEW valid \in BOOLEAN, NEW fresh \in BOOLEAN, FrameEvent(valid, fresh)
      PROVE  Inv'
  <2>. DEFINE m == [mon EXCEPT !.event = FALSE]
  <2>1. m \in Monitor /\ Owed(m) /\ m.atFrame = mon.atFrame /\ m.syncs = mon.syncs
    BY DEF Monitor, Owed
  <2>2. mon.syncs < MaxSyncs /\ UNCHANGED <<wants, ignored>>
        /\ mon' = IF mon.flip THEN m ELSE OnFrame(m, valid, fresh)
    BY <1>2 DEF FrameEvent
  <2>. HIDE DEF m
  <2>3. mon' \in Monitor /\ Owed(mon') /\ (Open(mon) => Open(mon'))
    BY <2>1, <2>2, FrameKeeps DEF Open
  <2>. QED  BY <2>2, <2>3 DEF Owed, Open
<1>3. ASSUME NEW valid \in BOOLEAN, SyncFires(valid)
      PROVE  Inv'
  <2>. DEFINE m == [mon EXCEPT !.syncs = @ - 1]
  <2>1. m \in Monitor /\ Owed(m) /\ m.atFrame = mon.atFrame
        /\ m.scanout = mon.scanout /\ m.syncs < MaxSyncs
    BY <1>3, FrameSchedulerAssumption DEF Monitor, Owed, SyncFires
  <2>2. mon' = OnSyncFired(m, valid) /\ UNCHANGED wants
        /\ ignored' = (ignored \/ (mon.scanout /\ ~mon.atFrame))
    BY <1>3 DEF SyncFires
  <2>. HIDE DEF m
  <2>3. mon' \in Monitor /\ Owed(mon') /\ IF mon.scanout THEN mon' = m ELSE Open(mon')
    BY <2>1, <2>2, SyncKeeps
  <2>4. ignored' \in BOOLEAN
    BY <2>2
  <2>5. Open(mon') \/ ignored'
    BY <2>1, <2>2, <2>3 DEF Open, Monitor
  <2>. QED  BY <2>2, <2>3, <2>4, <2>5 DEF Owed, Open
<1>4. ASSUME RunLater
      PROVE  Inv'
  <2>. DEFINE m == [mon EXCEPT !.later = FALSE]
  <2>1. m \in Monitor /\ m.atFrame = mon.atFrame /\ m.syncs = mon.syncs
    BY DEF Monitor
  <2>2. UNCHANGED <<wants, ignored>>
        /\ mon' = IF Commit(m).damage THEN ScheduleFrame(Commit(m)) ELSE Commit(m)
    BY <1>4 DEF RunLater
  <2>. HIDE DEF m
  <2>3. mon' \in Monitor /\ ~mon'.composed
        /\ mon'.atFrame = mon.atFrame /\ mon'.syncs = mon.syncs
    BY <2>1, <2>2, CommitKeeps
  <2>. QED  BY <2>2, <2>3 DEF Owed, Open
<1>5. ASSUME Damage
      PROVE  Inv'
  <2>. DEFINE m == [mon EXCEPT !.damage = TRUE]
  <2>1. m \in Monitor /\ Owed(m) /\ m.atFrame = mon.atFrame /\ m.syncs = mon.syncs
    BY DEF Monitor, Owed
  <2>2. UNCHANGED <<wants, ignored>> /\ mon' = ScheduleFrame(m)
    BY <1>5 DEF Damage
  <2>. HIDE DEF m
  <2>. QED  BY <2>1, <2>2, CommitKeeps DEF Owed, Open
<1>6. CASE TimePasses \/ ScanoutAllowed \/ UNCHANGED vars
  BY <1>6 DEF TimePasses, ScanoutAllowed, vars, Owed, Open, Monitor
<1>. QED  BY <1>1, <1>2, <1>3, <1>4, <1>5, <1>6 DEF Next, Backend, Fence

\* The handlers and the history stay within their types.
THEOREM TypeCorrect == Spec => []TypeOK
<1>1. Inv => TypeOK
  BY DEF Inv
<1>. QED  BY <1>1, InitInv, StepInv, PTL DEF Spec

\* As long as no fence fires unheard, frame events are refused only while a fence
\* is waited for.
THEOREM RefusedOnlyForAFence == Spec => []BlockedAwaitsFence
<1>1. Inv => BlockedAwaitsFence
  BY FrameSchedulerAssumption DEF Inv, TypeOK, Monitor, Open, BlockedAwaitsFence, Stuck
<1>. QED  BY <1>1, InitInv, StepInv, PTL DEF Spec

\* A frame rendered before its turn always has a commit coming.
THEOREM NoFrameForgotten == Spec => []PendingFrameIsOwed
<1>1. Inv => PendingFrameIsOwed
  BY DEF Inv, Owed, PendingFrameIsOwed
<1>. QED  BY <1>1, InitInv, StepInv, PTL DEF Spec
=============================================================================
