---------------------------- MODULE SurfaceCommit ----------------------------
(***************************************************************************)
(* One wl_surface and its queue of committed states: wl_surface.commit,    *)
(* the three reasons a queued state waits for (a buffer fence, a wp_fifo   *)
(* barrier, a commit-timing target), how the queue drains into m_current,  *)
(* and the wp_presentation feedback that travels with each state.          *)
(*                                                                         *)
(* Actors: the client, which sends requests; the buffer fences and timers; *)
(* the one monitor the surface is on, which renders and presents; the role *)
(* object, which maps and unmaps; the ticker for unfocused windows.  All   *)
(* of it runs on the main thread: one action is one callback.              *)
(*                                                                         *)
(* A commit is its number.  Of the double-buffered values only the scale   *)
(* is kept, with its "updated" bit; a state carries at most one feedback,  *)
(* named after the commit.  The several sync fds of an implicit fence are  *)
(* one fence.  A commit target is far, near (within the refresh after the  *)
(* next present), past, or fired.  A buffer comes with damage; shm and GPU *)
(* buffers differ in whether the commit finds a fence to wait for.         *)
(***************************************************************************)
EXTENDS Naturals, Sequences, FiniteSets

CONSTANTS
    MaxCommits,       \* bound: commits the client sends
    Scales,           \* the buffer scales it may set, 1 among them
    UseTimer,         \* it has a wp_commit_timer
    UseFeedback,      \* it asks for presentation feedback
    CanTear,          \* the monitor may render a frame torn
    RenderUnfocused,  \* the window has the render_unfocused rule
    DropsFifo,        \* it may destroy its wp_fifo, and get a new one
    EmptyBarriers     \* it sets a barrier with commits that bring no buffer

ASSUME SurfaceAssumption ==
    /\ MaxCommits \in Nat \ {0}
    /\ Scales \subseteq Nat /\ 1 \in Scales
    /\ {UseTimer, UseFeedback, CanTear, RenderUnfocused, DropsFifo,
     EmptyBarriers} \subseteq BOOLEAN

Commits == 1..MaxCommits
Reasons == {"fence", "fifo", "timer"}

VARIABLES
    surface,   \* live, error (the client was sent an error), gone
    sent,      \* commits sent
    pending,   \* m_pending
    queue,     \* m_stateQueue
    current,   \* m_current, with the last commit applied to it
    mapped,    \* m_mapped
    fifo,      \* the surface's wp_fifo exists
    fence,     \* commits whose fence has a waiter in the event loop
    target,    \* where the commit target of each commit is
    frameDue,  \* a frame of the monitor is scheduled
    flip,      \* a rendered frame has not been presented yet
    tearing,   \* activelyTearing
    hidden,    \* the window is not rendered
    scanout,   \* the commit whose buffer the output's state holds, 0: none
    presQ,     \* m_queue of the presentation protocol, flattened
    fb,        \* what the feedback of each commit was told
    failed,    \* history: the waiter of the fence was dropped unheard
    forced,    \* history: the ticker released them
    applied,   \* history: commits that became current
    drawn,     \* history: commits with a feedback that were in a rendered frame
    unseen     \* history: FIFO-locked commits and no frame since they waited

clientVars  == <<surface, sent, fifo>>
monitorVars == <<frameDue, flip, tearing, hidden, scanout>>
stateVars   == <<pending, queue, current, mapped, fb, presQ, applied>>
vars == <<surface, sent, pending, queue, current, mapped, fifo, fence, target, frameDue, flip,
          tearing, hidden, scanout, presQ, fb, failed, forced, applied, drawn, unseen>>

PendingState == [attach: {"no", "null", "buffer"}, scale: Scales, scaleBit: BOOLEAN,
                 barrier: BOOLEAN, wait: BOOLEAN, sched: BOOLEAN, timed: BOOLEAN, fb: BOOLEAN]
QueuedState  == [id: Commits, attach: {"no", "buffer"}, scale: Scales, scaleBit: BOOLEAN,
                 barrier: BOOLEAN, lock: SUBSET Reasons, fb: BOOLEAN]

\* The types of the variables.
TypeOK ==
    /\ surface \in {"live", "error", "gone"}
    /\ sent \in 0..MaxCommits
    /\ pending \in PendingState
    /\ queue \in Seq(QueuedState)
    /\ current \in [id: 0..MaxCommits, content: 0..MaxCommits, texture: BOOLEAN, scale: Scales,
                    barrier: BOOLEAN, fbs: SUBSET Commits]
    /\ {mapped, fifo, frameDue, flip, tearing, hidden} \subseteq BOOLEAN
    /\ fence \subseteq Commits /\ scanout \in 0..MaxCommits
    /\ target \in [Commits -> {"none", "far", "near", "past", "fired"}]
    /\ presQ \subseteq [fb: Commits, shown: BOOLEAN]
    /\ fb \in [Commits -> {"none", "open", "presented", "discarded"}]
    /\ \A S \in {failed, forced, applied, drawn, unseen} : S \subseteq Commits

-----------------------------------------------------------------------------
(* Helpers.                                                                *)

Init ==
    /\ surface = "live" /\ sent = 0 /\ queue = <<>>
    /\ pending = [attach |-> "no", scale |-> 1, scaleBit |-> FALSE, barrier |-> FALSE,
                  wait |-> FALSE, sched |-> FALSE, timed |-> FALSE, fb |-> FALSE]
    /\ current = [id |-> 0, content |-> 0, texture |-> FALSE, scale |-> 1, barrier |-> FALSE,
                  fbs |-> {}]
    /\ mapped = FALSE /\ fifo \in BOOLEAN /\ hidden = FALSE
    /\ fence = {} /\ target = [i \in Commits |-> "none"]
    /\ frameDue = FALSE /\ flip = FALSE /\ tearing = FALSE /\ scanout = 0
    /\ presQ = {} /\ fb = [i \in Commits |-> "none"]
    /\ failed = {} /\ forced = {} /\ applied = {} /\ drawn = {} /\ unseen = {}

\* The states a queue holds, and their commits.
Held(q)  == {q[k] : k \in DOMAIN q}
Ids(q)   == {s.id : s \in Held(q)}
Fbs(q)   == {s.id : s \in {t \in Held(q) : t.fb}}
MaxOf(S) == CHOOSE n \in S : \A k \in S : k <= n

\* SSurfaceState::reset: the values stay, everything of this commit goes.
ResetPending(p) ==
    [p EXCEPT !.attach = "no", !.scaleBit = FALSE, !.barrier = FALSE, !.wait = FALSE,
              !.sched = FALSE, !.timed = FALSE, !.fb = FALSE]

\* A feedback is answered once: m_done.
Answered(f, S, what) == [i \in Commits |-> IF i \in S /\ f[i] = "open" THEN what ELSE f[i]]

\* discardFeedbacks.
DiscardFeedbacks(f, S) == Answered(f, S, "discarded")

\* Mutation: A null commit forgets what is queued.
Cleared_Kept(q) == q

\* CSurfaceStateQueue::clear.
Cleared(q) == <<>>

\* updateFrom of the states applied, in their order, on the current state.
UpdateFrom(cur, done) ==
    LET withBuffer == {s \in done : s.attach # "no"}
        withScale  == {s \in done : s.scaleBit}
        newest     == IF withBuffer = {} THEN cur.content ELSE MaxOf({s.id : s \in withBuffer})
    IN  [id      |-> IF done = {} THEN cur.id ELSE MaxOf({s.id : s \in done}),
         content |-> newest,
         texture |-> cur.texture \/ withBuffer # {},
         scale   |-> IF withScale = {} THEN cur.scale
                     ELSE (CHOOSE s \in withScale : \A t \in withScale : t.id <= s.id).scale,
         barrier |-> cur.barrier \/ \E s \in done : s.barrier,
         fbs     |-> IF withBuffer = {} THEN cur.fbs \cup {s.id : s \in {t \in done : t.fb}}
                     ELSE {s.id : s \in {t \in done : t.fb /\ t.id >= newest}}]

\* Mutation: A superseded feedback is dropped without a word.
Superseded_Silent(cur, new, done) == {}

\* Feedbacks of content that a newer buffer superseded before it was drawn.
Superseded(cur, new, done) ==
    (cur.fbs \cup {s.id : s \in {t \in done : t.fb}}) \ new.fbs

\* Mutation: The FIFO lock is not looked at.
MayGo_NoFifo(q, barrier, k) == q[k].lock \subseteq {"fifo"}

\* A state at the front may go: nothing but the FIFO lock holds it, and no
\* barrier is set by then (one an earlier state of this run brings counts).
MayGo(q, barrier, k) ==
    /\ q[k].lock \subseteq {"fifo"}
    /\ "fifo" \in q[k].lock => ~barrier /\ \A i \in 1..(k - 1) : ~q[i].barrier

\* Mutation: tryProcess takes one state and returns.
StopsAfter_One(q, barrier, n) ==
    n = (IF q # <<>> /\ MayGo(q, barrier, 1) THEN 1 ELSE 0)

\* tryProcess applies n states from the front: all up to the first that
\* may not go.
StopsAfter(q, barrier, n) ==
    /\ \A k \in 1..n : MayGo(q, barrier, k)
    /\ n < Len(q) => ~MayGo(q, barrier, n + 1)

\* tryProcess looks at the front state it stops at, and drops a FIFO lock
\* there that no barrier stands behind any more.
Rest(q, n, barrier) ==
    LET r == SubSeq(q, n + 1, Len(q))
    IN  IF r # <<>> /\ ~barrier THEN [r EXCEPT ![1].lock = @ \ {"fifo"}] ELSE r

\* CSurfaceStateQueue::tryProcess on queue q: what it applies becomes
\* current, and the role's commit handler maps a surface with content.
Applying(q, cur, f, n) ==
    LET done == {q[k] : k \in 1..n}
        new  == UpdateFrom(cur, done)
    IN  [queue   |-> Rest(q, n, new.barrier),
         current |-> new,
         applied |-> applied \cup {s.id : s \in done},
         fb      |-> DiscardFeedbacks(f, Superseded(cur, new, done)),
         mapped  |-> mapped \/ (n > 0 /\ new.texture)]

TryProcess(q, cur, f) ==
    {Applying(q, cur, f, n) : n \in {k \in 0..Len(q) : StopsAfter(q, cur.barrier, k)}}

\* The same when the queue is left alone.
Unprocessed(q, f) == {[Applying(q, current, f, 0) EXCEPT !.queue = q]}

\* The states it leaves behind keep their timers.
KeepTimers(t, q, n) ==
    [i \in Commits |-> IF i \in Ids(q) \cup {n + 1} \/ t[i] = "far" THEN t[i] ELSE "none"]

\* The surface becomes the one in surf after n commits.  New content that is visible schedules a frame.
Becomes(surf, t, due, n) == \E p \in surf :
    /\ queue' = p.queue /\ current' = p.current /\ applied' = p.applied
    /\ fb' = p.fb /\ mapped' = p.mapped
    /\ target' = KeepTimers(t, p.queue, n)
    /\ frameDue' = (due \/ (p.mapped /\ ~hidden /\ p.current.content # current.content))

\* lock, unlock and unlockFirst on the states of a queue.
UnlockFirst(q, reasons) ==
    [k \in DOMAIN q |->
        IF q[k].lock \cap reasons # {} /\ \A j \in 1..(k - 1) : q[j].lock \cap reasons = {}
        THEN [q[k] EXCEPT !.lock = @ \ reasons] ELSE q[k]]

\* Mutation: A waiter unlocks the oldest state with its reason, not its own.
Unlock_Oldest(q, i, reason) == UnlockFirst(q, {reason})

Unlock(q, i, reason) ==
    [k \in DOMAIN q |-> IF q[k].id = i THEN [q[k] EXCEPT !.lock = @ \ {reason}] ELSE q[k]]

\* CFifoResource::checkMonitors.
CheckMonitors == ~tearing

\* discardPresentationFeedbacks: pending, current, queued for a present, and
\* any other of the surface.
DiscardAll ==
    /\ fb' = DiscardFeedbacks(fb, Commits)
    /\ presQ' = {}

-----------------------------------------------------------------------------
(* The client.                                                             *)

MayRequest == surface = "live" /\ sent < MaxCommits

OnlyPending ==
    UNCHANGED <<surface, sent, queue, current, mapped, fifo, fence, monitorVars, presQ,
                failed, forced, applied, drawn>>

Attach(kind) ==
    /\ MayRequest
    /\ pending' = [pending EXCEPT !.attach = kind]
    /\ OnlyPending /\ UNCHANGED <<target, fb, unseen>>

\* set_buffer_scale: the scale pending has already is no change.
SetScale(n) ==
    /\ MayRequest /\ n # pending.scale
    /\ pending' = [pending EXCEPT !.scale = n, !.scaleBit = TRUE]
    /\ OnlyPending /\ UNCHANGED <<target, fb, unseen>>

SetBarrier ==
    /\ MayRequest /\ fifo
    /\ pending' = [pending EXCEPT !.barrier = TRUE]
    /\ OnlyPending /\ UNCHANGED <<target, fb, unseen>>

\* The barrier is looked for when the request comes, not at the commit.
WaitBarrier ==
    /\ MayRequest /\ fifo
    /\ IF current.barrier
       THEN /\ pending' = [pending EXCEPT !.wait = TRUE]
            /\ unseen' = unseen \cup {sent + 1}
       ELSE /\ pending' = [pending EXCEPT !.sched = @ \/ CheckMonitors]
            /\ UNCHANGED unseen
    /\ OnlyPending /\ UNCHANGED <<target, fb>>

SetTimestamp ==
    /\ MayRequest /\ UseTimer /\ ~pending.timed
    /\ pending' = [pending EXCEPT !.timed = TRUE]
    /\ target' = [target EXCEPT ![sent + 1] = "far"]
    /\ OnlyPending /\ UNCHANGED <<fb, unseen>>

RequestFeedback ==
    /\ MayRequest /\ UseFeedback /\ fb[sent + 1] = "none"
    /\ pending' = [pending EXCEPT !.fb = TRUE]
    /\ fb' = [fb EXCEPT ![sent + 1] = "open"]
    /\ OnlyPending /\ UNCHANGED <<target, unseen>>

\* wl_surface.commit of a null buffer: it is applied past the queue, the
\* role unmaps, and what was queued is thrown away.
CommitNull ==
    /\ MayRequest /\ pending.attach = "null"
    /\ LET id  == sent + 1
           new == [current EXCEPT !.id = id, !.content = id, !.texture = FALSE,
                                  !.scale = IF pending.scaleBit THEN pending.scale ELSE @,
                                  !.barrier = @ \/ pending.barrier,
                                  !.fbs = IF pending.fb THEN {id} ELSE {}]
       IN  /\ IF mapped
              THEN current' = [new EXCEPT !.fbs = {}] /\ DiscardAll
              ELSE /\ current' = new
                   /\ fb' = DiscardFeedbacks(fb, current.fbs \cup Fbs(queue))
                   /\ UNCHANGED presQ
           /\ sent' = id
           /\ applied' = applied \cup {id}
           /\ unseen' = unseen \ {id}
           /\ target' = KeepTimers([target EXCEPT ![id] = "none"], <<>>, id)
    /\ mapped' = FALSE
    /\ queue' = Cleared(queue)
    /\ pending' = ResetPending(pending)
    /\ frameDue' = (frameDue \/ mapped)
    /\ UNCHANGED <<surface, fifo, fence, flip, tearing, hidden, scanout, failed, forced, drawn>>

\* Mutation: A null buffer is queued like any other.
MayQueue_Null(fenced) ==
    /\ MayRequest /\ (fenced => pending.attach = "buffer")
    /\ pending.barrier => EmptyBarriers \/ pending.attach # "no"

\* wl_surface.commit of anything else: a copy of the pending state joins the
\* queue under its locks.  A fence that is not signalled yet gets a waiter;
\* without one the queue is tried at once.
MayQueue(fenced) ==
    /\ MayRequest /\ pending.attach # "null"
    /\ fenced => pending.attach = "buffer"
    /\ pending.barrier => EmptyBarriers \/ pending.attach # "no"

\* The listeners of stateCommit and stateCommit2.
LockedByFifo == fifo /\ pending.wait /\ (pending.sched \/ CheckMonitors) /\ mapped
LockedByTimer == pending.timed /\ ~tearing

Commit(fenced) ==
    /\ MayQueue(fenced)
    /\ LET id    == sent + 1
           lock  == {r \in Reasons : \/ r = "fence" /\ fenced
                                     \/ r = "fifo" /\ LockedByFifo
                                     \/ r = "timer" /\ LockedByTimer}
           state == [id |-> id, attach |-> pending.attach, scale |-> pending.scale,
                     scaleBit |-> pending.scaleBit, barrier |-> pending.barrier,
                     lock |-> lock, fb |-> pending.fb]
           q     == Append(queue, state)
       IN  /\ sent' = id
           /\ unseen' = IF LockedByFifo THEN unseen ELSE unseen \ {id}
           /\ fence' = IF fenced THEN fence \cup {id} ELSE fence
           /\ Becomes(IF fenced THEN Unprocessed(q, fb) ELSE TryProcess(q, current, fb),
                      IF LockedByTimer THEN target ELSE [target EXCEPT ![id] = "none"], frameDue, id)
    /\ pending' = ResetPending(pending)
    /\ UNCHANGED <<surface, fifo, flip, tearing, hidden, scanout, presQ, failed, forced, drawn>>

\* A commit that breaks a protocol's rules is dropped with its feedback, and
\* the client gets an error; it can only be disconnected after that.
CommitRejected ==
    /\ MayRequest
    /\ surface' = "error"
    /\ sent' = sent + 1
    /\ fb' = DiscardFeedbacks(fb, {sent + 1})
    /\ pending' = ResetPending(pending)
    /\ target' = [target EXCEPT ![sent + 1] = "none"]
    /\ unseen' = unseen \ {sent + 1}
    /\ UNCHANGED <<queue, current, mapped, fifo, fence, monitorVars, presQ, failed, forced,
                   applied, drawn>>

DestroySurface ==
    /\ surface # "gone"
    /\ surface' = "gone"
    /\ DiscardAll
    /\ queue' = <<>> /\ mapped' = FALSE
    /\ pending' = ResetPending(pending)
    /\ current' = [current EXCEPT !.fbs = {}]
    /\ target' = KeepTimers([i \in Commits |-> "none"], <<>>, sent)
    /\ frameDue' = (frameDue \/ mapped)
    /\ UNCHANGED <<sent, fifo, fence, flip, tearing, hidden, scanout, failed, forced, applied, drawn,
                   unseen>>

\* get_fifo, and the destruction of the object: its listener goes, the locks
\* and the barrier it set stay.
ToggleFifo ==
    /\ surface = "live" /\ (fifo => DropsFifo)
    /\ fifo' = ~fifo
    /\ UNCHANGED <<surface, sent, stateVars, fence, target, monitorVars, failed, forced,
                   drawn, unseen>>

-----------------------------------------------------------------------------
(* Fences and timers.                                                      *)

\* The waiter finds its state by a weak pointer; a state that is gone is
\* nothing to unlock.
FenceSignals(i) ==
    /\ i \in fence
    /\ fence' = fence \ {i}
    /\ IF i \in Ids(queue)
       THEN Becomes(TryProcess(Unlock(queue, i, "fence"), current, fb), target, frameDue, sent)
       ELSE UNCHANGED <<queue, current, applied, fb, mapped, target, frameDue>>
    /\ UNCHANGED <<clientVars, pending, flip, tearing, hidden, scanout, presQ, failed, forced, drawn,
                   unseen>>

\* The event loop drops a waiter whose fd is in error, and tells nobody.
FenceFails(i) ==
    /\ i \in fence
    /\ fence' = fence \ {i}
    /\ failed' = failed \cup {i}
    /\ UNCHANGED <<clientVars, stateVars, target, monitorVars, forced, drawn, unseen>>

TimePasses(i) ==
    /\ i \in Ids(queue) \cup {sent + 1}
    /\ \/ target[i] = "far" /\ target' = [target EXCEPT ![i] = "near"]
       \/ target[i] = "near" /\ target' = [target EXCEPT ![i] = "past"]
    /\ UNCHANGED <<clientVars, stateVars, fence, monitorVars, failed, forced, drawn, unseen>>

TimerFires(i) ==
    /\ i \in Ids(queue) /\ target[i] = "past"
    /\ Becomes(TryProcess(Unlock(queue, i, "timer"), current, fb),
               [target EXCEPT ![i] = "fired"], frameDue, sent)
    /\ UNCHANGED <<clientVars, pending, fence, flip, tearing, hidden, scanout, presQ, failed, forced,
                   drawn, unseen>>

-----------------------------------------------------------------------------
(* The monitor, the role, the user.                                        *)

Visible == mapped /\ ~hidden

\* presentFeedback: the current state's feedbacks wait for the present.
Moved(cur, shown) == presQ \cup {[fb |-> i, shown |-> shown] : i \in cur.fbs}
OnScreen == {i \in applied : i >= current.content /\ fb[i] # "none"}

MayTear(t) == t => CanTear /\ Visible

\* A frame is rendered: composed, with the surface covered, or by scanning
\* out its buffer.
Render(how, tear) ==
    /\ frameDue /\ ~flip /\ MayTear(tear)
    /\ frameDue' = FALSE /\ flip' = TRUE /\ tearing' = tear
    /\ IF Visible
       THEN /\ presQ' = Moved(current, how # "covered")
            /\ current' = [current EXCEPT !.fbs = {}]
            /\ drawn' = IF how = "covered" THEN drawn ELSE drawn \cup OnScreen
            /\ scanout' = IF how = "scanout" THEN current.content ELSE 0
       ELSE /\ how = "composed" /\ scanout' = 0
            /\ UNCHANGED <<presQ, current, drawn>>
    /\ UNCHANGED <<clientVars, pending, queue, mapped, fb, applied, fence, target, hidden,
                   failed, forced, unseen>>

\* attemptDirectScanout finds the buffer it already shows: no page flip, so
\* no present will come, and the FIFO lock is lifted here instead.
SameBufferFrame(tear) ==
    /\ frameDue /\ ~flip /\ MayTear(tear) /\ Visible
    /\ scanout # 0 /\ current.content = scanout
    /\ tearing' = tear
    /\ presQ' = Moved(current, TRUE)
    /\ drawn' = drawn \cup OnScreen
    /\ LET cur == [current EXCEPT !.fbs = {}]
       IN  IF fifo /\ ~tear
           THEN /\ Becomes(TryProcess(UnlockFirst(queue, {"fifo"}), cur, fb), target, FALSE, sent)
                /\ unseen' = {}
           ELSE /\ current' = cur /\ frameDue' = FALSE
                /\ UNCHANGED <<queue, applied, fb, mapped, target, unseen>>
    /\ UNCHANGED <<clientVars, pending, fence, flip, hidden, scanout, failed, forced>>

\* onPresented: what was shown is presented, the rest of the frame discarded.
OnPresented ==
    Answered(Answered(fb, {r.fb : r \in {x \in presQ : x.shown}}, "presented"),
             {r.fb : r \in presQ}, "discarded")

\* onMonitorPresent of the FIFO protocol: a torn frame counts for nothing.
FifoPresented == surface # "gone" /\ fifo /\ ~tearing

\* releaseDueStates: the targets the next flip reaches.
ReleaseDueStates(q) ==
    [k \in DOMAIN q |-> IF target[q[k].id] \in {"near", "past"}
                        THEN [q[k] EXCEPT !.lock = @ \ {"timer"}] ELSE q[k]]

\* The page flip: the feedbacks of the frame are answered, the barrier falls
\* with the first FIFO lock, and the commits due by the next flip go in.
\* A hidden window has not left its output: it is served too.
Present ==
    /\ flip /\ flip' = FALSE
    /\ presQ' = {}
    /\ LET cur == IF FifoPresented THEN [current EXCEPT !.barrier = FALSE] ELSE current
           q   == ReleaseDueStates(IF FifoPresented THEN UnlockFirst(queue, {"fifo"}) ELSE queue)
       IN  Becomes(IF q # queue \/ FifoPresented THEN TryProcess(q, cur, OnPresented)
                   ELSE Unprocessed(queue, OnPresented),
                   target, frameDue, sent)
    /\ unseen' = IF FifoPresented THEN {} ELSE unseen
    /\ UNCHANGED <<clientVars, pending, fence, tearing, hidden, scanout, failed, forced, drawn>>

\* The monitor is unplugged and another takes its place.
Replug ==
    /\ fb' = DiscardFeedbacks(fb, {r.fb : r \in presQ})
    /\ presQ' = {} /\ flip' = FALSE /\ tearing' = FALSE /\ frameDue' = TRUE
    /\ scanout' = 0
    /\ UNCHANGED <<clientVars, pending, queue, current, mapped, applied, fence, target, hidden,
                   failed, forced, drawn, unseen>>

\* m_renderUnfocusedTimer: a hidden window's oldest locked state goes in
\* whatever it waits for, and its feedbacks are marked as not shown.
UnfocusedTick ==
    /\ RenderUnfocused /\ hidden /\ mapped
    /\ \E p \in TryProcess(UnlockFirst(queue, Reasons), current, fb) :
          /\ Becomes({[p EXCEPT !.current.fbs = {}]}, target, frameDue, sent)
          /\ presQ' = Moved(p.current, FALSE)
    /\ forced' = forced \cup {s.id : s \in {t \in Held(queue) : /\ t.lock # {}
                                   /\ \A u \in Held(queue) : u.lock # {} => t.id <= u.id}}
    /\ unseen' = {}
    /\ UNCHANGED <<clientVars, pending, fence, flip, tearing, hidden, scanout, failed, drawn>>

\* The role unmaps the surface by itself (an X11 UnmapNotify, say).  The
\* buffer of the pending state goes; that one was attached is remembered.
RoleUnmaps ==
    /\ surface = "live" /\ mapped
    /\ mapped' = FALSE
    /\ DiscardAll
    /\ pending' = [pending EXCEPT !.fb = FALSE, !.attach = IF @ = "no" THEN "no" ELSE "null"]
    /\ current' = [current EXCEPT !.fbs = {}]
    /\ frameDue' = TRUE /\ scanout' = 0
    /\ UNCHANGED <<clientVars, queue, applied, fence, target, flip, tearing, hidden, failed,
                   forced, drawn, unseen>>

\* The workspace of the window is left, or shown again.
Hide == ~hidden /\ mapped /\ hidden' = TRUE /\ UNCHANGED frameDue
Show == hidden /\ hidden' = FALSE /\ frameDue' = TRUE
\* Something else on the monitor changes.
OtherDamage == ~frameDue /\ frameDue' = TRUE /\ UNCHANGED hidden

User ==
    /\ Hide \/ Show \/ OtherDamage
    /\ UNCHANGED <<clientVars, stateVars, fence, target, flip, tearing, scanout, failed, forced, drawn,
                   unseen>>

-----------------------------------------------------------------------------
Request ==
    \/ \E kind \in {"null", "buffer"} : Attach(kind)
    \/ \E n \in Scales : SetScale(n)
    \/ SetBarrier \/ WaitBarrier \/ SetTimestamp \/ RequestFeedback
    \/ CommitNull \/ (\E fenced \in BOOLEAN : Commit(fenced)) \/ CommitRejected
    \/ DestroySurface \/ ToggleFifo

Frame == (\E how \in {"composed", "covered", "scanout"}, tear \in BOOLEAN : Render(how, tear))
         \/ (\E tear \in BOOLEAN : SameBufferFrame(tear))

Next ==
    \/ Request \/ Frame \/ Present
    \/ \E i \in Commits : FenceSignals(i) \/ FenceFails(i) \/ TimePasses(i) \/ TimerFires(i)
    \/ Replug \/ UnfocusedTick \/ RoleUnmaps \/ User

Spec == Init /\ [][Next]_vars

\* GPU work and time come to an end; each of these happens once a commit.
Wakeup == \E i \in Commits : FenceSignals(i) \/ TimePasses(i) \/ TimerFires(i)

\* Possible whenever a frame is: fairness of it is fairness of Frame.
Composed == Render("composed", FALSE)

\* A scheduled frame is rendered; of frames rendered again and again one is
\* presented (a monitor is not replugged in every single one).  The client
\* and the user owe nothing.
FairSpec == Spec /\ WF_vars(Composed) /\ SF_vars(Present) /\ WF_vars(Wakeup)

-----------------------------------------------------------------------------
(* Properties.                                                             *)

\* Commits become current in the order they were sent, each once; what a
\* null commit or a rejection threw away never comes back, not even when its
\* fence or timer fires late.
Stream == INSTANCE CommitStream WITH waiting <- Ids(queue), shown <- current.id
AppliedInOrder == Stream!Spec

\* A buffered commit is not current before its waiter has run and its target
\* is within reach of a frame, however the three locks of its neighbours
\* come and go; only the ticker of hidden windows releases one earlier.
AppliedIsReady ==
    \A i \in applied \ forced : i \notin fence \cup failed /\ target[i] # "far"

\* A commit locked behind a barrier becomes current only after a frame
\* boundary since the client asked to wait: no unlock of another reason, and
\* no unlock meant for another commit, lets two FIFO commits into one frame.
FifoWaitsForFrame == applied \cap unseen = {}

\* A feedback that was asked for and not answered is still held by someone who
\* will answer it: the pending state, a queued one, the current one or the
\* presentation queue.  "presented" is said only of content that was in a rendered
\* frame before a newer buffer took its place.
FeedbackIsTrue ==
    \A i \in Commits :
        /\ fb[i] = "open" =>
              \/ pending.fb /\ i = sent + 1
              \/ i \in Fbs(queue) \cup current.fbs \cup {r.fb : r \in presQ}
        /\ fb[i] = "presented" => i \in drawn

\* Every commit goes in or is thrown away in the end, as long as the window
\* is shown and no fence fd breaks: the locks of one commit cannot hold
\* another for good.
Waits(i) == i \in Ids(queue)
EveryCommitSettles == \A i \in Commits : Waits(i) ~> (~Waits(i) \/ hidden \/ failed # {})

\* "wl_surface.commit assigns pending" (SurfaceState.cpp): once nothing waits
\* the current scale is the one the client committed last.
CommitAssignsPending ==
    (surface = "live" /\ queue = <<>> /\ ~pending.scaleBit) => current.scale = pending.scale

=============================================================================
