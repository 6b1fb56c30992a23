# Hyprland, with the OpenXR fork: a verification project in TLA+

Modules that model the parts of the compositor where an interleaving, a crash, a
late answer or a long sequence of legal requests can go wrong; TLC runs over small
instances of them; TLAPS proofs of the properties that matter most, for instances
of every size. Paths are relative to the repository's root, `src/` there being the
compositor.

1. [Inventory](#inventory) - what the system consists of
2. [Modules](#modules) - what is modelled, and how it corresponds to the code
3. [Runs](#runs) - what TLC checks, with which bounds
4. [Findings](#findings) - where the code and its own words disagree
5. [Fairness](#fairness)
6. [Proofs](#proofs)
7. [Not modelled](#not-modelled) and [Plan](#plan)

## Inventory

The compositor is one process with one main thread: a wl_event_loop that runs one
callback at a time - a client request, a timer, a readable fd, an output event - and
at the end of each batch the calls queued with `doLater`. Concurrency comes from the
order in which those callbacks happen, from other processes (clients, the launcher,
Xwayland, an OpenXR runtime) and, in the XR part, from real threads.

| component | state | operations | what is hard | what makes it correct |
|---|---|---|---|---|
| Session lock (`managers/SessionLockManager`, `protocols/SessionLock`, `protocols/LockNotify`, the lock branches of `FocusState`, `SeatManager`, `InputManager`, `Compositor`) | the adopted lock, lock objects, lock surfaces, `m_locked`, focus, what was told to whom | lock, unlock, destroy, surfaces, lock frames, 5 s timer, hot-plug | clients die or compete; outputs, keyboards and grabs come and go meanwhile | the keyboard stays with the lock, each lock is answered once, launcher and listeners agree |
| Launcher `start/` | restart options, flags of the instance, a pipe of lines, a wakeup pipe, a waiting thread | spawn, poll, parse lines, join, restart, signals | exit and last lines race; crash between a flag and its line | a crash never unlocks a session |
| Surface commits (`protocols/core/Compositor`, `SurfaceState`, `SurfaceStateQueue`, `Fifo`, `CommitTiming`, `DRMSyncobj`, `PresentationTime`) | pending, queued and current states, locks, barriers, feedback | requests, commit, fence, timer, present, unmap, destroy | three unrelated reasons to wait; states thrown away while something still waits for them | commit order, readiness, every feedback answered, no commit stuck |
| OpenXR session (`openxr/OpenXRManager`, `XRSession`) | session state, a handshake thread, GPU probe threads, a bring-up helper, the frame thread, re-probe timer, inotify watch | start, stop, enable, disable, reload, probe | runtime calls that never return; threads abandoned and outlived | one owner per session, no restart before the join, a disable sticks, a retry comes |
| OpenXR frame-to-main channel (`XRQueue`) | ring of 1024 items, eventfd | enqueue, drain, teardown | lock-free indices, a full ring | nothing lost but what may be, no wakeup lost |
| OpenXR viewpoints (`XRViewpointLedger`, `XRViewpointTransport`) | issued samples, epochs, commit latch | issue, consume, stage, commit | samples outlive epochs and buffers | a buffer is only ever tagged with a sample issued to its client |
| OpenXR don/doff (`XRDonDoff`, `XRDonSettle`, `XRPoseHistory`) | FSM of wearing, settle windows | edges, hydration, backstop, commit | late and missing edges | one commit per doff, no layout lost |
| Monitor frame scheduler (`output/MonitorFrameScheduler`) | render-at-frame, pending third buffer, sync | frame, sync fired, presented | late GPU work, scanout switching the mode | frames never stop |
| Monitors and workspaces (`state/`, `output/Monitor`) | monitors, workspaces and where each belongs | connect, disconnect, move, fallback | an output goes while its workspaces are in use | each workspace on one monitor, each monitor with one active workspace |
| Seat, grabs and focus (`SeatManager`, `FocusGrab`, `FocusState`) | focus, grab, resources | set focus, grab, end | re-entrancy of focus and grab callbacks | grab and focus agree |
| Fullscreen, groups, layouts (`managers/fullscreen`, `desktop/view/Group`, `layout/`) | modes, member lists, trees | many commands | every command against every state | one fullscreen window per workspace, indices in range |
| Xwayland (`xwayland/`) | server process, restart times, windows | start, crash, restart | crash while starting | bounded restarts |
| Protocol objects (`protocols/`) | one object each | translated requests | destruction order | no dangling object |
| Screen share, permissions, idle, input methods, data device (`managers/`, `protocols/`) | sessions, pending dialogs, timers | requests and their late answers | an answer for something that is gone | each request answered once |
| Config, keybinds, IPC, plugins, hyprctl, hyprpm | tables | parsing and dispatch | - | - |
| Renderer, animations, cursor, notifications | GPU objects, frames | drawing | GPU | - |

How the modelled ones interact:

- SessionLock tells the launcher every change of `m_locked` through a pipe.
  StartWatchdog assumes of the compositor what SessionLock guarantees: the last line is
  "lock" whenever the session is locked (`LockIsAnnounced`).
- XRLifecycle and XRLayers describe one manager. XRLifecycle has the threads and the
  steps of `start()` and `stop()`, XRLayers has what the frame thread does once it runs
  and what the two threads say to each other; it extends XRFrameChannel, the ring both
  sides work on. Where XRLayers says `Start` in one action, XRLifecycle has its steps.
- FrameScheduler decides when a monitor renders and commits; SurfaceCommit takes the
  monitor's frames and presentations as events, whoever scheduled them.
- SeatGrab and SessionLock both contain `setGrab` and the seat's focus. SeatGrab has all
  grabs and who contends for them, SessionLock a single foreign grab against the lock,
  and a keyboard that comes and goes.
- Workspaces is about outputs as the user sees them; the outputs an XR session creates
  and destroys in XRLayers arrive there as `PlugIn` and `Unplug`.

## Modules

Each action is one callback of the code with every call it makes, except where threads
run in parallel, where it is one access to what they share; PROJECT.json maps each
definition to its lines. Where a callback calls deep into others, each on what the last
one left (Workspaces, FrameScheduler, SeatGrab), what they work on is one record and
each function of the code an operator from record to record, or to the set of records
that may result; an action applies the outermost one.

### SessionLock

`locked`, `notified` are `m_locked` of the lock protocol and of the lock
notification; `cur`, `sent`, `lockedMons`, `timer`, `sls` are the fields of
`m_sessionLock`; `lock`, `surf` the protocol objects; `focus` the seat's keyboard
focus beside `CFocusState::m_focusSurface` - two variables in the code that can
disagree, as the module keeps them; `wdLine` the last line written to the launcher.
`split` is history.

Abstracted: cursor position and focused monitor are inputs (any output, or none); a
grab starts only while unlocked, one at a time, as `InputManager` would not deliver
the click that starts one; the 5 s timer goes with its lock. Seen while modelling and
kept as they are: `hasSentDenied` is never assigned; the unlock listener leaves
`m_startLockedCommand` set; `forceUnlock` can send "finished" twice to an inert lock;
a second lock that arrives while the first is unanswered is neither denied nor
adopted, and its client can still unlock (`split` remembers that, and the properties
that depend on one lock being in charge exempt it).

### StartWatchdog, CrashSafeSession

The launcher's poll loop, its thread in waitpid and the compositor reduced to what it
writes. CrashSafeSession is the abstract specification: a session that is locked stays
locked across crashes and restarts. StartWatchdog implements it under a refinement
mapping (`Life`, `Sess`) that reads the lines still in the pipe. A read takes the
whole pipe (the code's 4096 bytes are some 580 lines); signals arrive only while
polling; an instance that dies before "vax" counts as a clean stop, as in the code.

### SurfaceCommit, CommitStream

One wl_surface: `pending`, `queue` and `current` are `m_pending`, `m_stateQueue` and
`m_current`; a commit is its number. The three lock reasons are the elements of a
state's `lock`. `fence`, `target` are the waiters and timers outside the queue, which
find their state by a weak pointer or not at all; `frameDue`, `flip`, `tearing`,
`hidden`, `scanout` the monitor; `fb`, `presQ` the presentation feedback. CommitStream
is the abstract specification: commits become current in order, each at most once, and
what was given up stays so. SurfaceCommit implements it with `waiting` the ids in the
queue and `shown` the last applied commit.

Abstracted: of the double-buffered values only the scale with its "updated" bit; a
state carries at most one feedback; several sync fds are one fence; a commit target is
far, near, past or fired; a monitor that comes back is the same monitor. Left out:
subsurface synchronisation, viewpoint association, cursor roles, frame callbacks
(those of a discarded state are never sent), the cap of 10000 queued feedbacks,
`debug:fifo_pending_workaround` (off by default), an `addWaiter` that fails (as if
unfenced). A fence fd in error loses its waiter for good (`failed`).

### FrameScheduler

`mon` holds the scheduler's fields (`atFrame`, `third`, `overdue`, the fences it waits
for, the commit it deferred), those of the monitor it reads (`damage`, `composed`: a
frame rendered and not committed, `scanout`, `solitary`) and the output (`needs`,
`flip`, `event`). The output is the backend's, modelled from how it is used: one page
flip at a time, a present and a frame event when it completes, frame events on request
while idle; a commit during a flip fails. Whether a fence can be exported, whether a
buffer is fresh and how late a fence fires are open. `ignored` is history: a fence
fired, unheard, while frame events were refused. Left out: tearing, which renders past
the scheduler, a session on another tty, a reload that turns the option off.

### XRLifecycle

`state`, `manual`, `hsPending`, `hsFlag`, `brFlag`, `run`, `req` are the manager's
fields; `worker`, `helper`, `thread` are the handshake's thread, the bring-up's and the
frame thread, `live` counts CXRSession objects, `hsFd` and `chan` are the eventfds.
Between handshake and bring-up the main thread asks up to three times for the GPU, each
time on a throwaway thread it waits for no longer than a bound: the EGL devices, the
runtime's EGL device, its Vulkan device. `gpuProbe` is the question it waits with, and
`stray` says that a thread left behind at its bound has not returned; no flag of the
manager knows of it, so nothing waits for it and any number may be out. It owns no
session. The main thread runs one callback at a time and blocks in those waits, in the
bring-up park and in the join. Delays are abstracted (a backoff is "armed"), IDLE,
VISIBLE and FOCUSED are one state. `onConfigReload` and a config change are one step; a
frame channel that cannot be set up is a failed bring-up.
`NewBatch` is the event loop's order: a `stop()` queued with `doLater` runs before
anything that became ready after it. Not modelled: creation failure of the handshake
channel, the directory tree under the inotify watch.

### XRFrameChannel, BoundedFifo, XRLayers

XRFrameChannel is CXRSPSCRing with its eventfd, one action per access: the producer
reads both indices and refuses or writes the slot, publishes `m_head`, writes the
eventfd; the consumer reads the eventfd, then pops a slot, publishes `m_tail`,
dispatches, until it finds the ring empty. A full ring drops motion silently and
anything else with `m_queueOverflowed`. BoundedFifo is what it promises; the mapping
counts an entry as waiting from the publication of `m_head` to that of `m_tail`.

XRLayers composes the channel with what matters most in it: `layers`, `pending`,
`acked`, `swapchain` and `output` are the records of the XR monitors, `active`,
`toRemove` and `ackedRefs` the references one iteration of the frame loop holds,
`removed` the acks it owes. The main thread may let go of a layer only when the frame
thread acked it, across sessions that stop and start meanwhile.

### Workspaces

`desk` is what CMonitor, the placement controller, the workspace tracker and the
fallback state share, with the queue of deferred calls; `known` the outputs there are,
enabled or not; `home` is history: the monitor whose going away displaced a workspace
with windows (one without may die and be made anew within one callback).
Actions: plug in, unplug, disable and enable an output, the deferred calls, the first
frame and the launch timer (which both end FALLBACK's stay), and the user's requests:
switch, fetch, send, focus, special, opening and closing windows. A workspace's windows
are one bit. Left out: mirrors, leases, config changes,
`binds:hide_special_on_workspace_change`, rules that name no monitor.

### SeatGrab

`seat` is `m_seatGrab`, the keyboard focus, `m_focusSurface`, the surfaces of each seat
grab, and the state of the objects that own one: each `hyprland_focus_grab_v1` has a
grab of its own over the surfaces its client committed, all xdg_popups share one with
an owner. `setGrab(nullptr)` moves the focus before the old grab hears of its end, and
that callback may run in the middle of the other object's request: this is why an
operator returns the set of results. Where the pointer is decides who is focused, and
whether a removed surface had it; it is left open. Left out: drag and drop, selections,
the pointer's focus itself.

## Runs

| run | instance | distinct states | shows |
|---|---|---|---|
| `lock_focus` | 2 locks, 2 surfaces, 2 outputs, 2 other surfaces, started locked, no relock; a keyboard may be plugged in | 809,451 | `TypeOK`; `KeyboardReachesLock`: when a lock surface could have the keyboard, a live one has it; `NoAppGainsFocus`: no other surface gains it while locked |
| `lock_protocol` | 2 locks, 1 surface, 2 outputs, relock allowed, keyboards come and go | 265,284 | `LockIsAnnounced`: launcher and listeners know of the lock, before its client does; `ToldOnce`; `PendingIsAnswered` |
| `watchdog` | up to 4 unread lines | 4,939 | `TypeOK`; `RestartedAsItDied`; `SurvivesCrashes` (the refinement); `CrashIsRestarted` |
| `xr_lifecycle` | the whole state space, with re-probe and watch | 22,976 | `TypeOK`; `SessionHasOneOwner`; `DisableHolds`: a disable takes the session down and lasts, but for a stop that met the loss of the runtime; `EveryWaitEnds`; `WakeIsAnswered`: a timer or an event that is there leads to a new attempt |
| `xr_layers` | 1 name, a ring of 4, monitors outlive sessions | 344,760 | `TypeOK`; `LayersAgree`; `NothingIsLost`; `ChannelIsFifo` (the refinement); `OnlyPendingLayersGo`; `RemovalEnds` |
| `workspaces` | 3 outputs, 4 changes of them, 2 requests, 2 workspaces with windows at a time; on B, 2 is bound and persistent and 1 default | 1,581,617 | `TypeOK`; `VisibleIsShown`; `NoneStranded`; `FallbackAlone`; `ReturnsHome` |
| `surface_commit` | 2 commits, 2 scales, timer, feedback, tearing, the ticker; a wp_fifo, once created, stays | 1,907,886 | `TypeOK`; `AppliedIsReady`; `FeedbackIsTrue`; `AppliedInOrder` (the refinement) |
| `surface_fifo` | 3 commits with fences and barriers, a hidden window with the ticker; a wp_fifo, once created, stays | 42,600 | `FifoWaitsForFrame`; `EveryCommitSettles` |
| `frame_scheduler` | up to 3 fences waited for at once | 4,952 | `TypeOK`; `BlockedAwaitsFence`; `PendingFrameIsOwed`; `DamageIsRendered` |
| `seat_grab` | 2 focus grabs over 2 surfaces, 2 popups, 1 other surface | 347,020 | `TypeOK`; `GrabsAgree`; `KeyboardStaysInGrab` |
| `xr_retry` | as `xr_lifecycle` | violated | `RetryComes`; the first finding below |
| `surface_scale` | 2 commits, 2 scales | violated | the second |

Why the bounds suffice. Two locks are one in charge and one that competes, two surfaces
one that goes and one that remains, two outputs one with a frame and one without; the
lock module's own rules never compare more than two of a kind. Four lines hold every
order of "vax", "lock", "unlock" and "end" of one instance. Two commits suffice for
every property that relates a state to its neighbour; the FIFO questions need the
barrier, the one behind it and one more. The XR lifecycle has no bound. One XR monitor
already meets itself again, recreated under its name with an ack of its predecessor
possibly on its way, and a ring of four fills, wraps and overflows. Three outputs and
FALLBACK are four monitors; four changes bring all three and take one away again, or one
away and back, with a request of the user between any two of them; seven ids are never
used up. With two outputs a monitor that comes takes every orphan; only a third shows
what is left to the deferred calls, and two properties were false there in an earlier
wording (under Findings). Three fences at once are more than the scheduler's two buffers can have. Two focus grabs and
two popups are every pair that can contend: the same kind, and each with the other.

Options. `KeyboardUnplugs` is FALSE in `lock_focus`: with it `KeyboardReachesLock` fails
as told under Findings. `EmptyBarriers` is FALSE: a barrier committed without a buffer
damages nothing and may never be presented (the TODO at
`src/protocols/Fifo.cpp:50-53`). `DropsFifo` is FALSE: destroying the wp_fifo doubles
the states, and what follows from it is under Findings. `CanTear` is FALSE in
`surface_fifo` and `DestroyOnStop` in `xr_layers`, for the same reason; tearing is in
`surface_commit`. `CHECK_DEADLOCK FALSE` is used where the system may stop: the launcher
ends, a client that has sent its commits, or is gone, owes nothing, and the changes of
outputs and the requests are used up.

Symmetry is used only in runs without liveness: `LockSymmetry` is over lock objects,
surfaces, outputs and other surfaces, `Mirror` over the two outputs nothing is bound to
(Workspaces chooses among ids, never among monitors).

## Findings

- **xr_retry** - a dormant session is left to a quiet watch, without a timer
  (`OpenXRManager.cpp:4337`), and the watch does not ask whether its trigger is already
  there. A start that was refused because an abandoned handshake was in flight is not tried
  again when that one returns, though the runtime is up all the while; lines 412-413 say
  that "the reprobe retries once the in-flight worker resolves". Likewise a runtime that
  comes up after a handshake looked and before the watch is put up is never noticed; the
  comment at 4476-4478 says the failed probe saw it too and "the timer covers that", which
  is the timer that is not armed. `docs/openxr/05-configuration.md:104-106` promises a
  session "automatically once the runtime starts". `WakeIsAnswered` is what does hold.
- **surface_scale** - a null commit throws a queued scale away which `m_pending` keeps;
  setting the same scale again is taken for no change.

Seen while modelling, with no run of their own; each is reachable in the module named,
and where a property would fail because of it, the run's instance or the property's
wording exempts it and says so.

SessionLock:
- `lockedMonitors` outlives the outputs it names and ids are reused, so "locked" can be
  sent before a replugged output ever showed a lock frame (`SessionLockManager.cpp:182`).
- `rawSurfaceFocus` compares with the seat's focus, not with `m_focusSurface`
  (`FocusState.cpp:232`): after the last keyboard went and one came back the keyboard
  can be with no lock surface although a live one exists.

XRLifecycle, XRLayers:
- A user's disable whose `stop()` finds the runtime lost ends in UNAVAILABLE with the
  re-probe armed (`OpenXRManager.cpp:1112` and 1236), which starts the session again
  without a look at `m_manualDisable` (4394). `docs/openxr/05-configuration.md:109-110`
  calls the disable sticky and says it outranks `openxr:enabled`, the comment at
  4289-4293 the same. `DisableHolds` exempts this one stop (`LossEndsStop`).
- A GPU probe left behind at its bound may still be in the loader or the runtime when the
  helper, or the handshake of a later attempt, enters them: no flag keeps them apart,
  while the comments at 409-412 and 4612-4613 want the loader entered by one thread.
  The comment at 776-777 says that a late return cannot touch a torn-down instance, as the
  thread looks at `abandon` before every call with an XrInstance; but
  `xrGetSystemEGLDeviceMND` (`XRGpuProbe.cpp:93`) and `xrCreateVulkanInstanceKHR`
  (`XRGpuProbe.cpp:262`) are such calls, and the thread may hang inside them. What they do
  then is the runtime's; no property is about it.
- A frame that begins between an ack and its dispatch takes a reference to the acked layer
  into `toRemove` (`OpenXRManager.cpp:1762`); the main thread erases the layer meanwhile,
  and the last reference, with its non-atomic counts, dies on the frame thread. The comment
  at 1769-1770 says it must die on the main thread. In XRLayers that is a state with
  `ackedRefs` not among `layers`.
- `stop()` between the destroying of a monitor and its ack makes it a live one again
  (`OpenXRManager.cpp:4094`).
- A reload that drops an xrmonitor, and another that declares it again before the ack,
  leave it without one: the name is still in use.
- A dormant session whose `openxr:enabled` is off meanwhile can be left without a retry
  by the floor between probes; a deferred `stop()` can meet a start of the same batch.

Workspaces:
- FALLBACK's own first frame ends its stay, with no other monitor there
  (`FallbackState.cpp:96`); so does a real monitor added and removed in one batch.
- A workspace made to fill the gap on a monitor that is going, with a persistent rule
  for an absent monitor, stays on the one that went (the exemption in `NoneStranded`).
  When that absent monitor comes while two others are enabled it is no recovery
  (`Monitor.cpp:364`), and the workspace stays out of reach until the deferred
  `ensurePersistentWorkspacesPresent` brings it; the wording of `NoneStranded` had to
  allow for that, which the proof asked for and three outputs show.
- A persistent workspace without windows can lose its tag: the deferred call drops it
  while its monitor is away, and an evacuation later in the same batch makes it anew to
  fill a gap. `ReturnsHome` is therefore about workspaces with windows throughout.
- A workspace born on FALLBACK keeps the tag "FALLBACK" and is owned by no later
  monitor's return.

SurfaceCommit, FrameScheduler:
- A torn frame does not lift a FIFO lock from before it (`Fifo.cpp:187`).
- `wait_barrier` looks at `m_current` when the request comes, so a barrier still queued
  behind a fence is not seen, and two such commits can share a refresh.
- A wp_fifo destroyed while a commit waits for its barrier leaves the commit waiting,
  since a present reaches only the objects in `m_fifos` (`DropsFifo = TRUE` in
  `surface_fifo` shows it).
- When direct scanout is entered inside a late render, the fence that fires next returns
  early and frame events stay refused with nothing waited for
  (`MonitorFrameScheduler.cpp:22`; `ignored`).
- A late fence with no flip under way composes a frame that no presentation will commit
  by itself; the frame event that was refused meanwhile is lost until the next damage.
- A deferred commit that meets a new flip fails and damages the whole monitor.

SeatGrab:
- `m_grabOwner` outlives its grab (`XDGShell.cpp:964`): once another grab replaced the
  popups', the owner's destruction ends that other one, and a popup that asks for a grab
  meanwhile joins a grab nobody holds.
- `refocusGrab` moves the keyboard without telling the focus state, so that the
  unmapping of an unrelated layer surface (`LayerSurface.cpp:283`) or a new keyboard
  (`InputManager.cpp:1229`) takes it out of the grab; `KeyboardStaysInGrab` says that
  there is no other way out but to no surface at all.
- The destruction of a surface commits the pending removals of others
  (`FocusGrab.cpp:89`); one removed and added again before the commit is removed.

## Fairness

- SessionLock: the event loop serves the armed 5 s timer. Clients and outputs owe
  nothing.
- StartWatchdog: launcher and waiter thread run. The compositor and signals owe
  nothing.
- SurfaceCommit: a scheduled frame is rendered (weak fairness); of frames rendered
  again and again one is presented (strong fairness, as a replug may drop a page flip
  but not every one); GPU work and time come to an end. `EveryCommitSettles` is claimed
  while the window is shown and no fence fd is in error.
- FrameScheduler: page flips complete, fences fire, scheduled frame events and deferred
  calls run. Damage and clients owe nothing; `DamageIsRendered` is claimed where frame
  events keep coming.
- XRLifecycle: the event loop serves ready fds, timers and deferred calls, the
  handshake returns, the frame loop comes round. The bring-up helper and the GPU probes
  may hang for ever; the deadlines of the main thread's waits for them come. The user and
  the runtime owe nothing.
- XRLayers: the frame loop goes on (xrWaitFrame returns), the event loop serves the
  channel, its own callbacks, the deferred stop and the join. The user owes nothing:
  `RemovalEnds` holds with monitors created and destroyed for ever.

Workspaces and SeatGrab state safety only: they react, and nothing in them is bound to
happen.

## Proofs

TLAPS proves the following for every value of the constants that meets the module's
ASSUME (such as: `None` is no lock, surface or output; surfaces and other surfaces are
disjoint; switches are BOOLEAN; the pipe bound is a natural; the ring has two slots or
more; monitor names are entries that are not motion). Each rests on one inductive
invariant: `Init => Inv`, `Inv /\ [Next]_vars => Inv'` action by action, and
`Inv => property`.

**SessionLockProofs** - `TypeCorrect`, `LockAnnounced`, `ToldAtMostOnce`,
`KeyboardStaysLocked`, `KeyboardReaches`. `LockIsAnnounced` alone is not inductive:
whether a client is told twice, or before the listeners, depends on which lock is in
charge. `LockInv` (in SessionLock) says so: as long as `cur` names a lock, that lock is
alive, not inert, has not been told if `sent` is false, and the last line to the launcher
is "lock". `NoAppGainsFocus` needs only what each focus function can return under a lock.
`KeyboardReachesLock` is about two variables, the seat's focus and the focus state's, and
about every action that moves one of them. `FocusInv` says that they agree on the lock's
surfaces (`Fits`), that the list names each surface once and only while its role object
lives, that no grab survives the lock, and that whenever some lock surface could take the
focus the focus state names a living one. It is stated with the hypothesis
`~KeyboardUnplugs`, as without it the property is false (under Findings); a keyboard may
still be plugged in at any time. `RawSurfaceFocusFits`, `PointerPassHolds` and
`RefocusedHolds` are the contracts of rawSurfaceFocus, the lock branch of
mouseMoveUnified and refocusKeyboard.

**StartWatchdogProofs** - `TypeCorrect`, `RestartsAsItDied`, `AlwaysDrained` (every line
is read before an exit is acted on; a stepping stone no run lists) and
`CrashesNeverUnlock`, the refinement of CrashSafeSession: initial states map to initial states and each step to a step or a
stutter. `WatchInv` relates three things no single action sees: the lines still in the
pipe, the launcher's flag and the phase of the compositor. `FinalLock` of the waiting
lines, what the launcher will know once it has read them, equals the lock flag except
between the flag and its line, where it may only err to the locked side. The lemmas say
what appending to or reading the pipe does to `FinalLock`. `DeathInv` carries the lock of
a compositor that is dead to the restart: what the launcher will know is what the dead
one was, or was about to say.

**SurfaceCommitProofs** - `SurfaceInvariance`, and from it `TypeCorrect`, `AppliedReady`,
`FifoWaits`, `FeedbackTrue` and `InOrderStream`, the refinement of CommitStream, for every
number of commits and every setting of the options. None of the four safety properties is
inductive, for one reason: what a state waits for is told three times, by its `lock`, by
the waiter outside the queue and by the barrier on the surface, and the weak pointers let
each of them go alone. `Sound` says how the three fit: the ids of the queue ascend
between the applied commit and the newest one (`Processable`); a queued state whose fence
or target is out has the lock for it, and an applied one has neither out (`LocksHold`); a
commit that has seen no frame since its client asked to wait is still locked behind a
standing barrier (`BarrierHolds`); and whoever holds a feedback holds one that was asked
for (`HeldIsKnown`). tryProcess is modelled by how many states it takes and by what those
states together leave, so what it does to a sound queue is proved once, for any number of
them (`ProcessedIsSound`, `TryProcessRuns`), and each step that unlocks, presents or
discards only has to say what it hands over.

**XRLifecycleProofs** - `TypeCorrect`, `OneOwner`, `DisableOutranks`.
`XRInv` adds to the properties what the main thread's flags say of the other threads
(`FlagsKnowThreads`) and that worker, GPU questions, helper and frame thread come one
after the other (`OneThread`), which is true of the attempts that own a session and not of
the probe threads that were left behind; even type correctness needs it, since `live` is
decremented by whoever frees a session. `StartKeeps`, `AbandonKeeps`, `StopKeeps` and
`ProbeKeeps` are the contracts of start(), abandonHandshake(), stop() and the GPU
questions. `DownStep` goes through everything that could bring a disabled session up: a
late answer finds no handshake pending, a timer no dormant state, a reload the latch.

**XRLayersProofs** - `LayersInvariance`, and from it `TypeCorrect`, `NoSlotIsShared`
(producer and consumer never touch the same slot), `ThreadsAgree`, `NoWakeIsLost`,
`LayersGoFlagged` and `RingIsQueue`, the refinement of BoundedFifo, for every ring and
every set of monitors. That an ack finds the layer it was sent for is not inductive: a
second ack of the same removal would outlive the first one's dispatch and meet the
layer's successor. The strengthening is that each removal has one ack, wherever it is on
its way: owed, being sent, in one slot of the ring, or just popped. `NoWakeIsLost` rests
on the order the code comments on, the eventfd being read before the ring is drained.

**FrameSchedulerProofs** - `TypeCorrect`, `RefusedOnlyForAFence`, `NoFrameForgotten`,
for every number of fences. The invariant is the conjunction of the three; the lemmas
are the contracts of the handlers (`FinishKeeps`, `SyncKeeps`, `PresentedKeeps`,
`FrameKeeps`), since an action applies up to three of them.

**SeatGrabProofs** - `TypeCorrect`, `SeatAndGrabsAgree`, `KeyboardIsKept`, for every set
of focus grabs, popups and surfaces; grabs and popups are different objects. The
invariant adds to `GrabsAgree` that the grab of the popups has an owner that lives. It
cannot hold inside a request: `setGrab` ends the old grab, whose callback finishes an
object that may be in the middle of its own commit. So the contracts are stated of a seat
where one object is `Held` but not yet `Whole` (`Busy`), and `StartAgrees`,
`FinishAgrees`, `AddedKeeps`, `RemovedKeeps`, `CommitAgrees`, `AddOrStartAgrees` and
`PopupDestroyAgrees` say which of them make it whole again. The keyboard's part (`Kept`)
reads off the same contracts: each leaves the focus alone, puts it inside the grab, or
leaves no grab.

**WorkspacesProofs** - `TypeCorrect`, `ShownIsVisible`, `NothingStranded`,
`FallbackIsAlone`, and `WorkspacesReturn` for the action property `ReturnsHome`, for
every set of outputs, rules, default and persistent workspaces.
They have one hypothesis, `EnoughIds`: whatever list of workspaces there is, some id
without a rule is not in it. The code counts up until it finds one and has no answer
for the case that there is none; `EndlessIdsAreEnough` proves the hypothesis for the
ids 1, 2, 3, ... and rules up to some last id. A run has finitely many ids, which its
bounds do not exhaust. The argument has three layers.

- *Folds.* A handler folds an operator over a list, and the library defines a fold by
  recursion over a set of numbers. Its induction theorems cannot be cited here, but for
  one property at a time induction is the least number at which a set of numbers ends
  (`LeastNat`, `Induction`), so that the fold is made once to exist (`FoldExists`) and to
  run through a chain of desks (`FoldChain`, and `MoveFolds`, `CallFolds`... for each
  operator that is folded). What the chain keeps follows from what one call keeps.
- *Handlers.* `VisibleIsShown` is false in the middle of a handler: a monitor shows its
  first workspace before it is enabled, and one that goes is enabled until its
  workspaces are elsewhere. `Shows(d, E)` says it for the monitors `E` that count, and
  `Moves`, `Steady`, `Connected`, `Evacuated` and `Disconnected` are what a move, any
  handler that only rearranges screens, onConnect and onDisconnect make of it.
- *Between callbacks.* `Fine(d, S)` adds the focus, who may be stranded and when FALLBACK
  is wanted, `S` being the deferred calls that are still to come: `NoneStranded` and
  `FallbackAlone` both rest on a call that is queued. `CallKeeps` says that one call does
  its part, and `RunKeeps` that those of a batch hand over to each other.
- *Tags.* `ReturnsHome` needs more than a step: that the tag a workspace got when its
  monitor went is still there when the monitor comes. `Awaited` is the invariant, home
  being the history and `last` the tag the code keeps. Only two places drop a tag while
  its workspace exists: TakeBack drops those of the monitor that comes, which brings the
  workspace there, and SetupDefaultWS that of the default workspace, which is why
  `Tracked` leaves these out. `Keeps` says that all handlers leave the tags of other
  monitors alone, `Parting` that onDisconnect sets one where there is none and
  nowhere else, `Awaits` what a whole callback makes of it, `TakeBackSteady` and
  `ShowSeenStays` that onConnect brings what is tagged and takes nothing away again.

Only model-checked: everything under fairness (`PendingIsAnswered`, `CrashIsRestarted`,
`EveryCommitSettles`, `EveryWaitEnds`, `WakeIsAnswered`, `RemovalEnds`,
`DamageIsRendered`), as TLAPS here has no ENABLED.

## Not modelled

PROJECT.json lists every component with its reason. In short: floating-point geometry
(poses, rays, layouts), GPU work, parsing and formatting, code patching by plugins, and
protocol objects that only translate a request are out of reach or have nothing to
state. They are most of the repository's lines: the models cover the state machines
that its threads, timers and callbacks share, not the code around them. The rest is in
the plan.

## Plan

1. `XRViewpoint`: ledger, epochs and commit latch; a buffer is only ever tagged with a
   sample issued to its client; composed with SurfaceCommit's queue.
2. `XRDonDoff`: the transition function against late and missing edges; one commit per
   doff.
3. `XWaylandRestart`: at most five restarts in any minute, for every clock.
4. `Group`, `Fullscreen`: member lists and modes.
