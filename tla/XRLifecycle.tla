----------------------------- MODULE XRLifecycle -----------------------------
(***************************************************************************)
(* The life of an OpenXR session in COpenXRManager: start and stop, the    *)
(* detached worker of the first-contact handshake, the throwaway threads   *)
(* that ask drivers and runtime for the GPU, the detached helper of the    *)
(* bring-up, the frame thread, and the dormant re-probe (timer, inotify    *)
(* watch, debounce) that starts again from UNAVAILABLE.                    *)
(*                                                                         *)
(* Actors: the main thread, which runs one event-loop callback at a time   *)
(* and blocks only while it waits for a GPU probe, in the bring-up park    *)
(* and in the join of stop(); the worker; the probe threads; the helper;   *)
(* the frame thread; and, outside the program, the runtime and the user.   *)
(* A probe that overruns its bound is left behind inside a driver or the   *)
(* runtime with no flag that keeps a later attempt out, so any number of   *)
(* them may be there; they own nothing and nobody waits for them.          *)
(*                                                                         *)
(* Left out: delays (a backoff is "armed"), what a session contains, the   *)
(* RUNNING_IDLE / VISIBLE / FOCUSED sub-states, which are all "running".   *)
(***************************************************************************)
EXTENDS Naturals

CONSTANTS
    Reprobe,       \* openxr:reprobe
    ReprobeWatch   \* openxr:reprobe_watch

ASSUME SwitchesAssumption ==
    /\ Reprobe \in BOOLEAN
    /\ ReprobeWatch \in BOOLEAN

VARIABLES
    state,      \* m_state
    manual,     \* m_manualDisable
    enabled,    \* openxr:enabled
    seen,       \* m_lastEnabledSeen, also the "enabled" in m_lastProbeInputs
    floor,      \* the last probe is younger than the base interval
    main,       \* the main thread: loop, probing the GPU, parked in the bring-up,
                \* joining in stop()
    stopLost,   \* the local `lost` of the stop() that is joining
    worker,     \* the handshake thread: none, calling, abandoned, done
    answer,     \* what the handshake found
    hsPending,  \* m_pendingHandshake is set
    hsFlag,     \* m_handshakeInFlight
    hsFd,       \* the handshake eventfd is readable
    helper,     \* the bring-up thread: none, working, abandoned, ok, failed
    brFlag,     \* m_bringupInFlight
    gpuProbe,   \* the bounded probe the main thread waits for: none, the EGL devices
                \* of initEGL, the runtime's EGL device query, the Vulkan one
    stray,      \* a probe thread that was abandoned has not returned
    live,       \* CXRSession objects that exist
    thread,     \* the frame thread: none, run, exited (not yet joined)
    run,        \* m_running
    exit,       \* m_session's m_exitRequested and m_instanceLost
    req,        \* m_frameRequestedTeardown
    chan,       \* the frame->main eventfd is readable
    later,      \* a stop() is queued with doLater
    timer,      \* the re-probe timer is armed
    debounce,   \* the debounce timer of the watch is armed
    watch,      \* the inotify watch exists
    fsEvent,    \* and has an unread trigger event
    recent,     \* inside the activity window
    runtime,    \* a runtime with a headset answers (external)
    tainted     \* the kernel reports a driver oops (external)

cfgVars     == <<manual, enabled, seen, floor>>
hsVars      == <<worker, answer, hsPending, hsFlag, hsFd>>
bringVars   == <<helper, brFlag, gpuProbe, stray>>
frameVars   == <<thread, run, exit, chan>>
probeVars   == <<timer, debounce, watch, fsEvent, recent>>
envVars     == <<runtime, tainted>>
vars == <<state, manual, enabled, seen, floor, main, stopLost, worker, answer, hsPending,
          hsFlag, hsFd, helper, brFlag, gpuProbe, stray, live, thread, run, exit, req, chan,
          later, timer, debounce, watch, fsEvent, recent, runtime, tainted>>

NoExit == [requested |-> FALSE, lost |-> FALSE]

\* The types of the variables.
TypeOK ==
    /\ state \in {"disabled", "unavailable", "starting", "running", "stopping"}
    /\ manual \in BOOLEAN /\ enabled \in BOOLEAN /\ floor \in BOOLEAN
    /\ seen \in {"never", "no", "yes"}
    /\ main \in {"loop", "probing", "parked", "joining"}
    /\ stopLost \in BOOLEAN
    /\ worker \in {"none", "calling", "abandoned", "done"}
    /\ answer \in {"ok", "failed"}
    /\ hsPending \in BOOLEAN /\ hsFlag \in BOOLEAN /\ hsFd \in BOOLEAN
    /\ helper \in {"none", "working", "abandoned", "ok", "failed"}
    /\ brFlag \in BOOLEAN
    /\ gpuProbe \in {"none", "devices", "query", "vulkan"}
    /\ stray \in BOOLEAN
    /\ live \in Nat
    /\ thread \in {"none", "run", "exited"}
    /\ run \in BOOLEAN
    /\ exit \in [requested: BOOLEAN, lost: BOOLEAN]
    /\ req \in BOOLEAN /\ chan \in BOOLEAN /\ later \in BOOLEAN
    /\ timer \in BOOLEAN /\ debounce \in BOOLEAN /\ watch \in BOOLEAN
    /\ fsEvent \in BOOLEAN /\ recent \in BOOLEAN
    /\ runtime \in BOOLEAN /\ tainted \in BOOLEAN

\* After init(): started if openxr:enabled, else disabled.
Init ==
    /\ enabled \in BOOLEAN
    /\ state  = IF enabled THEN "starting" ELSE "disabled"
    /\ worker = IF enabled THEN "calling" ELSE "none"
    /\ live   = IF enabled THEN 1 ELSE 0
    /\ floor = enabled /\ hsPending = enabled /\ hsFlag = enabled
    /\ manual = FALSE /\ seen = "never" /\ main = "loop" /\ stopLost = FALSE
    /\ answer = "failed" /\ hsFd = FALSE
    /\ helper = "none" /\ brFlag = FALSE /\ gpuProbe = "none" /\ stray = FALSE
    /\ thread = "none" /\ run = FALSE /\ exit = NoExit
    /\ req = FALSE /\ chan = FALSE /\ later = FALSE
    /\ timer = FALSE /\ debounce = FALSE /\ watch = FALSE /\ fsEvent = FALSE /\ recent = FALSE
    /\ runtime \in BOOLEAN /\ tainted = FALSE

-----------------------------------------------------------------------------
(* What setState does to the re-probe *)

Disarm == timer' = FALSE /\ debounce' = FALSE /\ watch' = FALSE /\ fsEvent' = FALSE

\* Entering RUNNING or DISABLED ends the dormant period.
Settle(s) == state' = s /\ Disarm /\ recent' = FALSE

\* xrShouldArmReprobeTimer: the watch, when armed and quiet, is the retry.
ShouldArmReprobeTimer(watchArmed, activity) == ~watchArmed \/ activity

\* Entering UNAVAILABLE: maybeArmReprobe.  Nothing is armed before, every path
\* comes from STARTING or STOPPING.  A new watch has no unread events; inotify
\* may refuse one.
GoDormant(en, activity) ==
    /\ state' = "unavailable"
    /\ debounce' = FALSE /\ fsEvent' = FALSE
    /\ LET retry == en /\ Reprobe IN
         /\ watch' \in {FALSE, retry /\ ReprobeWatch}
         /\ recent' = (retry /\ activity)
         /\ timer'  = (retry /\ ShouldArmReprobeTimer(watch', activity))

-----------------------------------------------------------------------------
(* start() *)

Dormant == state \in {"disabled", "unavailable"}

\* Mutation: only the handshake of the last start is waited for.
Busy_HandshakeOnly == hsFlag

\* The handshake or the helper of an earlier attempt has not returned.  An abandoned
\* probe is not asked about.
Busy == hsFlag \/ brFlag

\* beginHandshake: a session object and its worker.
BeginHandshake ==
    /\ ~Busy /\ ~tainted
    /\ state' = "starting"
    /\ Disarm
    /\ worker' = "calling" /\ hsPending' = TRUE /\ hsFlag' = TRUE
    /\ live' = live + 1
    /\ UNCHANGED <<recent, answer, hsFd>>

\* A tainted kernel, or a thread of an earlier attempt in flight.
Refuse(en) ==
    /\ Busy \/ tainted
    /\ GoDormant(en, recent)
    /\ UNCHANGED <<hsVars, live>>

\* start() from a dormant state, openxr:enabled being en.
Start(en) ==
    /\ Dormant
    /\ floor' = TRUE
    /\ req' = FALSE
    /\ BeginHandshake \/ Refuse(en)
    /\ UNCHANGED <<main, stopLost, bringVars, frameVars, later, envVars>>

-----------------------------------------------------------------------------
(* stop() *)

\* Mutation: the claim is left with the manager, which takes the answer up later.
AbandonHandshake_StaysPending ==
    UNCHANGED <<worker, answer, hsPending, hsFlag, hsFd, live>>

\* abandonHandshake: the worker that is still calling now owns its session.
AbandonHandshake ==
    /\ hsPending' = FALSE
    /\ IF hsPending /\ worker = "done"
       THEN worker' = "none" /\ hsFlag' = FALSE /\ live' = live - 1
       ELSE /\ worker' = IF hsPending THEN "abandoned" ELSE worker
            /\ UNCHANGED <<hsFlag, live>>
    /\ UNCHANGED <<answer, hsFd>>

\* stop() with no frame thread to join ends in DISABLED at once.
StopIdle ==
    /\ state # "disabled" /\ thread = "none"
    /\ AbandonHandshake
    /\ Settle("disabled")
    /\ run' = FALSE /\ chan' = FALSE
    /\ UNCHANGED <<main, stopLost, thread, exit>>

\* stop() up to the join.
StopRunning ==
    /\ state # "disabled" /\ thread # "none"
    /\ AbandonHandshake
    /\ state' = "stopping"
    /\ main' = "joining"
    /\ stopLost' = exit.lost
    /\ run' = FALSE
    /\ UNCHANGED <<thread, exit, chan, probeVars>>

StopNothing ==
    /\ state = "disabled"
    /\ UNCHANGED <<state, main, stopLost, hsVars, live, frameVars, probeVars>>

Stop == /\ StopIdle \/ StopRunning \/ StopNothing
        /\ UNCHANGED <<bringVars, req, envVars>>

\* The rest of stop(): the session is destroyed after the join.
StopJoined ==
    /\ main = "joining" /\ thread = "exited"
    /\ main' = "loop"
    /\ thread' = "none" /\ chan' = FALSE /\ exit' = NoExit
    /\ live' = live - 1
    /\ IF stopLost THEN GoDormant(enabled, recent) ELSE Settle("disabled")
    /\ UNCHANGED <<cfgVars, stopLost, hsVars, bringVars, run, req, later, envVars>>

-----------------------------------------------------------------------------
(* Event-loop callbacks.  A stop() queued with doLater runs at the end of   *)
(* the batch of events that queued it: until then only commands of the same *)
(* batch run, no descriptor or timer that became ready after it.            *)

InLoop   == main = "loop"
NewBatch == main = "loop" /\ ~later

UserEnable ==
    /\ InLoop
    /\ manual' = FALSE
    /\ IF Dormant THEN Start(enabled)
       ELSE /\ floor' = FALSE
            /\ UNCHANGED <<state, main, stopLost, hsVars, bringVars, live, frameVars, req,
                           later, probeVars, envVars>>
    /\ UNCHANGED <<enabled, seen>>

UserDisable ==
    /\ InLoop
    /\ manual' = TRUE
    /\ Stop
    /\ UNCHANGED <<enabled, seen, floor, later>>

Seen(en) == IF en THEN "yes" ELSE "no"

\* openxr:enabled going from 0 back to 1 clears the sticky disable.
StillManual(en) == manual /\ ~(seen = "no" /\ en)

\* xrReloadAction, its clauses in order.
ReloadStops(en) == (~en \/ StillManual(en)) /\ state # "disabled"

ReloadStarts(en, changed, force) ==
    /\ en /\ ~StillManual(en)
    /\ Dormant
    /\ \/ force
       \/ ~floor /\ (state = "disabled" \/ changed \/ ~Reprobe)

\* onConfigReload: changed says that another input of a probe changed, force is
\* the `keyword openxr:enabled` path.
Reload(en, changed, force) ==
    /\ InLoop
    /\ enabled' = en
    /\ seen' = Seen(en)
    /\ manual' = StillManual(en)
    /\ LET differs == changed \/ seen # Seen(en) IN
         \/ ReloadStarts(en, differs, force) /\ Start(en)
         \/ ReloadStops(en) /\ Stop /\ UNCHANGED <<floor, later>>
         \/ /\ ~ReloadStarts(en, differs, force) /\ ~ReloadStops(en)
            /\ UNCHANGED <<state, floor, main, stopLost, hsVars, bringVars, live, frameVars,
                           req, later, probeVars, envVars>>

\* onHandshakeChannelReadable.  The wake may be of a handshake that was
\* abandoned after it had finished.  An answer leads into continueBringup, whose
\* first wait is initEGL's scan of the EGL devices.
HandshakeReadable ==
    /\ NewBatch /\ hsFd
    /\ hsFd' = FALSE
    /\ IF hsPending /\ worker = "done"
       THEN /\ hsPending' = FALSE /\ hsFlag' = FALSE /\ worker' = "none"
            /\ \/ /\ answer = "ok"
                  /\ main' = "probing" /\ gpuProbe' = "devices"
                  /\ UNCHANGED <<state, live, probeVars>>
               \/ /\ answer = "failed"
                  /\ live' = live - 1
                  /\ GoDormant(enabled, recent)
                  /\ UNCHANGED <<gpuProbe, main>>
       ELSE UNCHANGED <<hsPending, hsFlag, worker, gpuProbe, main, state, live, probeVars>>
    /\ UNCHANGED <<cfgVars, stopLost, answer, helper, brFlag, stray, frameVars, req, later,
                   envVars>>

\* The probes that may follow: each runtime extension may be missing, and a query
\* that named the GPU makes the Vulkan one needless.
LaterProbes == [devices |-> {"query", "vulkan"}, query |-> {"vulkan"}, vulkan |-> {}]

AskNextProbe ==
    /\ gpuProbe' \in LaterProbes[gpuProbe]
    /\ UNCHANGED <<main, helper, state, live, probeVars>>

\* runBoundedBringup: the helper gets the session, the main thread parks.
StartHelper ==
    /\ main' = "parked" /\ helper' = "working" /\ gpuProbe' = "none"
    /\ UNCHANGED <<state, live, probeVars>>

\* abortStart: no display, or a GPU that is not the runtime's.
AbortBringup ==
    /\ main' = "loop" /\ gpuProbe' = "none"
    /\ live' = live - 1
    /\ GoDormant(enabled, recent)
    /\ UNCHANGED helper

\* runBoundedProbe returned in time.
ProbeAnswered ==
    /\ main = "probing"
    /\ AskNextProbe \/ StartHelper \/ AbortBringup
    /\ UNCHANGED <<cfgVars, stopLost, hsVars, brFlag, stray, frameVars, req, later, envVars>>

\* The bound of runBoundedProbe: the thread is left behind.  Without EGL devices
\* there is no session, without an answer to the others the GPU goes unverified.
ProbeTimesOut ==
    /\ main = "probing"
    /\ stray' = TRUE
    /\ IF gpuProbe = "devices" THEN AbortBringup ELSE AskNextProbe \/ StartHelper
    /\ UNCHANGED <<cfgVars, stopLost, hsVars, brFlag, frameVars, req, later, envVars>>

\* runBoundedBringup returned in time: the frame thread starts, or all is freed.
BringupDone ==
    /\ main = "parked" /\ helper \in {"ok", "failed"}
    /\ main' = "loop" /\ helper' = "none"
    /\ \/ /\ helper = "ok"
          /\ thread' = "run" /\ run' = TRUE /\ exit' = NoExit /\ chan' = FALSE
          /\ Settle("running")
          /\ UNCHANGED live
       \/ /\ live' = live - 1
          /\ GoDormant(enabled, recent)
          /\ UNCHANGED frameVars
    /\ UNCHANGED <<cfgVars, stopLost, hsVars, brFlag, gpuProbe, stray, req, later, envVars>>

\* The deadline: the helper owns what it holds, the flag keeps others out.
BringupTimeout ==
    /\ main = "parked" /\ helper = "working"
    /\ main' = "loop" /\ helper' = "abandoned" /\ brFlag' = TRUE
    /\ GoDormant(enabled, TRUE)
    /\ UNCHANGED <<cfgVars, stopLost, hsVars, gpuProbe, stray, live, frameVars, req, later,
                   envVars>>

\* onFrameChannelReadable, as far as teardown goes.
FrameChannelReadable ==
    /\ NewBatch /\ chan
    /\ chan' = FALSE
    /\ later' = req
    /\ req' = FALSE
    /\ UNCHANGED <<state, cfgVars, main, stopLost, hsVars, bringVars, live, thread, run, exit,
                   probeVars, envVars>>

\* The stop() queued by onFrameChannelReadable.
DeferredStop ==
    /\ InLoop /\ later
    /\ later' = FALSE
    /\ Stop
    /\ UNCHANGED cfgVars

MayProbe == state = "unavailable" /\ enabled /\ Reprobe

\* onReprobeExpired.
ReprobeExpired ==
    /\ NewBatch /\ timer
    /\ MayProbe
    /\ Start(enabled)
    /\ UNCHANGED <<manual, enabled, seen>>

\* Mutation: the event is noted for the next delay, and no probe is armed.
WatchReadable_NoDebounce ==
    /\ NewBatch /\ watch /\ fsEvent
    /\ fsEvent' = FALSE /\ recent' = TRUE
    /\ UNCHANGED <<state, cfgVars, main, stopLost, hsVars, bringVars, live, frameVars, req,
                   later, timer, debounce, watch, envVars>>

\* onReprobeWatchReadable with a trigger file among the events.
WatchReadable ==
    /\ NewBatch /\ watch /\ fsEvent
    /\ fsEvent' = FALSE /\ recent' = TRUE /\ debounce' = TRUE
    /\ UNCHANGED <<state, cfgVars, main, stopLost, hsVars, bringVars, live, frameVars, req,
                   later, timer, watch, envVars>>

\* onWatchDebounceExpired.
DebounceExpired ==
    /\ NewBatch /\ debounce
    /\ MayProbe
    /\ \/ /\ hsFlag
          /\ debounce' = FALSE /\ timer' = TRUE
          /\ UNCHANGED <<state, floor, main, stopLost, hsVars, bringVars, live, frameVars, req,
                         later, watch, fsEvent, recent, envVars>>
       \/ ~hsFlag /\ Start(enabled)
    /\ UNCHANGED <<manual, enabled, seen>>

-----------------------------------------------------------------------------
(* The other threads *)

\* Mutation: the worker forgets to wake the main loop.
WorkerReturns_NoWake ==
    /\ worker = "calling"
    /\ worker' = "done"
    /\ answer' = IF runtime THEN "ok" ELSE "failed"
    /\ UNCHANGED <<state, cfgVars, main, stopLost, hsPending, hsFlag, hsFd, bringVars, live,
                   frameVars, req, later, probeVars, envVars>>

\* createInstance and getSystem returned.
WorkerReturns ==
    /\ worker \in {"calling", "abandoned"}
    /\ IF worker = "abandoned"
       THEN /\ worker' = "none" /\ hsFlag' = FALSE /\ live' = live - 1
            /\ UNCHANGED <<answer, hsFd>>
       ELSE /\ worker' = "done" /\ hsFd' = TRUE
            /\ answer' = IF runtime THEN "ok" ELSE "failed"
            /\ UNCHANGED <<hsFlag, live>>
    /\ UNCHANGED <<state, cfgVars, main, stopLost, hsPending, bringVars, frameVars, req, later,
                   probeVars, envVars>>

\* Mutation: a helper that fails frees the session the main thread frees too.
HelperReturns_FreesTwice ==
    /\ helper \in {"working", "abandoned"}
    /\ IF helper = "abandoned"
       THEN helper' = "none" /\ brFlag' = FALSE /\ live' = live - 1
       ELSE helper' = "failed" /\ live' = live - 1 /\ UNCHANGED brFlag
    /\ UNCHANGED <<state, cfgVars, main, stopLost, hsVars, gpuProbe, stray, frameVars, req,
                   later, probeVars, envVars>>

\* The last step of the bring-up returned; an abandoned helper frees what it has.
HelperReturns ==
    /\ helper \in {"working", "abandoned"}
    /\ IF helper = "abandoned"
       THEN helper' = "none" /\ brFlag' = FALSE /\ live' = live - 1
       ELSE helper' \in {"ok", "failed"} /\ UNCHANGED <<brFlag, live>>
    /\ UNCHANGED <<state, cfgVars, main, stopLost, hsVars, gpuProbe, stray, frameVars, req,
                   later, probeVars, envVars>>

\* The last of the abandoned probes returned; what it found is dropped.
StrayReturns ==
    /\ stray
    /\ stray' = FALSE
    /\ UNCHANGED <<state, cfgVars, main, stopLost, hsVars, helper, brFlag, gpuProbe, live,
                   frameVars, req, later, probeVars, envVars>>

\* pollEvents saw EXITING, or the loss of the session or of the runtime.
FramePolls ==
    /\ thread = "run" /\ run /\ ~exit.requested
    /\ exit' \in [requested: {TRUE}, lost: BOOLEAN]
    /\ UNCHANGED <<state, cfgVars, main, stopLost, hsVars, bringVars, live, thread, run, chan,
                   req, later, probeVars, envVars>>

FrameRequestsTeardown ==
    /\ thread = "run" /\ exit.requested
    /\ req' = TRUE /\ chan' = TRUE /\ thread' = "exited"
    /\ UNCHANGED <<state, cfgVars, main, stopLost, hsVars, bringVars, live, run, exit, later,
                   probeVars, envVars>>

\* m_running was cleared.
FrameLeaves ==
    /\ thread = "run" /\ ~run
    /\ thread' = "exited"
    /\ UNCHANGED <<state, cfgVars, main, stopLost, hsVars, bringVars, live, run, exit, req, chan,
                   later, probeVars, envVars>>

-----------------------------------------------------------------------------
(* The environment *)

\* The runtime becomes usable and touches its trigger file.
RuntimeAppears ==
    /\ ~runtime
    /\ runtime' = TRUE
    /\ fsEvent' = watch
    /\ UNCHANGED <<state, cfgVars, main, stopLost, hsVars, bringVars, live, frameVars, req, later,
                   timer, debounce, watch, recent, tainted>>

RuntimeGoes ==
    /\ runtime
    /\ runtime' = FALSE
    /\ UNCHANGED <<state, cfgVars, main, stopLost, hsVars, bringVars, live, frameVars, req, later,
                   probeVars, tainted>>

KernelTaints ==
    /\ ~tainted
    /\ tainted' = TRUE
    /\ UNCHANGED <<state, cfgVars, main, stopLost, hsVars, bringVars, live, frameVars, req, later,
                   probeVars, runtime>>

\* The base interval, or the activity window, is over.
TimePasses ==
    /\ floor \/ recent
    /\ \/ floor' = FALSE /\ UNCHANGED recent
       \/ recent' = FALSE /\ UNCHANGED floor
    /\ UNCHANGED <<state, manual, enabled, seen, main, stopLost, hsVars, bringVars, live,
                   frameVars, req, later, timer, debounce, watch, fsEvent, envVars>>

-----------------------------------------------------------------------------

UserStep == \/ UserEnable \/ UserDisable
            \/ \E en, changed, force \in BOOLEAN : Reload(en, changed, force)

MainStep == \/ HandshakeReadable \/ ProbeAnswered \/ ProbeTimesOut
            \/ BringupDone \/ BringupTimeout
            \/ FrameChannelReadable \/ DeferredStop \/ StopJoined
            \/ ReprobeExpired \/ WatchReadable \/ DebounceExpired

FrameStep == FrameRequestsTeardown \/ FrameLeaves

Next == \/ UserStep \/ MainStep \/ WorkerReturns \/ HelperReturns \/ StrayReturns
        \/ FramePolls \/ FrameStep
        \/ RuntimeAppears \/ RuntimeGoes \/ KernelTaints \/ TimePasses

Spec == Init /\ [][Next]_vars

\* The event loop serves what is ready, the handshake returns and the frame loop
\* comes round.  The probe threads, the bring-up helper, the user and the runtime
\* owe nothing: what bounds the main thread's waits for them are the two deadlines.
FairSpec ==
    /\ Spec
    /\ WF_vars(HandshakeReadable) /\ WF_vars(ProbeTimesOut)
    /\ WF_vars(BringupDone) /\ WF_vars(BringupTimeout)
    /\ WF_vars(FrameChannelReadable) /\ WF_vars(DeferredStop) /\ WF_vars(StopJoined)
    /\ WF_vars(ReprobeExpired) /\ WF_vars(WatchReadable) /\ WF_vars(DebounceExpired)
    /\ WF_vars(WorkerReturns) /\ WF_vars(FrameStep)

-----------------------------------------------------------------------------
(* Properties *)

One(b) == IF b THEN 1 ELSE 0

\* Every CXRSession object has exactly one owner - the handshake, the main thread
\* while it asks for the GPU, the helper or the running session - so none is leaked
\* or freed twice, and there is never more than one.
OneSession ==
    /\ live = One(worker # "none") + One(main = "probing") + One(helper # "none")
               + One(thread # "none")
    /\ live <= 1

\* A frame thread exists exactly while the session is up or being joined; what
\* it uses is destroyed after it is gone, and nothing restarts before.
JoinBeforeTeardown ==
    /\ thread # "none" <=> state \in {"running", "stopping"}
    /\ run => state = "running"
    /\ state = "stopping" <=> main = "joining"

\* A session object is freed once, by its one owner, after its thread is joined.
SessionHasOneOwner == OneSession /\ JoinBeforeTeardown

Down == state \in {"disabled", "stopping"}

\* A stop() that found the session or the runtime lost is joining.
LossEndsStop == main = "joining" /\ stopLost

\* The user's disable takes the session down at once, from every state, and it stays
\* down until the user enables it, whatever is reloaded, probed or answered late; but
\* for one case: the stop that found the runtime lost ends in UNAVAILABLE, from
\* where the re-probe starts again without a look at m_manualDisable.
DisableHolds ==
    [][manual' /\ (manual => Down) => Down' \/ LossEndsStop]_vars

\* Nothing waits for good: the main thread comes back from the GPU probes, from the
\* bring-up park and from the join, whatever the probe threads and the helper do;
\* every handshake is answered; a frame thread that gave up is noticed and joined.
EveryWaitEnds ==
    /\ main # "loop" ~> main = "loop"
    /\ state = "starting" ~> state # "starting"
    /\ thread = "exited" ~> thread = "none"

\* Something will wake a dormant session: a timer, or an event of the watch that was
\* not yet acted on.
Woken == timer \/ debounce \/ (watch /\ fsEvent)

\* Once a dormant session was woken it is tried again: no reload, command, refusal or
\* re-arming in between loses the wake, unless the kernel is tainted first.  That a
\* dormant session is woken at all is RetryComes.
WakeIsAnswered ==
    (state = "unavailable" /\ enabled /\ Reprobe /\ Woken /\ ~Busy /\ ~tainted)
        ~> (state # "unavailable" \/ tainted)

\* A dormant session that the user wants is tried again once a runtime is there that
\* no handshake has found yet, unless one of these changes: the re-probe brings it up
\* "automatically once the runtime starts" (05-configuration.md), and retries a refused
\* start "once the in-flight worker resolves" (start()).  The code does not keep it
\* when it leaves the session to the watch, without a timer: what the watch would tell
\* of may have happened.
RetryComes ==
    LET wanted == state = "unavailable" /\ enabled /\ Reprobe /\ watch /\ ~manual
        able   == runtime /\ answer = "failed" /\ ~Busy /\ ~tainted
    IN  (wanted /\ able) ~> ~(wanted /\ able)

=============================================================================
