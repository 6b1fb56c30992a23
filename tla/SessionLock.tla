---------------------------- MODULE SessionLock ----------------------------
(***************************************************************************)
(* The session lock of the compositor: the ext-session-lock-v1 protocol    *)
(* objects (protocols/SessionLock.cpp), the manager that adopts one of     *)
(* them (managers/SessionLockManager.cpp), the lock notification           *)
(* (protocols/LockNotify.cpp), keyboard focus as far as the lock moves it  *)
(* (desktop/state/FocusState.cpp, managers/SeatManager.cpp, the lock       *)
(* branch of InputManager::mouseMoveUnified) and the line the compositor   *)
(* writes to its watchdog (Compositor.cpp).                                *)
(*                                                                         *)
(* The compositor is single threaded: one action is one wayland request,   *)
(* one resource destruction, one timer or one rendered frame, with every   *)
(* call its handler makes.  Cursor position and focused monitor are        *)
(* inputs: any connected output, or none.                                  *)
(***************************************************************************)
EXTENDS Naturals, Sequences, FiniteSets

CONSTANTS
    Locks,          \* ext_session_lock_v1 objects clients may create
    Surfaces,       \* lock surfaces (role object and wl_surface), each used once
    Monitors,       \* output ids
    Apps,           \* surfaces that are not lock surfaces
    None,           \* null pointer
    AllowRelock,    \* misc:allow_session_lock_restore
    StartLocked,    \* started with --locked
    StartCommand,   \* m_startLockedCommand is not empty
    KeyboardUnplugs \* the last keyboard may go away (bound of the environment)

ASSUME ConstantsAssumption ==
    /\ None \notin Locks \cup Surfaces \cup Monitors \cup Apps
    /\ Surfaces \cap Apps = {}
    /\ AllowRelock \in BOOLEAN
    /\ StartLocked \in BOOLEAN
    /\ StartCommand \in BOOLEAN
    /\ StartCommand => StartLocked
    /\ KeyboardUnplugs \in BOOLEAN

VARIABLES
    locked,       \* CSessionLockProtocol::m_locked
    notified,     \* CLockNotifyProtocol::m_isLocked
    lock,         \* the CSessionLock objects: state, m_inert, "locked" events sent
    cur,          \* the lock m_sessionLock adopted, or None
    sent,         \* m_sessionLock->hasSentLocked
    lockedMons,   \* m_sessionLock->lockedMonitors
    timer,        \* m_sessionLock->sendLockedTimer is armed
    sls,          \* m_sessionLock->vSessionLockSurfaces, in creation order
    surf,         \* per lock surface: role object, wl_surface, output, mapped
    focus,        \* [kb: seat keyboard focus, fs: CFocusState::m_focusSurface]
    kbd,          \* CSeatManager::m_keyboard is set
    grab,         \* the surface of CSeatManager::m_seatGrab, or None
    connected,    \* monitors the compositor manages
    on,           \* those of them that are enabled with dpms on
    startLocked,  \* CCompositor::m_startLocked
    startCmd,     \* m_startLockedCommand is not empty
    wdLine,       \* last "lock" or "unlock" line written to the watchdog
    split         \* history: a lock the manager does not hold unlocked the session

lockVars  == <<locked, notified, lock>>
mgrVars   == <<cur, sent, lockedMons, timer, sls>>
focusVars == <<focus, kbd, grab>>
monVars   == <<connected, on>>
compVars  == <<startLocked, startCmd, wdLine>>
vars == <<locked, notified, lock, cur, sent, lockedMons, timer, sls, surf,
          focus, kbd, grab, connected, on, startLocked, startCmd, wdLine, split>>

Nil(S) == S \cup {None}

\* The types of the variables: which objects a field may name, and that only
\* connected outputs are on.
TypeOK ==
    /\ locked \in BOOLEAN
    /\ notified \in BOOLEAN
    /\ lock \in [Locks -> [st: {"unused", "live", "gone"}, inert: BOOLEAN, told: 0..2]]
    /\ cur \in Nil(Locks)
    /\ sent \in BOOLEAN
    /\ lockedMons \subseteq Monitors
    /\ timer \in BOOLEAN
    /\ sls \in Seq(Surfaces)
    /\ surf \in [Surfaces -> [role: {"unused", "live", "gone"}, wl: BOOLEAN,
                              mon: Nil(Monitors), mapped: BOOLEAN]]
    /\ focus \in [kb: Nil(Surfaces \cup Apps), fs: Nil(Surfaces \cup Apps)]
    /\ kbd \in BOOLEAN
    /\ grab \in Nil(Apps)
    /\ connected \subseteq Monitors
    /\ on \subseteq connected
    /\ startLocked \in BOOLEAN
    /\ startCmd \in BOOLEAN
    /\ wdLine \in {"none", "lock", "unlock"}
    /\ split \in BOOLEAN

Init ==
    /\ locked = StartLocked          \* forceLock() before any client connects
    /\ notified = StartLocked
    /\ lock = [l \in Locks |-> [st |-> "unused", inert |-> FALSE, told |-> 0]]
    /\ cur = None /\ sent = FALSE /\ lockedMons = {} /\ timer = FALSE /\ sls = <<>>
    /\ surf = [s \in Surfaces |-> [role |-> "unused", wl |-> FALSE,
                                   mon |-> None, mapped |-> FALSE]]
    /\ focus = [kb |-> None, fs |-> None]
    /\ kbd \in BOOLEAN
    /\ grab = None
    /\ connected = Monitors
    /\ on \in SUBSET Monitors
    /\ startLocked = StartLocked
    /\ startCmd = StartCommand
    /\ wdLine = IF StartLocked THEN "lock" ELSE "none"
    /\ split = FALSE

-----------------------------------------------------------------------------
(* Keyboard focus *)

Listed(list) == {list[i] : i \in DOMAIN list}

\* Mutation: focus requests of ordinary surfaces are not refused under a lock.
RawSurfaceFocus_NoLockCheck(f, s, lk, list, g) ==
    IF f.kb = s \/ (g # None /\ s # g) THEN f
    ELSE [kb |-> IF kbd THEN s ELSE f.kb, fs |-> s]

\* CFocusState::rawSurfaceFocus(s) with lock state lk, lock surfaces `list` and
\* seat grab g: the seat follows only while there is a keyboard.
RawSurfaceFocus(f, s, lk, list, g) ==
    LET refused == \/ f.kb = s
                   \/ lk /\ s # None /\ s \notin Listed(list)
                   \/ g # None /\ s # g
    IN IF refused THEN f ELSE [kb |-> IF kbd THEN s ELSE f.kb, fs |-> s]

\* What a pointer pass or a refocus of the input manager may do while the
\* session is not locked: any ordinary surface, none, or no change.
AppFocus(f, g) == {f} \cup {RawSurfaceFocus(f, a, FALSE, <<>>, g) : a \in Nil(Apps)}

\* getSessionLockSurfaceForMonitor: the first entry of that output, if mapped.
FirstOn(list, sf, m) ==
    LET on_m == {i \in DOMAIN list : sf[list[i]].mon = m}
    IN IF on_m = {} THEN None
       ELSE LET s == list[CHOOSE i \in on_m : \A j \in on_m : i <= j]
            IN IF sf[s].mapped THEN s ELSE None

\* The lock branch of mouseMoveUnified: a lock surface of the cursor's output
\* takes the focus, a missing one clears nothing.
LockPointerFocus(f, lk, list, sf, g) ==
    {f} \cup {RawSurfaceFocus(f, s, lk, list, g) :
                s \in {FirstOn(list, sf, m) : m \in connected} \cap {x \in Surfaces : sf[x].wl}}

PointerPass(f, lk, list, sf, g) ==
    IF lk THEN LockPointerFocus(f, lk, list, sf, g) ELSE AppFocus(f, g)

\* pickFocusCandidate: prefer the focused output, else creation order.
Candidates(list, sf) == {i \in DOMAIN list : sf[list[i]].mapped /\ sf[list[i]].wl}

PickFocusCandidate(list, sf, pm) ==
    LET preferred == {i \in Candidates(list, sf) : sf[list[i]].mon = pm}
        pool      == IF preferred # {} THEN preferred ELSE Candidates(list, sf)
    IN list[CHOOSE i \in pool : \A j \in pool : i <= j]

\* Mutation: any surface the focus state names counts as a live holder.
HeldByLock_AnySurface(f, list, sf) == f.fs # None

\* refocusKeyboard asks the list, not the focus state, who holds the focus.
HeldByLock(f, list, sf) == f.fs \in {s \in Listed(list) : sf[s].wl}

\* CSessionLockManager::refocusKeyboard, for a focused output pm.
RefocusKeyboard(f, lk, list, sf, g, pm) ==
    IF \/ ~lk \/ cur = None
       \/ HeldByLock(f, list, sf)
       \/ Candidates(list, sf) = {}
    THEN f
    ELSE RawSurfaceFocus(f, PickFocusCandidate(list, sf, pm), lk, list, g)

Refocused(f, lk, list, sf, g) ==
    {RefocusKeyboard(f, lk, list, sf, g, pm) : pm \in Nil(connected)}

-----------------------------------------------------------------------------
(* Lock objects *)

\* CSessionLock::sendLocked; told saturates at 2.
SendLocked(lk, l) == [lk EXCEPT ![l].told = IF @ = 2 THEN 2 ELSE @ + 1]

SendDenied(lk, l) == [lk EXCEPT ![l].inert = TRUE]

Created(l) == [lock EXCEPT ![l].st = "live"]

Unused(l) == lock[l].st = "unused"
Live(l)   == lock[l].st = "live"

\* Mutation: unlocks are not reported.
EmitUnlock_Silent ==
    /\ startLocked' = FALSE
    /\ UNCHANGED <<wdLine, startCmd>>

\* The lock listener of the compositor: m_startLocked can only still be set
\* after the forceLock of start-up, so lock_count >= 1 whenever it matters.
EmitLock ==
    /\ wdLine' = "lock"
    /\ startLocked' = FALSE
    /\ startCmd' = (startCmd /\ ~startLocked)

EmitUnlock ==
    /\ wdLine' = "unlock"
    /\ startLocked' = FALSE
    /\ UNCHANGED startCmd

\* m_sessionLock.reset(): its timer and its list go with it.
DropSessionLock ==
    /\ cur' = None /\ sent' = FALSE /\ lockedMons' = {} /\ timer' = FALSE /\ sls' = <<>>

MayRelock == ~locked \/ AllowRelock \/ startCmd
Limbo     == cur # None /\ ~sent

\* onLock while the session is locked and no relock is allowed: "finished".
LockDenied(l) ==
    /\ Unused(l)
    /\ ~MayRelock
    /\ lock' = SendDenied(Created(l), l)
    /\ locked' = TRUE
    /\ UNCHANGED <<notified, surf>>
    /\ UNCHANGED <<mgrVars, focusVars, monVars, compVars, split>>

\* onLock while the adopted lock has not been told anything yet: the manager
\* ignores the request, the protocol still sets m_locked.
LockIgnored(l) ==
    /\ Unused(l)
    /\ MayRelock
    /\ Limbo
    /\ lock' = Created(l)
    /\ locked' = TRUE
    /\ UNCHANGED <<notified, surf>>
    /\ UNCHANGED <<mgrVars, focusVars, monVars, compVars, split>>

\* onLock adopted by onNewSessionLock.  The focus is cleared and the grab ended
\* before m_locked is set.
LockAdopted(l) ==
    /\ Unused(l)
    /\ MayRelock
    /\ ~Limbo
    /\ EmitLock
    /\ LET cleared == RawSurfaceFocus(focus, None, locked, <<>>, grab)
       IN focus' \in IF grab = None THEN {cleared}
                     ELSE PointerPass(cleared, locked, <<>>, surf, None)
    /\ grab' = None
    /\ cur' = l /\ lockedMons' = {} /\ sls' = <<>>
    /\ sent' = (on = {})
    /\ timer' = (on # {})
    /\ lock' = IF on = {} THEN SendLocked(Created(l), l) ELSE Created(l)
    /\ notified' = (notified \/ on = {})
    /\ locked' = TRUE
    /\ UNCHANGED <<surf, kbd, monVars, split>>

\* unlock_and_destroy on a lock that was not denied.
UnlockAndDestroy(l) ==
    /\ Live(l) /\ ~lock[l].inert
    /\ lock' = [lock EXCEPT ![l].st = "gone"]
    /\ locked' = FALSE
    /\ notified' = FALSE
    /\ IF l = cur
       THEN /\ EmitUnlock
            /\ DropSessionLock
            /\ focus' \in AppFocus(focus, grab)
            /\ UNCHANGED split
       ELSE /\ split' = TRUE
            /\ UNCHANGED <<mgrVars, compVars, focus>>
    /\ UNCHANGED <<surf, kbd, grab, monVars>>

\* The lock object goes away without unlocking: destroy, unlock_and_destroy on
\* an inert lock, or the end of its client.
DestroyLock(l) ==
    /\ Live(l)
    /\ lock' = [lock EXCEPT ![l].st = "gone"]
    /\ IF l = cur
       THEN /\ DropSessionLock
            /\ focus' = RawSurfaceFocus(focus, None, locked, <<>>, grab)
       ELSE UNCHANGED <<mgrVars, focus>>
    /\ UNCHANGED <<locked, notified, surf, kbd, grab, monVars, compVars, split>>

\* hl.clear_crashed_lockscreen: forceUnlock unless the client was told "locked".
ClearCrashedLockscreen ==
    /\ locked
    /\ ~sent
    /\ locked' = FALSE
    /\ lock' = [l \in Locks |-> IF Live(l) THEN SendDenied(lock, l)[l] ELSE lock[l]]
    /\ notified' = FALSE
    /\ EmitUnlock
    /\ DropSessionLock
    /\ focus' \in AppFocus(RawSurfaceFocus(focus, None, FALSE, <<>>, grab), grab)
    /\ UNCHANGED <<surf, kbd, grab, monVars, split>>

\* Mutation: the timeout only helps a client that drew some frame.
SendLockedTimeout_NeedsFrame ==
    /\ timer
    /\ timer' = FALSE
    /\ IF sent \/ lockedMons = {} THEN UNCHANGED <<lock, sent, notified>>
       ELSE lock' = SendLocked(lock, cur) /\ sent' = TRUE /\ notified' = TRUE
    /\ UNCHANGED <<locked, cur, lockedMons, sls, surf, focusVars, monVars, compVars, split>>

\* The 5 s timer of the adopted lock.
SendLockedTimeout ==
    /\ timer
    /\ timer' = FALSE
    /\ IF sent THEN UNCHANGED <<lock, sent, notified>>
       ELSE /\ lock' = SendLocked(lock, cur)
            /\ sent' = TRUE
            /\ notified' = TRUE
    /\ UNCHANGED <<locked, cur, lockedMons, sls, surf, focusVars, monVars, compVars, split>>

-----------------------------------------------------------------------------
(* Lock surfaces *)

\* get_lock_surface on the adopted lock.  Surfaces of any other lock are never
\* listed and nothing modelled here reads them.
GetLockSurface(s, m) ==
    /\ cur # None /\ ~lock[cur].inert
    /\ surf[s].role = "unused"
    /\ m \in connected
    /\ surf' = [surf EXCEPT ![s] = [role |-> "live", wl |-> TRUE, mon |-> m, mapped |-> FALSE]]
    /\ sls' = Append(sls, s)
    /\ UNCHANGED <<lockVars, cur, sent, lockedMons, timer, focusVars, monVars, compVars, split>>

\* A commit with a buffer: the first one maps, later ones place the focus only
\* when nothing has it.
CommitLockSurface(s) ==
    /\ s \in Listed(sls) /\ surf[s].wl
    /\ \/ ~surf[s].mapped
       \/ focus.fs = None
    /\ surf' = [surf EXCEPT ![s].mapped = TRUE]
    /\ \E f \in PointerPass(focus, locked, sls, surf', grab) :
         focus' \in Refocused(f, locked, sls, surf', grab)
    /\ UNCHANGED <<lockVars, mgrVars, kbd, grab, monVars, compVars, split>>

\* std::erase_if; a surface is listed at most once.
Erase(list, s) ==
    LET i == CHOOSE k \in DOMAIN list : list[k] = s
    IN [j \in 1..(Len(list) - 1) |-> IF j < i THEN list[j] ELSE list[j + 1]]

\* The role object is destroyed: dropped from the list first, then the focus.
DestroyLockSurface(s) ==
    /\ surf[s].role = "live"
    /\ surf' = [surf EXCEPT ![s].role = "gone", ![s].mapped = FALSE]
    /\ IF s \in Listed(sls)
       THEN /\ sls' = Erase(sls, s)
            /\ focus' \in Refocused(focus, locked, sls', surf', grab)
       ELSE UNCHANGED <<sls, focus>>
    /\ UNCHANGED <<lockVars, cur, sent, lockedMons, timer, kbd, grab, monVars, compVars, split>>

\* The wl_surface is destroyed.  If its role object is alive and it held the
\* focus, the lock hands the focus on; the seat's own destroy listener then
\* clears what still points at it.
DestroyWlSurface(s) ==
    /\ surf[s].wl
    /\ surf' = [surf EXCEPT ![s].wl = FALSE]
    /\ LET handed == IF surf[s].role = "live" /\ focus.fs = s
                     THEN Refocused(focus, locked, sls, surf', grab)
                     ELSE {focus}
           Expire(x) == IF x = s THEN None ELSE x
       IN \E f \in handed : focus' = [kb |-> Expire(f.kb), fs |-> Expire(f.fs)]
    /\ UNCHANGED <<lockVars, mgrVars, kbd, grab, monVars, compVars, split>>

\* Mutation: hasSentLocked is not looked at.
FramesAwaited_Always == TRUE

\* onLockscreenRenderedOnMonitor only counts frames until "locked" was sent.
FramesAwaited == ~sent

\* renderLockscreen drew the mapped lock surface of output m.
RenderLockFrame(m) ==
    /\ m \in on
    /\ locked
    /\ FirstOn(sls, surf, m) # None
    /\ surf[FirstOn(sls, surf, m)].wl
    /\ IF ~FramesAwaited THEN UNCHANGED <<lockedMons, timer, lock, notified, sent>>
       ELSE /\ lockedMons' = lockedMons \cup {m}
            /\ IF on \subseteq lockedMons'
               THEN /\ timer' = FALSE
                    /\ lock' = SendLocked(lock, cur)
                    /\ notified' = TRUE
                    /\ sent' = TRUE
               ELSE UNCHANGED <<timer, lock, notified, sent>>
    /\ UNCHANGED <<locked, cur, sls, surf, focusVars, monVars, compVars, split>>

-----------------------------------------------------------------------------
(* Input and outputs *)

\* Pointer motion, or any refocus of the input manager.
PointerMotion ==
    /\ focus' \in PointerPass(focus, locked, sls, surf, grab)
    /\ UNCHANGED <<lockVars, mgrVars, surf, kbd, grab, monVars, compVars, split>>

\* newKeyboard: a focus that was set without a keyboard reaches the seat now.
PlugKeyboard ==
    /\ ~kbd
    /\ kbd' = TRUE
    /\ focus' = IF focus.fs # None THEN [focus EXCEPT !.kb = focus.fs] ELSE focus
    /\ UNCHANGED <<lockVars, mgrVars, surf, grab, monVars, compVars, split>>

UnplugKeyboard ==
    /\ KeyboardUnplugs
    /\ kbd
    /\ kbd' = FALSE
    /\ UNCHANGED <<lockVars, mgrVars, surf, focus, grab, monVars, compVars, split>>

\* A popup or focus grab of an ordinary client, started while not locked.
StartGrab(a) ==
    /\ ~locked /\ grab = None
    /\ grab' = a
    /\ focus' = IF kbd THEN [focus EXCEPT !.kb = a] ELSE focus
    /\ UNCHANGED <<lockVars, mgrVars, surf, kbd, monVars, compVars, split>>

EndGrab ==
    /\ grab # None
    /\ grab' = None
    /\ focus' \in PointerPass(focus, locked, sls, surf, None)
    /\ UNCHANGED <<lockVars, mgrVars, surf, kbd, monVars, compVars, split>>

\* An ordinary surface asks for the keyboard (a layer surface maps, a window is
\* activated): a grab that does not accept it ends first.
LayerTakesFocus(a) ==
    LET ends == grab \notin {None, a}
    IN /\ grab' = IF ends THEN None ELSE grab
       /\ \E f \in IF ends THEN PointerPass(focus, locked, sls, surf, None) ELSE {focus} :
            focus' = RawSurfaceFocus(f, a, locked, sls, grab')
       /\ UNCHANGED <<lockVars, mgrVars, surf, kbd, monVars, compVars, split>>

\* The client of an ordinary surface destroys it; its grab ended before.
AppSurfaceGone(a) ==
    /\ a \in {focus.kb, focus.fs} /\ a # grab
    /\ LET Expire(x) == IF x = a THEN None ELSE x
       IN focus' \in PointerPass([kb |-> Expire(focus.kb), fs |-> Expire(focus.fs)],
                                 locked, sls, surf, grab)
    /\ UNCHANGED <<lockVars, mgrVars, surf, kbd, grab, monVars, compVars, split>>

\* An output comes back under the id it had (getNextAvailableMonitorID); adding
\* it may warp the cursor and refocus.
Connect(m) ==
    /\ m \notin connected
    /\ connected' = connected \cup {m}
    /\ on' = on \cup {m}
    /\ focus' \in PointerPass(focus, locked, sls, surf, grab)
    /\ UNCHANGED <<lockVars, mgrVars, surf, kbd, grab, compVars, split>>

\* Mutation: the output is removed from the list but still counts as active.
Disconnect_KeepsOn(m) ==
    /\ m \in connected
    /\ connected' = connected \ {m}
    /\ UNCHANGED <<lockVars, mgrVars, surf, focusVars, on, compVars, split>>

Disconnect(m) ==
    /\ m \in connected
    /\ connected' = connected \ {m}
    /\ on' = on \ {m}
    /\ UNCHANGED <<lockVars, mgrVars, surf, focusVars, compVars, split>>

Dpms(m) ==
    /\ m \in connected
    /\ on' = IF m \in on THEN on \ {m} ELSE on \cup {m}
    /\ UNCHANGED <<lockVars, mgrVars, surf, focusVars, connected, compVars, split>>

-----------------------------------------------------------------------------

ClientStep ==
    \/ \E l \in Locks : \/ LockDenied(l) \/ LockIgnored(l) \/ LockAdopted(l)
                        \/ UnlockAndDestroy(l) \/ DestroyLock(l)
    \/ \E s \in Surfaces : \/ \E m \in Monitors : GetLockSurface(s, m)
                           \/ CommitLockSurface(s) \/ DestroyLockSurface(s)
                           \/ DestroyWlSurface(s)

InputStep ==
    \/ PointerMotion \/ PlugKeyboard \/ UnplugKeyboard \/ EndGrab
    \/ \E a \in Apps : StartGrab(a) \/ LayerTakesFocus(a) \/ AppSurfaceGone(a)

MonitorStep ==
    \E m \in Monitors : \/ RenderLockFrame(m) \/ Connect(m)
                        \/ Disconnect(m) \/ Dpms(m)

Next == ClientStep \/ InputStep \/ MonitorStep \/ ClearCrashedLockscreen \/ SendLockedTimeout

Spec == Init /\ [][Next]_vars

\* The event loop serves an armed timer eventually; clients and outputs owe
\* nothing.
FairSpec == Spec /\ WF_vars(SendLockedTimeout)

-----------------------------------------------------------------------------
(* Properties *)

\* Those outside know of the lock.  A locked session has "lock" as its last line
\* to the watchdog, so that a compositor that crashes now is restarted locked; as
\* long as only adopted locks unlock, it is the last line of no other session.
\* Once the client was told "locked", so are the lock notification clients.
LockIsAnnounced ==
    /\ locked => wdLine = "lock"
    /\ ~split /\ wdLine = "lock" => locked
    /\ locked /\ sent => notified

\* The lock never eats the keyboard: when some lock surface could take the
\* focus, a live lock surface has it (SessionLockManager.cpp refocusKeyboard).
KeyboardReachesLock ==
    locked /\ ~split /\ kbd /\ grab = None /\ Candidates(sls, surf) # {}
        => focus.kb \in {s \in Listed(sls) : surf[s].wl}

\* While the session stays locked, the keyboard never moves to an ordinary
\* surface that the focus state did not already name when it was locked.
NoAppGainsFocus ==
    [][locked /\ locked' /\ focus'.kb \in Apps => focus'.kb \in {focus.kb, focus.fs}]_vars

\* The inductive strengthening of the three invariants above and of ToldOnce:
\* what the adopted lock, the protocol flag, the notification and the watchdog
\* line know of each other.
LockInv ==
    /\ locked => wdLine = "lock"
    /\ ~split /\ wdLine = "lock" => locked
    /\ sent => cur # None
    /\ locked /\ sent => notified
    /\ timer => cur # None
    /\ sls # <<>> => cur # None
    /\ \A l \in Locks : lock[l].st = "unused" => lock[l].told = 0 /\ ~lock[l].inert
    /\ cur # None => /\ wdLine = "lock"
                     /\ lock[cur].st = "live"
                     /\ ~lock[cur].inert
                     /\ ~sent => lock[cur].told = 0

\* "locked" is sent at most once per lock object and never after "finished".
ToldOnce ==
    [][\A l \in Locks : lock'[l].told # lock[l].told
          => lock[l].told = 0 /\ ~lock[l].inert]_vars

\* The adopted lock is told "locked", by its frames or by the timer, unless it
\* goes away first.
PendingIsAnswered ==
    \A l \in Locks : (cur = l /\ ~sent) ~> (lock[l].told > 0 \/ cur # l)

=============================================================================
