--------------------------- MODULE StartWatchdog ---------------------------
(***************************************************************************)
(* start-hyprland: the process that runs the compositor, reads the lines   *)
(* it writes ("vax" when it is ready, "lock", "unlock", "end"), notices    *)
(* its exit through a second pipe that a waiting thread writes, and starts *)
(* it again after a crash, locked if it was locked.                        *)
(*                                                                         *)
(* Three actors interleave: the compositor process, the thread in waitpid  *)
(* and the poll loop.  The compositor is reduced to the steps that write   *)
(* to the watchdog; module SessionLock is the detail of them, and its      *)
(* LockIsAnnounced is what this module relies on.  A read takes the    *)
(* whole pipe: fewer than 4096 bytes, some 580 lines, are ever waiting.    *)
(***************************************************************************)
EXTENDS Naturals, Sequences

CONSTANT MaxLines   \* bound: lines waiting in the event pipe

ASSUME MaxLinesAssumption == MaxLines \in Nat

VARIABLES
    launcher,  \* the launcher: spawn, poll, handle, join; quit after a signal; over
    opts,      \* main's locals: safeMode, lockedCrash
    inst,      \* CHyprlandInstance: m_hyprlandInitialized, m_hyprlandExiting, m_hyprlandLocked
    revents,   \* what the last poll() returned
    waiter,    \* the thread in waitpid: idle, waiting or done
    wake,      \* the wakeup pipe has bytes
    pipe,      \* lines in the event pipe
    child,     \* the compositor: boot, up, locking, unlocking, ending, dead
    locked,    \* its m_locked
    ready,     \* history: it wrote "vax"
    ended,     \* history: it wrote "end"
    died       \* history: its phase and m_locked when it died

launcherVars == <<launcher, opts, inst, revents>>
childVars    == <<child, locked, ready, ended, died>>
vars == <<launcher, opts, inst, revents, waiter, wake, pipe,
          child, locked, ready, ended, died>>

Lines  == {"vax", "end", "lock", "unlock"}
Phases == {"boot", "up", "locking", "unlocking", "ending", "dead"}

\* The types of the variables.
TypeOK ==
    /\ launcher \in {"spawn", "poll", "handle", "join", "quit", "over"}
    /\ opts \in [safeMode: BOOLEAN, lockedCrash: BOOLEAN]
    /\ inst \in [initialized: BOOLEAN, exiting: BOOLEAN, locked: BOOLEAN]
    /\ revents \in [event: BOOLEAN, wake: BOOLEAN]
    /\ waiter \in {"idle", "waiting", "done"}
    /\ wake \in BOOLEAN
    /\ pipe \in Seq(Lines)
    /\ child \in Phases
    /\ locked \in BOOLEAN
    /\ ready \in BOOLEAN
    /\ ended \in BOOLEAN
    /\ died \in [phase: Phases, locked: BOOLEAN]

NotDead == [phase |-> "dead", locked |-> FALSE]

Init ==
    /\ launcher = "spawn"
    /\ opts = [safeMode |-> FALSE, lockedCrash |-> FALSE]
    /\ inst = [initialized |-> FALSE, exiting |-> FALSE, locked |-> FALSE]
    /\ revents = [event |-> FALSE, wake |-> FALSE]
    /\ waiter = "idle" /\ wake = FALSE /\ pipe = <<>>
    /\ child = "dead" /\ locked = FALSE
    /\ ready = FALSE /\ ended = FALSE /\ died = NotDead

-----------------------------------------------------------------------------
(* The launcher *)

FreshInstance == [initialized |-> FALSE, exiting |-> FALSE, locked |-> opts.lockedCrash]

\* run(): fresh pipes and flags, fork.  A fork or exec that fails leaves no
\* compositor, and the waiter finds out.
Spawn ==
    /\ launcher = "spawn"
    /\ launcher' = "poll"
    /\ inst' = FreshInstance
    /\ waiter' = "waiting" /\ wake' = FALSE /\ pipe' = <<>>
    /\ child' \in {"boot", "dead"}
    /\ locked' = FALSE /\ ready' = FALSE /\ ended' = FALSE /\ died' = NotDead
    /\ UNCHANGED <<opts, revents>>

Poll ==
    /\ launcher = "poll"
    /\ pipe # <<>> \/ wake
    /\ revents' = [event |-> pipe # <<>>, wake |-> wake]
    /\ launcher' = "handle"
    /\ UNCHANGED <<opts, inst, waiter, wake, pipe, childVars>>

\* Mutation: the first lock line decides, as if later ones were not looked at.
FinalLock_First(p, b) ==
    \/ \E i \in DOMAIN p : p[i] = "lock" /\ \A j \in DOMAIN p : j < i => p[j] # "unlock"
    \/ b /\ \A i \in DOMAIN p : p[i] # "unlock"

\* m_hyprlandLocked after the lines p: the last of "lock" and "unlock" decides.
FinalLock(p, b) ==
    \/ \E i \in DOMAIN p : p[i] = "lock" /\ \A j \in DOMAIN p : j > i => p[j] # "unlock"
    \/ b /\ \A i \in DOMAIN p : p[i] # "unlock"

Wrote(p, line) == \E i \in DOMAIN p : p[i] = line

\* The event fd is served before the wakeup fd, so that nothing the compositor
\* wrote before it died is lost.
EventsFirst == revents.event

DispatchHyprlandEvent ==
    /\ launcher = "handle"
    /\ EventsFirst
    /\ inst' = [initialized |-> inst.initialized \/ Wrote(pipe, "vax"),
                exiting     |-> inst.exiting \/ Wrote(pipe, "end"),
                locked      |-> FinalLock(pipe, inst.locked)]
    /\ pipe' = <<>>
    /\ launcher' = "poll"
    /\ UNCHANGED <<opts, revents, waiter, wake, childVars>>

HandleWakeup ==
    /\ launcher = "handle"
    /\ ~EventsFirst
    /\ wake' = FALSE
    /\ launcher' = "join"
    /\ UNCHANGED <<opts, inst, revents, waiter, pipe, childVars>>

CleanStop == ~inst.initialized \/ inst.exiting

\* Mutation: main forgets what the instance knew of the lock.
Join_ForgetsLock ==
    /\ launcher = "join"
    /\ waiter = "done"
    /\ waiter' = "idle"
    /\ launcher' = IF CleanStop THEN "over" ELSE "spawn"
    /\ opts' = [opts EXCEPT !.safeMode = @ \/ ~CleanStop]
    /\ UNCHANGED <<inst, revents, wake, pipe, childVars>>

\* m_hlThread.join(), the return value of run() and the loop in main.
Join ==
    /\ launcher = "join"
    /\ waiter = "done"
    /\ waiter' = "idle"
    /\ launcher' = IF CleanStop THEN "over" ELSE "spawn"
    /\ opts' = [safeMode |-> opts.safeMode \/ ~CleanStop, lockedCrash |-> inst.locked]
    /\ UNCHANGED <<inst, revents, wake, pipe, childVars>>

\* SIGTERM or SIGINT while run() polls: forceQuit stops the compositor and waits
\* for the thread, then exit(0) from within the handler.
ForceQuit ==
    /\ launcher \in {"poll", "handle"}
    /\ launcher' = "quit"
    /\ inst' = [inst EXCEPT !.exiting = TRUE]
    /\ UNCHANGED <<opts, revents, waiter, wake, pipe, childVars>>

QuitJoined ==
    /\ launcher = "quit"
    /\ waiter = "done"
    /\ launcher' = "over"
    /\ waiter' = "idle"
    /\ UNCHANGED <<opts, inst, revents, wake, pipe, childVars>>

\* Mutation: a compositor killed by a signal is not an exit.
WaiterSeesExit_ExitsOnly ==
    /\ waiter = "waiting"
    /\ child = "dead" /\ died.phase = "ending"
    /\ waiter' = "done"
    /\ wake' = TRUE
    /\ UNCHANGED <<launcherVars, pipe, childVars>>

\* waitpid returned: the thread writes the wakeup pipe and ends.
WaiterSeesExit ==
    /\ waiter = "waiting"
    /\ child = "dead"
    /\ waiter' = "done"
    /\ wake' = TRUE
    /\ UNCHANGED <<launcherVars, pipe, childVars>>

-----------------------------------------------------------------------------
(* The compositor process *)

Write(line) == Len(pipe) < MaxLines /\ pipe' = Append(pipe, line)

\* Mutation: the line of the forced lock is one the launcher does not know.
ForceLock_OtherLine ==
    /\ child = "boot" /\ opts.lockedCrash /\ ~locked
    /\ locked' = TRUE
    /\ Write("locked")
    /\ UNCHANGED <<launcherVars, waiter, wake, child, ready, ended, died>>

\* forceLock() during start-up, when started with --locked.
ForceLock ==
    /\ child = "boot" /\ opts.lockedCrash /\ ~locked
    /\ locked' = TRUE
    /\ Write("lock")
    /\ UNCHANGED <<launcherVars, waiter, wake, child, ready, ended, died>>

\* startCompositor() is about to enter the event loop.
Ready ==
    /\ child = "boot"
    /\ opts.lockedCrash => locked
    /\ child' = "up"
    /\ ready' = TRUE
    /\ Write("vax")
    /\ UNCHANGED <<launcherVars, waiter, wake, locked, ended, died>>

\* A lock is adopted: the line is written by onNewSessionLock, m_locked is set
\* when it returns.
LockWrite ==
    /\ child = "up"
    /\ child' = "locking"
    /\ Write("lock")
    /\ UNCHANGED <<launcherVars, waiter, wake, locked, ready, ended, died>>

LockSet ==
    /\ child = "locking"
    /\ child' = "up"
    /\ locked' = TRUE
    /\ UNCHANGED <<launcherVars, waiter, wake, pipe, ready, ended, died>>

\* unlock_and_destroy and forceUnlock clear m_locked first.
UnlockClear ==
    /\ child = "up" /\ locked
    /\ child' = "unlocking"
    /\ locked' = FALSE
    /\ UNCHANGED <<launcherVars, waiter, wake, pipe, ready, ended, died>>

UnlockWrite ==
    /\ child = "unlocking"
    /\ child' = "up"
    /\ Write("unlock")
    /\ UNCHANGED <<launcherVars, waiter, wake, locked, ready, ended, died>>

\* The event loop was left and cleanup() runs.
Cleanup ==
    /\ child = "up"
    /\ child' = "ending"
    /\ ended' = TRUE
    /\ Write("end")
    /\ UNCHANGED <<launcherVars, waiter, wake, locked, ready, died>>

\* A crash anywhere, or the end of cleanup().
Die ==
    /\ child # "dead"
    /\ child' = "dead"
    /\ died' = [phase |-> child, locked |-> locked]
    /\ UNCHANGED <<launcherVars, waiter, wake, pipe, locked, ready, ended>>

-----------------------------------------------------------------------------

LauncherStep == \/ Spawn \/ Poll \/ DispatchHyprlandEvent \/ HandleWakeup
                \/ Join \/ QuitJoined
ChildStep == \/ ForceLock \/ Ready \/ LockWrite \/ LockSet
             \/ UnlockClear \/ UnlockWrite \/ Cleanup \/ Die

Next == LauncherStep \/ WaiterSeesExit \/ ChildStep \/ ForceQuit

Spec == Init /\ [][Next]_vars

\* The launcher and its thread run; the compositor and signals owe nothing.
FairSpec == Spec /\ WF_vars(LauncherStep) /\ WF_vars(WaiterSeesExit)

-----------------------------------------------------------------------------
(* Properties *)

\* A crash interrupted a lock or an unlock between its flag and its line.
DiedMidChange == died.phase \in {"locking", "unlocking"}

\* A restart is locked exactly when the compositor died locked or in the middle
\* of a change: no line is lost, none is applied twice or to the wrong instance.
RestartedAsItDied ==
    [][launcher = "join" /\ launcher' = "spawn"
          => (opts'.lockedCrash <=> died.locked \/ DiedMidChange)]_vars

\* Every crash of a running compositor is followed by a restart, unless the
\* launcher itself was told to stop.
CrashIsRestarted ==
    (child = "dead" /\ ready /\ ~ended /\ launcher \notin {"quit", "over"})
        ~> launcher \in {"spawn", "quit"}

\* When the poll loop acts on an exit, every line of that compositor was read.
DrainedBeforeJoin == launcher = "join" => pipe = <<>>

\* What the session looks like from outside.
Life == IF launcher = "over" THEN "over"
        ELSE IF ready /\ child # "dead" THEN "up" ELSE "down"

SessionLocked == IF launcher = "spawn" \/ child = "boot" THEN opts.lockedCrash
                 ELSE IF child = "dead" THEN FinalLock(pipe, inst.locked) ELSE locked

Sess == IF launcher = "over" THEN "none"
        ELSE IF SessionLocked THEN "locked" ELSE "unlocked"

Session == INSTANCE CrashSafeSession WITH life <- Life, sess <- Sess

\* The launcher and the compositor together keep the promise of CrashSafeSession.
SurvivesCrashes == Session!Spec

=============================================================================
