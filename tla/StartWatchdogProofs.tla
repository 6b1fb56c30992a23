------------------------ MODULE StartWatchdogProofs ------------------------
(***************************************************************************)
(* The launcher keeps the promise of CrashSafeSession, however many lines  *)
(* wait in the pipe.  The inductive invariant relates what the launcher    *)
(* will know once it has read the pipe (FinalLock of the waiting lines) to *)
(* the phase and the lock flag of the compositor.                          *)
(***************************************************************************)
EXTENDS StartWatchdog, SequenceTheorems, TLAPS

\* What m_hyprlandLocked will be once every waiting line is read.
WillKnow == FinalLock(pipe, inst.locked)

\* The inductive invariant: an exit is acted on only when the pipe is empty, and
\* the launcher will know of the lock what the phase of the compositor allows.
WatchInv ==
    /\ TypeOK
    /\ launcher = "spawn" => child = "dead"
    /\ launcher \in {"join", "over"} => child = "dead"
    /\ launcher = "join" => pipe = <<>>
    /\ waiter = "done" \/ wake => child = "dead"
    /\ launcher = "handle" /\ ~revents.event => pipe = <<>> /\ child = "dead"
    /\ child \in {"up", "locking", "unlocking", "ending"} => ready
    /\ child = "boot" => /\ ~ready
                         /\ WillKnow <=> opts.lockedCrash
                         /\ locked => opts.lockedCrash
    /\ child \in {"up", "ending"} => (WillKnow <=> locked)
    /\ child = "locking" => WillKnow
    /\ child = "unlocking" => WillKnow /\ ~locked

-----------------------------------------------------------------------------
(* What a reader of the lines concludes. *)

LEMMA FinalLockEmpty ==
    ASSUME NEW b \in BOOLEAN
    PROVE  FinalLock(<<>>, b) <=> b
  BY DEF FinalLock

\* Only the last line matters, when it is about the lock.
LEMMA FinalLockAppend ==
    ASSUME NEW p \in Seq(Lines), NEW b \in BOOLEAN, NEW line \in Lines
    PROVE  FinalLock(Append(p, line), b) <=>
             \/ line = "lock"
             \/ line # "unlock" /\ FinalLock(p, b)
  <1>. DEFINE q == Append(p, line)
  <1>1. /\ Len(p) \in Nat /\ DOMAIN p = 1..Len(p)
        /\ DOMAIN q = 1..(Len(p) + 1)
        /\ \A i \in 1..Len(p) : q[i] = p[i]
        /\ q[Len(p) + 1] = line
    BY AppendProperties, LenProperties
  <1>. HIDE DEF q
  <1>2. CASE line = "lock"
    <2>1. Len(p) + 1 \in DOMAIN q /\ q[Len(p) + 1] = "lock"
      BY <1>1, <1>2
    <2>2. \A j \in DOMAIN q : ~ (j > Len(p) + 1)
      BY <1>1
    <2>. QED BY <1>2, <2>1, <2>2 DEF FinalLock, q
  <1>3. CASE line = "unlock"
    <2>1. Len(p) + 1 \in DOMAIN q /\ q[Len(p) + 1] = "unlock"
      BY <1>1, <1>3
    <2>2. \A i \in DOMAIN q : q[i] = "lock" => Len(p) + 1 > i
      BY <1>1, <1>3
    <2>. QED BY <1>3, <2>1, <2>2 DEF FinalLock, q
  <1>4. CASE line \notin {"lock", "unlock"}
    <2>1. \A i \in DOMAIN q : q[i] = "lock" <=> i \in DOMAIN p /\ p[i] = "lock"
      BY <1>1, <1>4
    <2>2. \A i \in DOMAIN q : q[i] = "unlock" <=> i \in DOMAIN p /\ p[i] = "unlock"
      BY <1>1, <1>4
    <2>3. DOMAIN p \subseteq DOMAIN q
      BY <1>1
    <2>. QED BY <1>4, <2>1, <2>2, <2>3 DEF FinalLock, q
  <1>. QED BY <1>2, <1>3, <1>4

-----------------------------------------------------------------------------
(* The invariant. *)

LEMMA InitWatch == Init => WatchInv
  <1>. SUFFICES ASSUME Init PROVE WatchInv
    OBVIOUS
  <1>1. pipe \in Seq(Lines)
    BY EmptySeq DEF Init
  <1>. QED BY <1>1 DEF Init, WatchInv, TypeOK, Phases, NotDead

LEMMA StepWatch == WatchInv /\ [Next]_vars => WatchInv'
  <1>. SUFFICES ASSUME WatchInv, [Next]_vars PROVE WatchInv'
    OBVIOUS
  <1>. USE DEF WatchInv, TypeOK, launcherVars, childVars, Phases
  <1>a. ASSUME NEW line \in Lines, Write(line)
        PROVE  /\ pipe' \in Seq(Lines)
               /\ FinalLock(pipe', inst.locked) <=>
                    \/ line = "lock"
                    \/ line # "unlock" /\ FinalLock(pipe, inst.locked)
    BY <1>a, FinalLockAppend, AppendProperties DEF Write
  <1>w. WillKnow \in BOOLEAN /\ WillKnow' \in BOOLEAN
    BY DEF WillKnow, FinalLock
  <1>l. "lock" \in Lines /\ "unlock" \in Lines /\ "vax" \in Lines /\ "end" \in Lines
    BY DEF Lines
  <1>1. CASE Spawn
    <2>1. pipe' = <<>> /\ inst'.locked = opts.lockedCrash
      BY <1>1 DEF Spawn, FreshInstance
    <2>2. WillKnow' <=> opts.lockedCrash
      BY <2>1, FinalLockEmpty DEF WillKnow
    <2>3. pipe' \in Seq(Lines)
      BY <2>1, EmptySeq
    <2>. QED BY <1>1, <2>2, <2>3 DEF Spawn, FreshInstance, NotDead
  <1>2. CASE Poll
    <2>1. revents' \in [event: BOOLEAN, wake: BOOLEAN] /\ revents'.wake = wake
             /\ revents'.event <=> pipe # <<>>
      BY <1>2 DEF Poll
    <2>2. WillKnow' <=> WillKnow
      BY <1>2 DEF Poll, WillKnow
    <2>3. pipe # <<>> \/ child = "dead"
      BY <1>2 DEF Poll
    <2>4. TypeOK'
      BY <1>2, <2>1 DEF Poll
    <2>. QED BY <1>2, <1>w, <2>1, <2>2, <2>3, <2>4 DEF Poll
  <1>3. CASE DispatchHyprlandEvent
    <2>1. FinalLock(pipe, inst.locked) \in BOOLEAN
      BY DEF FinalLock
    <2>2. pipe' = <<>> /\ inst'.locked = FinalLock(pipe, inst.locked)
      BY <1>3 DEF DispatchHyprlandEvent
    <2>3. WillKnow' <=> WillKnow
      BY <2>1, <2>2, FinalLockEmpty DEF WillKnow
    <2>4. inst' \in [initialized: BOOLEAN, exiting: BOOLEAN, locked: BOOLEAN]
      BY <1>3, <2>1 DEF DispatchHyprlandEvent, Wrote
    <2>5. pipe' \in Seq(Lines)
      BY <2>2, EmptySeq
    <2>. QED BY <1>3, <2>3, <2>4, <2>5 DEF DispatchHyprlandEvent
  <1>4. CASE HandleWakeup
    <2>1. WillKnow' <=> WillKnow
      BY <1>4 DEF HandleWakeup, WillKnow
    <2>2. pipe = <<>> /\ child = "dead"
      BY <1>4 DEF HandleWakeup, EventsFirst
    <2>3. TypeOK'
      <3>1. wake' \in BOOLEAN /\ launcher' = "join"
        BY <1>4 DEF HandleWakeup
      <3>2. UNCHANGED <<opts, inst, revents, waiter, pipe, child, locked, ready, ended, died>>
        BY <1>4 DEF HandleWakeup
      <3>. QED BY <3>1, <3>2
    <2>. QED BY <1>4, <1>w, <2>1, <2>2, <2>3 DEF HandleWakeup
  <1>5. CASE Join
    <2>1. opts' \in [safeMode: BOOLEAN, lockedCrash: BOOLEAN]
      BY <1>5 DEF Join, CleanStop
    <2>2. WillKnow' <=> WillKnow
      BY <1>5 DEF Join, WillKnow
    <2>. QED BY <1>5, <1>w, <2>1, <2>2 DEF Join
  <1>6. CASE ForceQuit
    <2>1. inst' \in [initialized: BOOLEAN, exiting: BOOLEAN, locked: BOOLEAN]
             /\ inst'.locked = inst.locked
      BY <1>6 DEF ForceQuit
    <2>2. WillKnow' <=> WillKnow
      BY <1>6, <2>1 DEF ForceQuit, WillKnow
    <2>. QED BY <1>6, <1>w, <2>1, <2>2 DEF ForceQuit
  <1>7. CASE QuitJoined
    <2>1. WillKnow' <=> WillKnow
      BY <1>7 DEF QuitJoined, WillKnow
    <2>. QED BY <1>7, <1>w, <2>1 DEF QuitJoined
  <1>8. CASE WaiterSeesExit
    <2>1. WillKnow' <=> WillKnow
      BY <1>8 DEF WaiterSeesExit, WillKnow
    <2>. QED BY <1>8, <1>w, <2>1 DEF WaiterSeesExit
  <1>9. CASE ForceLock
    BY <1>9, <1>a, <1>l DEF ForceLock, WillKnow
  <1>10. CASE Ready
    BY <1>10, <1>a, <1>l DEF Ready, WillKnow
  <1>11. CASE LockWrite
    BY <1>11, <1>a, <1>l DEF LockWrite, WillKnow
  <1>12. CASE LockSet
    <2>1. WillKnow' <=> WillKnow
      BY <1>12 DEF LockSet, WillKnow
    <2>. QED BY <1>12, <1>w, <2>1 DEF LockSet
  <1>13. CASE UnlockClear
    <2>1. WillKnow' <=> WillKnow
      BY <1>13 DEF UnlockClear, WillKnow
    <2>2. WillKnow /\ waiter # "done" /\ ~wake
      BY <1>13 DEF UnlockClear
    <2>3. TypeOK'
      <3>1. locked' \in BOOLEAN /\ child' = "unlocking"
        BY <1>13 DEF UnlockClear
      <3>2. UNCHANGED <<launcher, opts, inst, revents, waiter, wake, pipe, ready, ended, died>>
        BY <1>13 DEF UnlockClear
      <3>. QED BY <3>1, <3>2
    <2>. QED BY <1>13, <1>w, <2>1, <2>2, <2>3 DEF UnlockClear
  <1>14. CASE UnlockWrite
    BY <1>14, <1>a, <1>l DEF UnlockWrite, WillKnow
  <1>15. CASE Cleanup
    BY <1>15, <1>a, <1>l DEF Cleanup, WillKnow
  <1>16. CASE Die
    <2>1. WillKnow' <=> WillKnow
      BY <1>16 DEF Die, WillKnow
    <2>. QED BY <1>16, <1>w, <2>1 DEF Die
  <1>17. CASE UNCHANGED vars
    BY <1>17 DEF vars, WillKnow
  <1>. QED
    BY <1>1, <1>2, <1>3, <1>4, <1>5, <1>6, <1>7, <1>8, <1>9, <1>10, <1>11, <1>12,
       <1>13, <1>14, <1>15, <1>16, <1>17 DEF Next, LauncherStep, ChildStep

LEMMA WatchInvariant == Spec => []WatchInv
  BY InitWatch, StepWatch, PTL DEF Spec

\* An exit is acted on only once every line was read, for any backlog.
THEOREM AlwaysDrained == Spec => []DrainedBeforeJoin
  <1>1. WatchInv => DrainedBeforeJoin
    BY DEF WatchInv, DrainedBeforeJoin
  <1>. QED BY <1>1, WatchInvariant, PTL

-----------------------------------------------------------------------------
(* The refinement. *)

LEMMA InitSession == Init => Session!Init
  BY DEF Init, Session!Init, Life, Sess, SessionLocked

\* While the launcher and its thread work, the session looks the same from
\* outside; only the return of run() may end it.
LEMMA LauncherStutters ==
    ASSUME WatchInv, LauncherStep \/ WaiterSeesExit \/ ForceQuit
    PROVE  Session!End \/ UNCHANGED <<Life, Sess>>
  <1>. USE DEF WatchInv, TypeOK, launcherVars, childVars
  <1>w. WillKnow \in BOOLEAN
    BY DEF WillKnow, FinalLock
  <1>1. CASE Spawn
    <2>1. inst'.locked = opts.lockedCrash /\ pipe' = <<>> /\ ~ready' /\ opts' = opts
             /\ launcher = "spawn" /\ launcher' = "poll" /\ child' \in {"boot", "dead"}
      BY <1>1 DEF Spawn, FreshInstance
    <2>2. FinalLock(pipe', inst'.locked) <=> opts.lockedCrash
      BY <2>1, FinalLockEmpty
    <2>3. (SessionLocked' <=> opts.lockedCrash) /\ (SessionLocked <=> opts.lockedCrash)
      BY <2>1, <2>2 DEF SessionLocked
    <2>. QED BY <2>1, <2>3 DEF Life, Sess
  <1>2. CASE Poll
    BY <1>2 DEF Poll, Life, Sess, SessionLocked
  <1>3. CASE DispatchHyprlandEvent
    <2>1. FinalLock(pipe, inst.locked) \in BOOLEAN
      BY DEF FinalLock
    <2>2. pipe' = <<>> /\ inst'.locked = FinalLock(pipe, inst.locked)
      BY <1>3 DEF DispatchHyprlandEvent
    <2>3. FinalLock(pipe', inst'.locked) <=> FinalLock(pipe, inst.locked)
      BY <2>1, <2>2, FinalLockEmpty
    <2>. QED BY <1>3, <2>3 DEF DispatchHyprlandEvent, Life, Sess, SessionLocked
  <1>4. CASE HandleWakeup
    BY <1>4 DEF HandleWakeup, Life, Sess, SessionLocked
  <1>5. CASE Join
    <2>1. FinalLock(pipe, inst.locked) <=> inst.locked
      BY <1>5, FinalLockEmpty DEF Join
    <2>2. CASE CleanStop
      BY <1>5, <2>2 DEF Join, Session!End, Life, Sess
    <2>3. CASE ~CleanStop
      <3>1. launcher = "join" /\ launcher' = "spawn" /\ child = "dead" /\ child' = child
               /\ opts'.lockedCrash = inst.locked
        BY <1>5, <2>3 DEF Join
      <3>2. SessionLocked' <=> SessionLocked
        BY <2>1, <3>1 DEF SessionLocked
      <3>. QED BY <3>1, <3>2 DEF Life, Sess
    <2>. QED BY <2>2, <2>3
  <1>6. CASE QuitJoined
    BY <1>6 DEF QuitJoined, Session!End, Life, Sess
  <1>7. CASE WaiterSeesExit
    BY <1>7 DEF WaiterSeesExit, Life, Sess, SessionLocked
  <1>8. CASE ForceQuit
    <2>1. inst'.locked = inst.locked
      BY <1>8 DEF ForceQuit
    <2>. QED BY <1>8, <2>1 DEF ForceQuit, Life, Sess, SessionLocked
  <1>. QED BY <1>1, <1>2, <1>3, <1>4, <1>5, <1>6, <1>7, <1>8 DEF LauncherStep

\* Each step of the compositor is a step of the session or invisible.
LEMMA ChildRefines ==
    ASSUME WatchInv, ChildStep
    PROVE  \/ Session!Lock \/ Session!Unlock \/ Session!Crash \/ Session!Restart
           \/ UNCHANGED <<Life, Sess>>
  <1>. USE DEF WatchInv, TypeOK, launcherVars, childVars
  <1>1. child # "dead"
    BY DEF ChildStep, ForceLock, Ready, LockWrite, LockSet, UnlockClear, UnlockWrite,
           Cleanup, Die
  <1>2. launcher \notin {"spawn", "over"}
    BY <1>1
  <1>3. CASE ForceLock
    BY <1>2, <1>3 DEF ForceLock, Life, Sess, SessionLocked
  <1>4. CASE Ready
    <2>1. locked <=> opts.lockedCrash
      BY <1>4 DEF Ready
    <2>2. /\ launcher' = launcher /\ opts' = opts /\ locked' = locked
          /\ child = "boot" /\ child' = "up" /\ ready'
      BY <1>4 DEF Ready
    <2>3. Life = "down" /\ Life' = "up"
      BY <1>2, <2>2 DEF Life
    <2>4. Sess' = Sess
      BY <1>2, <2>1, <2>2 DEF Sess, SessionLocked
    <2>. QED BY <2>3, <2>4 DEF Session!Restart
  <1>5. CASE LockWrite
    BY <1>2, <1>5 DEF LockWrite, Life, Sess, SessionLocked
  <1>6. CASE LockSet
    BY <1>2, <1>6 DEF LockSet, Session!Lock, Life, Sess, SessionLocked
  <1>7. CASE UnlockClear
    BY <1>2, <1>7 DEF UnlockClear, Session!Unlock, Life, Sess, SessionLocked
  <1>8. CASE UnlockWrite
    BY <1>2, <1>8 DEF UnlockWrite, Life, Sess, SessionLocked
  <1>9. CASE Cleanup
    BY <1>2, <1>9 DEF Cleanup, Life, Sess, SessionLocked
  <1>10. CASE Die
    <2>1. /\ launcher' = launcher /\ opts' = opts /\ pipe' = pipe /\ inst' = inst
          /\ ready' = ready /\ child' = "dead"
      BY <1>10 DEF Die
    <2>2. SessionLocked' <=> WillKnow
      BY <1>2, <2>1 DEF SessionLocked, WillKnow
    <2>3. CASE child = "boot"
      BY <1>2, <2>1, <2>2, <2>3 DEF Life, Sess, SessionLocked
    <2>4. CASE child # "boot"
      <3>1. SessionLocked <=> locked
        BY <1>1, <1>2, <2>4 DEF SessionLocked
      <3>2. WillKnow \/ (WillKnow <=> locked)
        BY <1>1, <2>4 DEF Phases
      <3>3. Life = "up" /\ Life' = "down"
        BY <1>1, <1>2, <2>1, <2>4 DEF Life, Phases
      <3>4. Sess' \in {Sess, "locked"}
        BY <1>2, <2>1, <2>2, <3>1, <3>2 DEF Sess
      <3>. QED BY <3>3, <3>4 DEF Session!Crash
    <2>. QED BY <2>3, <2>4
  <1>. QED BY <1>3, <1>4, <1>5, <1>6, <1>7, <1>8, <1>9, <1>10 DEF ChildStep

\* The launcher and the compositor implement a session that no crash unlocks.
THEOREM CrashesNeverUnlock == Spec => SurvivesCrashes
  <1>1. WatchInv /\ [Next]_vars => [Session!Next]_Session!svars
    <2>. SUFFICES ASSUME WatchInv, [Next]_vars PROVE [Session!Next]_Session!svars
      OBVIOUS
    <2>1. CASE LauncherStep \/ WaiterSeesExit \/ ForceQuit
      BY <2>1, LauncherStutters DEF Session!Next, Session!svars
    <2>2. CASE ChildStep
      BY <2>2, ChildRefines DEF Session!Next, Session!svars
    <2>3. CASE UNCHANGED vars
      BY <2>3 DEF vars, Session!svars, Life, Sess, SessionLocked
    <2>. QED BY <2>1, <2>2, <2>3 DEF Next
  <1>. QED BY <1>1, InitSession, WatchInvariant, PTL DEF Spec, SurvivesCrashes, Session!Spec

-----------------------------------------------------------------------------
(* A restart is locked as the compositor died. *)

\* Wherever the launcher is with the lines of a compositor that was ready and
\* died, reading the rest of them will tell it the lock as it was left.
DeathInv ==
    /\ inst.initialized \/ Wrote(pipe, "vax") => ready
    /\ child = "dead" /\ ready => (WillKnow <=> died.locked \/ DiedMidChange)

LEMMA WroteAppend ==
    ASSUME NEW p \in Seq(Lines), NEW line \in Lines, NEW l
    PROVE  Wrote(Append(p, line), l) => Wrote(p, l) \/ line = l
  <1>. DEFINE q == Append(p, line)
  <1>1. /\ Len(p) \in Nat /\ DOMAIN p = 1..Len(p) /\ DOMAIN q = 1..(Len(p) + 1)
        /\ \A i \in 1..Len(p) : q[i] = p[i]
        /\ q[Len(p) + 1] = line
    BY AppendProperties, LenProperties
  <1>. HIDE DEF q
  <1>2. \A i \in DOMAIN q : q[i] = l => (i \in DOMAIN p /\ p[i] = l) \/ line = l
    BY <1>1
  <1>. QED BY <1>2 DEF Wrote, q

LEMMA InitDeath == Init => DeathInv
  BY DEF Init, DeathInv, Wrote

\* The waiting lines change only by reading all of them or by one more line of
\* a living compositor; a death fixes what they say.
LEMMA StepDeath == WatchInv /\ DeathInv /\ [Next]_vars => DeathInv'
  <1>. SUFFICES ASSUME WatchInv, DeathInv, [Next]_vars PROVE DeathInv'
    OBVIOUS
  <1>. USE DEF DeathInv, launcherVars, childVars
  <1>t. TypeOK
    BY DEF WatchInv
  <1>a. ASSUME NEW line \in Lines, Write(line), line # "vax", inst' = inst, ready' = ready
        PROVE  inst'.initialized \/ Wrote(pipe', "vax") => ready'
    <2>1. Wrote(pipe', "vax") => Wrote(pipe, "vax")
      BY <1>a, <1>t, WroteAppend DEF Write, TypeOK
    <2>. QED BY <1>a, <2>1
  <1>l. "lock" \in Lines /\ "unlock" \in Lines /\ "vax" \in Lines /\ "end" \in Lines
    BY DEF Lines
  <1>e. ~Wrote(<<>>, "vax")
    BY DEF Wrote
  <1>1. CASE Spawn
    <2>1. ~inst'.initialized /\ pipe' = <<>> /\ ready' = FALSE
      BY <1>1 DEF Spawn, FreshInstance
    <2>. QED BY <1>e, <2>1
  <1>2. CASE DispatchHyprlandEvent
    <2>1. /\ inst' = [initialized |-> inst.initialized \/ Wrote(pipe, "vax"),
                      exiting     |-> inst.exiting \/ Wrote(pipe, "end"),
                      locked      |-> FinalLock(pipe, inst.locked)]
          /\ pipe' = <<>> /\ UNCHANGED <<child, ready, died>>
      BY <1>2 DEF DispatchHyprlandEvent
    <2>2. inst'.locked = FinalLock(pipe, inst.locked) /\ FinalLock(pipe, inst.locked) \in BOOLEAN
      BY <2>1 DEF FinalLock
    <2>3. WillKnow' <=> WillKnow
      BY <2>1, <2>2, FinalLockEmpty DEF WillKnow
    <2>4. inst'.initialized => inst.initialized \/ Wrote(pipe, "vax")
      BY <2>1
    <2>. QED BY <1>e, <2>1, <2>3, <2>4 DEF DiedMidChange
  <1>3. CASE Poll \/ HandleWakeup \/ Join \/ QuitJoined \/ WaiterSeesExit
    <2>1. UNCHANGED <<inst, pipe, child, ready, died>>
      BY <1>3 DEF Poll, HandleWakeup, Join, QuitJoined, WaiterSeesExit
    <2>. QED BY <2>1 DEF WillKnow, DiedMidChange
  <1>4. CASE ForceQuit
    <2>1. inst' = [inst EXCEPT !.exiting = TRUE] /\ UNCHANGED <<pipe, child, ready, died>>
      BY <1>4 DEF ForceQuit
    <2>2. inst'.locked = inst.locked /\ inst'.initialized = inst.initialized
      BY <1>t, <2>1 DEF TypeOK
    <2>. QED BY <2>1, <2>2 DEF WillKnow, DiedMidChange
  <1>5. CASE ForceLock \/ LockWrite \/ UnlockWrite \/ Cleanup
    <2>1. /\ child' # "dead" /\ UNCHANGED <<inst, ready>>
          /\ Write("lock") \/ Write("unlock") \/ Write("end")
      BY <1>5 DEF ForceLock, LockWrite, UnlockWrite, Cleanup
    <2>. QED BY <1>a, <1>l, <2>1
  <1>6. CASE Ready
    BY <1>6 DEF Ready
  <1>7. CASE LockSet \/ UnlockClear
    <2>1. child' # "dead" /\ UNCHANGED <<inst, ready, pipe>>
      BY <1>7 DEF LockSet, UnlockClear
    <2>. QED BY <2>1
  <1>8. CASE Die
    <2>1. /\ child # "dead" /\ died' = [phase |-> child, locked |-> locked]
          /\ UNCHANGED <<inst, pipe, ready>>
      BY <1>8 DEF Die
    <2>2. /\ died'.phase = child /\ died'.locked = locked
          /\ WillKnow' <=> WillKnow
      BY <2>1 DEF WillKnow
    <2>3. ready => child # "boot"
      BY DEF WatchInv
    <2>4. /\ child \in {"up", "ending"} => (WillKnow <=> locked)
          /\ child \in {"locking", "unlocking"} => WillKnow
          /\ child \in Phases
      BY <1>t DEF WatchInv, TypeOK
    <2>. QED BY <2>1, <2>2, <2>3, <2>4 DEF DiedMidChange, Phases
  <1>9. CASE UNCHANGED vars
    BY <1>9 DEF vars, WillKnow, DiedMidChange
  <1>. QED
    BY <1>1, <1>2, <1>3, <1>4, <1>5, <1>6, <1>7, <1>8, <1>9 DEF Next, LauncherStep, ChildStep

LEMMA DeathInvariant == Spec => [](WatchInv /\ DeathInv)
  BY InitWatch, StepWatch, InitDeath, StepDeath, PTL DEF Spec

\* Every variable keeps its type, for any backlog.
THEOREM TypeCorrect == Spec => []TypeOK
  <1>1. WatchInv => TypeOK
    BY DEF WatchInv
  <1>. QED BY <1>1, WatchInvariant, PTL

\* main's loop restarts with --locked exactly what died locked, or in the middle
\* of a change of the lock: the lines in the pipe at the crash are all read, and
\* none of them is counted for the next instance.
THEOREM RestartsAsItDied == Spec => RestartedAsItDied
  <1>1. WatchInv /\ DeathInv /\ [Next]_vars
           => [launcher = "join" /\ launcher' = "spawn"
                  => (opts'.lockedCrash <=> died.locked \/ DiedMidChange)]_vars
    <2>. SUFFICES ASSUME WatchInv, DeathInv, Next, launcher = "join", launcher' = "spawn"
                  PROVE  opts'.lockedCrash <=> died.locked \/ DiedMidChange
      OBVIOUS
    <2>1. Join
      BY DEF Next, LauncherStep, ChildStep, launcherVars, Spawn, Poll, DispatchHyprlandEvent,
             HandleWakeup, QuitJoined, WaiterSeesExit, ForceQuit, ForceLock, Ready, LockWrite,
             LockSet, UnlockClear, UnlockWrite, Cleanup, Die
    <2>2. ~CleanStop /\ opts'.lockedCrash = inst.locked
      BY <2>1 DEF Join
    <2>3. ready /\ pipe = <<>> /\ child = "dead" /\ inst.locked \in BOOLEAN
      BY <2>2 DEF CleanStop, DeathInv, WatchInv, TypeOK
    <2>4. WillKnow <=> inst.locked
      BY <2>3, FinalLockEmpty DEF WillKnow
    <2>. QED BY <2>2, <2>3, <2>4 DEF DeathInv
  <1>. QED BY <1>1, DeathInvariant, PTL DEF Spec, RestartedAsItDied

=============================================================================
