-------------------------- MODULE SessionLockProofs --------------------------
(***************************************************************************)
(* Type correctness of SessionLock and the safety properties that relate   *)
(* the protocol flag, the adopted lock, the lock notification and the      *)
(* watchdog line, for every set of locks, surfaces, outputs and clients.   *)
(***************************************************************************)
EXTENDS SessionLock, SequenceTheorems, WellFoundedInduction, TLAPS

LockType  == [st: {"unused", "live", "gone"}, inert: BOOLEAN, told: 0..2]
SurfType  == [role: {"unused", "live", "gone"}, wl: BOOLEAN,
              mon: Nil(Monitors), mapped: BOOLEAN]
FocusType == [kb: Nil(Surfaces \cup Apps), fs: Nil(Surfaces \cup Apps)]

-----------------------------------------------------------------------------
(* What the helpers return. *)

\* A non-empty set of naturals has a least element.
LEMMA LeastNat ==
    ASSUME NEW I \in SUBSET Nat, I # {}
    PROVE  \E i \in I : \A j \in I : i <= j
  <1>. DEFINE R == OpToRel(<, Nat)
  <1>1. IsWellFoundedOn(R, Nat)
    BY NatLessThanWellFounded
  <1>. HIDE DEF R
  <1>2. PICK i \in I : \A j \in I : ~ (<<j, i>> \in R)
    BY <1>1, WFMin
  <1>3. \A j \in I : j < i => <<j, i>> \in R
    BY DEF R, OpToRel
  <1>4. \A j \in I : ~ (j < i)
    BY <1>2, <1>3, Zenon
  <1>5. \A j \in I : i \in Nat /\ j \in Nat
    OBVIOUS
  <1>6. \A j \in I : i <= j
    BY <1>4, <1>5, SMT
  <1>. QED BY <1>6, Zenon

\* pickFocusCandidate returns a listed surface that is mapped and alive.
LEMMA PickIsCandidate ==
    ASSUME NEW list \in Seq(Surfaces), NEW sf, NEW pm, Candidates(list, sf) # {}
    PROVE  /\ PickFocusCandidate(list, sf, pm) \in Listed(list)
           /\ PickFocusCandidate(list, sf, pm) \in Surfaces
           /\ sf[PickFocusCandidate(list, sf, pm)].wl
  <1>. DEFINE preferred == {i \in Candidates(list, sf) : sf[list[i]].mon = pm}
              pool == IF preferred # {} THEN preferred ELSE Candidates(list, sf)
  <1>0. pool # {} /\ pool \subseteq Candidates(list, sf)
    OBVIOUS
  <1>1. Candidates(list, sf) \subseteq DOMAIN list
    BY DEF Candidates
  <1>2. DOMAIN list \subseteq Nat /\ \A i \in DOMAIN list : list[i] \in Surfaces
    BY LenProperties, ElementOfSeq
  <1>3. \E i \in pool : \A j \in pool : i <= j
    BY <1>0, <1>1, <1>2, LeastNat
  <1>. DEFINE p == CHOOSE i \in pool : \A j \in pool : i <= j
  <1>4. p \in pool
    BY <1>3
  <1>5. PickFocusCandidate(list, sf, pm) = list[p]
    BY DEF PickFocusCandidate
  <1>. HIDE DEF p, pool
  <1>6. sf[list[p]].wl
    BY <1>0, <1>4 DEF Candidates
  <1>. QED BY <1>0, <1>1, <1>2, <1>4, <1>5, <1>6 DEF Listed

\* rawSurfaceFocus keeps the focus well typed.
LEMMA RawSurfaceFocusType ==
    ASSUME NEW f \in FocusType, NEW s \in Nil(Surfaces \cup Apps),
           NEW lk, NEW list, NEW g
    PROVE  RawSurfaceFocus(f, s, lk, list, g) \in FocusType
  BY DEF RawSurfaceFocus, FocusType, Nil

\* So does a refocus of the input manager while the session is not locked.
LEMMA AppFocusType ==
    ASSUME NEW f \in FocusType, NEW g
    PROVE  AppFocus(f, g) \subseteq FocusType
  <1>1. \A a \in Nil(Apps) : RawSurfaceFocus(f, a, FALSE, <<>>, g) \in FocusType
    BY RawSurfaceFocusType DEF Nil
  <1>. QED BY <1>1 DEF AppFocus

\* So does a pointer pass, locked or not.
LEMMA PointerPassType ==
    ASSUME NEW f \in FocusType, NEW lk, NEW list, NEW sf, NEW g
    PROVE  PointerPass(f, lk, list, sf, g) \subseteq FocusType
  <1>1. \A s \in Surfaces : RawSurfaceFocus(f, s, lk, list, g) \in FocusType
    BY RawSurfaceFocusType DEF Nil
  <1>2. LockPointerFocus(f, lk, list, sf, g) \subseteq FocusType
    BY <1>1 DEF LockPointerFocus
  <1>. QED BY <1>2, AppFocusType DEF PointerPass

\* So does refocusKeyboard.
LEMMA RefocusedType ==
    ASSUME NEW f \in FocusType, NEW list \in Seq(Surfaces), NEW lk, NEW sf, NEW g
    PROVE  Refocused(f, lk, list, sf, g) \subseteq FocusType
  <1>1. ASSUME NEW pm PROVE RefocusKeyboard(f, lk, list, sf, g, pm) \in FocusType
    <2>1. CASE Candidates(list, sf) = {}
      BY <2>1 DEF RefocusKeyboard
    <2>2. CASE Candidates(list, sf) # {}
      <3>1. PickFocusCandidate(list, sf, pm) \in Nil(Surfaces \cup Apps)
        BY <2>2, PickIsCandidate DEF Nil
      <3>. QED BY <3>1, RawSurfaceFocusType DEF RefocusKeyboard
    <2>. QED BY <2>1, <2>2
  <1>. QED BY <1>1 DEF Refocused

\* Erasing a listed surface leaves a sequence of surfaces.
LEMMA EraseType ==
    ASSUME NEW list \in Seq(Surfaces), NEW s \in Listed(list)
    PROVE  Erase(list, s) \in Seq(Surfaces)
  <1>. DEFINE i == CHOOSE k \in DOMAIN list : list[k] = s
              e == [j \in 1..(Len(list) - 1) |-> IF j < i THEN list[j] ELSE list[j + 1]]
  <1>1. Len(list) \in Nat /\ DOMAIN list = 1..Len(list)
    BY LenProperties
  <1>2. Len(list) # 0
    BY <1>1 DEF Listed
  <1>3. \A j \in 1..(Len(list) - 1) : e[j] \in Surfaces
    BY <1>1, ElementOfSeq
  <1>4. Len(list) - 1 \in Nat
    BY <1>1, <1>2
  <1>5. e \in Seq(Surfaces)
    BY <1>3, <1>4, IsASeq
  <1>. QED BY <1>5 DEF Erase

\* The updates of one lock object keep the lock objects well typed.
LEMMA LockUpdateType ==
    ASSUME NEW lk \in [Locks -> LockType], NEW l \in Locks
    PROVE  /\ SendLocked(lk, l) \in [Locks -> LockType]
           /\ SendDenied(lk, l) \in [Locks -> LockType]
           /\ \A st \in {"unused", "live", "gone"} :
                 [lk EXCEPT ![l].st = st] \in [Locks -> LockType]
  <1>1. lk[l] \in LockType
    OBVIOUS
  <1>2. \A t \in 0..2 : [lk[l] EXCEPT !.told = t] \in LockType
    BY <1>1 DEF LockType
  <1>3. [lk[l] EXCEPT !.inert = TRUE] \in LockType
    BY <1>1 DEF LockType
  <1>4. \A st \in {"unused", "live", "gone"} : [lk[l] EXCEPT !.st = st] \in LockType
    BY <1>1 DEF LockType
  <1>5. (IF lk[l].told = 2 THEN 2 ELSE lk[l].told + 1) \in 0..2
    BY <1>1 DEF LockType
  <1>6. SendLocked(lk, l) \in [Locks -> LockType]
    BY <1>2, <1>5 DEF SendLocked
  <1>7. SendDenied(lk, l) \in [Locks -> LockType]
    BY <1>3 DEF SendDenied
  <1>8. \A st \in {"unused", "live", "gone"} : [lk EXCEPT ![l].st = st] \in [Locks -> LockType]
    BY <1>4
  <1>. QED BY <1>6, <1>7, <1>8

-----------------------------------------------------------------------------
(* Type correctness. *)

LEMMA InitType == Init => TypeOK
  <1>. SUFFICES ASSUME Init PROVE TypeOK
    OBVIOUS
  <1>. USE ConstantsAssumption DEF Init
  <1>1. sls \in Seq(Surfaces)
    BY EmptySeq
  <1>2. lock \in [Locks -> LockType]
    BY DEF LockType
  <1>3. surf \in [Surfaces -> SurfType]
    BY DEF SurfType, Nil
  <1>4. focus \in FocusType
    BY DEF FocusType, Nil
  <1>. QED BY <1>1, <1>2, <1>3, <1>4 DEF TypeOK, LockType, SurfType, FocusType, Nil

\* Every action keeps the types; the focus, the surfaces and the list are the
\* parts a helper has to vouch for.
LEMMA StepType == TypeOK /\ [Next]_vars => TypeOK'
  <1>. SUFFICES ASSUME TypeOK, [Next]_vars PROVE TypeOK'
    OBVIOUS
  <1>. USE ConstantsAssumption DEF TypeOK, lockVars, mgrVars, focusVars, monVars,
                                   compVars
  <1>f. focus \in FocusType /\ FocusType = [kb: Nil(Surfaces \cup Apps), fs: Nil(Surfaces \cup Apps)]
    BY DEF FocusType
  <1>n. None \in Nil(Surfaces \cup Apps) /\ Apps \subseteq Nil(Surfaces \cup Apps)
    BY DEF Nil
  <1>k. lock \in [Locks -> LockType]
    BY DEF LockType
  <1>c. \A l \in Locks : Created(l) \in [Locks -> LockType]
    BY <1>k, LockUpdateType DEF Created
  <1>g. \A l \in Locks : [lock EXCEPT ![l].st = "gone"] \in [Locks -> LockType]
    BY <1>k, LockUpdateType
  <1>1. ASSUME NEW l \in Locks, LockDenied(l) PROVE TypeOK'
    <2>1. SendDenied(Created(l), l) \in [Locks -> LockType]
      BY <1>c, LockUpdateType
    <2>. QED BY <1>1, <2>1 DEF LockDenied, LockType
  <1>2. ASSUME NEW l \in Locks, LockIgnored(l) PROVE TypeOK'
    BY <1>2, <1>c DEF LockIgnored, LockType
  <1>3. ASSUME NEW l \in Locks, LockAdopted(l) PROVE TypeOK'
    <2>1. RawSurfaceFocus(focus, None, locked, <<>>, grab) \in FocusType
      BY <1>f, <1>n, RawSurfaceFocusType
    <2>2. focus' \in FocusType
      BY <1>3, <2>1, PointerPassType DEF LockAdopted
    <2>3. lock' \in [Locks -> LockType]
      <3>1. SendLocked(Created(l), l) \in [Locks -> LockType]
        BY <1>c, LockUpdateType
      <3>. QED BY <1>3, <1>c, <3>1 DEF LockAdopted
    <2>4. <<>> \in Seq(Surfaces)
      BY EmptySeq
    <2>. QED BY <1>3, <1>f, <2>2, <2>3, <2>4 DEF LockAdopted, EmitLock, LockType, Nil
  <1>4. ASSUME NEW l \in Locks, UnlockAndDestroy(l) PROVE TypeOK'
    <2>1. focus' \in FocusType
      BY <1>4, <1>f, AppFocusType DEF UnlockAndDestroy
    <2>2. <<>> \in Seq(Surfaces)
      BY EmptySeq
    <2>3. lock' \in [Locks -> LockType]
      BY <1>4, <1>g DEF UnlockAndDestroy
    <2>. QED BY <1>4, <1>f, <2>1, <2>2, <2>3
           DEF UnlockAndDestroy, EmitUnlock, DropSessionLock, LockType, Nil
  <1>5. ASSUME NEW l \in Locks, DestroyLock(l) PROVE TypeOK'
    <2>1. focus' \in FocusType
      <3>1. RawSurfaceFocus(focus, None, locked, <<>>, grab) \in FocusType
        BY <1>f, <1>n, RawSurfaceFocusType
      <3>2. focus' \in {focus, RawSurfaceFocus(focus, None, locked, <<>>, grab)}
        BY <1>5 DEF DestroyLock
      <3>. QED BY <1>f, <3>1, <3>2
    <2>2. <<>> \in Seq(Surfaces)
      BY EmptySeq
    <2>3. lock' \in [Locks -> LockType]
      BY <1>5, <1>g DEF DestroyLock
    <2>. QED BY <1>5, <1>f, <2>1, <2>2, <2>3 DEF DestroyLock, DropSessionLock, LockType, Nil
  <1>6. ASSUME NEW s \in Surfaces, NEW m \in Monitors, GetLockSurface(s, m) PROVE TypeOK'
    <2>1. sls' \in Seq(Surfaces)
      BY <1>6, AppendProperties DEF GetLockSurface
    <2>2. surf' \in [Surfaces -> SurfType]
      BY <1>6 DEF GetLockSurface, SurfType, Nil
    <2>. QED BY <1>6, <2>1, <2>2 DEF GetLockSurface, SurfType
  <1>7. ASSUME NEW s \in Surfaces, CommitLockSurface(s) PROVE TypeOK'
    <2>1. PICK f \in PointerPass(focus, locked, sls, surf', grab) :
             focus' \in Refocused(f, locked, sls, surf', grab)
      BY <1>7 DEF CommitLockSurface
    <2>2. f \in FocusType
      BY <1>f, <2>1, PointerPassType
    <2>3. focus' \in FocusType
      BY <2>1, <2>2, RefocusedType
    <2>4. surf' \in [Surfaces -> SurfType]
      <3>1. [surf[s] EXCEPT !.mapped = TRUE] \in SurfType
        BY DEF SurfType
      <3>. QED BY <1>7, <3>1 DEF CommitLockSurface, SurfType
    <2>. QED BY <1>7, <1>f, <2>3, <2>4 DEF CommitLockSurface, SurfType
  <1>8. ASSUME NEW s \in Surfaces, DestroyLockSurface(s) PROVE TypeOK'
    <2>1. CASE s \in Listed(sls)
      <3>1. sls' \in Seq(Surfaces)
        BY <1>8, <2>1, EraseType DEF DestroyLockSurface
      <3>2. focus' \in FocusType
        BY <1>8, <1>f, <2>1, <3>1, RefocusedType DEF DestroyLockSurface
      <3>. QED BY <1>8, <1>f, <3>1, <3>2 DEF DestroyLockSurface
    <2>2. CASE s \notin Listed(sls)
      <3>1. sls' = sls /\ focus' = focus
        BY <1>8, <2>2 DEF DestroyLockSurface
      <3>. QED BY <1>8, <3>1 DEF DestroyLockSurface
    <2>. QED BY <2>1, <2>2
  <1>9. ASSUME NEW s \in Surfaces, DestroyWlSurface(s) PROVE TypeOK'
    <2>1. Refocused(focus, locked, sls, surf', grab) \subseteq FocusType
      BY <1>f, RefocusedType
    <2>2. focus' \in FocusType
      <3>. DEFINE Expire(x) == IF x = s THEN None ELSE x
      <3>1. PICK f \in Refocused(focus, locked, sls, surf', grab) \cup {focus} :
               focus' = [kb |-> Expire(f.kb), fs |-> Expire(f.fs)]
        BY <1>9 DEF DestroyWlSurface
      <3>2. f \in FocusType
        BY <1>f, <2>1, <3>1
      <3>. QED BY <1>f, <1>n, <3>1, <3>2
    <2>3. surf' \in [Surfaces -> SurfType]
      BY <1>9 DEF DestroyWlSurface, SurfType
    <2>. QED BY <1>9, <1>f, <2>2, <2>3 DEF DestroyWlSurface, SurfType
  <1>10. ASSUME NEW m \in Monitors, RenderLockFrame(m) PROVE TypeOK'
    <2>1. lock' \in [Locks -> LockType]
      <3>1. cur \in Locks => SendLocked(lock, cur) \in [Locks -> LockType]
        BY <1>k, LockUpdateType
      <3>2. cur = None => SendLocked(lock, cur) = lock
        BY DEF SendLocked
      <3>. QED BY <1>10, <1>k, <3>1, <3>2 DEF RenderLockFrame, Nil
    <2>. QED BY <1>10, <2>1 DEF RenderLockFrame, LockType
  <1>11. CASE PointerMotion
    <2>1. focus' \in FocusType
      BY <1>11, <1>f, PointerPassType DEF PointerMotion
    <2>. QED BY <1>11, <1>f, <2>1 DEF PointerMotion
  <1>12. CASE PlugKeyboard
    BY <1>12 DEF PlugKeyboard
  <1>13. CASE UnplugKeyboard
    BY <1>13 DEF UnplugKeyboard
  <1>14. ASSUME NEW a \in Apps, StartGrab(a) PROVE TypeOK'
    BY <1>14, <1>n DEF StartGrab, Nil
  <1>15. CASE EndGrab
    <2>1. focus' \in FocusType
      BY <1>15, <1>f, PointerPassType DEF EndGrab
    <2>. QED BY <1>15, <1>f, <2>1 DEF EndGrab, Nil
  <1>16. ASSUME NEW a \in Apps, LayerTakesFocus(a) PROVE TypeOK'
    <2>1. PICK f \in PointerPass(focus, locked, sls, surf, None) \cup {focus} :
             focus' = RawSurfaceFocus(f, a, locked, sls, grab')
      BY <1>16 DEF LayerTakesFocus
    <2>2. f \in FocusType
      BY <1>f, <2>1, PointerPassType
    <2>3. focus' \in FocusType
      BY <1>n, <2>1, <2>2, RawSurfaceFocusType
    <2>. QED BY <1>16, <1>f, <2>3 DEF LayerTakesFocus, Nil
  <1>17. ASSUME NEW a \in Apps, AppSurfaceGone(a) PROVE TypeOK'
    <2>. DEFINE Expire(x) == IF x = a THEN None ELSE x
                e == [kb |-> Expire(focus.kb), fs |-> Expire(focus.fs)]
    <2>1. e \in FocusType
      BY <1>f, <1>n
    <2>2. focus' \in PointerPass(e, locked, sls, surf, grab)
      BY <1>17 DEF AppSurfaceGone
    <2>3. focus' \in FocusType
      BY <2>1, <2>2, PointerPassType
    <2>. QED BY <1>17, <1>f, <2>3 DEF AppSurfaceGone
  <1>18. ASSUME NEW m \in Monitors, Connect(m) PROVE TypeOK'
    <2>1. focus' \in FocusType
      BY <1>18, <1>f, PointerPassType DEF Connect
    <2>. QED BY <1>18, <1>f, <2>1 DEF Connect
  <1>19. ASSUME NEW m \in Monitors, Disconnect(m) PROVE TypeOK'
    BY <1>19 DEF Disconnect
  <1>20. ASSUME NEW m \in Monitors, Dpms(m) PROVE TypeOK'
    BY <1>20 DEF Dpms
  <1>21. CASE ClearCrashedLockscreen
    <2>1. RawSurfaceFocus(focus, None, FALSE, <<>>, grab) \in FocusType
      BY <1>f, <1>n, RawSurfaceFocusType
    <2>2. focus' \in FocusType
      BY <1>21, <2>1, AppFocusType DEF ClearCrashedLockscreen
    <2>3. lock' \in [Locks -> LockType]
      <3>1. \A l \in Locks : SendDenied(lock, l)[l] \in LockType
        BY DEF SendDenied, LockType
      <3>2. lock \in [Locks -> LockType]
        BY DEF LockType
      <3>3. lock' = [l \in Locks |-> IF Live(l) THEN SendDenied(lock, l)[l] ELSE lock[l]]
        BY <1>21 DEF ClearCrashedLockscreen
      <3>. QED BY ONLY <3>1, <3>2, <3>3
    <2>4. <<>> \in Seq(Surfaces)
      BY EmptySeq
    <2>. QED BY <1>21, <1>f, <2>2, <2>3, <2>4
           DEF ClearCrashedLockscreen, EmitUnlock, DropSessionLock, LockType, Nil
  <1>22. CASE SendLockedTimeout
    <2>1. lock' \in [Locks -> LockType]
      <3>1. cur \in Locks => SendLocked(lock, cur) \in [Locks -> LockType]
        BY <1>k, LockUpdateType
      <3>2. cur = None => SendLocked(lock, cur) = lock
        BY DEF SendLocked
      <3>. QED BY <1>22, <1>k, <3>1, <3>2 DEF SendLockedTimeout, Nil
    <2>. QED BY <1>22, <2>1 DEF SendLockedTimeout, LockType
  <1>23. CASE UNCHANGED vars
    BY <1>23 DEF vars
  <1>. QED
    BY <1>1, <1>2, <1>3, <1>4, <1>5, <1>6, <1>7, <1>8, <1>9, <1>10, <1>11, <1>12,
       <1>13, <1>14, <1>15, <1>16, <1>17, <1>18, <1>19, <1>20, <1>21, <1>22, <1>23
       DEF Next, ClientStep, InputStep, MonitorStep

\* Every variable keeps its type, for every value of the constants.
THEOREM TypeCorrect == Spec => []TypeOK
  BY InitType, StepType, PTL DEF Spec

-----------------------------------------------------------------------------
(* The lock objects, the notification and the watchdog line. *)

\* What the updates of one lock object change and what they leave alone.
LEMMA LockUpdateFields ==
    ASSUME NEW lk \in [Locks -> LockType], NEW l \in Locks, NEW st, NEW k \in Locks
    PROVE  /\ SendLocked(lk, l)[k].st = lk[k].st
           /\ SendLocked(lk, l)[k].inert = lk[k].inert
           /\ k # l => SendLocked(lk, l)[k] = lk[k]
           /\ SendDenied(lk, l)[k].st = lk[k].st
           /\ SendDenied(lk, l)[k].told = lk[k].told
           /\ k # l => SendDenied(lk, l)[k] = lk[k]
           /\ [lk EXCEPT ![l].st = st][k].inert = lk[k].inert
           /\ [lk EXCEPT ![l].st = st][k].told = lk[k].told
           /\ [lk EXCEPT ![l].st = st][k].st = (IF k = l THEN st ELSE lk[k].st)
  BY DEF SendLocked, SendDenied, LockType

\* Only a listed surface can be the first one of an output.
LEMMA FirstOnListed ==
    ASSUME NEW sf, NEW m
    PROVE  FirstOn(<<>>, sf, m) = None
  BY DEF FirstOn

LEMMA InitLock == Init => LockInv
  BY ConstantsAssumption DEF Init, LockInv

\* The interesting steps are those on lock objects: everything else leaves the
\* conjuncts of LockInv alone, or sends "locked" to the adopted lock.
LEMMA StepLock == TypeOK /\ LockInv /\ [Next]_vars => LockInv'
  <1>. SUFFICES ASSUME TypeOK, LockInv, [Next]_vars PROVE LockInv'
    OBVIOUS
  <1>. USE ConstantsAssumption DEF LockInv, lockVars, mgrVars, focusVars, monVars,
                                   compVars
  <1>k. lock \in [Locks -> LockType]
    BY DEF TypeOK, LockType
  <1>t. /\ locked \in BOOLEAN /\ notified \in BOOLEAN /\ sent \in BOOLEAN /\ split \in BOOLEAN
        /\ cur \in Locks \cup {None} /\ None \notin Locks /\ timer \in BOOLEAN
    BY DEF TypeOK, Nil
  <1>c. ASSUME NEW l \in Locks
        PROVE  /\ Created(l) \in [Locks -> LockType]
               /\ \A k \in Locks : /\ Created(l)[k].told = lock[k].told
                                   /\ Created(l)[k].inert = lock[k].inert
                                   /\ Created(l)[k].st = IF k = l THEN "live" ELSE lock[k].st
    <2>1. Created(l) = [lock EXCEPT ![l].st = "live"]
      BY DEF Created
    <2>2. [lock EXCEPT ![l].st = "live"] \in [Locks -> LockType]
      BY <1>k, LockUpdateType
    <2>3. ASSUME NEW k \in Locks
          PROVE  /\ [lock EXCEPT ![l].st = "live"][k].told = lock[k].told
                 /\ [lock EXCEPT ![l].st = "live"][k].inert = lock[k].inert
                 /\ [lock EXCEPT ![l].st = "live"][k].st = IF k = l THEN "live" ELSE lock[k].st
      BY <1>k, LockUpdateFields
    <2>. QED BY <2>1, <2>2, <2>3
  <1>s. ASSUME cur \in Locks, lock' = SendLocked(lock, cur)
        PROVE  \A k \in Locks : /\ lock'[k].st = lock[k].st
                                /\ lock'[k].inert = lock[k].inert
                                /\ k # cur => lock'[k] = lock[k]
    BY <1>k, <1>s, LockUpdateFields
  <1>1. ASSUME NEW l \in Locks, LockDenied(l) PROVE LockInv'
    <2>1. \A k \in Locks : /\ lock'[k].told = lock[k].told
                           /\ lock'[k].st = IF k = l THEN "live" ELSE lock[k].st
                           /\ k # l => lock'[k].inert = lock[k].inert
      <3>1. lock' = SendDenied(Created(l), l)
        BY <1>1 DEF LockDenied
      <3>2. \A k \in Locks : /\ SendDenied(Created(l), l)[k].told = Created(l)[k].told
                             /\ SendDenied(Created(l), l)[k].st = Created(l)[k].st
                             /\ k # l => SendDenied(Created(l), l)[k] = Created(l)[k]
        BY <1>c, LockUpdateFields
      <3>. QED BY <1>c, <3>1, <3>2
    <2>2. cur # None => cur # l
      BY <1>1 DEF LockDenied, Unused
    <2>. QED BY <1>1, <1>t, <2>1, <2>2 DEF LockDenied, MayRelock
  <1>2. ASSUME NEW l \in Locks, LockIgnored(l) PROVE LockInv'
    <2>1. lock' = Created(l) /\ Unused(l) /\ cur # None /\ ~sent
      BY <1>2 DEF LockIgnored, Limbo
    <2>2. cur # l
      BY <2>1 DEF Unused
    <2>. QED BY <1>2, <1>c, <1>t, <2>1, <2>2 DEF LockIgnored
  <1>3. ASSUME NEW l \in Locks, LockAdopted(l) PROVE LockInv'
    <2>1. Unused(l) /\ lock[l].told = 0 /\ ~lock[l].inert
      BY <1>3 DEF LockAdopted, Unused
    <2>2. /\ \A k \in Locks \ {l} : /\ lock'[k].told = lock[k].told
                                   /\ lock'[k].inert = lock[k].inert
                                   /\ lock'[k].st = lock[k].st
          /\ lock'[l].st = "live" /\ ~lock'[l].inert
          /\ on # {} => lock'[l].told = 0
      <3>1. CASE on = {}
        <4>1. lock' = SendLocked(Created(l), l)
          BY <1>3, <3>1 DEF LockAdopted
        <4>2. \A k \in Locks : /\ SendLocked(Created(l), l)[k].st = Created(l)[k].st
                               /\ SendLocked(Created(l), l)[k].inert = Created(l)[k].inert
                               /\ k # l => SendLocked(Created(l), l)[k] = Created(l)[k]
          BY <1>c, LockUpdateFields
        <4>. QED BY <1>c, <2>1, <3>1, <4>1, <4>2
      <3>2. CASE on # {}
        BY <1>3, <1>c, <2>1, <3>2 DEF LockAdopted
      <3>. QED BY <3>1, <3>2
    <2>. QED BY <1>3, <1>t, <2>2 DEF LockAdopted, EmitLock
  <1>4. ASSUME NEW l \in Locks, UnlockAndDestroy(l) PROVE LockInv'
    <2>1. \A k \in Locks : /\ lock'[k].told = lock[k].told
                           /\ lock'[k].inert = lock[k].inert
                           /\ lock'[k].st = IF k = l THEN "gone" ELSE lock[k].st
      BY <1>4, <1>k, LockUpdateFields DEF UnlockAndDestroy
    <2>2. CASE l = cur
      BY <1>4, <1>t, <2>1, <2>2 DEF UnlockAndDestroy, EmitUnlock, DropSessionLock
    <2>3. CASE l # cur
      BY <1>4, <1>t, <2>1, <2>3 DEF UnlockAndDestroy
    <2>. QED BY <2>2, <2>3
  <1>5. ASSUME NEW l \in Locks, DestroyLock(l) PROVE LockInv'
    <2>1. \A k \in Locks : /\ lock'[k].told = lock[k].told
                           /\ lock'[k].inert = lock[k].inert
                           /\ lock'[k].st = IF k = l THEN "gone" ELSE lock[k].st
      BY <1>5, <1>k, LockUpdateFields DEF DestroyLock
    <2>2. CASE l = cur
      BY <1>5, <1>t, <2>1, <2>2 DEF DestroyLock, DropSessionLock
    <2>3. CASE l # cur
      BY <1>5, <1>t, <2>1, <2>3 DEF DestroyLock
    <2>. QED BY <2>2, <2>3
  <1>6. ASSUME NEW s \in Surfaces, NEW m \in Monitors, GetLockSurface(s, m) PROVE LockInv'
    BY <1>6 DEF GetLockSurface
  <1>7. ASSUME NEW s \in Surfaces, CommitLockSurface(s) PROVE LockInv'
    BY <1>7 DEF CommitLockSurface
  <1>8. ASSUME NEW s \in Surfaces, DestroyLockSurface(s) PROVE LockInv'
    <2>1. s \in Listed(sls) => sls # <<>>
      BY DEF Listed
    <2>. QED BY <1>8, <2>1 DEF DestroyLockSurface
  <1>9. ASSUME NEW s \in Surfaces, DestroyWlSurface(s) PROVE LockInv'
    BY <1>9 DEF DestroyWlSurface
  <1>10. ASSUME NEW m \in Monitors, RenderLockFrame(m) PROVE LockInv'
    <2>1. cur # None
      BY <1>10, FirstOnListed DEF RenderLockFrame
    <2>2. CASE lock' = SendLocked(lock, cur) /\ sent' = TRUE /\ notified' = TRUE
      BY <1>10, <1>s, <1>t, <2>1, <2>2 DEF RenderLockFrame
    <2>3. CASE UNCHANGED <<lock, notified, sent>>
      BY <1>10, <1>t, <2>1, <2>3 DEF RenderLockFrame
    <2>. QED BY <1>10, <2>2, <2>3 DEF RenderLockFrame
  <1>11. CASE PointerMotion
    BY <1>11 DEF PointerMotion
  <1>12. CASE PlugKeyboard
    BY <1>12 DEF PlugKeyboard
  <1>13. CASE UnplugKeyboard
    BY <1>13 DEF UnplugKeyboard
  <1>14. ASSUME NEW a \in Apps, StartGrab(a) PROVE LockInv'
    BY <1>14 DEF StartGrab
  <1>15. CASE EndGrab
    BY <1>15 DEF EndGrab
  <1>16. ASSUME NEW a \in Apps, LayerTakesFocus(a) PROVE LockInv'
    BY <1>16 DEF LayerTakesFocus
  <1>17. ASSUME NEW a \in Apps, AppSurfaceGone(a) PROVE LockInv'
    BY <1>17 DEF AppSurfaceGone
  <1>18. ASSUME NEW m \in Monitors, Connect(m) PROVE LockInv'
    BY <1>18 DEF Connect
  <1>19. ASSUME NEW m \in Monitors, Disconnect(m) PROVE LockInv'
    BY <1>19 DEF Disconnect
  <1>20. ASSUME NEW m \in Monitors, Dpms(m) PROVE LockInv'
    BY <1>20 DEF Dpms
  <1>21. CASE ClearCrashedLockscreen
    <2>1. \A k \in Locks : lock'[k] = IF Live(k) THEN SendDenied(lock, k)[k] ELSE lock[k]
      BY <1>21 DEF ClearCrashedLockscreen
    <2>2. \A k \in Locks : /\ lock'[k].st = lock[k].st
                           /\ lock'[k].told = lock[k].told
                           /\ lock[k].st = "unused" => lock'[k].inert = lock[k].inert
      BY <1>k, <2>1, LockUpdateFields DEF Live
    <2>. QED BY <1>21, <2>2 DEF ClearCrashedLockscreen, EmitUnlock, DropSessionLock
  <1>22. CASE SendLockedTimeout
    <2>1. CASE sent
      BY <1>22, <2>1 DEF SendLockedTimeout
    <2>2. CASE ~sent
      BY <1>22, <1>s, <1>t, <2>2 DEF SendLockedTimeout
    <2>. QED BY <2>1, <2>2
  <1>23. CASE UNCHANGED vars
    BY <1>23 DEF vars
  <1>. QED
    BY <1>1, <1>2, <1>3, <1>4, <1>5, <1>6, <1>7, <1>8, <1>9, <1>10, <1>11, <1>12,
       <1>13, <1>14, <1>15, <1>16, <1>17, <1>18, <1>19, <1>20, <1>21, <1>22, <1>23
       DEF Next, ClientStep, InputStep, MonitorStep

LEMMA LockInvariant == Spec => [](TypeOK /\ LockInv)
  BY InitType, StepType, InitLock, StepLock, PTL DEF Spec

\* A locked session always has "lock" as its last word to the watchdog; while only
\* adopted locks unlock, the two agree; the lock client and the lock notification
\* clients hear of the lock together.
THEOREM LockAnnounced == Spec => []LockIsAnnounced
  <1>1. TypeOK /\ LockInv => LockIsAnnounced
    BY DEF TypeOK, LockInv, LockIsAnnounced
  <1>. QED BY <1>1, LockInvariant, PTL

-----------------------------------------------------------------------------
(* "locked" is an event a client sees at most once. *)

\* The step of ToldOnce for one lock object.
ToldStep(l) == lock'[l].told # lock[l].told => lock[l].told = 0 /\ ~lock[l].inert

\* Only three steps send "locked": the adoption of a fresh lock with no output
\* on, the last frame and the timer, and the two latter only to a lock that was
\* not told before.
LEMMA StepTold == TypeOK /\ LockInv /\ [Next]_vars => \A l \in Locks : ToldStep(l)
  <1>. SUFFICES ASSUME TypeOK, LockInv, [Next]_vars, NEW k \in Locks PROVE ToldStep(k)
    OBVIOUS
  <1>. USE ConstantsAssumption DEF lockVars, mgrVars, focusVars, monVars, compVars, ToldStep
  <1>k. lock \in [Locks -> LockType] /\ cur \in Locks \cup {None} /\ None \notin Locks
    BY DEF TypeOK, LockType, Nil
  <1>b. sent \in BOOLEAN
    BY DEF TypeOK
  <1>c. \A l \in Locks : /\ Created(l) \in [Locks -> LockType]
                        /\ Created(l)[k].told = lock[k].told
    <2>1. ASSUME NEW l \in Locks
          PROVE  [lock EXCEPT ![l].st = "live"] \in [Locks -> LockType]
      BY <1>k, LockUpdateType
    <2>2. ASSUME NEW l \in Locks
          PROVE  [lock EXCEPT ![l].st = "live"][k].told = lock[k].told
      BY <1>k, LockUpdateFields
    <2>. QED BY <2>1, <2>2 DEF Created
  <1>s. cur # None /\ ~sent /\ lock' = SendLocked(lock, cur) => ToldStep(k)
    <2>. HAVE cur # None /\ ~sent /\ lock' = SendLocked(lock, cur)
    <2>1. k # cur => lock'[k] = lock[k]
      BY <1>k, LockUpdateFields
    <2>2. lock[cur].told = 0 /\ ~lock[cur].inert
      BY DEF LockInv
    <2>. QED BY <2>1, <2>2
  <1>1. ASSUME NEW l \in Locks, LockDenied(l) PROVE ToldStep(k)
    <2>1. SendDenied(Created(l), l)[k].told = Created(l)[k].told
      BY <1>c, LockUpdateFields
    <2>. QED BY <1>1, <1>c, <2>1 DEF LockDenied
  <1>2. ASSUME NEW l \in Locks, LockIgnored(l) PROVE ToldStep(k)
    BY <1>2, <1>c DEF LockIgnored
  <1>3. ASSUME NEW l \in Locks, LockAdopted(l) PROVE ToldStep(k)
    <2>1. k # l => SendLocked(Created(l), l)[k] = Created(l)[k]
      BY <1>c, LockUpdateFields
    <2>2. lock[l].told = 0 /\ ~lock[l].inert
      BY <1>3 DEF LockAdopted, Unused, LockInv
    <2>3. lock' \in {Created(l), SendLocked(Created(l), l)}
      BY <1>3 DEF LockAdopted
    <2>4. k # l => lock'[k].told = lock[k].told
      BY <1>c, <2>1, <2>3
    <2>. QED BY <2>2, <2>4
  <1>4. ASSUME NEW l \in Locks, UnlockAndDestroy(l) PROVE ToldStep(k)
    BY <1>4, <1>k, LockUpdateFields DEF UnlockAndDestroy
  <1>5. ASSUME NEW l \in Locks, DestroyLock(l) PROVE ToldStep(k)
    BY <1>5, <1>k, LockUpdateFields DEF DestroyLock
  <1>6. ASSUME NEW m \in Monitors, RenderLockFrame(m) PROVE ToldStep(k)
    <2>1. cur # None
      BY <1>6, FirstOnListed DEF RenderLockFrame, LockInv
    <2>2. lock' = lock \/ (~sent /\ lock' = SendLocked(lock, cur))
      BY <1>6, <1>b DEF RenderLockFrame, FramesAwaited
    <2>3. CASE lock' = lock
      BY <2>3
    <2>4. CASE ~sent /\ lock' = SendLocked(lock, cur)
      BY <1>s, <2>1, <2>4
    <2>. QED BY <2>2, <2>3, <2>4
  <1>7. CASE ClearCrashedLockscreen
    <2>1. lock'[k] = IF Live(k) THEN SendDenied(lock, k)[k] ELSE lock[k]
      BY <1>7 DEF ClearCrashedLockscreen
    <2>. QED BY <1>k, <2>1, LockUpdateFields
  <1>8. CASE SendLockedTimeout
    <2>1. cur # None
      BY <1>8 DEF SendLockedTimeout, LockInv
    <2>2. lock' = lock \/ (~sent /\ lock' = SendLocked(lock, cur))
      BY <1>8, <1>b DEF SendLockedTimeout
    <2>3. CASE lock' = lock
      BY <2>3
    <2>4. CASE ~sent /\ lock' = SendLocked(lock, cur)
      BY <1>s, <2>1, <2>4
    <2>. QED BY <2>2, <2>3, <2>4
  <1>9. ASSUME NEW s \in Surfaces,
               \/ \E m \in Monitors : GetLockSurface(s, m)
               \/ CommitLockSurface(s) \/ DestroyLockSurface(s) \/ DestroyWlSurface(s)
        PROVE  lock' = lock
    BY <1>9 DEF GetLockSurface, CommitLockSurface, DestroyLockSurface, DestroyWlSurface
  <1>10. ASSUME NEW a \in Apps, StartGrab(a) \/ LayerTakesFocus(a) \/ AppSurfaceGone(a)
         PROVE  lock' = lock
    BY <1>10 DEF StartGrab, LayerTakesFocus, AppSurfaceGone
  <1>11. ASSUME NEW m \in Monitors, Connect(m) \/ Disconnect(m) \/ Dpms(m)
         PROVE  lock' = lock
    BY <1>11 DEF Connect, Disconnect, Dpms
  <1>12. CASE \/ PointerMotion \/ PlugKeyboard \/ UnplugKeyboard \/ EndGrab
              \/ UNCHANGED vars
    BY <1>12 DEF PointerMotion, PlugKeyboard, UnplugKeyboard, EndGrab, vars
  <1>. QED
    BY <1>1, <1>2, <1>3, <1>4, <1>5, <1>6, <1>7, <1>8, <1>9, <1>10, <1>11, <1>12
       DEF Next, ClientStep, InputStep, MonitorStep

\* No lock object is sent "locked" twice, nor after "finished".
THEOREM ToldAtMostOnce == Spec => ToldOnce
  <1>1. TypeOK /\ LockInv /\ [Next]_vars
           => [\A l \in Locks : lock'[l].told # lock[l].told
                  => lock[l].told = 0 /\ ~lock[l].inert]_vars
    BY StepTold DEF ToldStep
  <1>. QED BY <1>1, LockInvariant, PTL DEF Spec, ToldOnce

-----------------------------------------------------------------------------
(* The keyboard under a lock. *)

\* What may have the keyboard after g when it was as in f, under a lock.
NoNewApp(f, g) == g.kb \in Apps => g.kb = f.kb

\* Under a lock only a lock surface, or nobody, is given the focus.
LEMMA LockedRawSurfaceFocus ==
    ASSUME NEW f, NEW s, NEW lk, lk = TRUE, NEW list \in Seq(Surfaces), NEW g
    PROVE  NoNewApp(f, RawSurfaceFocus(f, s, lk, list, g))
  <1>1. Listed(list) \subseteq Surfaces
    BY ElementOfSeq DEF Listed
  <1>2. CASE RawSurfaceFocus(f, s, lk, list, g) = f
    BY <1>2 DEF NoNewApp
  <1>3. CASE RawSurfaceFocus(f, s, lk, list, g) # f
    <2>1. s = None \/ s \in Listed(list)
      BY <1>3 DEF RawSurfaceFocus
    <2>2. s \notin Apps
      BY <1>1, <2>1, ConstantsAssumption
    <2>3. RawSurfaceFocus(f, s, lk, list, g) = [kb |-> IF kbd THEN s ELSE f.kb, fs |-> s]
      BY <1>3 DEF RawSurfaceFocus
    <2>. QED BY <2>2, <2>3 DEF NoNewApp
  <1>. QED BY <1>2, <1>3

LEMMA LockedPointerPass ==
    ASSUME NEW f, NEW lk, lk = TRUE, NEW list \in Seq(Surfaces), NEW sf, NEW g,
           NEW r \in PointerPass(f, lk, list, sf, g)
    PROVE  NoNewApp(f, r)
  <1>1. r \in LockPointerFocus(f, lk, list, sf, g)
    BY DEF PointerPass
  <1>2. r = f \/ \E s \in Surfaces : r = RawSurfaceFocus(f, s, lk, list, g)
    BY <1>1 DEF LockPointerFocus
  <1>3. \A s \in Surfaces : NoNewApp(f, RawSurfaceFocus(f, s, lk, list, g))
    BY LockedRawSurfaceFocus
  <1>4. NoNewApp(f, f)
    BY DEF NoNewApp
  <1>. QED BY <1>2, <1>3, <1>4

LEMMA LockedRefocused ==
    ASSUME NEW f, NEW lk, lk = TRUE, NEW list \in Seq(Surfaces), NEW sf, NEW g,
           NEW r \in Refocused(f, lk, list, sf, g)
    PROVE  NoNewApp(f, r)
  <1>1. PICK pm : r = RefocusKeyboard(f, lk, list, sf, g, pm)
    BY DEF Refocused
  <1>2. \/ r = f
        \/ r = RawSurfaceFocus(f, PickFocusCandidate(list, sf, pm), lk, list, g)
    BY <1>1 DEF RefocusKeyboard
  <1>3. NoNewApp(f, RawSurfaceFocus(f, PickFocusCandidate(list, sf, pm), lk, list, g))
    BY LockedRawSurfaceFocus
  <1>4. NoNewApp(f, f)
    BY DEF NoNewApp
  <1>. QED BY <1>2, <1>3, <1>4

LEMMA StepNoApp ==
    TypeOK /\ [Next]_vars => (locked /\ locked' /\ focus'.kb \in Apps
                                => focus'.kb \in {focus.kb, focus.fs})
  <1>. SUFFICES ASSUME TypeOK, [Next]_vars, locked, locked'
                PROVE  NoNewApp(focus, focus') \/ focus'.kb = focus.fs
    BY DEF NoNewApp
  <1>. USE ConstantsAssumption DEF lockVars, mgrVars, focusVars, monVars, compVars
  <1>t. /\ locked = TRUE /\ sls \in Seq(Surfaces) /\ <<>> \in Seq(Surfaces)
        /\ None \notin Apps /\ focus \in FocusType
    BY EmptySeq DEF TypeOK, FocusType
  <1>q. focus' = focus => NoNewApp(focus, focus')
    BY DEF NoNewApp
  <1>1. ASSUME NEW l \in Locks, LockAdopted(l) PROVE NoNewApp(focus, focus')
    <2>. DEFINE cleared == RawSurfaceFocus(focus, None, locked, <<>>, grab)
    <2>1. NoNewApp(focus, cleared)
      BY <1>t, LockedRawSurfaceFocus
    <2>2. focus' = cleared \/ focus' \in PointerPass(cleared, locked, <<>>, surf, None)
      BY <1>1 DEF LockAdopted
    <2>. HIDE DEF cleared
    <2>3. NoNewApp(cleared, focus') \/ focus' = cleared
      BY <1>t, <2>2, LockedPointerPass
    <2>. QED BY <2>1, <2>3 DEF NoNewApp
  <1>2. ASSUME NEW l \in Locks, DestroyLock(l) PROVE NoNewApp(focus, focus')
    <2>1. focus' = focus \/ focus' = RawSurfaceFocus(focus, None, locked, <<>>, grab)
      BY <1>2 DEF DestroyLock
    <2>2. NoNewApp(focus, RawSurfaceFocus(focus, None, locked, <<>>, grab))
      BY <1>t, LockedRawSurfaceFocus
    <2>. QED BY <1>q, <2>1, <2>2
  <1>3. ASSUME NEW l \in Locks, LockDenied(l) \/ LockIgnored(l) \/ UnlockAndDestroy(l)
        PROVE  NoNewApp(focus, focus')
    BY <1>3, <1>q DEF LockDenied, LockIgnored, UnlockAndDestroy
  <1>4. ASSUME NEW s \in Surfaces, CommitLockSurface(s) PROVE NoNewApp(focus, focus')
    <2>1. PICK f \in PointerPass(focus, locked, sls, surf', grab) :
             focus' \in Refocused(f, locked, sls, surf', grab)
      BY <1>4 DEF CommitLockSurface
    <2>2. NoNewApp(focus, f) /\ NoNewApp(f, focus')
      BY <1>t, <2>1, LockedPointerPass, LockedRefocused
    <2>. QED BY <2>2 DEF NoNewApp
  <1>5. ASSUME NEW s \in Surfaces, DestroyLockSurface(s) PROVE NoNewApp(focus, focus')
    <2>1. CASE s \in Listed(sls)
      <3>1. Erase(sls, s) \in Seq(Surfaces)
        BY <1>t, <2>1, EraseType
      <3>2. focus' \in Refocused(focus, locked, Erase(sls, s), surf', grab)
        BY <1>5, <2>1 DEF DestroyLockSurface
      <3>. QED BY <1>t, <3>1, <3>2, LockedRefocused
    <2>2. CASE s \notin Listed(sls)
      BY <1>5, <1>q, <2>2 DEF DestroyLockSurface
    <2>. QED BY <2>1, <2>2
  <1>6. ASSUME NEW s \in Surfaces, DestroyWlSurface(s) PROVE NoNewApp(focus, focus')
    <2>. DEFINE Expire(x) == IF x = s THEN None ELSE x
    <2>1. PICK f \in Refocused(focus, locked, sls, surf', grab) \cup {focus} :
             focus' = [kb |-> Expire(f.kb), fs |-> Expire(f.fs)]
      BY <1>6 DEF DestroyWlSurface
    <2>2. NoNewApp(focus, f) \/ f = focus
      BY <1>t, <2>1, LockedRefocused
    <2>. QED BY <1>t, <2>1, <2>2 DEF NoNewApp
  <1>7. ASSUME NEW s \in Surfaces, NEW m \in Monitors, GetLockSurface(s, m)
        PROVE  NoNewApp(focus, focus')
    BY <1>7, <1>q DEF GetLockSurface
  <1>8. CASE PointerMotion
    BY <1>8, <1>t, LockedPointerPass DEF PointerMotion
  <1>9. CASE PlugKeyboard
    BY <1>9, <1>t DEF PlugKeyboard, NoNewApp, FocusType
  <1>10. CASE EndGrab
    BY <1>10, <1>t, LockedPointerPass DEF EndGrab
  <1>11. ASSUME NEW a \in Apps, LayerTakesFocus(a) PROVE NoNewApp(focus, focus')
    <2>1. PICK f \in PointerPass(focus, locked, sls, surf, None) \cup {focus} :
             focus' = RawSurfaceFocus(f, a, locked, sls, grab')
      BY <1>11 DEF LayerTakesFocus
    <2>2. NoNewApp(focus, f) \/ f = focus
      BY <1>t, <2>1, LockedPointerPass
    <2>3. NoNewApp(f, focus')
      BY <1>t, <2>1, LockedRawSurfaceFocus
    <2>. QED BY <2>2, <2>3 DEF NoNewApp
  <1>12. ASSUME NEW a \in Apps, AppSurfaceGone(a) PROVE NoNewApp(focus, focus')
    <2>. DEFINE Expire(x) == IF x = a THEN None ELSE x
                e == [kb |-> Expire(focus.kb), fs |-> Expire(focus.fs)]
    <2>1. focus' \in PointerPass(e, locked, sls, surf, grab)
      BY <1>12 DEF AppSurfaceGone
    <2>2. NoNewApp(focus, e)
      BY <1>t DEF NoNewApp
    <2>. HIDE DEF e
    <2>3. NoNewApp(e, focus')
      BY <1>t, <2>1, LockedPointerPass
    <2>. QED BY <2>2, <2>3 DEF NoNewApp
  <1>13. ASSUME NEW m \in Monitors, Connect(m) PROVE NoNewApp(focus, focus')
    BY <1>13, <1>t, LockedPointerPass DEF Connect
  <1>14. ASSUME NEW m \in Monitors, RenderLockFrame(m) \/ Disconnect(m) \/ Dpms(m)
         PROVE  NoNewApp(focus, focus')
    BY <1>14, <1>q DEF RenderLockFrame, Disconnect, Dpms
  <1>15. ASSUME NEW a \in Apps, StartGrab(a) PROVE FALSE
    BY <1>15 DEF StartGrab
  <1>16. CASE ClearCrashedLockscreen
    BY <1>16 DEF ClearCrashedLockscreen
  <1>17. CASE UnplugKeyboard \/ SendLockedTimeout \/ UNCHANGED vars
    BY <1>17, <1>q DEF UnplugKeyboard, SendLockedTimeout, vars
  <1>. QED
    BY <1>1, <1>2, <1>3, <1>4, <1>5, <1>6, <1>7, <1>8, <1>9, <1>10, <1>11, <1>12,
       <1>13, <1>14, <1>15, <1>16, <1>17 DEF Next, ClientStep, InputStep, MonitorStep

\* No request, focus pass, grab or hot-plug of a keyboard moves the keyboard
\* of a locked session to an ordinary surface it was not promised to before
\* (rawSurfaceFocus, the lock branch of mouseMoveUnified, newKeyboard).
THEOREM KeyboardStaysLocked == Spec => NoAppGainsFocus
  <1>1. TypeOK /\ [Next]_vars
           => [locked /\ locked' /\ focus'.kb \in Apps
                  => focus'.kb \in {focus.kb, focus.fs}]_vars
    BY StepNoApp
  <1>. QED BY <1>1, TypeCorrect, PTL DEF Spec, NoAppGainsFocus

-----------------------------------------------------------------------------
(* The keyboard reaches the lock, as long as the last keyboard stays. *)

\* Seat and focus state agree in f on the surfaces of S; without a keyboard the
\* seat has no focus; what has the focus was created at some time.
Fits(f, S, sf) ==
    /\ ~kbd => f.kb = None
    /\ kbd => \A s \in S : f.fs = s <=> f.kb = s
    /\ \A s \in Surfaces : s \in {f.kb, f.fs} => sf[s].role # "unused"

\* The lock surfaces, unless a foreign unlock left them listed.
Trusted == IF split THEN {} ELSE Listed(sls)

Distinct(list) == \A i, j \in DOMAIN list : list[i] = list[j] => i = j

\* The inductive invariant of the focus.  Its last conjunct says who has it by
\* the focus state; that the seat follows is in Fits.
FocusInv ==
    /\ Fits(focus, Trusted, surf)
    /\ Distinct(sls) /\ \A s \in Listed(sls) : surf[s].role = "live"
    /\ ~split /\ locked => grab = None
    /\ ~split /\ locked /\ Candidates(sls, surf) # {} => HeldByLock(focus, sls, surf)

LEMMA FirstOnIsListed ==
    ASSUME NEW list \in Seq(Surfaces), NEW sf, NEW m, FirstOn(list, sf, m) # None
    PROVE  FirstOn(list, sf, m) \in Listed(list)
  <1>. DEFINE on_m == {i \in DOMAIN list : sf[list[i]].mon = m}
              p == CHOOSE i \in on_m : \A j \in on_m : i <= j
  <1>1. on_m # {} /\ FirstOn(list, sf, m) = list[p]
    BY DEF FirstOn
  <1>2. DOMAIN list \subseteq Nat
    BY LenProperties
  <1>3. on_m \in SUBSET Nat
    BY <1>2
  <1>4. \E i \in on_m : \A j \in on_m : i <= j
    BY <1>1, <1>3, LeastNat
  <1>5. p \in on_m
    BY <1>4
  <1>. QED BY <1>1, <1>5 DEF Listed

LEMMA RawSurfaceFocusFits ==
    ASSUME NEW f, NEW S, NEW sf, Fits(f, S, sf),
           NEW s, s \in Surfaces => sf[s].role # "unused", NEW lk, NEW list, NEW g
    PROVE  Fits(RawSurfaceFocus(f, s, lk, list, g), S, sf)
  <1>1. CASE RawSurfaceFocus(f, s, lk, list, g) = f
    BY <1>1
  <1>2. CASE RawSurfaceFocus(f, s, lk, list, g) # f
    <2>. DEFINE r == [kb |-> IF kbd THEN s ELSE f.kb, fs |-> s]
    <2>1. RawSurfaceFocus(f, s, lk, list, g) = r
      BY <1>2 DEF RawSurfaceFocus
    <2>2. r.fs = s /\ r.kb = IF kbd THEN s ELSE f.kb
      OBVIOUS
    <2>. HIDE DEF r
    <2>. QED BY <2>1, <2>2 DEF Fits
  <1>. QED BY <1>1, <1>2

LEMMA AppFocusFits ==
    ASSUME NEW f, NEW S, NEW sf, Fits(f, S, sf), NEW g, NEW r \in AppFocus(f, g)
    PROVE  Fits(r, S, sf)
  <1>. DEFINE no == FALSE
  <1>1. r = f \/ \E a \in Nil(Apps) : r = RawSurfaceFocus(f, a, no, <<>>, g)
    BY DEF AppFocus
  <1>2. \A a \in Nil(Apps) : a \notin Surfaces
    BY ConstantsAssumption DEF Nil
  <1>. HIDE DEF no
  <1>3. \A a \in Nil(Apps) : Fits(RawSurfaceFocus(f, a, no, <<>>, g), S, sf)
    BY <1>2, RawSurfaceFocusFits
  <1>. QED BY <1>1, <1>3

LEMMA PointerPassFits ==
    ASSUME NEW f, NEW S, NEW sf, Fits(f, S, sf), NEW list \in Seq(Surfaces),
           \A s \in Listed(list) : sf[s].role # "unused", NEW lk, NEW g,
           NEW r \in PointerPass(f, lk, list, sf, g)
    PROVE  Fits(r, S, sf)
  <1>1. \/ r = f
        \/ r \in AppFocus(f, g)
        \/ \E s \in {FirstOn(list, sf, m) : m \in connected} \cap Surfaces :
              r = RawSurfaceFocus(f, s, lk, list, g)
    BY DEF PointerPass, LockPointerFocus
  <1>2. ASSUME NEW m, FirstOn(list, sf, m) \in Surfaces
        PROVE  Fits(RawSurfaceFocus(f, FirstOn(list, sf, m), lk, list, g), S, sf)
    <2>1. FirstOn(list, sf, m) \in Listed(list)
      BY <1>2, FirstOnIsListed, ConstantsAssumption
    <2>. QED BY <2>1, RawSurfaceFocusFits
  <1>. QED BY <1>1, <1>2, AppFocusFits

LEMMA RefocusedFits ==
    ASSUME NEW f, NEW S, NEW sf, Fits(f, S, sf), NEW list \in Seq(Surfaces),
           \A s \in Listed(list) : sf[s].role # "unused", NEW lk, NEW g,
           NEW r \in Refocused(f, lk, list, sf, g)
    PROVE  Fits(r, S, sf)
  <1>1. PICK pm : r = RefocusKeyboard(f, lk, list, sf, g, pm)
    BY DEF Refocused
  <1>2. CASE Candidates(list, sf) = {}
    BY <1>1, <1>2 DEF RefocusKeyboard
  <1>3. CASE Candidates(list, sf) # {}
    <2>1. Fits(RawSurfaceFocus(f, PickFocusCandidate(list, sf, pm), lk, list, g), S, sf)
      BY <1>3, PickIsCandidate, RawSurfaceFocusFits
    <2>. QED BY <1>1, <2>1 DEF RefocusKeyboard
  <1>. QED BY <1>2, <1>3

\* A pointer pass of a locked session hands the focus only from one living
\* lock surface to another.
LEMMA PointerPassHolds ==
    ASSUME NEW f, NEW lk, lk = TRUE, NEW list \in Seq(Surfaces), NEW sf, NEW g,
           NEW r \in PointerPass(f, lk, list, sf, g), HeldByLock(f, list, sf)
    PROVE  HeldByLock(r, list, sf)
  <1>1. \/ r = f
        \/ \E s \in {FirstOn(list, sf, m) : m \in connected} \cap {x \in Surfaces : sf[x].wl} :
              r = RawSurfaceFocus(f, s, lk, list, g)
    BY DEF PointerPass, LockPointerFocus
  <1>2. ASSUME NEW m, FirstOn(list, sf, m) \in Surfaces, sf[FirstOn(list, sf, m)].wl
        PROVE  HeldByLock(RawSurfaceFocus(f, FirstOn(list, sf, m), lk, list, g), list, sf)
    <2>1. FirstOn(list, sf, m) \in Listed(list)
      BY <1>2, FirstOnIsListed, ConstantsAssumption
    <2>. QED BY <1>2, <2>1 DEF RawSurfaceFocus, HeldByLock
  <1>. QED BY <1>1, <1>2

\* refocusKeyboard gives the focus to a living lock surface if one can take it.
LEMMA RefocusedHolds ==
    ASSUME NEW f, NEW lk, lk = TRUE, NEW list \in Seq(Surfaces), NEW sf, NEW g, g = None,
           cur # None, Candidates(list, sf) # {}, Fits(f, Listed(list), sf),
           NEW r \in Refocused(f, lk, list, sf, g)
    PROVE  HeldByLock(r, list, sf)
  <1>1. PICK pm : r = RefocusKeyboard(f, lk, list, sf, g, pm)
    BY DEF Refocused
  <1>. DEFINE p == PickFocusCandidate(list, sf, pm)
  <1>2. p \in Listed(list) /\ p \in Surfaces /\ sf[p].wl /\ p # None
    BY PickIsCandidate, ConstantsAssumption
  <1>. HIDE DEF p
  <1>3. CASE HeldByLock(f, list, sf)
    BY <1>1, <1>3 DEF RefocusKeyboard
  <1>4. CASE ~HeldByLock(f, list, sf)
    <2>1. r = RawSurfaceFocus(f, p, lk, list, g)
      BY <1>1, <1>4 DEF RefocusKeyboard, p
    <2>2. f.fs # p
      BY <1>2, <1>4 DEF HeldByLock
    <2>3. f.kb # p
      BY <1>2, <2>2 DEF Fits
    <2>4. r = [kb |-> IF kbd THEN p ELSE f.kb, fs |-> p]
      BY <1>2, <2>1, <2>3 DEF RawSurfaceFocus
    <2>. QED BY <1>2, <2>4 DEF HeldByLock
  <1>. QED BY <1>3, <1>4

\* An erased list has the others, each once.
LEMMA EraseLists ==
    ASSUME NEW list \in Seq(Surfaces), Distinct(list), NEW s \in Listed(list)
    PROVE  Distinct(Erase(list, s)) /\ Listed(Erase(list, s)) = Listed(list) \ {s}
  <1>. DEFINE i == CHOOSE k \in DOMAIN list : list[k] = s
              e == Erase(list, s)
  <1>1. Len(list) \in Nat /\ DOMAIN list = 1..Len(list)
    BY LenProperties
  <1>2. i \in 1..Len(list) /\ list[i] = s
    BY <1>1 DEF Listed
  <1>3. /\ DOMAIN e = 1..(Len(list) - 1)
        /\ \A j \in 1..(Len(list) - 1) : e[j] = IF j < i THEN list[j] ELSE list[j + 1]
    BY DEF Erase
  <1>. HIDE DEF i, e
  <1>4. \A j \in 1..(Len(list) - 1) : j \in 1..Len(list) /\ j + 1 \in 1..Len(list)
    BY <1>1
  <1>5. Distinct(e)
    <2>. SUFFICES ASSUME NEW j \in 1..(Len(list) - 1), NEW k \in 1..(Len(list) - 1),
                         e[j] = e[k]
                  PROVE  j = k
      BY <1>3 DEF Distinct
    <2>. DEFINE up(x) == IF x < i THEN x ELSE x + 1
    <2>1. \A x \in 1..(Len(list) - 1) : up(x) \in 1..Len(list) /\ e[x] = list[up(x)]
      BY <1>3, <1>4
    <2>2. up(j) = up(k) => j = k
      BY <1>1, <1>2
    <2>. HIDE DEF up
    <2>. QED BY <1>1, <2>1, <2>2 DEF Distinct
  <1>6. Listed(e) \subseteq Listed(list) \ {s}
    <2>. SUFFICES ASSUME NEW x \in Listed(e) PROVE x \in Listed(list) /\ x # s
      OBVIOUS
    <2>0. PICK j \in 1..(Len(list) - 1) : x = e[j]
      BY <1>3 DEF Listed
    <2>1. CASE j < i
      BY <1>1, <1>2, <1>3, <1>4, <2>0, <2>1 DEF Listed, Distinct
    <2>2. CASE ~(j < i)
      <3>1. x = list[j + 1] /\ j + 1 # i /\ j + 1 \in 1..Len(list)
        BY <1>2, <1>3, <1>4, <2>0, <2>2
      <3>. QED BY <1>1, <1>2, <3>1 DEF Listed, Distinct
    <2>. QED BY <2>1, <2>2
  <1>7. Listed(list) \ {s} \subseteq Listed(e)
    <2>. SUFFICES ASSUME NEW k \in 1..Len(list), list[k] # s PROVE list[k] \in Listed(e)
      BY <1>1 DEF Listed
    <2>1. CASE k < i
      <3>1. k \in 1..(Len(list) - 1) /\ e[k] = list[k]
        BY <1>1, <1>2, <1>3, <2>1
      <3>. QED BY <1>3, <3>1 DEF Listed
    <2>2. CASE ~(k < i)
      <3>1. k - 1 \in 1..(Len(list) - 1) /\ ~(k - 1 < i) /\ (k - 1) + 1 = k
        BY <1>1, <1>2, <2>2
      <3>2. e[k - 1] = list[k]
        BY <1>3, <3>1
      <3>. QED BY <1>3, <3>1, <3>2 DEF Listed
    <2>. QED BY <2>1, <2>2
  <1>. QED BY <1>5, <1>6, <1>7 DEF e

\* A focus that named surfaces in S names none where S is empty.
LEMMA FitsLess ==
    ASSUME NEW f, NEW S, NEW R, R \subseteq S, NEW sf, Fits(f, S, sf)
    PROVE  Fits(f, R, sf)
  BY DEF Fits

\* Only the roles matter to Fits, and only whether they were created.
LEMMA FitsLater ==
    ASSUME NEW f, NEW S, NEW sf, NEW tf, Fits(f, S, sf),
           \A s \in Surfaces : sf[s].role # "unused" => tf[s].role # "unused"
    PROVE  Fits(f, S, tf)
  BY DEF Fits

\* What the destroy listener of the seat clears, it clears in both places.
LEMMA ExpireFits ==
    ASSUME NEW f, NEW S \in SUBSET Surfaces, NEW sf, Fits(f, S, sf), NEW x
    PROVE  Fits([kb |-> IF f.kb = x THEN None ELSE f.kb,
                 fs |-> IF f.fs = x THEN None ELSE f.fs], S, sf)
  <1>. DEFINE k == IF f.kb = x THEN None ELSE f.kb
              n == IF f.fs = x THEN None ELSE f.fs
  <1>1. None \notin Surfaces
    BY ConstantsAssumption
  <1>2. \A s \in Surfaces : (k = s <=> f.kb = s /\ s # x) /\ (n = s <=> f.fs = s /\ s # x)
    BY <1>1
  <1>3. f.kb = None => k = None
    OBVIOUS
  <1>. HIDE DEF k, n
  <1>4. Fits([kb |-> k, fs |-> n], S, sf)
    BY <1>2, <1>3 DEF Fits
  <1>. QED BY <1>4 DEF k, n

LEMMA InitFocus == Init => FocusInv
  <1>. SUFFICES ASSUME Init PROVE FocusInv
    OBVIOUS
  <1>1. sls = <<>> /\ focus = [kb |-> None, fs |-> None] /\ grab = None /\ ~split
    BY DEF Init
  <1>2. Listed(sls) = {} /\ Candidates(sls, surf) = {} /\ Distinct(sls)
    BY <1>1 DEF Listed, Candidates, Distinct
  <1>3. Fits(focus, {}, surf)
    BY <1>1, ConstantsAssumption DEF Fits
  <1>. QED BY <1>1, <1>2, <1>3 DEF FocusInv, Trusted

\* What a step that neither adds nor removes the keyboard has to show: the
\* parts of FocusInv.
LEMMA FocusParts ==
    ASSUME kbd' = kbd, NEW S, split' \/ S = Listed(sls'), split' => S = {},
           Fits(focus', S, surf'),
           Distinct(sls'), \A s \in Listed(sls') : surf'[s].role = "live",
           ~split' /\ locked' => grab' = None,
           ~split' /\ locked' /\ Candidates(sls', surf') # {}
              => HeldByLock(focus', sls', surf')
    PROVE  FocusInv'
  <1>1. Trusted' = S
    BY DEF Trusted
  <1>2. Fits(focus, S, surf)'
    BY DEF Fits
  <1>3. Fits(focus, Trusted, surf)'
    BY <1>1, <1>2 DEF Fits
  <1>. QED BY <1>3 DEF FocusInv

\* Nothing is listed: nothing can be lost.
LEMMA FocusDropped ==
    ASSUME kbd' = kbd, sls' = <<>>, Fits(focus', {}, surf'),
           ~split' /\ locked' => grab' = None
    PROVE  FocusInv'
  <1>1. Listed(sls') = {} /\ Candidates(sls', surf') = {} /\ Distinct(sls')
    BY DEF Listed, Candidates, Distinct
  <1>. QED BY <1>1, FocusParts

\* Only the focus and the grab change.
LEMMA FocusMoved ==
    ASSUME FocusInv, UNCHANGED <<sls, surf, kbd, split, locked>>,
           ~split /\ locked => grab' = None,
           Fits(focus', Trusted, surf),
           ~split /\ locked /\ HeldByLock(focus, sls, surf)
              => HeldByLock(focus', sls, surf)
    PROVE  FocusInv'
  <1>1. (split' \/ Trusted = Listed(sls')) /\ (split' => Trusted = {})
    BY DEF Trusted
  <1>2. Distinct(sls') /\ \A s \in Listed(sls') : surf'[s].role = "live"
    BY DEF FocusInv
  <1>3. ~split' /\ locked' /\ Candidates(sls', surf') # {} => HeldByLock(focus', sls', surf')
    BY DEF FocusInv
  <1>4. Fits(focus', Trusted, surf') /\ (~split' /\ locked' => grab' = None)
    OBVIOUS
  <1>. QED BY <1>1, <1>2, <1>3, <1>4, FocusParts

\* Nothing the focus depends on changes, or a foreign unlock ends the trust.
LEMMA FocusKept ==
    ASSUME FocusInv, UNCHANGED <<sls, surf, focusVars>>,
           ~split' => ~split, ~split' /\ locked' => locked
    PROVE  FocusInv'
  <1>. DEFINE S == IF split' THEN {} ELSE Listed(sls)
  <1>1. S \subseteq Trusted \/ split'
    BY DEF Trusted
  <1>2. Fits(focus, S, surf)
    BY <1>1, FitsLess DEF FocusInv
  <1>3. (split' \/ S = Listed(sls')) /\ (split' => S = {}) /\ kbd' = kbd
    BY DEF focusVars
  <1>. HIDE DEF S
  <1>4. Fits(focus', S, surf') /\ (~split' /\ locked' => grab' = None)
    BY <1>2 DEF focusVars, FocusInv
  <1>5. Distinct(sls') /\ \A s \in Listed(sls') : surf'[s].role = "live"
    BY DEF FocusInv
  <1>6. ~split' /\ locked' /\ Candidates(sls', surf') # {} => HeldByLock(focus', sls', surf')
    BY DEF FocusInv, focusVars
  <1>. QED BY <1>3, <1>4, <1>5, <1>6, FocusParts

\* What is known before a step.
LEMMA FocusFacts ==
    ASSUME TypeOK, LockInv, FocusInv
    PROVE  /\ sls \in Seq(Surfaces) /\ Listed(sls) \subseteq Surfaces
           /\ Trusted \subseteq Listed(sls)
           /\ \A s \in Listed(sls) : surf[s].role = "live"
           /\ Fits(focus, Trusted, surf) /\ Fits(focus, {}, surf)
           /\ ~split /\ cur # None => locked
           /\ ~split /\ sls # <<>> => locked /\ cur # None
           /\ Candidates(sls, surf) # {} => sls # <<>>
           /\ None \notin Surfaces \cup Apps
  <1>1. sls \in Seq(Surfaces) /\ Listed(sls) \subseteq Surfaces
    BY ElementOfSeq DEF TypeOK, Listed
  <1>2. Trusted \subseteq Listed(sls)
    BY DEF Trusted
  <1>3. Fits(focus, Trusted, surf) /\ \A s \in Listed(sls) : surf[s].role = "live"
    BY DEF FocusInv
  <1>4. Fits(focus, {}, surf)
    BY <1>3, FitsLess
  <1>5. /\ ~split /\ cur # None => locked
        /\ ~split /\ sls # <<>> => locked /\ cur # None
    BY DEF LockInv
  <1>6. Candidates(sls, surf) # {} => sls # <<>>
    BY DEF Candidates
  <1>. QED BY <1>1, <1>2, <1>3, <1>4, <1>5, <1>6, ConstantsAssumption

\* Locking and unlocking.
LEMMA FocusLockSteps ==
    ASSUME TypeOK, LockInv, FocusInv, NEW l \in Locks,
           \/ LockDenied(l) \/ LockIgnored(l) \/ LockAdopted(l)
           \/ UnlockAndDestroy(l) \/ DestroyLock(l)
    PROVE  FocusInv'
  <1>. USE DEF mgrVars, focusVars, monVars, compVars
  <1>t. /\ Fits(focus, {}, surf) /\ (~split /\ cur # None => locked)
        /\ None \notin Surfaces /\ <<>> \in Seq(Surfaces) /\ Listed(<<>>) = {}
    BY FocusFacts, EmptySeq DEF Listed
  <1>c. \A lk : Fits(RawSurfaceFocus(focus, None, lk, <<>>, grab), {}, surf)
    BY <1>t, RawSurfaceFocusFits
  <1>1. CASE LockDenied(l)
    <2>1. UNCHANGED <<sls, surf, focusVars, split>> /\ locked
      BY <1>1 DEF LockDenied, MayRelock
    <2>. QED BY <2>1, FocusKept
  <1>2. CASE LockIgnored(l)
    <2>1. UNCHANGED <<sls, surf, focusVars, split>> /\ cur # None
      BY <1>2 DEF LockIgnored, Limbo
    <2>2. ~split' /\ locked' => locked
      BY <1>t, <2>1
    <2>. QED BY <2>1, <2>2, FocusKept
  <1>3. CASE LockAdopted(l)
    <2>. DEFINE cleared == RawSurfaceFocus(focus, None, locked, <<>>, grab)
    <2>1. focus' = cleared \/ focus' \in PointerPass(cleared, locked, <<>>, surf, None)
      BY <1>3 DEF LockAdopted
    <2>2. Fits(cleared, {}, surf)
      BY <1>c
    <2>3. \A s \in Listed(<<>>) : surf[s].role # "unused"
      BY <1>t
    <2>. HIDE DEF cleared
    <2>4. Fits(focus', {}, surf)
      BY <1>t, <2>1, <2>2, <2>3, PointerPassFits
    <2>5. kbd' = kbd /\ sls' = <<>> /\ surf' = surf /\ grab' = None
      BY <1>3 DEF LockAdopted
    <2>. QED BY <2>4, <2>5, FocusDropped
  <1>4. CASE UnlockAndDestroy(l)
    <2>1. CASE l = cur
      <3>1. focus' \in AppFocus(focus, grab)
        BY <1>4, <2>1 DEF UnlockAndDestroy
      <3>2. kbd' = kbd /\ sls' = <<>> /\ surf' = surf /\ ~locked'
        BY <1>4, <2>1 DEF UnlockAndDestroy, DropSessionLock
      <3>3. Fits(focus', {}, surf)
        BY <1>t, <3>1, AppFocusFits
      <3>. QED BY <3>2, <3>3, FocusDropped
    <2>2. CASE l # cur
      <3>1. UNCHANGED <<sls, surf, focusVars>> /\ split' /\ ~locked'
        BY <1>4, <2>2 DEF UnlockAndDestroy
      <3>. QED BY <3>1, FocusKept
    <2>. QED BY <2>1, <2>2
  <1>5. CASE DestroyLock(l)
    <2>1. CASE l = cur
      <3>1. focus' = RawSurfaceFocus(focus, None, locked, <<>>, grab)
        BY <1>5, <2>1 DEF DestroyLock
      <3>2. kbd' = kbd /\ sls' = <<>> /\ surf' = surf /\ UNCHANGED <<locked, split, grab>>
        BY <1>5, <2>1 DEF DestroyLock, DropSessionLock
      <3>3. Fits(focus', {}, surf)
        BY <1>c, <3>1
      <3>4. ~split' /\ locked' => grab' = None
        BY <3>2 DEF FocusInv
      <3>. QED BY <3>2, <3>3, <3>4, FocusDropped
    <2>2. CASE l # cur
      <3>1. UNCHANGED <<sls, surf, focusVars, split, locked>>
        BY <1>5, <2>2 DEF DestroyLock
      <3>. QED BY <3>1, FocusKept
    <2>. QED BY <2>1, <2>2
  <1>. QED BY <1>1, <1>2, <1>3, <1>4, <1>5

\* A new lock surface has no focus and cannot take it before its first commit.
LEMMA FocusGetSurface ==
    ASSUME TypeOK, LockInv, FocusInv, NEW s \in Surfaces, NEW m \in Monitors,
           GetLockSurface(s, m)
    PROVE  FocusInv'
  <1>. USE DEF lockVars, mgrVars, focusVars, monVars, compVars
  <1>1. /\ surf[s].role = "unused" /\ sls' = Append(sls, s)
        /\ UNCHANGED <<locked, focus, kbd, grab, split>>
    BY DEF GetLockSurface
  <1>2. surf \in [Surfaces -> SurfType] /\ sls \in Seq(Surfaces) /\ Len(sls) \in Nat
    BY LenProperties DEF TypeOK, SurfType
  <1>3. /\ surf'[s].role = "live" /\ ~surf'[s].mapped
        /\ \A x \in Surfaces : x # s => surf'[x] = surf[x]
    BY <1>2 DEF GetLockSurface
  <1>4. s \notin Listed(sls)
    BY <1>1, FocusFacts
  <1>5. /\ DOMAIN sls = 1..Len(sls) /\ DOMAIN sls' = 1..(Len(sls) + 1)
        /\ sls'[Len(sls) + 1] = s /\ \A i \in 1..Len(sls) : sls'[i] = sls[i]
    BY <1>1, <1>2, AppendProperties, LenProperties
  <1>6. Listed(sls') = Listed(sls) \cup {s}
    <2>1. \A i \in 1..(Len(sls) + 1) : i \in 1..Len(sls) \/ i = Len(sls) + 1
      BY <1>2
    <2>2. Len(sls) + 1 \in 1..(Len(sls) + 1) /\ 1..Len(sls) \subseteq 1..(Len(sls) + 1)
      BY <1>2
    <2>. QED BY <1>5, <2>1, <2>2 DEF Listed
  <1>7. Distinct(sls')
    <2>1. \A i \in 1..Len(sls) : sls[i] # s
      BY <1>4, <1>5 DEF Listed
    <2>2. \A i \in 1..(Len(sls) + 1) : i \in 1..Len(sls) \/ i = Len(sls) + 1
      BY <1>2
    <2>3. Distinct(sls)
      BY DEF FocusInv
    <2>. QED BY <1>5, <2>1, <2>2, <2>3 DEF Distinct
  <1>8. Candidates(sls', surf') \subseteq Candidates(sls, surf)
    <2>. SUFFICES ASSUME NEW i \in Candidates(sls', surf') PROVE i \in Candidates(sls, surf)
      OBVIOUS
    <2>1. i \in 1..(Len(sls) + 1) /\ surf'[sls'[i]].mapped /\ surf'[sls'[i]].wl
      BY <1>5 DEF Candidates
    <2>2. i # Len(sls) + 1
      BY <1>3, <1>5, <2>1
    <2>3. i \in 1..Len(sls) /\ sls'[i] = sls[i]
      BY <1>2, <1>5, <2>1, <2>2
    <2>4. sls[i] \in Listed(sls) /\ sls[i] \in Surfaces
      BY <1>5, <2>3, FocusFacts DEF Listed
    <2>. QED BY <1>3, <1>4, <1>5, <2>1, <2>3, <2>4 DEF Candidates
  <1>9. HeldByLock(focus, sls, surf) => HeldByLock(focus', sls', surf')
    BY <1>1, <1>3, <1>4, <1>6, FocusFacts DEF HeldByLock
  <1>10. s \notin {focus.kb, focus.fs}
    BY <1>1 DEF FocusInv, Fits
  <1>. DEFINE S == IF split THEN {} ELSE Listed(sls')
  <1>11. Fits(focus, S, surf)
    <2>1. S \subseteq Trusted \cup {s}
      BY <1>6 DEF Trusted
    <2>2. Fits(focus, Trusted, surf)
      BY FocusFacts
    <2>. HIDE DEF S
    <2>. QED BY <1>10, <2>1, <2>2 DEF Fits
  <1>12. \A x \in Surfaces : surf[x].role # "unused" => surf'[x].role # "unused"
    BY <1>1, <1>3
  <1>13. (split' \/ S = Listed(sls')) /\ (split' => S = {}) /\ kbd' = kbd
    BY <1>1
  <1>. HIDE DEF S
  <1>14. Fits(focus', S, surf')
    BY <1>1, <1>11, <1>12, FitsLater
  <1>15. \A x \in Listed(sls') : surf'[x].role = "live"
    BY <1>3, <1>4, <1>6, FocusFacts
  <1>16. ~split' /\ locked' => grab' = None
    BY <1>1 DEF FocusInv
  <1>17. ~split' /\ locked' /\ Candidates(sls', surf') # {} => HeldByLock(focus', sls', surf')
    BY <1>1, <1>8, <1>9 DEF FocusInv
  <1>. QED BY <1>7, <1>13, <1>14, <1>15, <1>16, <1>17, FocusParts

\* Mapping a lock surface: the pointer pass may take the focus there, and
\* refocusKeyboard makes sure some lock surface has it.
LEMMA FocusCommitSurface ==
    ASSUME TypeOK, LockInv, FocusInv, NEW s \in Surfaces, CommitLockSurface(s)
    PROVE  FocusInv'
  <1>. USE DEF lockVars, mgrVars, focusVars, monVars, compVars
  <1>t. surf \in [Surfaces -> SurfType] /\ sls \in Seq(Surfaces)
    BY DEF TypeOK, SurfType
  <1>1. /\ UNCHANGED <<locked, cur, sls, kbd, grab, split>> /\ s \in Listed(sls)
        /\ surf' = [surf EXCEPT ![s].mapped = TRUE]
    BY DEF CommitLockSurface
  <1>2. PICK f \in PointerPass(focus, locked, sls, surf', grab) :
           focus' \in Refocused(f, locked, sls, surf', grab)
    BY DEF CommitLockSurface
  <1>3. \A x \in Surfaces : surf'[x].role = surf[x].role
    BY <1>1, <1>t
  <1>4. /\ \A x \in Surfaces : surf[x].role # "unused" => surf'[x].role # "unused"
        /\ \A x \in Listed(sls) : surf'[x].role = "live" /\ surf'[x].role # "unused"
    BY <1>3, FocusFacts
  <1>5. Fits(focus, Trusted, surf')
    BY <1>4, FitsLater, FocusFacts
  <1>6. Fits(f, Trusted, surf')
    BY <1>t, <1>2, <1>4, <1>5, PointerPassFits
  <1>7. Fits(focus', Trusted, surf')
    BY <1>t, <1>2, <1>4, <1>6, RefocusedFits
  <1>8. ASSUME ~split, locked, Candidates(sls, surf') # {}
        PROVE  HeldByLock(focus', sls, surf')
    <2>1. sls # <<>>
      BY <1>8 DEF Candidates
    <2>2. cur # None /\ grab = None /\ locked = TRUE
      BY <1>8, <2>1, FocusFacts DEF TypeOK, FocusInv
    <2>3. Fits(f, Listed(sls), surf')
      BY <1>6, <1>8 DEF Trusted
    <2>. QED BY <1>t, <1>2, <1>8, <2>2, <2>3, RefocusedHolds
  <1>9. /\ (split' \/ Trusted = Listed(sls')) /\ (split' => Trusted = {}) /\ kbd' = kbd
        /\ Distinct(sls') /\ \A x \in Listed(sls') : surf'[x].role = "live"
        /\ ~split' /\ locked' => grab' = None
    BY <1>1, <1>4 DEF Trusted, FocusInv
  <1>10. ~split' /\ locked' /\ Candidates(sls', surf') # {} => HeldByLock(focus', sls', surf')
    BY <1>1, <1>8
  <1>. QED BY <1>7, <1>9, <1>10, FocusParts

\* Destroying the role object: refocusKeyboard runs after it left the list.
LEMMA FocusDestroySurface ==
    ASSUME TypeOK, LockInv, FocusInv, NEW s \in Surfaces, DestroyLockSurface(s)
    PROVE  FocusInv'
  <1>. USE DEF lockVars, mgrVars, focusVars, monVars, compVars
  <1>t. surf \in [Surfaces -> SurfType] /\ sls \in Seq(Surfaces)
    BY DEF TypeOK, SurfType
  <1>1. /\ UNCHANGED <<locked, cur, kbd, grab, split>>
        /\ surf' = [surf EXCEPT ![s].role = "gone", ![s].mapped = FALSE]
    BY DEF DestroyLockSurface
  <1>2. /\ \A x \in Surfaces : x # s => surf'[x] = surf[x]
        /\ surf'[s].role = "gone"
    BY <1>1, <1>t
  <1>3. \A x \in Surfaces : surf[x].role # "unused" => surf'[x].role # "unused"
    BY <1>2
  <1>4. Fits(focus, Trusted, surf')
    BY <1>3, FitsLater, FocusFacts
  <1>5. /\ Distinct(sls) /\ (~split' /\ locked' => grab' = None)
        /\ \A x \in Listed(sls) : x # s => surf'[x].role = "live"
    BY <1>1, <1>2, FocusFacts DEF FocusInv
  <1>6. CASE s \in Listed(sls)
    <2>1. /\ sls' = Erase(sls, s) /\ focus' \in Refocused(focus, locked, sls', surf', grab)
      BY <1>6 DEF DestroyLockSurface
    <2>2. sls' \in Seq(Surfaces) /\ Distinct(sls') /\ Listed(sls') = Listed(sls) \ {s}
      BY <1>t, <1>5, <1>6, <2>1, EraseType, EraseLists
    <2>3. \A x \in Listed(sls') : surf'[x].role = "live" /\ surf'[x].role # "unused"
      BY <1>5, <2>2
    <2>. DEFINE S == IF split THEN {} ELSE Listed(sls')
    <2>4. S \subseteq Trusted
      BY <2>2 DEF Trusted
    <2>5. (split' \/ S = Listed(sls')) /\ (split' => S = {}) /\ (~split => S = Listed(sls'))
      BY <1>1
    <2>. HIDE DEF S
    <2>6. Fits(focus, S, surf')
      BY <1>4, <2>4, FitsLess
    <2>7. Fits(focus', S, surf')
      BY <2>1, <2>2, <2>3, <2>6, RefocusedFits
    <2>8. ASSUME ~split, locked, Candidates(sls', surf') # {}
          PROVE  HeldByLock(focus', sls', surf')
      <3>1. sls # <<>>
        BY <1>6 DEF Listed
      <3>2. cur # None /\ grab = None /\ locked = TRUE
        BY <2>8, <3>1, FocusFacts DEF TypeOK, FocusInv
      <3>3. Fits(focus, Listed(sls'), surf')
        BY <2>5, <2>6, <2>8
      <3>. QED BY <2>1, <2>2, <2>8, <3>2, <3>3, RefocusedHolds
    <2>9. ~split' /\ locked' /\ Candidates(sls', surf') # {} => HeldByLock(focus', sls', surf')
      BY <1>1, <2>8
    <2>. QED BY <1>1, <1>5, <2>2, <2>3, <2>5, <2>7, <2>9, FocusParts
  <1>7. CASE s \notin Listed(sls)
    <2>1. sls' = sls /\ focus' = focus
      BY <1>7 DEF DestroyLockSurface
    <2>2. \A x \in Listed(sls) : surf'[x] = surf[x] /\ surf'[x].role = "live"
      BY <1>2, <1>5, <1>7, FocusFacts
    <2>3. Candidates(sls, surf') = Candidates(sls, surf)
      BY <2>2 DEF Candidates, Listed
    <2>4. HeldByLock(focus, sls, surf) => HeldByLock(focus, sls, surf')
      BY <2>2 DEF HeldByLock
    <2>5. ~split' /\ locked' /\ Candidates(sls', surf') # {} => HeldByLock(focus', sls', surf')
      BY <1>1, <2>1, <2>3, <2>4 DEF FocusInv
    <2>6. /\ (split' \/ Trusted = Listed(sls')) /\ (split' => Trusted = {})
          /\ Fits(focus', Trusted, surf') /\ \A x \in Listed(sls') : surf'[x].role = "live"
          /\ Distinct(sls') /\ kbd' = kbd
      BY <1>1, <1>4, <1>5, <2>1, <2>2 DEF Trusted
    <2>. QED BY <1>5, <2>5, <2>6, FocusParts
  <1>. QED BY <1>6, <1>7

\* Destroying the wl_surface of the holder: the focus is handed on before the
\* seat forgets the surface.
LEMMA FocusDestroyWl ==
    ASSUME TypeOK, LockInv, FocusInv, NEW s \in Surfaces, DestroyWlSurface(s)
    PROVE  FocusInv'
  <1>. USE DEF lockVars, mgrVars, focusVars, monVars, compVars
  <1>t. surf \in [Surfaces -> SurfType] /\ sls \in Seq(Surfaces)
    BY DEF TypeOK, SurfType
  <1>1. /\ UNCHANGED <<locked, cur, sls, kbd, grab, split>>
        /\ surf' = [surf EXCEPT ![s].wl = FALSE]
    BY DEF DestroyWlSurface
  <1>2. /\ \A x \in Surfaces : x # s => surf'[x] = surf[x]
        /\ \A x \in Surfaces : surf'[x].role = surf[x].role
        /\ ~surf'[s].wl
    BY <1>1, <1>t DEF SurfType
  <1>3. /\ \A x \in Surfaces : surf[x].role # "unused" => surf'[x].role # "unused"
        /\ \A x \in Listed(sls) : surf'[x].role = "live" /\ surf'[x].role # "unused"
    BY <1>2, FocusFacts
  <1>4. Fits(focus, Trusted, surf')
    BY <1>3, FitsLater, FocusFacts
  <1>5. PICK f \in IF surf[s].role = "live" /\ focus.fs = s
                   THEN Refocused(focus, locked, sls, surf', grab) ELSE {focus} :
           focus' = [kb |-> IF f.kb = s THEN None ELSE f.kb,
                     fs |-> IF f.fs = s THEN None ELSE f.fs]
    BY DEF DestroyWlSurface
  <1>6. Fits(f, Trusted, surf')
    BY <1>t, <1>3, <1>4, <1>5, RefocusedFits
  <1>7. Fits(focus', Trusted, surf')
    <2>1. Trusted \in SUBSET Surfaces
      BY FocusFacts
    <2>. QED BY <1>5, <1>6, <2>1, ExpireFits
  <1>8. ASSUME ~split, locked, Candidates(sls, surf') # {}
        PROVE  HeldByLock(focus', sls, surf')
    <2>1. Candidates(sls, surf') \subseteq Candidates(sls, surf)
      <3>. SUFFICES ASSUME NEW i \in Candidates(sls, surf') PROVE i \in Candidates(sls, surf)
        OBVIOUS
      <3>1. i \in DOMAIN sls /\ surf'[sls[i]].wl /\ surf'[sls[i]].mapped
        BY DEF Candidates
      <3>2. sls[i] # s /\ sls[i] \in Surfaces
        BY <1>2, <3>1, FocusFacts DEF Listed
      <3>3. surf'[sls[i]] = surf[sls[i]]
        BY <1>2, <3>2
      <3>. QED BY <3>1, <3>3 DEF Candidates
    <2>2. focus.fs \in Listed(sls) /\ surf[focus.fs].wl /\ focus.fs \in Surfaces
      BY <1>8, <2>1, FocusFacts DEF FocusInv, HeldByLock
    <2>3. f.fs \in Listed(sls) /\ surf'[f.fs].wl
      <3>1. CASE focus.fs = s
        <4>1. surf[s].role = "live"
          BY <2>2, <3>1, FocusFacts
        <4>2. f \in Refocused(focus, locked, sls, surf', grab)
          BY <1>5, <3>1, <4>1
        <4>3. sls # <<>>
          BY <1>8 DEF Candidates
        <4>4. cur # None /\ grab = None /\ locked = TRUE
          BY <1>8, <4>3, FocusFacts DEF TypeOK, FocusInv
        <4>5. Fits(focus, Listed(sls), surf')
          BY <1>4, <1>8 DEF Trusted
        <4>6. HeldByLock(f, sls, surf')
          BY <1>t, <1>8, <4>2, <4>4, <4>5, RefocusedHolds
        <4>. QED BY <4>6 DEF HeldByLock
      <3>2. CASE focus.fs # s
        BY <1>2, <1>5, <2>2, <3>2
      <3>. QED BY <3>1, <3>2
    <2>4. f.fs # s
      BY <1>2, <2>3, FocusFacts
    <2>5. focus'.fs = f.fs
      BY <1>5, <2>4
    <2>. QED BY <2>3, <2>5 DEF HeldByLock
  <1>9. /\ (split' \/ Trusted = Listed(sls')) /\ (split' => Trusted = {}) /\ kbd' = kbd
        /\ Distinct(sls') /\ \A x \in Listed(sls') : surf'[x].role = "live"
        /\ ~split' /\ locked' => grab' = None
    BY <1>1, <1>3 DEF Trusted, FocusInv
  <1>10. ~split' /\ locked' /\ Candidates(sls', surf') # {} => HeldByLock(focus', sls', surf')
    BY <1>1, <1>8
  <1>. QED BY <1>7, <1>9, <1>10, FocusParts

\* Pointer, keyboard, grabs, ordinary surfaces and outputs.
LEMMA FocusInputSteps ==
    ASSUME TypeOK, LockInv, FocusInv,
           \/ PointerMotion \/ PlugKeyboard \/ EndGrab
           \/ \E a \in Apps : StartGrab(a) \/ LayerTakesFocus(a) \/ AppSurfaceGone(a)
           \/ \E m \in Monitors : Connect(m)
    PROVE  FocusInv'
  <1>. USE DEF lockVars, mgrVars, focusVars, monVars, compVars
  <1>t. /\ sls \in Seq(Surfaces) /\ Fits(focus, Trusted, surf) /\ (locked => locked = TRUE)
        /\ (~split /\ locked => grab = None)
        /\ \A a \in Apps : a \notin Surfaces /\ a # None /\ a \notin Listed(sls)
    BY FocusFacts, ConstantsAssumption DEF TypeOK, FocusInv
  <1>u. \A s \in Listed(sls) : surf[s].role # "unused"
    BY FocusFacts
  <1>1. ASSUME NEW f, Fits(f, Trusted, surf), NEW g,
               focus' \in PointerPass(f, locked, sls, surf, g),
               HeldByLock(focus, sls, surf) => HeldByLock(f, sls, surf),
               UNCHANGED <<sls, surf, kbd, split, locked>>, grab' \in {grab, None}
        PROVE  FocusInv'
    <2>1. Fits(focus', Trusted, surf)
      BY <1>t, <1>u, <1>1, PointerPassFits
    <2>2. ~split /\ locked /\ HeldByLock(focus, sls, surf) => HeldByLock(focus', sls, surf)
      BY <1>t, <1>1, PointerPassHolds
    <2>3. ~split /\ locked => grab' = None
      BY <1>t, <1>1
    <2>. QED BY <1>1, <2>1, <2>2, <2>3, FocusMoved
  <1>2. CASE PointerMotion
    BY <1>2, <1>1, <1>t DEF PointerMotion
  <1>3. CASE EndGrab
    BY <1>3, <1>1, <1>t DEF EndGrab
  <1>4. ASSUME NEW m \in Monitors, Connect(m) PROVE FocusInv'
    BY <1>4, <1>1, <1>t DEF Connect
  <1>5. ASSUME NEW a \in Apps, AppSurfaceGone(a) PROVE FocusInv'
    <2>. DEFINE e == [kb |-> IF focus.kb = a THEN None ELSE focus.kb,
                      fs |-> IF focus.fs = a THEN None ELSE focus.fs]
    <2>1. /\ focus' \in PointerPass(e, locked, sls, surf, grab)
          /\ UNCHANGED <<sls, surf, kbd, split, locked, grab>>
      BY <1>5 DEF AppSurfaceGone
    <2>2. Trusted \in SUBSET Surfaces
      BY FocusFacts
    <2>3. Fits(e, Trusted, surf)
      BY <1>t, <2>2, ExpireFits
    <2>4. HeldByLock(focus, sls, surf) => HeldByLock(e, sls, surf)
      BY <1>t DEF HeldByLock
    <2>. HIDE DEF e
    <2>. QED BY <1>1, <2>1, <2>3, <2>4
  <1>6. ASSUME NEW a \in Apps, LayerTakesFocus(a) PROVE FocusInv'
    <2>1. PICK f \in IF grab \notin {None, a}
                     THEN PointerPass(focus, locked, sls, surf, None) ELSE {focus} :
             focus' = RawSurfaceFocus(f, a, locked, sls, grab')
      BY <1>6 DEF LayerTakesFocus
    <2>2. /\ UNCHANGED <<sls, surf, kbd, split, locked>>
          /\ grab' = IF grab \notin {None, a} THEN None ELSE grab
      BY <1>6 DEF LayerTakesFocus
    <2>3. Fits(f, Trusted, surf)
      BY <1>t, <1>u, <2>1, PointerPassFits
    <2>4. Fits(focus', Trusted, surf)
      BY <1>t, <2>1, <2>3, RawSurfaceFocusFits
    <2>5. ~split /\ locked => f = focus /\ grab' = None
      BY <1>t, <2>1, <2>2
    <2>6. ~split /\ locked => focus' = focus
      BY <1>t, <2>1, <2>5 DEF RawSurfaceFocus
    <2>. QED BY <2>2, <2>4, <2>5, <2>6, FocusMoved
  <1>7. ASSUME NEW a \in Apps, StartGrab(a) PROVE FocusInv'
    <2>1. /\ UNCHANGED <<sls, surf, kbd, split, locked>> /\ ~locked
          /\ focus' = IF kbd THEN [focus EXCEPT !.kb = a] ELSE focus
      BY <1>7 DEF StartGrab
    <2>2. split \/ sls = <<>>
      BY <2>1, FocusFacts
    <2>3. Trusted = {}
      BY <2>2 DEF Trusted, Listed
    <2>4. focus \in FocusType
      BY DEF TypeOK, FocusType
    <2>5. Fits(focus', {}, surf)
      <3>1. CASE kbd
        <4>1. focus'.kb = a /\ focus'.fs = focus.fs
          BY <2>1, <2>4, <3>1 DEF FocusType
        <4>. QED BY <1>t, <3>1, <4>1 DEF Fits
      <3>2. CASE ~kbd
        BY <1>t, <2>1, <2>3, <3>2
      <3>. QED BY <3>1, <3>2
    <2>. QED BY <2>1, <2>3, <2>5, FocusMoved
  <1>8. CASE PlugKeyboard
    <2>1. /\ UNCHANGED <<sls, surf, split, locked, grab>> /\ ~kbd /\ kbd' = TRUE
          /\ focus' = IF focus.fs # None THEN [focus EXCEPT !.kb = focus.fs] ELSE focus
      BY <1>8 DEF PlugKeyboard
    <2>2. focus \in FocusType
      BY DEF TypeOK, FocusType
    <2>3. focus.kb = None
      BY <1>t, <2>1 DEF Fits
    <2>4. focus'.fs = focus.fs /\ focus'.kb = focus.fs
      BY <2>1, <2>2, <2>3 DEF FocusType
    <2>5. \A s \in Surfaces : s \in {focus'.kb, focus'.fs} => surf'[s].role # "unused"
      BY <1>t, <2>1, <2>4 DEF Fits
    <2>6. Fits(focus, Trusted, surf)'
      BY <2>1, <2>4, <2>5 DEF Fits
    <2>7. HeldByLock(focus', sls', surf') <=> HeldByLock(focus, sls, surf)
      BY <2>1, <2>4 DEF HeldByLock
    <2>8. Candidates(sls', surf') = Candidates(sls, surf)
      BY <2>1
    <2>. QED BY <2>1, <2>6, <2>7, <2>8 DEF FocusInv
  <1>. QED BY <1>2, <1>3, <1>4, <1>5, <1>6, <1>7, <1>8

LEMMA StepFocus ==
    ASSUME ~KeyboardUnplugs
    PROVE  TypeOK /\ LockInv /\ FocusInv /\ [Next]_vars => FocusInv'
  <1>. SUFFICES ASSUME TypeOK, LockInv, FocusInv, [Next]_vars PROVE FocusInv'
    OBVIOUS
  <1>1. ASSUME NEW l \in Locks,
               \/ LockDenied(l) \/ LockIgnored(l) \/ LockAdopted(l)
               \/ UnlockAndDestroy(l) \/ DestroyLock(l)
        PROVE  FocusInv'
    BY <1>1, FocusLockSteps
  <1>2. ASSUME NEW s \in Surfaces,
               \/ \E m \in Monitors : GetLockSurface(s, m)
               \/ CommitLockSurface(s) \/ DestroyLockSurface(s) \/ DestroyWlSurface(s)
        PROVE  FocusInv'
    BY <1>2, FocusGetSurface, FocusCommitSurface, FocusDestroySurface, FocusDestroyWl
  <1>3. CASE \/ PointerMotion \/ PlugKeyboard \/ EndGrab
             \/ \E a \in Apps : StartGrab(a) \/ LayerTakesFocus(a) \/ AppSurfaceGone(a)
             \/ \E m \in Monitors : Connect(m)
    BY <1>3, FocusInputSteps
  <1>4. CASE UnplugKeyboard
    BY <1>4 DEF UnplugKeyboard
  <1>5. ASSUME NEW m \in Monitors, RenderLockFrame(m) \/ Disconnect(m) \/ Dpms(m)
        PROVE  FocusInv'
    <2>1. UNCHANGED <<sls, surf, focusVars, split, locked>>
      BY <1>5 DEF RenderLockFrame, Disconnect, Dpms, lockVars, mgrVars
    <2>. QED BY <2>1, FocusKept
  <1>6. CASE SendLockedTimeout \/ UNCHANGED vars
    <2>1. UNCHANGED <<sls, surf, focusVars, split, locked>>
      BY <1>6 DEF SendLockedTimeout, vars, focusVars
    <2>. QED BY <2>1, FocusKept
  <1>7. CASE ClearCrashedLockscreen
    <2>. DEFINE no == FALSE
                cleared == RawSurfaceFocus(focus, None, no, <<>>, grab)
    <2>1. /\ focus' \in AppFocus(cleared, grab) /\ ~locked'
          /\ kbd' = kbd /\ sls' = <<>> /\ surf' = surf
      BY <1>7 DEF ClearCrashedLockscreen, DropSessionLock
    <2>. HIDE DEF no
    <2>2. Fits(focus, {}, surf) /\ None \notin Surfaces
      BY FocusFacts
    <2>3. Fits(cleared, {}, surf)
      BY <2>2, RawSurfaceFocusFits
    <2>. HIDE DEF cleared
    <2>4. Fits(focus', {}, surf)
      BY <2>1, <2>3, AppFocusFits
    <2>. QED BY <2>1, <2>4, FocusDropped
  <1>. QED
    BY <1>1, <1>2, <1>3, <1>4, <1>5, <1>6, <1>7
       DEF Next, ClientStep, InputStep, MonitorStep

\* As long as the last keyboard is not unplugged, a lock that could have the
\* keyboard has it: whatever the order of locking, mapping, destroying,
\* re-locking, grabs, pointer motion and hot-plugged outputs and keyboards
\* (refocusKeyboard, onNewSessionLock, newKeyboard).
THEOREM KeyboardReaches == ~KeyboardUnplugs /\ Spec => []KeyboardReachesLock
  <1>. SUFFICES ASSUME ~KeyboardUnplugs PROVE Spec => []KeyboardReachesLock
    OBVIOUS
  <1>1. TypeOK /\ LockInv /\ FocusInv /\ [Next]_vars => FocusInv'
    BY StepFocus
  <1>2. FocusInv => KeyboardReachesLock
    <2>. SUFFICES ASSUME FocusInv, locked, ~split, kbd, Candidates(sls, surf) # {}
                  PROVE  focus.kb \in {s \in Listed(sls) : surf[s].wl}
      BY DEF KeyboardReachesLock
    <2>1. focus.fs \in {s \in Listed(sls) : surf[s].wl}
      BY DEF FocusInv, HeldByLock
    <2>2. focus.kb = focus.fs
      BY <2>1 DEF FocusInv, Fits, Trusted
    <2>. QED BY <2>1, <2>2
  <1>. QED BY <1>1, <1>2, InitFocus, LockInvariant, PTL DEF Spec

=============================================================================
