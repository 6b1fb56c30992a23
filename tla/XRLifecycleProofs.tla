-------------------------- MODULE XRLifecycleProofs --------------------------
(***************************************************************************)
(* For both settings of the re-probe and of its watch: every session       *)
(* object has one owner and there is one at a time, what the frame thread  *)
(* uses outlives it, and a disable by the user holds, as far as            *)
(* DisableHolds says.                                                      *)
(*                                                                         *)
(* The invariants are not inductive as they stand: what the main thread    *)
(* knows of the other threads - three flags and a pending pointer - has to *)
(* agree with where they are.                                              *)
(***************************************************************************)
EXTENDS XRLifecycle, TLAPS

\* The flags of the manager say where its threads are.
FlagsKnowThreads ==
    /\ hsPending <=> worker \in {"calling", "done"}
    /\ hsFlag <=> worker # "none"
    /\ brFlag <=> helper = "abandoned"

\* One thread of a session at a time, and the main thread's place in it.
OneThread ==
    /\ worker # "none" => helper = "none" /\ thread = "none"
    /\ helper # "none" => thread = "none"
    /\ main = "parked" <=> helper \in {"working", "ok", "failed"}
    /\ main = "probing" <=> gpuProbe # "none"
    /\ main = "probing" => worker = "none" /\ helper = "none" /\ thread = "none"
    /\ state = "starting" <=> hsPending \/ main \in {"probing", "parked"}

\* What the threads of a session agree on.
Agreement ==
    /\ FlagsKnowThreads
    /\ OneThread
    /\ OneSession
    /\ JoinBeforeTeardown

XRInv == TypeOK /\ Agreement

\* TypeOK in the groups that the steps change together.
CfgType    == manual \in BOOLEAN /\ enabled \in BOOLEAN /\ floor \in BOOLEAN
              /\ seen \in {"never", "no", "yes"}
ThreadType == /\ state \in {"disabled", "unavailable", "starting", "running", "stopping"}
              /\ main \in {"loop", "probing", "parked", "joining"}
              /\ worker \in {"none", "calling", "abandoned", "done"}
              /\ hsPending \in BOOLEAN /\ hsFlag \in BOOLEAN
              /\ helper \in {"none", "working", "abandoned", "ok", "failed"}
              /\ brFlag \in BOOLEAN
              /\ gpuProbe \in {"none", "devices", "query", "vulkan"}
              /\ live \in Nat
              /\ thread \in {"none", "run", "exited"}
              /\ run \in BOOLEAN
ChanType   == /\ answer \in {"ok", "failed"}
              /\ hsFd \in BOOLEAN /\ stopLost \in BOOLEAN
              /\ exit \in [requested: BOOLEAN, lost: BOOLEAN]
              /\ req \in BOOLEAN /\ chan \in BOOLEAN /\ later \in BOOLEAN
ProbeType  == /\ timer \in BOOLEAN /\ debounce \in BOOLEAN /\ watch \in BOOLEAN
              /\ fsEvent \in BOOLEAN /\ recent \in BOOLEAN
EnvType    == runtime \in BOOLEAN /\ tainted \in BOOLEAN /\ stray \in BOOLEAN

-----------------------------------------------------------------------------
(* What the helpers of the actions do *)

LEMMA TypeParts == TypeOK <=> CfgType /\ ThreadType /\ ChanType /\ ProbeType /\ EnvType
  BY DEF TypeOK, CfgType, ThreadType, ChanType, ProbeType, EnvType

LEMMA TypePartsKept == TypeOK' <=> CfgType' /\ ThreadType' /\ ChanType' /\ ProbeType' /\ EnvType'
  BY DEF TypeOK, CfgType, ThreadType, ChanType, ProbeType, EnvType

LEMMA DormantTypes ==
    ASSUME NEW en \in BOOLEAN, NEW activity \in BOOLEAN, GoDormant(en, activity)
    PROVE  state' = "unavailable" /\ ProbeType'
  <1>1. {debounce', fsEvent', watch', recent', timer'} \subseteq BOOLEAN
    BY SwitchesAssumption DEF GoDormant, ShouldArmReprobeTimer
  <1>. QED BY <1>1 DEF GoDormant, ProbeType

LEMMA DisarmTypes ==
    ASSUME Disarm, recent' \in BOOLEAN
    PROVE  ProbeType'
  <1>1. {debounce', fsEvent', watch', timer'} \subseteq BOOLEAN
    BY DEF Disarm
  <1>. QED BY <1>1 DEF ProbeType

\* A start finds neither worker, nor helper, nor frame thread.
LEMMA StartKeeps ==
    ASSUME XRInv, NEW en \in BOOLEAN, Start(en), later' = later
    PROVE  Agreement' /\ ThreadType' /\ ChanType' /\ ProbeType' /\ EnvType'
  <1>. USE TypeParts DEF XRInv
  <1>1. UNCHANGED <<main, helper, brFlag, gpuProbe, stray, thread, run, stopLost, exit, chan,
                    later, runtime, tainted, answer, hsFd>> /\ req' = FALSE
    BY DEF Start, BeginHandshake, Refuse, bringVars, frameVars, envVars, hsVars
  <1>2. req' \in BOOLEAN
    BY <1>1
  <1>3. ChanType' /\ EnvType'
    BY <1>1, <1>2 DEF ChanType, EnvType
  <1>4. state \in {"disabled", "unavailable"} /\ thread = "none" /\ ~run /\ main = "loop"
        /\ ~hsPending
    BY DEF Start, Dormant, Agreement, OneThread, JoinBeforeTeardown, ThreadType
  <1>5. CASE BeginHandshake
    <2>1. worker = "none" /\ helper = "none" /\ live = 0
      BY <1>4, <1>5 DEF BeginHandshake, Busy, Agreement, FlagsKnowThreads, OneThread,
                        OneSession, One, ThreadType
    <2>2. state' = "starting" /\ worker' = "calling" /\ live' = 1
      BY <1>5, <2>1 DEF BeginHandshake
    <2>3. hsPending' /\ hsFlag' /\ {hsPending', hsFlag'} \subseteq BOOLEAN
      BY <1>5 DEF BeginHandshake
    <2>4. ThreadType'
      BY <1>1, <2>2, <2>3 DEF ThreadType
    <2>5. ProbeType'
      BY <1>5, DisarmTypes DEF BeginHandshake, ProbeType
    <2>6. FlagsKnowThreads'
      BY <1>1, <2>1, <2>2, <2>3 DEF Agreement, FlagsKnowThreads
    <2>7. OneThread' /\ OneSession' /\ JoinBeforeTeardown'
      BY <1>1, <1>4, <2>1, <2>2, <2>3
         DEF Agreement, OneThread, OneSession, JoinBeforeTeardown, One
    <2>. QED BY <2>4, <2>5, <1>3, <2>6, <2>7 DEF Agreement
  <1>6. CASE Refuse(en)
    <2>1. state' = "unavailable" /\ ProbeType'
      BY <1>6, DormantTypes DEF Refuse, ProbeType
    <2>2. UNCHANGED <<worker, hsPending, hsFlag, live>>
      BY <1>6 DEF Refuse, hsVars
    <2>3. ThreadType'
      BY <1>1, <2>1, <2>2 DEF ThreadType
    <2>4. FlagsKnowThreads'
      BY <1>1, <2>2 DEF Agreement, FlagsKnowThreads
    <2>5. OneThread' /\ OneSession' /\ JoinBeforeTeardown'
      BY <1>1, <1>4, <2>1, <2>2
         DEF Agreement, OneThread, OneSession, JoinBeforeTeardown, One
    <2>. QED BY <1>3, <2>1, <2>3, <2>4, <2>5 DEF Agreement
  <1>. QED BY <1>5, <1>6 DEF Start

\* A stop runs in the event loop, so no helper is waited for.
LEMMA AbandonKeeps ==
    ASSUME XRInv, AbandonHandshake, UNCHANGED <<helper, brFlag>>, main = "loop"
    PROVE  /\ worker' \in {"none", "calling", "abandoned", "done"}
           /\ hsPending' = FALSE
           /\ hsFlag' \in BOOLEAN
           /\ live' \in Nat
           /\ UNCHANGED <<answer, hsFd>>
           /\ FlagsKnowThreads'
           /\ worker' # "none" => worker # "none"
           /\ live' = One(worker' # "none") + One(helper # "none") + One(thread # "none")
           /\ live' <= 1
  <1>. USE TypeParts DEF XRInv, ThreadType, AbandonHandshake
  <1>1. CASE hsPending /\ worker = "done"
    <2>1. helper = "none" /\ thread = "none" /\ live = 1
      BY <1>1 DEF Agreement, OneThread, OneSession, One
    <2>2. worker' = "none" /\ hsFlag' = FALSE /\ live' = 0 /\ hsPending' = FALSE
          /\ UNCHANGED <<answer, hsFd>>
      BY <1>1, <2>1
    <2>3. {hsFlag', hsPending'} \subseteq BOOLEAN
      BY <2>2
    <2>. QED BY <2>1, <2>2, <2>3 DEF Agreement, FlagsKnowThreads, One
  <1>2. CASE ~(hsPending /\ worker = "done")
    <2>1. worker' = (IF hsPending THEN "abandoned" ELSE worker) /\ hsPending' = FALSE
          /\ UNCHANGED <<hsFlag, live, answer, hsFd>>
      BY <1>2
    <2>2. hsPending' \in BOOLEAN
      BY <2>1
    <2>3. worker' # "none" <=> worker # "none"
      BY <2>1 DEF Agreement, FlagsKnowThreads
    <2>4. worker' \in {"none", "abandoned"}
      BY <1>2, <2>1 DEF Agreement, FlagsKnowThreads
    <2>5. FlagsKnowThreads'
      BY <2>1, <2>2, <2>3, <2>4 DEF Agreement, FlagsKnowThreads
    <2>6. live' = One(worker' # "none") + One(helper # "none") + One(thread # "none")
          /\ live' <= 1
      BY <2>1, <2>3 DEF Agreement, OneSession, One
    <2>. QED BY <2>1, <2>2, <2>3, <2>4, <2>5, <2>6
  <1>. QED BY <1>1, <1>2

LEMMA StopKeeps ==
    ASSUME XRInv, main = "loop", Stop, later' \in BOOLEAN
    PROVE  Agreement' /\ ThreadType' /\ ChanType' /\ ProbeType' /\ EnvType'
  <1>. USE TypeParts DEF XRInv
  <1>1. UNCHANGED <<helper, brFlag, gpuProbe, stray, req, runtime, tainted>>
    BY DEF Stop, bringVars, envVars
  <1>2. EnvType'
    BY <1>1 DEF EnvType
  <1>3. helper \in {"none", "abandoned"}
    BY DEF Agreement, OneThread, ThreadType
  <1>4. CASE StopIdle
    <2>1. state' = "disabled" /\ main' = "loop" /\ thread' = "none" /\ thread = "none"
          /\ run' = FALSE /\ chan' = FALSE /\ UNCHANGED <<stopLost, exit>>
          /\ AbandonHandshake
      BY <1>4 DEF StopIdle, Settle
    <2>2. {run', chan'} \subseteq BOOLEAN
      BY <2>1
    <2>3. ThreadType'
      BY <1>1, <2>1, <2>2, AbandonKeeps DEF ThreadType
    <2>4. ChanType'
      BY <1>1, <2>1, <2>2, AbandonKeeps DEF ChanType
    <2>5. recent' \in BOOLEAN /\ Disarm
      BY <1>4 DEF StopIdle, Settle
    <2>6. gpuProbe = "none"
      BY DEF Agreement, OneThread
    <2>7. Agreement'
      <3>1. OneSession'
        BY <1>1, <2>1, AbandonKeeps DEF OneSession, One
      <3>. QED BY <1>1, <1>3, <2>1, <2>2, <2>6, <3>1, AbandonKeeps
               DEF Agreement, OneThread, JoinBeforeTeardown
    <2>. QED BY <1>2, <2>3, <2>4, <2>5, <2>7, DisarmTypes
  <1>5. CASE StopRunning
    <2>1. state' = "stopping" /\ main' = "joining" /\ thread' = thread /\ thread # "none"
          /\ run' = FALSE /\ stopLost' = exit.lost
          /\ UNCHANGED <<exit, chan, timer, debounce, watch, fsEvent, recent>>
          /\ AbandonHandshake
      BY <1>5 DEF StopRunning, probeVars
    <2>2. run' \in BOOLEAN /\ stopLost' \in BOOLEAN
      BY <2>1 DEF ChanType
    <2>3. ThreadType'
      BY <1>1, <2>1, <2>2, AbandonKeeps DEF ThreadType
    <2>4. ChanType' /\ ProbeType'
      BY <1>1, <2>1, <2>2, AbandonKeeps DEF ChanType, ProbeType
    <2>5. gpuProbe = "none"
      BY DEF Agreement, OneThread
    <2>6. Agreement'
      <3>1. OneSession'
        BY <1>1, <2>1, AbandonKeeps DEF OneSession, One
      <3>. QED BY <1>1, <1>3, <2>1, <2>2, <2>5, <3>1, AbandonKeeps
               DEF Agreement, OneThread, JoinBeforeTeardown
    <2>. QED BY <1>2, <2>3, <2>4, <2>6
  <1>6. CASE StopNothing
    <2>1. UNCHANGED <<state, main, stopLost, worker, answer, hsPending, hsFlag, hsFd, live,
                      thread, run, exit, chan, timer, debounce, watch, fsEvent, recent>>
      BY <1>6 DEF StopNothing, hsVars, frameVars, probeVars
    <2>2. ThreadType' /\ ChanType' /\ ProbeType'
      BY <1>1, <2>1 DEF ThreadType, ChanType, ProbeType
    <2>3. Agreement'
      BY <1>1, <2>1 DEF Agreement, FlagsKnowThreads, OneThread, OneSession,
                        JoinBeforeTeardown
    <2>. QED BY <1>2, <2>2, <2>3
  <1>. QED BY <1>4, <1>5, <1>6 DEF Stop

-----------------------------------------------------------------------------
(* The invariant *)

LEMMA InitXR == Init => XRInv
  <1>. SUFFICES ASSUME Init PROVE XRInv
    OBVIOUS
  <1>1. {enabled, floor, hsPending, hsFlag, manual, stopLost, hsFd, brFlag, stray, run, req, chan,
         later, timer, debounce, watch, fsEvent, recent, runtime, tainted} \subseteq BOOLEAN
    BY DEF Init
  <1>2. TypeOK
    BY <1>1 DEF Init, TypeOK, NoExit
  <1>3. Agreement
    <2>1. CASE enabled
      BY <1>1, <2>1 DEF Init, Agreement, FlagsKnowThreads, OneThread, OneSession,
                        JoinBeforeTeardown, One
    <2>2. CASE ~enabled
      BY <1>1, <2>2 DEF Init, Agreement, FlagsKnowThreads, OneThread, OneSession,
                        JoinBeforeTeardown, One
    <2>. QED BY <2>1, <2>2
  <1>. QED BY <1>2, <1>3 DEF XRInv

\* What only moves timers, events and the inputs of a probe disturbs no thread.
LEMMA ThreadsUnchanged ==
    ASSUME XRInv,
           UNCHANGED <<state, main, worker, hsPending, hsFlag, helper, brFlag, gpuProbe, live,
                       thread, run>>
    PROVE  Agreement' /\ ThreadType'
  BY TypeParts DEF XRInv, Agreement, ThreadType, FlagsKnowThreads, OneThread, OneSession,
                   JoinBeforeTeardown

\* The user and the configuration.
LEMMA UserKeeps == ASSUME XRInv, UserStep PROVE XRInv'
  <1>. USE TypeParts, TypePartsKept DEF XRInv
  <1>1. CASE UserEnable
    <2>1. {manual', floor'} \subseteq BOOLEAN /\ UNCHANGED <<enabled, seen>>
      BY <1>1 DEF UserEnable, Start, CfgType
    <2>2. CfgType'
      BY <2>1 DEF CfgType
    <2>3. CASE Dormant
      <3>1. Start(enabled) /\ later' = later /\ enabled \in BOOLEAN
        BY <1>1, <2>3 DEF UserEnable, Start, CfgType
      <3>. QED BY <2>2, <3>1, StartKeeps
    <2>4. CASE ~Dormant
      <3>1. UNCHANGED <<state, main, stopLost, worker, answer, hsPending, hsFlag, hsFd, helper,
                        brFlag, gpuProbe, stray, live, thread, run, exit, chan, req, later, timer,
                        debounce, watch, fsEvent, recent, runtime, tainted>>
        BY <1>1, <2>4 DEF UserEnable, hsVars, bringVars, frameVars, probeVars, envVars
      <3>2. ChanType' /\ ProbeType' /\ EnvType'
        BY <3>1 DEF ChanType, ProbeType, EnvType
      <3>. QED BY <2>2, <3>1, <3>2, ThreadsUnchanged
    <2>. QED BY <2>3, <2>4
  <1>2. CASE UserDisable
    <2>1. manual' \in BOOLEAN /\ UNCHANGED <<enabled, seen, floor, later>>
      BY <1>2 DEF UserDisable
    <2>2. CfgType' /\ later' \in BOOLEAN
      BY <2>1 DEF CfgType, ChanType
    <2>3. main = "loop" /\ Stop
      BY <1>2 DEF UserDisable, InLoop
    <2>. QED BY <2>2, <2>3, StopKeeps
  <1>3. ASSUME NEW en \in BOOLEAN, NEW changed \in BOOLEAN, NEW force \in BOOLEAN,
               Reload(en, changed, force)
        PROVE  XRInv'
    <2>1. {enabled', manual'} \subseteq BOOLEAN /\ seen' \in {"never", "no", "yes"}
      BY <1>3 DEF Reload, StillManual, Seen, CfgType
    <2>2. ASSUME Start(en), later' = later
          PROVE  XRInv'
      <3>1. floor' \in BOOLEAN
        BY <2>2 DEF Start
      <3>2. CfgType'
        BY <2>1, <3>1 DEF CfgType
      <3>. QED BY <2>2, <3>2, StartKeeps
    <2>3. ASSUME Stop, UNCHANGED <<floor, later>>
          PROVE  XRInv'
      <3>1. main = "loop" /\ later' \in BOOLEAN
        BY <1>3, <2>3 DEF Reload, InLoop, ChanType
      <3>2. CfgType'
        BY <2>1, <2>3 DEF CfgType
      <3>. QED BY <2>3, <3>1, <3>2, StopKeeps
    <2>4. ASSUME UNCHANGED <<state, floor, main, stopLost, hsVars, bringVars, live, frameVars,
                             req, later, probeVars, envVars>>
          PROVE  XRInv'
      <3>1. CfgType'
        BY <2>1, <2>4 DEF CfgType
      <3>2. UNCHANGED <<state, main, stopLost, worker, answer, hsPending, hsFlag, hsFd, helper,
                        brFlag, gpuProbe, stray, live, thread, run, exit, chan, req, later, timer,
                        debounce, watch, fsEvent, recent, runtime, tainted>>
        BY <2>4 DEF hsVars, bringVars, frameVars, probeVars, envVars
      <3>3. ChanType' /\ ProbeType' /\ EnvType'
        BY <3>2 DEF ChanType, ProbeType, EnvType
      <3>. QED BY <3>1, <3>2, <3>3, ThreadsUnchanged
    <2>5. \/ Start(en) /\ later' = later
          \/ Stop /\ UNCHANGED <<floor, later>>
          \/ UNCHANGED <<state, floor, main, stopLost, hsVars, bringVars, live, frameVars,
                         req, later, probeVars, envVars>>
      BY <1>3 DEF Reload, Start
    <2>. QED BY <2>2, <2>3, <2>4, <2>5
  <1>. QED BY <1>1, <1>2, <1>3 DEF UserStep

\* The wake of the handshake: the session goes on to the probes or is freed.
LEMMA HandshakeKeeps == ASSUME XRInv, HandshakeReadable PROVE XRInv'
  <1>. USE TypeParts, TypePartsKept DEF XRInv
  <1>1. UNCHANGED <<manual, enabled, seen, floor, stopLost, answer, helper, brFlag, stray, thread,
                    run, exit, chan, req, later, runtime, tainted>>
        /\ hsFd' = FALSE /\ main = "loop"
    BY DEF HandshakeReadable, NewBatch, cfgVars, frameVars, envVars
  <1>2. hsFd' \in BOOLEAN
    BY <1>1
  <1>3. CfgType' /\ ChanType' /\ EnvType'
    BY <1>1, <1>2 DEF CfgType, ChanType, EnvType
  <1>4. CASE hsPending /\ worker = "done"
    <2>1. state = "starting" /\ helper = "none" /\ thread = "none" /\ live = 1 /\ ~run
          /\ gpuProbe = "none"
      BY <1>1, <1>4 DEF Agreement, OneThread, OneSession, JoinBeforeTeardown, One, ThreadType
    <2>2. hsPending' = FALSE /\ hsFlag' = FALSE /\ worker' = "none"
      BY <1>4 DEF HandshakeReadable
    <2>3. {hsPending', hsFlag'} \subseteq BOOLEAN
      BY <2>2
    <2>4. ~brFlag
      BY <2>1 DEF Agreement, FlagsKnowThreads
    <2>5. CASE /\ main' = "probing" /\ gpuProbe' = "devices"
               /\ UNCHANGED <<state, live, probeVars>>
      <3>1. ThreadType' /\ ProbeType'
        BY <1>1, <2>2, <2>3, <2>5 DEF ThreadType, ProbeType, probeVars
      <3>2. Agreement'
        BY <1>1, <2>1, <2>2, <2>3, <2>4, <2>5
           DEF Agreement, FlagsKnowThreads, OneThread, OneSession, JoinBeforeTeardown, One
      <3>. QED BY <1>3, <3>1, <3>2
    <2>6. CASE /\ live' = live - 1
               /\ GoDormant(enabled, recent)
               /\ UNCHANGED <<gpuProbe, main>>
      <3>1. state' = "unavailable" /\ ProbeType'
        BY <2>6, DormantTypes DEF CfgType, ProbeType
      <3>2. ThreadType'
        BY <1>1, <2>1, <2>2, <2>3, <2>6, <3>1 DEF ThreadType
      <3>3. Agreement'
        BY <1>1, <2>1, <2>2, <2>3, <2>4, <2>6, <3>1
           DEF Agreement, FlagsKnowThreads, OneThread, OneSession, JoinBeforeTeardown, One
      <3>. QED BY <1>3, <3>1, <3>2, <3>3
    <2>. QED BY <1>4, <2>5, <2>6 DEF HandshakeReadable
  <1>5. CASE ~(hsPending /\ worker = "done")
    <2>1. UNCHANGED <<hsPending, hsFlag, worker, gpuProbe, main, state, live, probeVars>>
      BY <1>5 DEF HandshakeReadable
    <2>2. ProbeType'
      BY <2>1 DEF ProbeType, probeVars
    <2>. QED BY <1>1, <1>3, <2>1, <2>2, ThreadsUnchanged
  <1>. QED BY <1>4, <1>5

\* A probe, answered or abandoned: the main thread asks the next one, hands the
\* session to the helper, or frees it.
LEMMA ProbeKeeps == ASSUME XRInv, ProbeAnswered \/ ProbeTimesOut PROVE XRInv'
  <1>. USE TypeParts, TypePartsKept DEF XRInv
  <1>1. UNCHANGED <<manual, enabled, seen, floor, stopLost, worker, answer, hsPending, hsFlag,
                    hsFd, brFlag, thread, run, exit, chan, req, later, runtime, tainted>>
        /\ main = "probing"
    BY DEF ProbeAnswered, ProbeTimesOut, cfgVars, hsVars, frameVars, envVars
  <1>2. stray' \in BOOLEAN
    <2>1. CASE ProbeAnswered
      BY <2>1 DEF ProbeAnswered, EnvType
    <2>2. CASE ProbeTimesOut
      BY <2>2 DEF ProbeTimesOut
    <2>. QED BY <2>1, <2>2
  <1>3. CfgType' /\ ChanType' /\ EnvType'
    BY <1>1, <1>2 DEF CfgType, ChanType, EnvType
  <1>4. worker = "none" /\ helper = "none" /\ thread = "none" /\ ~hsPending /\ ~hsFlag
        /\ ~brFlag /\ live = 1 /\ state = "starting" /\ ~run /\ gpuProbe # "none"
    BY <1>1 DEF Agreement, FlagsKnowThreads, OneThread, OneSession, JoinBeforeTeardown, One,
                ThreadType
  <1>5. CASE AskNextProbe
    <2>1. gpuProbe \in {"devices", "query", "vulkan"}
      BY <1>4 DEF ThreadType
    <2>2. gpuProbe' \in {"query", "vulkan"}
      BY <1>5, <2>1 DEF AskNextProbe, LaterProbes
    <2>3. UNCHANGED <<main, helper, state, live, timer, debounce, watch, fsEvent, recent>>
      BY <1>5 DEF AskNextProbe, probeVars
    <2>4. ThreadType' /\ ProbeType'
      BY <1>1, <2>2, <2>3 DEF ThreadType, ProbeType
    <2>5. Agreement'
      BY <1>1, <1>4, <2>2, <2>3
         DEF Agreement, FlagsKnowThreads, OneThread, OneSession, JoinBeforeTeardown, One
    <2>. QED BY <1>3, <2>4, <2>5
  <1>6. CASE StartHelper
    <2>1. main' = "parked" /\ helper' = "working" /\ gpuProbe' = "none"
          /\ UNCHANGED <<state, live, timer, debounce, watch, fsEvent, recent>>
      BY <1>6 DEF StartHelper, probeVars
    <2>2. ThreadType' /\ ProbeType'
      BY <1>1, <2>1 DEF ThreadType, ProbeType
    <2>3. Agreement'
      BY <1>1, <1>4, <2>1
         DEF Agreement, FlagsKnowThreads, OneThread, OneSession, JoinBeforeTeardown, One
    <2>. QED BY <1>3, <2>2, <2>3
  <1>7. CASE AbortBringup
    <2>1. main' = "loop" /\ gpuProbe' = "none" /\ live' = live - 1 /\ helper' = helper
      BY <1>7 DEF AbortBringup
    <2>2. state' = "unavailable" /\ ProbeType'
      BY <1>7, DormantTypes DEF AbortBringup, CfgType, ProbeType
    <2>3. ThreadType'
      BY <1>1, <1>4, <2>1, <2>2 DEF ThreadType
    <2>4. Agreement'
      BY <1>1, <1>4, <2>1, <2>2
         DEF Agreement, FlagsKnowThreads, OneThread, OneSession, JoinBeforeTeardown, One
    <2>. QED BY <1>3, <2>2, <2>3, <2>4
  <1>. QED BY <1>5, <1>6, <1>7 DEF ProbeAnswered, ProbeTimesOut

LEMMA BringupDoneKeeps == ASSUME XRInv, BringupDone PROVE XRInv'
  <1>. USE TypeParts, TypePartsKept DEF XRInv
  <1>1. UNCHANGED <<manual, enabled, seen, floor, stopLost, worker, answer, hsPending, hsFlag,
                    hsFd, brFlag, gpuProbe, stray, req, later, runtime, tainted>>
        /\ main' = "loop" /\ helper' = "none"
    BY DEF BringupDone, cfgVars, hsVars, envVars
  <1>2. CfgType' /\ EnvType'
    BY <1>1 DEF CfgType, EnvType
  <1>3. main = "parked" /\ helper \in {"ok", "failed"}
    BY DEF BringupDone
  <1>4. worker = "none" /\ thread = "none" /\ ~hsPending /\ ~hsFlag /\ ~brFlag /\ live = 1
        /\ state = "starting" /\ ~run /\ gpuProbe = "none"
    BY <1>3 DEF Agreement, FlagsKnowThreads, OneThread, OneSession, JoinBeforeTeardown, One,
                ThreadType
  <1>5. CASE /\ thread' = "run" /\ run' = TRUE /\ exit' = NoExit /\ chan' = FALSE
             /\ Settle("running")
             /\ UNCHANGED live
    <2>1. {run', chan'} \subseteq BOOLEAN /\ exit' \in [requested: BOOLEAN, lost: BOOLEAN]
      BY <1>5 DEF NoExit
    <2>2. state' = "running" /\ Disarm /\ recent' \in BOOLEAN
      BY <1>5 DEF Settle
    <2>3. ProbeType'
      BY <2>2, DisarmTypes
    <2>4. ThreadType'
      BY <1>1, <1>5, <2>1, <2>2 DEF ThreadType
    <2>5. ChanType'
      BY <1>1, <1>5, <2>1 DEF ChanType
    <2>6. Agreement'
      BY <1>1, <1>4, <1>5, <2>1, <2>2
         DEF Agreement, FlagsKnowThreads, OneThread, OneSession, JoinBeforeTeardown, One
    <2>. QED BY <1>2, <2>3, <2>4, <2>5, <2>6
  <1>6. CASE /\ live' = live - 1
             /\ GoDormant(enabled, recent)
             /\ UNCHANGED frameVars
    <2>1. state' = "unavailable" /\ ProbeType'
      BY <1>6, DormantTypes DEF CfgType, ProbeType
    <2>2. UNCHANGED <<thread, run, exit, chan>>
      BY <1>6 DEF frameVars
    <2>3. ThreadType'
      BY <1>1, <1>4, <1>6, <2>1, <2>2 DEF ThreadType
    <2>4. ChanType'
      BY <1>1, <2>2 DEF ChanType
    <2>5. Agreement'
      BY <1>1, <1>4, <1>6, <2>1, <2>2
         DEF Agreement, FlagsKnowThreads, OneThread, OneSession, JoinBeforeTeardown, One
    <2>. QED BY <1>2, <2>1, <2>3, <2>4, <2>5
  <1>. QED BY <1>5, <1>6 DEF BringupDone

\* The helper that overran its deadline keeps the session.
LEMMA BringupTimeoutKeeps == ASSUME XRInv, BringupTimeout PROVE XRInv'
  <1>. USE TypeParts, TypePartsKept DEF XRInv
  <1>1. UNCHANGED <<manual, enabled, seen, floor, stopLost, worker, answer, hsPending, hsFlag,
                    hsFd, gpuProbe, stray, live, thread, run, exit, chan, req, later, runtime,
                    tainted>>
        /\ main' = "loop" /\ helper' = "abandoned" /\ brFlag' = TRUE
    BY DEF BringupTimeout, cfgVars, hsVars, frameVars, envVars
  <1>2. CfgType' /\ ChanType' /\ EnvType'
    BY <1>1 DEF CfgType, ChanType, EnvType
  <1>3. main = "parked" /\ helper = "working"
    BY DEF BringupTimeout
  <1>4. state' = "unavailable" /\ ProbeType'
    BY DormantTypes DEF BringupTimeout, CfgType, ProbeType
  <1>5. brFlag' \in BOOLEAN
    BY <1>1
  <1>6. ThreadType'
    BY <1>1, <1>4, <1>5 DEF ThreadType
  <1>7. Agreement'
    BY <1>1, <1>3, <1>4, <1>5
       DEF Agreement, FlagsKnowThreads, OneThread, OneSession, JoinBeforeTeardown, One
  <1>. QED BY <1>2, <1>4, <1>6, <1>7

\* The join is over and the session is freed.
LEMMA StopJoinedKeeps == ASSUME XRInv, StopJoined PROVE XRInv'
  <1>. USE TypeParts, TypePartsKept DEF XRInv
  <1>1. UNCHANGED <<manual, enabled, seen, floor, stopLost, worker, answer, hsPending, hsFlag,
                    hsFd, helper, brFlag, gpuProbe, stray, run, req, later, runtime, tainted>>
        /\ main' = "loop" /\ thread' = "none" /\ chan' = FALSE /\ exit' = NoExit
        /\ live' = live - 1
    BY DEF StopJoined, cfgVars, hsVars, bringVars, envVars
  <1>2. chan' \in BOOLEAN /\ exit' \in [requested: BOOLEAN, lost: BOOLEAN]
    BY <1>1 DEF NoExit
  <1>3. CfgType' /\ ChanType' /\ EnvType'
    BY <1>1, <1>2 DEF CfgType, ChanType, EnvType
  <1>4. main = "joining" /\ thread = "exited"
    BY DEF StopJoined
  <1>5. state' \in {"unavailable", "disabled"} /\ ProbeType'
    <2>1. CASE stopLost
      BY <2>1, DormantTypes DEF StopJoined, CfgType, ProbeType
    <2>2. CASE ~stopLost
      <3>1. state' = "disabled" /\ Disarm /\ recent' \in BOOLEAN
        BY <2>2 DEF StopJoined, Settle
      <3>. QED BY <3>1, DisarmTypes
    <2>. QED BY <2>1, <2>2
  <1>6. worker = "none" /\ helper = "none" /\ ~hsPending /\ ~run /\ live = 1
    BY <1>4 DEF Agreement, FlagsKnowThreads, OneThread, OneSession, JoinBeforeTeardown, One,
                ThreadType
  <1>7. ThreadType'
    BY <1>1, <1>5, <1>6 DEF ThreadType
  <1>8. Agreement'
    BY <1>1, <1>4, <1>5, <1>6
       DEF Agreement, FlagsKnowThreads, OneThread, OneSession, JoinBeforeTeardown, One
  <1>. QED BY <1>3, <1>5, <1>7, <1>8

\* The other callbacks of the event loop.
LEMMA LoopKeeps ==
    ASSUME XRInv,
           FrameChannelReadable \/ DeferredStop \/ ReprobeExpired \/ WatchReadable
             \/ DebounceExpired
    PROVE  XRInv'
  <1>. USE TypeParts, TypePartsKept DEF XRInv
  <1>1. CASE FrameChannelReadable
    <2>1. {chan', later', req'} \subseteq BOOLEAN
      BY <1>1 DEF FrameChannelReadable, ChanType
    <2>2. UNCHANGED <<state, manual, enabled, seen, floor, main, stopLost, worker, answer,
                      hsPending, hsFlag, hsFd, helper, brFlag, gpuProbe, stray, live, thread, run,
                      exit, timer, debounce, watch, fsEvent, recent, runtime, tainted>>
      BY <1>1 DEF FrameChannelReadable, cfgVars, hsVars, bringVars, probeVars, envVars
    <2>3. CfgType' /\ ChanType' /\ ProbeType' /\ EnvType'
      BY <2>1, <2>2 DEF CfgType, ChanType, ProbeType, EnvType
    <2>. QED BY <2>2, <2>3, ThreadsUnchanged
  <1>2. CASE DeferredStop
    <2>1. main = "loop" /\ Stop /\ later' \in BOOLEAN
      BY <1>2 DEF DeferredStop, InLoop
    <2>2. CfgType'
      BY <1>2 DEF DeferredStop, cfgVars, CfgType
    <2>. QED BY <2>1, <2>2, StopKeeps
  <1>3. ASSUME Start(enabled), UNCHANGED <<manual, enabled, seen>>
        PROVE  XRInv'
    <2>1. floor' \in BOOLEAN /\ later' = later
      BY <1>3 DEF Start
    <2>2. CfgType' /\ enabled \in BOOLEAN
      BY <1>3, <2>1 DEF CfgType
    <2>. QED BY <1>3, <2>1, <2>2, StartKeeps
  <1>4. CASE ReprobeExpired
    BY <1>3, <1>4 DEF ReprobeExpired
  <1>5. CASE WatchReadable
    <2>1. {fsEvent', recent', debounce'} \subseteq BOOLEAN
      BY <1>5 DEF WatchReadable
    <2>2. UNCHANGED <<state, manual, enabled, seen, floor, main, stopLost, worker, answer,
                      hsPending, hsFlag, hsFd, helper, brFlag, gpuProbe, stray, live, thread, run,
                      exit, chan, req, later, timer, watch, runtime, tainted>>
      BY <1>5 DEF WatchReadable, cfgVars, hsVars, bringVars, frameVars, envVars
    <2>3. CfgType' /\ ChanType' /\ ProbeType' /\ EnvType'
      BY <2>1, <2>2 DEF CfgType, ChanType, ProbeType, EnvType
    <2>. QED BY <2>2, <2>3, ThreadsUnchanged
  <1>6. CASE DebounceExpired
    <2>1. CASE /\ debounce' = FALSE /\ timer' = TRUE
               /\ UNCHANGED <<state, floor, main, stopLost, hsVars, bringVars, live, frameVars,
                              req, later, watch, fsEvent, recent, envVars>>
      <3>1. {debounce', timer'} \subseteq BOOLEAN
        BY <2>1
      <3>2. UNCHANGED <<state, manual, enabled, seen, floor, main, stopLost, worker, answer,
                        hsPending, hsFlag, hsFd, helper, brFlag, gpuProbe, stray, live, thread,
                        run, exit, chan, req, later, watch, fsEvent, recent, runtime, tainted>>
        BY <1>6, <2>1 DEF DebounceExpired, hsVars, bringVars, frameVars, envVars
      <3>3. CfgType' /\ ChanType' /\ ProbeType' /\ EnvType'
        BY <3>1, <3>2 DEF CfgType, ChanType, ProbeType, EnvType
      <3>. QED BY <3>2, <3>3, ThreadsUnchanged
    <2>2. CASE Start(enabled)
      BY <1>3, <1>6, <2>2 DEF DebounceExpired
    <2>. QED BY <1>6, <2>1, <2>2 DEF DebounceExpired
  <1>. QED BY <1>1, <1>2, <1>4, <1>5, <1>6

\* The threads that are not the main thread.
LEMMA ThreadKeeps ==
    ASSUME XRInv, WorkerReturns \/ HelperReturns \/ StrayReturns \/ FramePolls \/ FrameStep
    PROVE  XRInv'
  <1>. USE TypeParts, TypePartsKept DEF XRInv
  <1>1. CASE WorkerReturns
    <2>1. UNCHANGED <<state, manual, enabled, seen, floor, main, stopLost, hsPending, helper,
                      brFlag, gpuProbe, stray, thread, run, exit, chan, req, later, timer,
                      debounce, watch, fsEvent, recent, runtime, tainted>>
      BY <1>1 DEF WorkerReturns, cfgVars, bringVars, frameVars, probeVars, envVars
    <2>2. CfgType' /\ ProbeType' /\ EnvType'
      BY <2>1 DEF CfgType, ProbeType, EnvType
    <2>3. helper = "none" /\ thread = "none" /\ live = 1
      BY <1>1 DEF WorkerReturns, Agreement, OneThread, OneSession, One
    <2>4. CASE worker = "abandoned"
      <3>1. worker' = "none" /\ hsFlag' = FALSE /\ live' = 0 /\ UNCHANGED <<answer, hsFd>>
        BY <1>1, <2>3, <2>4 DEF WorkerReturns
      <3>2. hsFlag' \in BOOLEAN
        BY <3>1
      <3>3. ThreadType' /\ ChanType'
        BY <2>1, <3>1, <3>2 DEF ThreadType, ChanType
      <3>4. Agreement'
        BY <2>1, <2>3, <2>4, <3>1, <3>2
           DEF Agreement, FlagsKnowThreads, OneThread, OneSession, JoinBeforeTeardown, One
      <3>. QED BY <2>2, <3>3, <3>4
    <2>5. CASE worker = "calling"
      <3>1. worker' = "done" /\ hsFd' = TRUE /\ answer' \in {"ok", "failed"}
            /\ UNCHANGED <<hsFlag, live>>
        BY <1>1, <2>5 DEF WorkerReturns
      <3>2. hsFd' \in BOOLEAN
        BY <3>1
      <3>3. ThreadType' /\ ChanType'
        BY <2>1, <3>1, <3>2 DEF ThreadType, ChanType
      <3>4. Agreement'
        BY <2>1, <2>3, <2>5, <3>1
           DEF Agreement, FlagsKnowThreads, OneThread, OneSession, JoinBeforeTeardown, One
      <3>. QED BY <2>2, <3>3, <3>4
    <2>. QED BY <1>1, <2>4, <2>5 DEF WorkerReturns
  <1>2. CASE HelperReturns
    <2>1. UNCHANGED <<state, manual, enabled, seen, floor, main, stopLost, worker, answer,
                      hsPending, hsFlag, hsFd, gpuProbe, stray, thread, run, exit, chan, req,
                      later, timer, debounce, watch, fsEvent, recent, runtime, tainted>>
      BY <1>2 DEF HelperReturns, cfgVars, hsVars, frameVars, probeVars, envVars
    <2>2. CfgType' /\ ChanType' /\ ProbeType' /\ EnvType'
      BY <2>1 DEF CfgType, ChanType, ProbeType, EnvType
    <2>3. worker = "none" /\ thread = "none" /\ live = 1
      BY <1>2 DEF HelperReturns, Agreement, OneThread, OneSession, One, ThreadType
    <2>4. CASE helper = "abandoned"
      <3>1. helper' = "none" /\ brFlag' = FALSE /\ live' = 0
        BY <1>2, <2>3, <2>4 DEF HelperReturns
      <3>2. brFlag' \in BOOLEAN
        BY <3>1
      <3>3. ThreadType'
        BY <2>1, <3>1, <3>2 DEF ThreadType
      <3>4. Agreement'
        BY <2>1, <2>3, <2>4, <3>1, <3>2
           DEF Agreement, FlagsKnowThreads, OneThread, OneSession, JoinBeforeTeardown, One
      <3>. QED BY <2>2, <3>3, <3>4
    <2>5. CASE helper = "working"
      <3>1. helper' \in {"ok", "failed"} /\ UNCHANGED <<brFlag, live>>
        BY <1>2, <2>5 DEF HelperReturns
      <3>2. ThreadType'
        BY <2>1, <3>1 DEF ThreadType
      <3>3. Agreement'
        BY <2>1, <2>3, <2>5, <3>1
           DEF Agreement, FlagsKnowThreads, OneThread, OneSession, JoinBeforeTeardown, One
      <3>. QED BY <2>2, <3>2, <3>3
    <2>. QED BY <1>2, <2>4, <2>5 DEF HelperReturns
  <1>3. CASE FramePolls
    <2>1. UNCHANGED <<state, manual, enabled, seen, floor, main, stopLost, worker, answer,
                      hsPending, hsFlag, hsFd, helper, brFlag, gpuProbe, stray, live, thread, run,
                      chan, req, later, timer, debounce, watch, fsEvent, recent, runtime, tainted>>
      BY <1>3 DEF FramePolls, cfgVars, hsVars, bringVars, probeVars, envVars
    <2>2. exit' \in [requested: BOOLEAN, lost: BOOLEAN]
      BY <1>3 DEF FramePolls
    <2>3. CfgType' /\ ChanType' /\ ProbeType' /\ EnvType'
      BY <2>1, <2>2 DEF CfgType, ChanType, ProbeType, EnvType
    <2>. QED BY <2>1, <2>3, ThreadsUnchanged
  <1>4. CASE FrameStep
    <2>1. UNCHANGED <<state, manual, enabled, seen, floor, main, stopLost, worker, answer,
                      hsPending, hsFlag, hsFd, helper, brFlag, gpuProbe, stray, live, run, exit,
                      later, timer, debounce, watch, fsEvent, recent, runtime, tainted>>
          /\ thread = "run" /\ thread' = "exited"
      BY <1>4 DEF FrameStep, FrameRequestsTeardown, FrameLeaves, cfgVars, hsVars, bringVars,
                  probeVars, envVars
    <2>2. {req', chan'} \subseteq BOOLEAN
      <3>1. CASE FrameRequestsTeardown
        BY <3>1 DEF FrameRequestsTeardown
      <3>2. CASE FrameLeaves
        BY <3>2 DEF FrameLeaves, ChanType
      <3>. QED BY <1>4, <3>1, <3>2 DEF FrameStep
    <2>3. CfgType' /\ ChanType' /\ ProbeType' /\ EnvType'
      BY <2>1, <2>2 DEF CfgType, ChanType, ProbeType, EnvType
    <2>4. ThreadType'
      BY <2>1 DEF ThreadType
    <2>5. Agreement'
      BY <2>1 DEF Agreement, FlagsKnowThreads, OneThread, OneSession, JoinBeforeTeardown, One
    <2>. QED BY <2>3, <2>4, <2>5
  <1>5. CASE StrayReturns
    <2>1. UNCHANGED <<state, manual, enabled, seen, floor, main, stopLost, worker, answer,
                      hsPending, hsFlag, hsFd, helper, brFlag, gpuProbe, live, thread, run, exit,
                      chan, req, later, timer, debounce, watch, fsEvent, recent, runtime, tainted>>
          /\ stray' = FALSE
      BY <1>5 DEF StrayReturns, cfgVars, hsVars, frameVars, probeVars, envVars
    <2>2. stray' \in BOOLEAN
      BY <2>1
    <2>3. CfgType' /\ ChanType' /\ ProbeType' /\ EnvType'
      BY <2>1, <2>2 DEF CfgType, ChanType, ProbeType, EnvType
    <2>. QED BY <2>1, <2>3, ThreadsUnchanged
  <1>. QED BY <1>1, <1>2, <1>3, <1>4, <1>5

\* The runtime, the kernel and the clock.
LEMMA EnvKeeps ==
    ASSUME XRInv, RuntimeAppears \/ RuntimeGoes \/ KernelTaints \/ TimePasses
    PROVE  XRInv'
  <1>. USE TypeParts, TypePartsKept DEF XRInv
  <1>1. UNCHANGED <<state, manual, enabled, seen, main, stopLost, worker, answer, hsPending,
                    hsFlag, hsFd, helper, brFlag, gpuProbe, stray, live, thread, run, exit, chan,
                    req, later, timer, debounce, watch>>
    BY DEF RuntimeAppears, RuntimeGoes, KernelTaints, TimePasses, cfgVars, hsVars, bringVars,
           frameVars, probeVars
  <1>2. runtime' \in BOOLEAN /\ tainted' \in BOOLEAN
    BY DEF RuntimeAppears, RuntimeGoes, KernelTaints, TimePasses, envVars, EnvType
  <1>3. fsEvent' \in BOOLEAN
    BY DEF RuntimeAppears, RuntimeGoes, KernelTaints, TimePasses, probeVars, ProbeType
  <1>4. floor' \in BOOLEAN /\ recent' \in BOOLEAN
    BY DEF RuntimeAppears, RuntimeGoes, KernelTaints, TimePasses, cfgVars, probeVars, ProbeType,
           CfgType
  <1>5. CfgType' /\ ChanType' /\ ProbeType' /\ EnvType'
    BY <1>1, <1>2, <1>3, <1>4 DEF CfgType, ChanType, ProbeType, EnvType
  <1>. QED BY <1>1, <1>5, ThreadsUnchanged

LEMMA StutterKeeps == ASSUME XRInv, UNCHANGED vars PROVE XRInv'
  <1>1. TypeOK'
    BY DEF XRInv, vars, TypeOK
  <1>2. Agreement'
    BY ThreadsUnchanged DEF vars
  <1>. QED BY <1>1, <1>2 DEF XRInv

LEMMA XRInvariant == Spec => []XRInv
  <1>1. XRInv /\ [Next]_vars => XRInv'
    BY UserKeeps, HandshakeKeeps, ProbeKeeps, BringupDoneKeeps, BringupTimeoutKeeps,
       StopJoinedKeeps, LoopKeeps, ThreadKeeps, EnvKeeps, StutterKeeps DEF Next, MainStep
  <1>. QED BY InitXR, <1>1, PTL DEF Spec

-----------------------------------------------------------------------------
(* The theorems *)

\* The variables keep their types.
THEOREM TypeCorrect == Spec => []TypeOK
  <1>1. XRInv => TypeOK
    BY DEF XRInv
  <1>. QED BY <1>1, XRInvariant, PTL

\* No CXRSession has two owners or none, and what its frame thread uses is settled
\* after the thread is gone.
THEOREM OneOwner == Spec => []SessionHasOneOwner
  <1>1. XRInv => SessionHasOneOwner
    BY DEF XRInv, Agreement, SessionHasOneOwner
  <1>. QED BY <1>1, XRInvariant, PTL

-----------------------------------------------------------------------------
(* What a step may never do *)

LEMMA StopTakesDown == ASSUME Stop PROVE Down'
  BY DEF Stop, StopIdle, StopRunning, StopNothing, Settle, Down

\* A session that is down has no handshake, probe or helper that could bring it up.
LEMMA DownStep ==
    ASSUME XRInv, [Next]_vars, manual', manual => Down
    PROVE  Down' \/ LossEndsStop
  <1>1. CASE Down /\ UNCHANGED state
    BY <1>1 DEF Down
  <1>2. CASE UserStep
    <2>1. CASE UserEnable
      BY <2>1 DEF UserEnable
    <2>2. CASE UserDisable
      BY <2>2, StopTakesDown DEF UserDisable
    <2>3. ASSUME NEW en \in BOOLEAN, NEW changed \in BOOLEAN, NEW force \in BOOLEAN,
                 Reload(en, changed, force)
          PROVE  Down'
      <3>1. StillManual(en) /\ manual
        BY <2>3 DEF Reload, StillManual
      <3>2. ~ReloadStarts(en, changed \/ seen # Seen(en), force)
        BY <3>1 DEF ReloadStarts
      <3>3. Stop \/ state' = state
        BY <2>3, <3>2 DEF Reload
      <3>. QED BY <3>1, <3>3, StopTakesDown DEF Down
    <2>. QED BY <1>2, <2>1, <2>2, <2>3 DEF UserStep
  <1>3. ASSUME ~UserStep
        PROVE  Down' \/ LossEndsStop
    <2>1. manual /\ Down
      <3>1. manual' = manual
        BY <1>3 DEF Next, MainStep, FrameStep, HandshakeReadable, ProbeAnswered, ProbeTimesOut,
                    BringupDone, BringupTimeout, FrameChannelReadable, DeferredStop, StopJoined,
                    ReprobeExpired, WatchReadable, DebounceExpired, WorkerReturns, HelperReturns,
                    StrayReturns, FramePolls, FrameRequestsTeardown, FrameLeaves, RuntimeAppears,
                    RuntimeGoes, KernelTaints, TimePasses, cfgVars, vars
      <3>. QED BY <3>1
    <2>2. main \in {"loop", "joining"} /\ ~hsPending
      BY <2>1 DEF Down, XRInv, TypeOK, Agreement, OneThread, JoinBeforeTeardown
    <2>3. CASE HandshakeReadable
      BY <1>1, <2>1, <2>2, <2>3 DEF HandshakeReadable
    <2>4. CASE ProbeAnswered \/ ProbeTimesOut \/ BringupDone \/ BringupTimeout
      BY <2>2, <2>4 DEF ProbeAnswered, ProbeTimesOut, BringupDone, BringupTimeout
    <2>5. CASE StopJoined
      <3>1. CASE stopLost
        BY <2>5, <3>1 DEF StopJoined, LossEndsStop
      <3>2. CASE ~stopLost
        BY <2>5, <3>2 DEF StopJoined, Settle, Down
      <3>. QED BY <3>1, <3>2
    <2>6. CASE FrameChannelReadable \/ WatchReadable
      BY <1>1, <2>1, <2>6 DEF FrameChannelReadable, WatchReadable
    <2>7. CASE DeferredStop
      BY <2>7, StopTakesDown DEF DeferredStop
    <2>8. CASE ReprobeExpired \/ DebounceExpired
      BY <2>1, <2>8 DEF ReprobeExpired, DebounceExpired, MayProbe, Down
    <2>9. CASE WorkerReturns \/ HelperReturns \/ StrayReturns \/ FramePolls \/ FrameStep
      BY <1>1, <2>1, <2>9 DEF WorkerReturns, HelperReturns, StrayReturns, FramePolls, FrameStep,
                              FrameLeaves, FrameRequestsTeardown
    <2>10. CASE RuntimeAppears \/ RuntimeGoes \/ KernelTaints \/ TimePasses \/ UNCHANGED vars
      BY <1>1, <2>1, <2>10 DEF RuntimeAppears, RuntimeGoes, KernelTaints, TimePasses, vars
    <2>. QED BY <1>3, <2>3, <2>4, <2>5, <2>6, <2>7, <2>8, <2>9, <2>10 DEF Next, MainStep
  <1>. QED BY <1>2, <1>3

\* A disable by the user takes the session down and keeps it there, whoever answers,
\* fires or reloads later, until the user enables it; only a stop that found the runtime
\* lost may end otherwise.
THEOREM DisableOutranks == Spec => DisableHolds
  <1>1. XRInv /\ [Next]_vars => (manual' /\ (manual => Down) => Down' \/ LossEndsStop)
    BY DownStep
  <1>. QED BY <1>1, XRInvariant, PTL DEF Spec, DisableHolds

=============================================================================
