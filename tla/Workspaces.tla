------------------------------ MODULE Workspaces ------------------------------
(***************************************************************************)
(* Workspaces over monitors that come and go: CMonitor::onConnect and      *)
(* onDisconnect, the placement controller, the user's requests that move   *)
(* or switch workspaces, and the FALLBACK output that stands in when no    *)
(* other monitor is left.                                                  *)
(*                                                                         *)
(* A handler calls others many levels deep, each on what the one before    *)
(* left: they are operators from a desk to a desk, the record of all they  *)
(* read and write, and an action is the whole of one callback.             *)
(*                                                                         *)
(* Left out: windows (but for the workspaces they keep), mirrors, leases,  *)
(* a change of the configuration, binds:hide_special_on_workspace_change   *)
(* (off by default), rules that name no monitor.                           *)
(***************************************************************************)
EXTENDS Integers, FiniteSets, Sequences, SequencesExt

CONSTANTS
    Real,        \* outputs, by name
    Fallback,    \* the output FALLBACK
    None,        \* no monitor, no workspace
    Ids,         \* workspace ids, a range from 1 no run exhausts
    Special,     \* one special workspace
    Rule,        \* the monitor a workspace rule gives an id, or None
    Default,     \* the default workspace a rule gives a monitor, or None
    Persistent,  \* the ids with a persistent rule, in the order of the rules
    UserIds,     \* bound: the ids the user switches to
    MaxHeld,     \* bound: workspaces with windows at one time
    MaxOutputs,  \* bound: times an output changes
    MaxRequests  \* bound: requests of the user and changes of windows

Mons == Real \cup {Fallback}
Ws   == Ids \cup {Special}

ASSUME WorkspacesAssumption ==
    /\ Ids \subseteq Nat
    /\ Rule \in [Ids -> Real \cup {None}]
    /\ Default \in [Real -> Ids \cup {None}]
    /\ Persistent \in Seq({w \in Ids : Rule[w] # None})
    /\ Fallback \notin Real /\ None \notin Mons \cup Ws /\ Special \notin Ids
    /\ UserIds \subseteq Ids /\ {MaxHeld, MaxOutputs, MaxRequests} \subseteq Nat

VARIABLES
    desk,     \* what the handlers work on, see Desks
    known,    \* m_realMonitors, without FALLBACK: outputs that are plugged in
    timer,    \* m_launchTimer runs
    started,  \* the first frame of any monitor was rendered
    home,     \* history: whose going away displaced a workspace with windows
    count     \* the changes of outputs and the requests so far, for the bounds

vars == <<desk, known, timer, started, home, count>>

Desks == [monitors : Seq(Mons),            \* m_monitors: the enabled
          list : Seq(Ws),                  \* the tracker's workspaces
          owner : [Ws -> Mons \cup {None}],    \* m_monitor
          last : [Ws -> Mons \cup {None}],     \* m_lastMonitor
          visible : SUBSET Ws,                 \* m_visible
          active : [Mons -> Ids \cup {None}],  \* m_activeWorkspace
          special : [Mons -> {Special, None}], \* m_activeSpecialWorkspace
          focus : Mons \cup {None},            \* the focused monitor
          seen : [Mons -> Ids \cup {None}],    \* m_seenMonitorWorkspaceMap
          windows : SUBSET Ws,             \* workspaces that have windows
          persistent : SUBSET Ids,         \* m_persistent
          wanted : BOOLEAN,                \* m_fallbackActive
          later : Seq({"fallback", "ensure", "start"})]  \* doLater

TypeOK ==
    /\ desk \in Desks
    /\ IsInjective(desk.monitors) /\ IsInjective(desk.list)
    /\ known \subseteq Real /\ Range(desk.monitors) \subseteq known \cup {Fallback}
    /\ timer \in BOOLEAN /\ started \in BOOLEAN
    /\ home \in [Ws -> Mons \cup {None}]
    /\ count \in [outputs : 0 .. MaxOutputs, requests : 0 .. MaxRequests]

-----------------------------------------------------------------------------
(* Workspaces *)

Enabled(d) == Range(d.monitors)
Exists(d, w) == w \in Range(d.list)

\* The elements of a list that are in a set, in the order of the list.
Among(list, S) ==
    FoldLeft(LAMBDA r, x : IF x \in S THEN Append(r, x) ELSE r, <<>>, list)

Lowest(S) == CHOOSE i \in S : \A j \in S : i <= j

\* A workspace lives as long as something refers to it: a monitor that shows
\* it, its windows, itself if it is persistent.
Prune(d) ==
    LET kept == d.windows \cup d.persistent
                \cup Range(d.active) \cup Range(d.special)
        gone(w) == ~(Exists(d, w) /\ w \in kept)
    IN  [d EXCEPT !.list = Among(@, kept),
                  !.owner = [w \in Ws |-> IF gone(w) THEN None ELSE @[w]],
                  !.last = [w \in Ws |-> IF gone(w) THEN None ELSE @[w]],
                  !.visible = {w \in @ : ~gone(w)}]

\* CWorkspace::create; init makes it persistent if its rule says so.
New(d, w, m) ==
    [d EXCEPT !.list = Append(@, w), !.owner[w] = m,
              !.persistent = @ \cup ({w} \cap Range(Persistent))]

\* CWorkspaceStateTracker::create: on the monitor it is bound to, if present.
Create(d, w, m) ==
    New(d, w, IF w \in Ids /\ Rule[w] \in Enabled(d) THEN Rule[w] ELSE m)

\* setSpecialWorkspace(nullptr).
HideSpecial(d, m) ==
    [d EXCEPT !.special[m] = None, !.visible = @ \ {d.special[m]}]

\* setSpecialWorkspace: whoever shows it closes it, what this monitor shows
\* is hidden.
ShowSpecial(d, m, w) ==
    IF d.special[m] = w THEN d
    ELSE LET p == d.owner[w]
         IN  [d EXCEPT !.special = [n \in Mons |->
                           IF n = m THEN w
                           ELSE IF n = p /\ @[n] = w THEN None ELSE @[n]],
                       !.visible = (@ \ {d.special[m]}) \cup {w},
                       !.owner[w] = m]

ChangeWorkspace(d, m, w) ==
    IF w = d.active[m] THEN d
    ELSE [d EXCEPT !.active[m] = w,
                   !.visible = (@ \ {d.active[m]}) \cup {w}]

\* Mutation: the number of the new workspace is not looked for.
Plug_AnyId(d, m, w) ==
    LET rest == Among(d.list, {v \in Ids \ {w} : d.owner[v] = m})
    IN  IF rest # <<>> THEN ChangeWorkspace(d, m, Head(rest))
        ELSE ChangeWorkspace(Create(d, 1, m), m, 1)

\* What fills the gap on the monitor an active workspace leaves: its next
\* workspace, or a new one with the lowest free id not bound elsewhere.
Plug(d, m, w) ==
    LET rest == Among(d.list, {v \in Ids \ {w} : d.owner[v] = m})
        free == Lowest({i \in Ids : /\ ~Exists(d, i)
                                    /\ Rule[i] \in Enabled(d) => Rule[i] = m})
    IN  IF rest # <<>> THEN ChangeWorkspace(d, m, Head(rest))
        ELSE ChangeWorkspace(Create(d, free, m), m, free)

\* Mutation: the workspace it takes the place of stays marked visible.
StayActive_BothVisible(d, w, m) ==
    [d EXCEPT !.active[m] = w, !.focus = m, !.visible = @ \cup {w}]

\* It was active on the focused monitor: it stays in sight, and the focus
\* goes with it.
StayActive(d, w, m) ==
    [d EXCEPT !.active[m] = w, !.focus = m,
              !.visible = (@ \ {d.active[m]}) \cup {w}]

MoveWorkspaceToMonitor(d, w, m) ==
    LET old == d.owner[w]
        shown == old # None /\ d.active[old] = w
        left == IF shown THEN Plug(d, old, w) ELSE d
        there == [left EXCEPT !.owner[w] = m]
    IN  CASE m = None \/ old = m -> d
          [] m # None /\ old # m /\ old # None /\ w = Special /\ d.special[old] = w ->
                ShowSpecial(d, m, w)
          [] OTHER -> IF shown /\ d.focus = old THEN StayActive(there, w, m)
                      ELSE there

SwapActiveWorkspaces(d, a, b) ==
    [d EXCEPT !.owner[d.active[a]] = b, !.owner[d.active[b]] = a,
              !.active[a] = d.active[b], !.active[b] = d.active[a]]

-----------------------------------------------------------------------------
(* Monitors *)

\* setFallbackActive: the change is made later, once for all that are asked
\* for meanwhile.
SetFallbackActive(d, on) ==
    IF d.wanted = on THEN d
    ELSE [d EXCEPT !.wanted = on,
                   !.later = IF "fallback" \in Range(@) THEN @
                             ELSE Append(@, "fallback")]

\* setupDefaultWS: the workspace its rule names, or a new one with the lowest
\* id that no rule binds to another monitor.
SetupDefaultWS(d, m) ==
    LET rule == IF m \in Real THEN Default[m] ELSE None
        w == IF rule # None THEN rule
             ELSE Lowest({i \in Ids : ~Exists(d, i) /\ Rule[i] \in {None, m}})
        there == IF Exists(d, w) THEN MoveWorkspaceToMonitor(d, w, m)
                 ELSE New(d, w, m)
    IN  [there EXCEPT !.active[m] = w, !.visible = @ \cup {w}, !.last[w] = None]

Untagged(d, w, m) == [d EXCEPT !.last[w] = IF @ = m THEN None ELSE @]

\* A workspace of a disabled monitor counts as one without a monitor.
Orphaned(d, w) == d.owner[w] \notin Enabled(d)

\* The workspaces that left with the monitor return to it, and those without
\* a monitor come along if at most one other could have taken them.
Reclaim(e, w, m, recovering) ==
    IF e.last[w] = m \/ (Orphaned(e, w) /\ recovering)
    THEN Untagged(MoveWorkspaceToMonitor(e, w, m), w, m)
    ELSE e

TakeBack(d, m) ==
    LET recovering == Cardinality(Enabled(d) \ {Fallback, m}) <= 1
    IN  Prune(FoldLeft(LAMBDA e, w : Reclaim(e, w, m, recovering), d, d.list))

\* What it showed when it left, if that still exists.
ShowSeen(d, m) ==
    LET w == d.seen[m]
    IN  IF w # None /\ Exists(d, w)
        THEN Prune(ChangeWorkspace(MoveWorkspaceToMonitor(d, w, m), m, w))
        ELSE d

\* Mutation: nobody looks after the workspaces bound to the new monitor.
Register_EnsuresNothing(d, m, focus) ==
    [d EXCEPT !.focus = focus, !.monitors = Append(@, m)]

\* The monitor is one of the enabled ones, and what rules bind to it is brought
\* to it later.
Register(d, m, focus) ==
    [d EXCEPT !.focus = focus, !.later = Append(@, "ensure"), !.monitors = Append(@, m)]

\* onConnect, of a monitor that is not enabled; once it is registered, FALLBACK
\* is no longer needed.
OnConnect(d, m) ==
    LET back == TakeBack(SetupDefaultWS(d, m), m)
        focused == [back EXCEPT !.focus = IF @ = None THEN m ELSE @]
        shown == ShowSeen(focused, m)
        up == Register(shown, m, IF focused.focus \notin Enabled(d) THEN m
                                 ELSE shown.focus)
    IN  IF m = Fallback THEN up ELSE SetFallbackActive(up, FALSE)

\* Mutation: the last monitor to go owns where a workspace returns to.
Tag_Overwrites(d, leaving, m) ==
    [d EXCEPT !.last = [w \in Ws |-> IF w \in Range(leaving) THEN m ELSE @[w]]]

\* The first monitor to go owns where a workspace returns to.
Tag(d, leaving, m) ==
    [d EXCEPT !.last = [w \in Ws |-> IF w \in Range(leaving) /\ @[w] = None
                                     THEN m ELSE @[w]]]

\* A monitor that is going shows nothing and is not the focused one.
Release(d, m, backup) ==
    [d EXCEPT !.visible = @ \ {d.active[m], d.special[m]},
              !.active[m] = None, !.special[m] = None,
              !.focus = IF @ = m \/ backup = None THEN backup ELSE @]

\* onDisconnect: its workspaces, and those without a monitor, go to the
\* first other monitor, with a tag.
Evacuate(d, m) ==
    LET leaving == Among(d.list, {w \in Ws : d.owner[w] \in {m, None}})
        others == Among(d.monitors, Mons \ {m})
        backup == IF others = <<>> THEN None ELSE Head(others)
        tagged == [Tag(d, leaving, m) EXCEPT
                      !.seen[m] = IF d.active[m] = None THEN @ ELSE d.active[m]]
        moved == FoldLeft(LAMBDA e, w : MoveWorkspaceToMonitor(e, w, backup),
                          tagged, leaving)
    IN  [Prune(Release(moved, m, backup)) EXCEPT !.monitors = others]

OnDisconnect(d, m) ==
    LET down == IF m \in Enabled(d) THEN Evacuate(d, m) ELSE d
    IN  IF m # Fallback /\ down.monitors = <<>> THEN SetFallbackActive(down, TRUE)
        ELSE down

\* The monitor's object goes: who pointed to it points to nothing.
Forget(d, m) ==
    [d EXCEPT !.owner = [w \in Ws |-> IF @[w] = m THEN None ELSE @[w]]]

-----------------------------------------------------------------------------
(* Deferred calls *)

Bring(e, w) ==
    MoveWorkspaceToMonitor(IF Exists(e, w) THEN e ELSE Create(e, w, Rule[w]),
                           w, Rule[w])

\* ensurePersistentWorkspacesPresent: persistent is what has a rule whose
\* monitor is there, and nothing else.
EnsurePersistent(d) ==
    LET present == Among(Persistent, {w \in Ids : Rule[w] \in Enabled(d)})
    IN  IF d.focus = None THEN d
        ELSE Prune([FoldLeft(Bring, d, present) EXCEPT !.persistent = Range(present)])

Assign(e, w) ==
    IF w \in Ids /\ Rule[w] \in Enabled(e) THEN MoveWorkspaceToMonitor(e, w, Rule[w])
    ELSE e

EnsureAssigned(d) == Prune(FoldLeft(Assign, d, d.list))

\* Mutation: FALLBACK stays once it is there.
UpdateFallback_Stays(d) ==
    IF d.wanted /\ Fallback \notin Enabled(d) THEN OnConnect(d, Fallback) ELSE d

\* The update setFallbackActive deferred.
UpdateFallback(d) ==
    CASE d.wanted = (Fallback \in Enabled(d)) -> d
      [] d.wanted /\ Fallback \notin Enabled(d) -> OnConnect(d, Fallback)
      [] ~d.wanted /\ Fallback \in Enabled(d) ->
            Forget(OnDisconnect(d, Fallback), Fallback)

Call(d, f) == CASE f = "ensure"   -> EnsureAssigned(EnsurePersistent(d))
                [] f = "fallback" -> UpdateFallback(d)
                [] f = "start"    -> SetFallbackActive(d, FALSE)

\* All that was queued runs before the next callback; what it queues runs
\* another time.
RunLater ==
    /\ desk.later # <<>>
    /\ desk' = FoldLeft(Call, [desk EXCEPT !.later = <<>>], desk.later)
    /\ UNCHANGED <<known, timer, started, home, count>>

-----------------------------------------------------------------------------
(* Outputs and frames *)

Connect(m) ==
    /\ desk' = OnConnect(desk, m)
    /\ home' = [w \in Ws |-> IF home[w] = m THEN None ELSE home[w]]

\* home is what the first monitor to go leaves behind, for as long as no tag
\* is there; only a tag of FALLBACK has no home.  A workspace without windows
\* is not followed, for it may be dropped and made anew in one callback.
Disconnect(m, down) ==
    /\ desk' = down
    /\ home' = [w \in Ws |-> IF /\ w \in desk.windows /\ m \in Enabled(desk)
                                /\ desk.owner[w] = m /\ desk.last[w] = None
                             THEN m ELSE home[w]]

\* An output appears: a new object, with the name it had before.
PlugIn(m) ==
    /\ m \notin known
    /\ known' = known \cup {m}
    /\ Connect(m)
    /\ UNCHANGED <<timer, started>>

\* The backend destroys an output, which may be a disabled one.
Unplug(m) ==
    /\ m \in known
    /\ known' = known \ {m}
    /\ Disconnect(m, Forget(OnDisconnect(desk, m), m))
    /\ UNCHANGED <<timer, started>>

\* A rule or the headset disables a monitor; its object stays.
Disable(m) ==
    /\ m \in Enabled(desk) \cap Real
    /\ Disconnect(m, OnDisconnect(desk, m))
    /\ UNCHANGED <<known, timer, started>>

Enable(m) ==
    /\ m \in known \ Enabled(desk)
    /\ Connect(m)
    /\ UNCHANGED <<known, timer, started>>

\* renderMonitor fires start once in the life of the compositor.
FirstFrame ==
    /\ ~started /\ desk.monitors # <<>>
    /\ started' = TRUE /\ timer' = FALSE
    /\ desk' = [desk EXCEPT !.later = Append(@, "start")]
    /\ UNCHANGED <<known, home, count>>

LaunchTimeout ==
    /\ timer /\ timer' = FALSE
    /\ desk' = IF Enabled(desk) \subseteq {Fallback}
               THEN SetFallbackActive(desk, TRUE) ELSE desk
    /\ UNCHANGED <<known, started, home, count>>

-----------------------------------------------------------------------------
(* The user and the windows *)

\* What the user moved away is not waited for any more.
UserMoves ==
    /\ home' = [w \in Ws |-> IF /\ w \in desk'.windows
                                /\ desk'.owner[w] = desk.owner[w]
                             THEN home[w] ELSE None]
    /\ UNCHANGED <<known, timer, started>>

\* changeWorkspace, to an id that may have to be created first; a workspace
\* left on a disabled monitor is adopted.
Switch(w) ==
    LET cur == desk.focus
        made == IF Exists(desk, w) THEN desk ELSE Create(desk, w, cur)
        at == made.owner[w]
        adopted == IF at \in Enabled(made) THEN made
                   ELSE MoveWorkspaceToMonitor(made, w, cur)
        m == adopted.owner[w]
    IN  /\ cur # None /\ at # None
        /\ desk' = Prune(ChangeWorkspace([adopted EXCEPT !.focus = m], m, w))
        /\ UserMoves

SendTo(w, m) ==
    /\ Exists(desk, w) /\ m \in Enabled(desk)
    /\ desk' = Prune(MoveWorkspaceToMonitor(desk, w, m))
    /\ UserMoves

\* changeWorkspaceOnCurrentMonitor, for a workspace of another monitor: swap
\* if it is active there, else fetch it.
FetchHere(w) ==
    LET cur == desk.focus
        from == desk.owner[w]
    IN  /\ cur # None /\ Exists(desk, w) /\ from \notin {None, cur}
        /\ w \in Ids
        /\ desk' = IF desk.active[from] = w
                   THEN SwapActiveWorkspaces(desk, from, cur)
                   ELSE Prune(ChangeWorkspace(
                            MoveWorkspaceToMonitor(desk, w, cur), cur, w))
        /\ UserMoves

ToggleSpecial ==
    LET cur == desk.focus
        made == IF Exists(desk, Special) THEN desk ELSE Create(desk, Special, cur)
    IN  /\ cur # None
        /\ desk' = Prune(IF desk.special[cur] = Special THEN HideSpecial(desk, cur)
                         ELSE ShowSpecial(made, cur, Special))
        /\ UserMoves

FocusMonitor(m) ==
    /\ m \in Enabled(desk)
    /\ desk' = [desk EXCEPT !.focus = m]
    /\ UserMoves

OpenWindow(w) ==
    /\ Exists(desk, w) /\ w \notin desk.windows
    /\ Cardinality(desk.windows) < MaxHeld
    /\ desk' = [desk EXCEPT !.windows = @ \cup {w}]
    /\ UserMoves

CloseWindows(w) ==
    /\ w \in desk.windows
    /\ desk' = Prune([desk EXCEPT !.windows = @ \ {w}])
    /\ UserMoves

-----------------------------------------------------------------------------
(* Specification *)

Init ==
    /\ desk = [monitors |-> <<>>, list |-> <<>>, windows |-> {}, persistent |-> {},
               owner |-> [w \in Ws |-> None], last |-> [w \in Ws |-> None],
               visible |-> {}, focus |-> None, wanted |-> FALSE, later |-> <<>>,
               active |-> [m \in Mons |-> None], special |-> [m \in Mons |-> None],
               seen |-> [m \in Mons |-> None]]
    /\ known = {} /\ timer = TRUE /\ started = FALSE
    /\ home = [w \in Ws |-> None]
    /\ count = [outputs |-> 0, requests |-> 0]

Outputs ==
    /\ count.outputs < MaxOutputs
    /\ count' = [count EXCEPT !.outputs = @ + 1]
    /\ \E m \in Real : PlugIn(m) \/ Unplug(m) \/ Disable(m) \/ Enable(m)

User ==
    /\ count.requests < MaxRequests
    /\ count' = [count EXCEPT !.requests = @ + 1]
    /\ \/ \E w \in UserIds : Switch(w)
       \/ \E w \in Ids : FetchHere(w)
       \/ \E w \in Ws, m \in Mons : SendTo(w, m)
       \/ \E m \in Mons : FocusMonitor(m)
       \/ \E w \in Ws : OpenWindow(w) \/ CloseWindows(w)
       \/ ToggleSpecial

Next == RunLater \/ FirstFrame \/ LaunchTimeout \/ Outputs \/ User

Spec == Init /\ [][Next]_vars

-----------------------------------------------------------------------------
(* Properties *)

\* Every enabled monitor shows one workspace, which exists and lies on it, and
\* its special one lies on it as well; a monitor that is down shows nothing; the
\* focused monitor is an enabled one, if any is.  m_visible, which rendering,
\* focus and the suspension of windows go by, is what the monitors show.
VisibleIsShown ==
    /\ \A m \in Mons :
        IF m \in Enabled(desk)
        THEN /\ Exists(desk, desk.active[m]) /\ desk.owner[desk.active[m]] = m
             /\ desk.special[m] # None => desk.owner[Special] = m
        ELSE desk.active[m] = None /\ desk.special[m] = None
    /\ IF desk.monitors = <<>> THEN desk.focus = None ELSE desk.focus \in Enabled(desk)
    /\ desk.visible = (Range(desk.active) \cup Range(desk.special)) \ {None}

\* While a monitor is there, no workspace lies on one that is not: its windows
\* would be out of reach.  Exempt is a persistent one whose own monitor is
\* away, for it can be made to fill the gap on the very monitor that goes, too
\* late to be evacuated; and when its own monitor comes, until the deferred
\* call that brings it there, for a third monitor takes no orphans.
NoneStranded ==
    desk.monitors # <<>> =>
        \A w \in Range(desk.list) :
            \/ desk.owner[w] \in Enabled(desk)
            \/ /\ w \in Range(Persistent)
               /\ Rule[w] \in Enabled(desk) => "ensure" \in Range(desk.later)

\* A workspace with windows that a monitor's going away displaced is back on
\* it when it returns, whatever went and came meanwhile, unless the user moved it or
\* a rule made it some monitor's default.
ReturnsHome ==
    [][\A m \in Enabled(desk') \ Enabled(desk), w \in Ws \ Range(Default) :
          home[w] = m => desk'.owner[w] = m]_vars

\* FALLBACK is beside a real monitor only until the update is made that was
\* deferred when the other came.
FallbackAlone ==
    desk.later = <<>> /\ Fallback \in Enabled(desk) => desk.monitors = <<Fallback>>

=============================================================================
