------------------------------ MODULE SeatGrab ------------------------------
(***************************************************************************)
(* The grab of the seat, and the two kinds of objects that contend for it: *)
(* hyprland_focus_grab_v1 objects, each with a grab of its own over the    *)
(* surfaces the client committed, and the one grab all xdg_popups share.   *)
(*                                                                         *)
(* Data are the surfaces; where the pointer is decides who is focused and  *)
(* is left open.  Left out: drag and drop, and the seat without a keyboard *)
(* (SessionLock has both a lock and keyboards that come and go).           *)
(***************************************************************************)
EXTENDS Naturals

CONSTANTS
    FocusGrabs,  \* CFocusGrab objects
    Surfs,       \* surfaces of clients that use them, layer surfaces say
    Popups,      \* xdg_popups, each with its own surface
    App,         \* any other surface, the parent of the popups
    Xdg, None

ASSUME SeatGrabAssumption ==
    /\ FocusGrabs \cap (Popups \cup {Xdg, None}) = {} /\ Xdg # None
    /\ (Surfs \cup Popups) \cap {App, None} = {} /\ App # None
    /\ Surfs \cap Popups = {}

\* What the handlers work on: m_seatGrab, the seat's keyboard focus, and
\* m_focusSurface of the focus state; m_surfs of each grab; the state of each
\* surface, m_grabActive and the cleared events since activation for each focus
\* grab; the popups that exist, m_grabOwner and m_grabbed.
VARIABLES seat, live

vars == <<seat, live>>

Surfaces == Surfs \cup Popups \cup {App}
Grabs == FocusGrabs \cup {Xdg}
States == {"none", "PendingAddition", "PendingRemoval", "Committed"}

Seat ==
    [grab : Grabs \cup {None}, kb : Surfaces \cup {None}, fs : Surfaces \cup {None},
     surfs : [Grabs -> SUBSET Surfaces],
     state : [FocusGrabs -> [Surfs -> States]], active : [FocusGrabs -> BOOLEAN],
     told : [FocusGrabs -> {0, 1}],
     owner : Popups \cup {None}, grabbed : SUBSET Popups]

\* The handlers' state has its type, no client is told twice that its grab is
\* cleared; live: the focus grabs and popups that exist.
TypeOK == seat \in Seat /\ live \subseteq FocusGrabs \cup Popups

In(s, g, st) == {x \in Surfs : s.state[g][x] = st}

-----------------------------------------------------------------------------
(* The seat *)

\* Whom the pointer, the last window or the parent of a popup may give the
\* keyboard to, with no grab in the way.
Refocus(s) ==
    {s} \cup {[s EXCEPT !.kb = x, !.fs = x] :
                x \in Surfs \cup (live \cap Popups) \cup {App, None}}

Accepts(s, x) == s.grab = None \/ x \in s.surfs[s.grab]

\* Mutation: the grab is not asked.
RawSurfaceFocus_NoGrab(s, x) == [s EXCEPT !.kb = x, !.fs = x]

\* The focus state follows only where the seat's focus changes.
RawSurfaceFocus(s, x) ==
    IF s.kb = x \/ ~Accepts(s, x) THEN s ELSE [s EXCEPT !.kb = x, !.fs = x]

\* The surface under the pointer, or the first; the focus state is not told.
RefocusGrab(s) ==
    IF s.grab = None THEN {s}
    ELSE IF s.surfs[s.grab] = {} THEN {s}
    ELSE {[s EXCEPT !.kb = x] : x \in s.surfs[s.grab]}

\* CFocusGrab::finish, once the seat has let go of the grab.
Release(s, g, cleared) ==
    [s EXCEPT !.active[g] = FALSE, !.surfs[g] = {},
              !.state[g] = [x \in Surfs |-> "none"],
              !.told[g] = IF cleared THEN s.told[g] + 1 ELSE s.told[g]]

\* Mutation: the flag is not looked at, and cleared is sent again.
OnEnd_Again(s, g) ==
    IF g = Xdg THEN [s EXCEPT !.grabbed = {}] ELSE Release(s, g, TRUE)

\* The callback of a grab that ended: popups are told done, the client of an
\* active focus grab that it is cleared.
OnEnd(s, g) ==
    CASE g = Xdg -> [s EXCEPT !.grabbed = {}]
      [] g # Xdg -> IF s.active[g] THEN Release(s, g, TRUE) ELSE s

\* setGrab(nullptr): focus moves before the old grab hears of its end.
EndGrab(s) ==
    IF s.grab = None THEN {s}
    ELSE {OnEnd(t, s.grab) : t \in Refocus([s EXCEPT !.grab = None])}

SetGrab(s, g) == UNION {RefocusGrab([t EXCEPT !.grab = g]) : t \in EndGrab(s)}

-----------------------------------------------------------------------------
(* Focus grabs *)

\* m_grabActive goes first, so that the end of the grab finds nothing to do.
Finish(s, g, cleared) ==
    IF ~s.active[g] THEN {s}
    ELSE {Release(t, g, cleared) :
            t \in LET off == [s EXCEPT !.active[g] = FALSE]
                  IN  IF s.grab = g THEN EndGrab(off) ELSE {off}}

\* Some committed surface gets the keyboard if none has it.
RefocusKeyboard(s, g) ==
    IF s.kb \in In(s, g, "Committed") THEN {s}
    ELSE {RawSurfaceFocus(s, x) : x \in In(s, g, "Committed")}

\* The grab is taken once; then the pointer may move the focus inside it.
Start(s, g) ==
    LET taken == IF s.active[g] THEN {s}
                 ELSE SetGrab([s EXCEPT !.active[g] = TRUE, !.told[g] = 0], g)
        moved == UNION {{RawSurfaceFocus(t, x) : x \in t.surfs[g] \cup {t.kb}} : t \in taken}
    IN  UNION {RefocusKeyboard(t, g) : t \in moved}

\* CSeatGrab::remove of the surfaces that go, one after the other.  Where one had the
\* keyboard or the pointer, which may be anywhere, the seat's grab is asked: for what
\* it keeps, or, if nothing, for one that goes after.
Removed(s, g, gone) ==
    LET rest == [s EXCEPT !.surfs[g] = s.surfs[g] \ gone,
                          !.state[g] = [x \in Surfs |-> IF x \in gone THEN "none" ELSE s.state[g][x]]]
        last == IF s.grab = g /\ rest.surfs[g] = {} THEN {x \in gone : gone # {x}} ELSE {}
    IN  (IF s.kb \in gone THEN {} ELSE {rest})
        \cup (IF gone = {} THEN {}
              ELSE RefocusGrab(rest) \cup {[rest EXCEPT !.kb = x] : x \in last})

\* The additions that are due, if any are, are there before or after a removal:
\* the order is that of the hash map.
Added(s, g, new) ==
    [s EXCEPT !.surfs[g] = s.surfs[g] \cup new,
              !.state[g] = [x \in Surfs |-> IF x \in new THEN "Committed" ELSE s.state[g][x]]]

\* Mutation: the grab outlives its last surface.
Commit_NoFinish(s, g, removeOnly) ==
    LET new == IF removeOnly THEN {} ELSE In(s, g, "PendingAddition")
    IN  UNION {IF In(t, g, "Committed") # {} THEN Start(t, g) ELSE {t} :
                 t \in Removed(Added(s, g, new), g, In(s, g, "PendingRemoval"))}

Commit(s, g, removeOnly) ==
    LET gone == In(s, g, "PendingRemoval")
        new  == IF removeOnly THEN {} ELSE In(s, g, "PendingAddition")
        both == Removed(Added(s, g, new), g, gone)
                \cup {Added(t, g, new) : t \in Removed(s, g, gone)}
    IN  IF gone \cup new = {} THEN {s}
        ELSE UNION {IF In(t, g, "Committed") # {} THEN Start(t, g) ELSE Finish(t, g, TRUE) :
                      t \in both}

\* What is added and removed again before its commit never was.
RemoveSurface(s, g, x) ==
    [s EXCEPT !.state[g][x] = IF @ \in {"Committed", "PendingRemoval"}
                              THEN "PendingRemoval" ELSE "none"]

\* A surface of the grab is destroyed: it goes at once, and with it whatever was
\* to be removed by the next commit.
EraseSurface(s, g, x) ==
    IF s.state[g][x] = "none" THEN {s} ELSE Commit(RemoveSurface(s, g, x), g, TRUE)

-----------------------------------------------------------------------------
(* Popups *)

\* The first popup takes the seat; as long as that popup exists, later ones only
\* join it.
AddOrStartGrab(s, p, parent) ==
    IF s.owner = None
    THEN {[t EXCEPT !.grabbed = {p}] :
            t \in SetGrab([s EXCEPT !.owner = p, !.grabbed = {},
                                    !.surfs[Xdg] = {p, parent}], Xdg)}
    ELSE {[s EXCEPT !.grabbed = s.grabbed \cup {p}, !.surfs[Xdg] = s.surfs[Xdg] \cup {p, parent}]}

\* The owner takes whatever grab there is with it.  Another popup may have had the
\* keyboard or the pointer, so that the seat's grab is asked.
OnPopupDestroy(s, p) ==
    IF p = s.owner
    THEN {[t EXCEPT !.grabbed = {}, !.owner = None] : t \in EndGrab(s)}
    ELSE LET rest == [s EXCEPT !.grabbed = s.grabbed \ {p}, !.surfs[Xdg] = s.surfs[Xdg] \ {p}]
         IN  RefocusGrab(rest) \cup (IF s.kb = p THEN {} ELSE {rest})

-----------------------------------------------------------------------------
(* Requests and events *)

\* The surface is gone: nobody has the focus who had it.
Expire(s, x) ==
    [s EXCEPT !.kb = IF s.kb = x THEN None ELSE s.kb,
              !.fs = IF s.fs = x THEN None ELSE s.fs]

CreateGrab(g) ==
    /\ g \notin live
    /\ live' = live \cup {g}
    /\ seat' = [seat EXCEPT !.told[g] = 0]

AddSurface(g, x) ==
    /\ g \in live /\ seat.state[g][x] = "none"
    /\ seat' = [seat EXCEPT !.state[g][x] = "PendingAddition"]
    /\ UNCHANGED live

RemoveRequest(g, x) ==
    /\ g \in live
    /\ seat' = RemoveSurface(seat, g, x)
    /\ UNCHANGED live

CommitRequest(g) ==
    /\ g \in live
    /\ seat' \in Commit(seat, g, FALSE)
    /\ UNCHANGED live

DestroyGrab(g) ==
    /\ g \in live
    /\ seat' \in {[t EXCEPT !.state[g] = [x \in Surfs |-> "none"]] : t \in Finish(seat, g, FALSE)}
    /\ live' = live \ {g}

\* Every focus grab that lists the surface hears of it; no two of them are
\* active, and those that are not only forget it.
SurfaceGone(x) ==
    /\ LET held == {g \in FocusGrabs : seat.active[g]}
       IN  \E t \in IF held = {} THEN {seat}
                    ELSE UNION {EraseSurface(seat, g, x) : g \in held} :
             seat' = [Expire(t, x) EXCEPT !.state = [g \in FocusGrabs |->
                        IF g \in held THEN t.state[g]
                        ELSE [t.state[g] EXCEPT ![x] = "none"]]]
    /\ UNCHANGED live

CreatePopup(p) ==
    /\ p \notin live
    /\ live' = live \cup {p}
    /\ UNCHANGED seat

GrabRequest(p) ==
    /\ p \in live /\ p \notin seat.grabbed
    /\ \E parent \in {App} \cup ((live \ {p}) \cap Popups) :
         seat' \in AddOrStartGrab(seat, p, parent)
    /\ UNCHANGED live

DestroyPopup(p) ==
    /\ p \in live
    /\ live' = live \ {p}
    /\ \E t \in OnPopupDestroy(seat, p) : seat' = Expire(t, p)

\* A press beside the grab's surfaces, or the session lock.
GrabDropped ==
    /\ seat.grab # None
    /\ seat' \in EndGrab(seat)
    /\ UNCHANGED live

\* The pointer, a window or a client asks for the keyboard.
FocusRequest(x) ==
    /\ seat' = RawSurfaceFocus(seat, x)
    /\ UNCHANGED live

\* An interactive layer surface maps: a grab that does not accept it ends first.
LayerMaps(x) ==
    /\ seat' \in {RawSurfaceFocus(t, x) :
                    t \in IF Accepts(seat, x) THEN {seat} ELSE EndGrab(seat)}
    /\ UNCHANGED live

\* A layer surface without focus unmaps: the focus state's surface gets the
\* keyboard, whatever the grab says.
OtherLayerUnmaps ==
    /\ seat.fs # None
    /\ seat' = [seat EXCEPT !.kb = seat.fs]
    /\ UNCHANGED live

\* No window is left to focus (rawWindowFocus of none does not ask the grab).
NoWindowLeft ==
    /\ seat' = [seat EXCEPT !.kb = None, !.fs = None]
    /\ UNCHANGED live

-----------------------------------------------------------------------------
(* Specification *)

Init ==
    /\ seat = [grab |-> None, kb |-> None, fs |-> None,
               surfs |-> [g \in Grabs |-> {}],
               state |-> [g \in FocusGrabs |-> [x \in Surfs |-> "none"]],
               active |-> [g \in FocusGrabs |-> FALSE],
               told |-> [g \in FocusGrabs |-> 0],
               owner |-> None, grabbed |-> {}]
    /\ live = {}

GrabStep ==
    \E g \in FocusGrabs :
        \/ CreateGrab(g) \/ CommitRequest(g) \/ DestroyGrab(g)
        \/ \E x \in Surfs : AddSurface(g, x) \/ RemoveRequest(g, x)

PopupStep == \E p \in Popups : CreatePopup(p) \/ GrabRequest(p) \/ DestroyPopup(p)

FocusStep ==
    \/ GrabDropped \/ OtherLayerUnmaps \/ NoWindowLeft
    \/ \E x \in Surfs : SurfaceGone(x) \/ LayerMaps(x)
    \/ \E x \in Surfs \cup (live \cap Popups) \cup {App, None} : FocusRequest(x)

Next == GrabStep \/ PopupStep \/ FocusStep

Spec == Init /\ [][Next]_vars

-----------------------------------------------------------------------------
(* Properties *)

\* The seat and those who ask for it agree.  A focus grab is active exactly while
\* it is the seat's, and its seat grab holds what it committed, never nothing; a
\* client is not told that an active grab is cleared.  A popup grab has an owner,
\* whose own surface it accepts.
GrabsAgree ==
    /\ \A g \in FocusGrabs :
          /\ seat.active[g] <=> seat.grab = g
          /\ seat.surfs[g] = In(seat, g, "Committed") \cup In(seat, g, "PendingRemoval")
          /\ seat.active[g] <=> seat.surfs[g] # {}
          /\ seat.active[g] => seat.told[g] = 0
    /\ seat.grab = Xdg => seat.owner \in seat.grabbed \cap seat.surfs[Xdg]
    /\ seat.grabbed # {} => seat.owner # None
    /\ seat.owner # None => seat.owner \in live

\* While a grab lasts the keyboard leaves its surfaces only for the surface the
\* focus state still remembers, or for none.
KeyboardStaysInGrab ==
    [][seat.grab # None /\ seat'.grab = seat.grab
       => (seat.kb \in seat.surfs[seat.grab]
           => seat'.kb \in seat'.surfs[seat.grab] \cup {seat.fs, None})]_vars

=============================================================================
