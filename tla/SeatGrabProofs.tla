--------------------------- MODULE SeatGrabProofs ---------------------------
(***************************************************************************)
(* The seat and those who ask for its grab agree, whatever the numbers of  *)
(* focus grabs, surfaces and popups.  In the middle of a request one focus *)
(* grab does not agree with the seat yet (Busy); each operator of SeatGrab *)
(* gets one lemma that says what it asks and promises in these terms.      *)
(***************************************************************************)
EXTENDS SeatGrab, TLAPS

\* Whether the grab is active and which surfaces it holds, in the seat's eyes and
\* in its own.
Held(s, g) ==
    /\ s.active[g] <=> s.grab = g
    /\ s.surfs[g] = In(s, g, "Committed") \cup In(s, g, "PendingRemoval")
    /\ s.active[g] => s.told[g] = 0

\* And it is active exactly while it holds some.
Whole(s, g) == Held(s, g) /\ (s.active[g] <=> s.surfs[g] # {})

PopupsAgree(s) ==
    /\ s.grab = Xdg => s.owner \in s.grabbed \cap s.surfs[Xdg]
    /\ s.grabbed # {} => s.owner # None

Busy(s, g) ==
    /\ s \in Seat /\ PopupsAgree(s)
    /\ Held(s, g) /\ \A h \in FocusGrabs \ {g} : Whole(s, h)

Agree(s) ==
    /\ s \in Seat /\ PopupsAgree(s)
    /\ \A g \in FocusGrabs : Whole(s, g)

\* The inductive invariant.
Inv ==
    /\ live \subseteq FocusGrabs \cup Popups
    /\ Agree(seat)
    /\ seat.owner # None => seat.owner \in live

-----------------------------------------------------------------------------
(* Focus *)

\* Nothing but focus changes between s and t.
OnlyFocus(s, t) ==
    /\ t \in Seat
    /\ t.grab = s.grab /\ t.surfs = s.surfs /\ t.state = s.state
    /\ t.active = s.active /\ t.told = s.told
    /\ t.owner = s.owner /\ t.grabbed = s.grabbed

LEMMA SetFocus ==
    ASSUME NEW s \in Seat, NEW x \in Surfaces \cup {None}, NEW y \in Surfaces \cup {None}
    PROVE  OnlyFocus(s, s) /\ OnlyFocus(s, [s EXCEPT !.kb = x, !.fs = y])
           /\ OnlyFocus(s, [s EXCEPT !.kb = x])
BY DEF OnlyFocus, Seat

\* Whoever gives the keyboard away leaves the grabs alone.
LEMMA FocusMoves ==
    ASSUME NEW s \in Seat
    PROVE  /\ \A t \in Refocus(s) \cup RefocusGrab(s) : OnlyFocus(s, t)
           /\ \A x \in Surfaces \cup {None} : OnlyFocus(s, RawSurfaceFocus(s, x))
<1>1. ASSUME NEW t \in Refocus(s)
      PROVE  OnlyFocus(s, t)
  <2>1. t = s \/ \E x \in Surfaces \cup {None} : t = [s EXCEPT !.kb = x, !.fs = x]
    BY DEF Refocus, Surfaces
  <2>. QED  BY <2>1, SetFocus
<1>2. ASSUME NEW t \in RefocusGrab(s)
      PROVE  OnlyFocus(s, t)
  <2>1. t = s \/ \E x \in s.surfs[s.grab] : s.grab # None /\ t = [s EXCEPT !.kb = x]
    BY DEF RefocusGrab
  <2>2. s.grab # None => s.surfs[s.grab] \subseteq Surfaces
    BY DEF Seat
  <2>. QED  BY <2>1, <2>2, SetFocus
<1>3. ASSUME NEW x \in Surfaces \cup {None}
      PROVE  OnlyFocus(s, RawSurfaceFocus(s, x))
  BY SetFocus DEF RawSurfaceFocus
<1>. QED  BY <1>1, <1>2, <1>3

LEMMA FocusKeeps ==
    ASSUME NEW s, NEW t, OnlyFocus(s, t), NEW g
    PROVE  /\ Busy(s, g) => Busy(t, g)
           /\ Agree(s) => Agree(t)
           /\ \A st : In(t, g, st) = In(s, g, st)
BY DEF OnlyFocus, Busy, Agree, Held, Whole, PopupsAgree, In

-----------------------------------------------------------------------------
(* The end of a grab *)

Blank == [x \in Surfs |-> "none"]

\* The grab of t is next; what s had ended, and its owner heard of it.
Ended(s, t, next) ==
    /\ t \in Seat /\ t.grab = next /\ t.owner = s.owner
    /\ t.grabbed = IF s.grab = Xdg THEN {} ELSE s.grabbed
    /\ t.surfs[Xdg] = s.surfs[Xdg]
    /\ \A h \in FocusGrabs :
          IF h = s.grab /\ s.active[h]
          THEN ~t.active[h] /\ t.surfs[h] = {} /\ t.state[h] = Blank
          ELSE /\ t.active[h] = s.active[h] /\ t.surfs[h] = s.surfs[h]
               /\ t.state[h] = s.state[h] /\ t.told[h] = s.told[h]

\* What Ended asks: an active grab has not been told of its end.
Endable(s) ==
    /\ s \in Seat
    /\ s.grab \in FocusGrabs /\ s.active[s.grab] => s.told[s.grab] = 0

LEMMA Constants ==
    /\ Xdg \notin FocusGrabs /\ None \notin FocusGrabs /\ Xdg # None
    /\ None \notin Surfaces /\ None \notin Popups
    /\ Popups \subseteq Surfaces /\ Surfs \subseteq Surfaces /\ App \in Surfaces
    /\ FocusGrabs \subseteq Grabs /\ Xdg \in Grabs /\ FocusGrabs \cap Popups = {}
    /\ Grabs = FocusGrabs \cup {Xdg} /\ None \notin Grabs
BY SeatGrabAssumption DEF Surfaces, Grabs

\* g has let go of all it held.
Released(s, t, g) ==
    /\ t \in Seat /\ t.grab = s.grab /\ t.owner = s.owner
    /\ t.grabbed = s.grabbed /\ t.surfs[Xdg] = s.surfs[Xdg]
    /\ ~t.active[g] /\ t.surfs[g] = {} /\ t.state[g] = Blank
    /\ \A h \in FocusGrabs \ {g} :
          /\ t.active[h] = s.active[h] /\ t.surfs[h] = s.surfs[h]
          /\ t.state[h] = s.state[h] /\ t.told[h] = s.told[h]

LEMMA ReleaseIs ==
    ASSUME NEW s \in Seat, NEW g \in FocusGrabs, NEW cleared \in BOOLEAN,
           cleared => s.told[g] = 0
    PROVE  Released(s, Release(s, g, cleared), g)
<1>. DEFINE n == IF cleared THEN s.told[g] + 1 ELSE s.told[g]
<1>1. n \in {0, 1}
  BY DEF Seat
<1>2. Blank \in [Surfs -> States]
  BY DEF Blank, States
<1>3. Release(s, g, cleared)
      = [s EXCEPT !.active = [s.active EXCEPT ![g] = FALSE],
                  !.surfs = [s.surfs EXCEPT ![g] = {}],
                  !.state = [s.state EXCEPT ![g] = Blank],
                  !.told = [s.told EXCEPT ![g] = n]]
  BY DEF Release, Blank
<1>. HIDE DEF n
<1>. DEFINE a == [s.active EXCEPT ![g] = FALSE]
            u == [s.surfs EXCEPT ![g] = {}]
            z == [s.state EXCEPT ![g] = Blank]
            o == [s.told EXCEPT ![g] = n]
<1>4. /\ a \in [FocusGrabs -> BOOLEAN] /\ ~a[g]
      /\ \A h \in FocusGrabs \ {g} : a[h] = s.active[h]
  BY DEF Seat
<1>5. /\ u \in [Grabs -> SUBSET Surfaces] /\ u[g] = {} /\ u[Xdg] = s.surfs[Xdg]
      /\ \A h \in FocusGrabs \ {g} : u[h] = s.surfs[h]
  BY Constants DEF Seat
<1>6. /\ z \in [FocusGrabs -> [Surfs -> States]] /\ z[g] = Blank
      /\ \A h \in FocusGrabs \ {g} : z[h] = s.state[h]
  BY <1>2 DEF Seat
<1>7. /\ o \in [FocusGrabs -> {0, 1}]
      /\ \A h \in FocusGrabs \ {g} : o[h] = s.told[h]
  BY <1>1 DEF Seat
<1>8. Release(s, g, cleared)
      = [s EXCEPT !.active = a, !.surfs = u, !.state = z, !.told = o]
  BY <1>3
<1>. HIDE DEF a, u, z, o
<1>. QED  BY <1>4, <1>5, <1>6, <1>7, <1>8 DEF Released, Seat

LEMMA EndGrabEnds ==
    ASSUME NEW s, Endable(s), NEW t \in EndGrab(s)
    PROVE  Ended(s, t, None)
<1>. USE DEF Endable
<1>1. CASE s.grab = None
  BY <1>1, Constants DEF EndGrab, Ended, Seat
<1>2. CASE s.grab # None
  <2>. DEFINE off == [s EXCEPT !.grab = None]
  <2>1. /\ off \in Seat /\ off.grab = None /\ off.owner = s.owner
        /\ off.grabbed = s.grabbed /\ off.surfs = s.surfs /\ off.state = s.state
        /\ off.active = s.active /\ off.told = s.told
    BY DEF Seat
  <2>2. PICK u \in Refocus(off) : t = OnEnd(u, s.grab)
    BY <1>2 DEF EndGrab
  <2>. HIDE DEF off
  <2>3. OnlyFocus(off, u)
    BY <2>1, <2>2, FocusMoves
  <2>4. s.grab \in FocusGrabs \cup {Xdg}
    BY <1>2, Constants DEF Seat
  <2>5. CASE s.grab = Xdg
    <3>1. t = [u EXCEPT !.grabbed = {}]
      BY <2>2, <2>5 DEF OnEnd
    <3>2. /\ t \in Seat /\ t.grab = u.grab /\ t.owner = u.owner /\ t.grabbed = {}
          /\ t.surfs = u.surfs /\ t.state = u.state /\ t.active = u.active
          /\ t.told = u.told
      BY <2>3, <3>1 DEF OnlyFocus, Seat
    <3>. QED  BY <2>1, <2>3, <2>5, <3>2, Constants DEF OnlyFocus, Ended
  <2>6. CASE s.grab \in FocusGrabs
    <3>1. t = IF u.active[s.grab] THEN Release(u, s.grab, TRUE) ELSE u
      BY <2>2, <2>6, Constants DEF OnEnd
    <3>2. u \in Seat /\ u.active = s.active /\ u.told = s.told
      BY <2>1, <2>3 DEF OnlyFocus
    <3>3. CASE s.active[s.grab]
      <4>1. u.told[s.grab] = 0
        BY <3>2, <3>3, <2>6
      <4>2. t = Release(u, s.grab, TRUE)
        BY <3>1, <3>2, <3>3
      <4>3. Released(u, t, s.grab)
        BY ONLY <2>6, <3>2, <4>1, <4>2, ReleaseIs, Zenon
      <4>. QED  BY <2>1, <2>3, <2>6, <3>3, <4>3, Constants DEF OnlyFocus, Released, Ended
    <3>4. CASE ~s.active[s.grab]
      BY <2>1, <2>3, <2>6, <3>1, <3>2, <3>4, Constants DEF OnlyFocus, Ended
    <3>. QED  BY <3>3, <3>4
  <2>. QED  BY <2>4, <2>5, <2>6
<1>. QED  BY <1>1, <1>2

LEMMA SetGrabEnds ==
    ASSUME NEW s, Endable(s), NEW g \in Grabs, NEW t \in SetGrab(s, g)
    PROVE  Ended(s, t, g)
<1>1. PICK u \in EndGrab(s) : t \in RefocusGrab([u EXCEPT !.grab = g])
  BY DEF SetGrab
<1>. DEFINE v == [u EXCEPT !.grab = g]
<1>2. Ended(s, u, None)
  BY <1>1, EndGrabEnds
<1>3. /\ v \in Seat /\ v.grab = g /\ v.owner = u.owner /\ v.grabbed = u.grabbed
      /\ v.surfs = u.surfs /\ v.state = u.state /\ v.active = u.active
      /\ v.told = u.told
  BY <1>2 DEF Ended, Seat
<1>. HIDE DEF v
<1>4. OnlyFocus(v, t)
  BY <1>1, <1>3, FocusMoves DEF v
<1>. QED  BY <1>2, <1>3, <1>4 DEF Ended, OnlyFocus

-----------------------------------------------------------------------------
(* The requests of a focus grab *)

LEMMA BusyEnds ==
    ASSUME NEW s, NEW g \in FocusGrabs, Busy(s, g)
    PROVE  Endable(s)
BY DEF Busy, Endable, Held, Whole

\* A grab nothing happened to.
LEMMA SameWhole ==
    ASSUME NEW s, NEW t, NEW h, Whole(s, h), t.grab = s.grab,
           t.active[h] = s.active[h], t.surfs[h] = s.surfs[h],
           t.state[h] = s.state[h], t.told[h] = s.told[h]
    PROVE  Whole(t, h)
<1>1. /\ In(t, h, "Committed") = In(s, h, "Committed")
      /\ In(t, h, "PendingRemoval") = In(s, h, "PendingRemoval")
  BY DEF In
<1>. QED  BY <1>1 DEF Whole, Held

\* A grab that ended holds nothing, and no other is touched.
LEMMA EndedWhole ==
    ASSUME NEW s, NEW t, NEW next, NEW h \in FocusGrabs, next # h,
           Ended(s, t, next), Whole(s, h)
    PROVE  Whole(t, h)
<1>1. t.grab # h
  BY DEF Ended
<1>2. CASE h = s.grab /\ s.active[h]
  <2>1. ~t.active[h] /\ t.surfs[h] = {} /\ t.state[h] = Blank
    BY <1>2 DEF Ended
  <2>2. In(t, h, "Committed") = {} /\ In(t, h, "PendingRemoval") = {}
    BY <2>1 DEF In, Blank
  <2>. QED  BY <1>1, <2>1, <2>2 DEF Whole, Held
<1>3. CASE ~(h = s.grab /\ s.active[h])
  <2>1. /\ t.active[h] = s.active[h] /\ t.surfs[h] = s.surfs[h]
        /\ t.state[h] = s.state[h] /\ t.told[h] = s.told[h]
    BY <1>3 DEF Ended
  <2>2. ~s.active[h]
    BY <1>3 DEF Whole, Held
  <2>3. /\ In(t, h, "Committed") = In(s, h, "Committed")
        /\ In(t, h, "PendingRemoval") = In(s, h, "PendingRemoval")
    BY <2>1 DEF In
  <2>. QED  BY <1>1, <2>1, <2>2, <2>3 DEF Whole, Held
<1>. QED  BY <1>2, <1>3

LEMMA EndedAgrees ==
    ASSUME NEW s, NEW t, Agree(s), Ended(s, t, None)
    PROVE  Agree(t)
<1>1. t \in Seat /\ PopupsAgree(t)
  BY Constants DEF Ended, Agree, PopupsAgree
<1>2. \A g \in FocusGrabs : Whole(t, g)
  BY EndedWhole, Constants DEF Agree
<1>. QED  BY <1>1, <1>2 DEF Agree

LEMMA AgreeIsBusy ==
    ASSUME NEW s, NEW g \in FocusGrabs
    PROVE  /\ Agree(s) => Busy(s, g)
           /\ Busy(s, g) /\ Whole(s, g) => Agree(s)
BY DEF Agree, Busy, Whole

\* setGrab(nullptr) leaves things in agreement.
LEMMA EndGrabAgrees ==
    ASSUME NEW s, Agree(s), NEW t \in EndGrab(s)
    PROVE  Agree(t) /\ t.grab = None /\ t.owner = s.owner
<1>1. Endable(s)
  BY DEF Agree, Endable, Whole, Held
<1>2. Ended(s, t, None)
  BY <1>1, EndGrabEnds
<1>. QED  BY <1>2, EndedAgrees DEF Ended

\* A grab that has surfaces is taken, and brings the agreement back.
LEMMA StartAgrees ==
    ASSUME NEW s, NEW g \in FocusGrabs, Busy(s, g), s.surfs[g] # {},
           NEW t \in Start(s, g)
    PROVE  Agree(t) /\ t.owner = s.owner /\ t.grab = g /\ t.kb \in t.surfs[g]
<1>. DEFINE on == [s EXCEPT !.active[g] = TRUE, !.told[g] = 0]
            taken == IF s.active[g] THEN {s} ELSE SetGrab(on, g)
            moved == UNION {{RawSurfaceFocus(u, x) : x \in u.surfs[g] \cup {u.kb}} : u \in taken}
<1>1. t \in UNION {RefocusKeyboard(u, g) : u \in moved}
  BY DEF Start
<1>2. ASSUME NEW u \in taken
      PROVE  Agree(u) /\ u.owner = s.owner /\ u.grab = g
  <2>1. CASE s.active[g]
    <3>1. u = s
      BY <2>1
    <3>. QED  BY <2>1, <3>1, AgreeIsBusy DEF Busy, Held, Whole
  <2>2. CASE ~s.active[g]
    <3>1. u \in SetGrab(on, g)
      BY <2>2
    <3>2. /\ on \in Seat /\ on.grab = s.grab /\ on.owner = s.owner
          /\ on.grabbed = s.grabbed /\ on.surfs = s.surfs /\ on.state = s.state
          /\ on.active[g] /\ on.told[g] = 0
          /\ \A h \in FocusGrabs \ {g} : on.active[h] = s.active[h] /\ on.told[h] = s.told[h]
      BY DEF Busy, Seat
    <3>. HIDE DEF on
    <3>3. s.grab # g
      BY <2>2 DEF Busy, Held
    <3>4. \A h \in FocusGrabs \ {g} : Whole(on, h)
      <4>1. \A h \in FocusGrabs \ {g} : Whole(s, h)
        BY DEF Busy
      <4>. QED  BY <3>2, <4>1, SameWhole
    <3>5. Endable(on)
      BY <3>2, <3>3, <3>4 DEF Endable, Whole, Held
    <3>6. Ended(on, u, g)
      BY <3>1, <3>5, SetGrabEnds, Constants
    <3>7. \A h \in FocusGrabs \ {g} : Whole(u, h)
      BY <3>4, <3>6, EndedWhole
    <3>8. /\ u.grab = g /\ u.active[g] /\ u.surfs[g] = s.surfs[g]
          /\ u.state[g] = s.state[g] /\ u.told[g] = 0
      BY <3>2, <3>3, <3>6 DEF Ended
    <3>9. Whole(u, g)
      BY <3>8 DEF Busy, Whole, Held, In
    <3>10. PopupsAgree(u)
      BY <3>2, <3>6, Constants DEF Ended, Busy, PopupsAgree
    <3>. QED  BY <3>2, <3>6, <3>7, <3>8, <3>9, <3>10 DEF Ended, Agree
  <2>. QED  BY <2>1, <2>2
<1>3. ASSUME NEW u \in moved
      PROVE  Agree(u) /\ u.owner = s.owner /\ u.grab = g
  <2>1. PICK v \in taken : \E x \in v.surfs[g] \cup {v.kb} : u = RawSurfaceFocus(v, x)
    OBVIOUS
  <2>. HIDE DEF taken, moved
  <2>2. Agree(v) /\ v.owner = s.owner /\ v.grab = g
    BY <1>2
  <2>3. v \in Seat /\ v.surfs[g] \cup {v.kb} \subseteq Surfaces \cup {None}
    BY <2>2, Constants DEF Agree, Seat
  <2>4. OnlyFocus(v, u)
    BY <2>1, <2>3, FocusMoves
  <2>. QED  BY <2>2, <2>4, FocusKeeps DEF OnlyFocus
<1>. HIDE DEF taken, moved
<1>4. PICK u \in moved : t \in RefocusKeyboard(u, g)
  BY <1>1
<1>5. t = u \/ \E x \in Surfaces \cup {None} : t = RawSurfaceFocus(u, x)
  BY <1>4, Constants DEF RefocusKeyboard, In
<1>6. OnlyFocus(u, t)
  BY <1>3, <1>5, FocusMoves, SetFocus DEF Agree
<1>7. In(u, g, "Committed") \subseteq u.surfs[g] /\ u \in Seat
  BY <1>3 DEF Agree, Whole, Held
<1>8. CASE u.kb \in In(u, g, "Committed")
  <2>1. t = u
    BY <1>4, <1>8 DEF RefocusKeyboard
  <2>. QED  BY <1>3, <1>7, <1>8, <2>1
<1>9. CASE u.kb \notin In(u, g, "Committed")
  <2>1. PICK x \in In(u, g, "Committed") : t = RawSurfaceFocus(u, x)
    BY <1>4, <1>9 DEF RefocusKeyboard
  <2>2. t = [u EXCEPT !.kb = x, !.fs = x]
    BY <1>3, <1>7, <1>9, <2>1 DEF RawSurfaceFocus, Accepts
  <2>3. t.kb = x /\ t.surfs = u.surfs
    BY <1>7, <2>2 DEF Seat
  <2>. QED  BY <1>3, <1>6, <1>7, <2>3, FocusKeeps DEF OnlyFocus
<1>. QED  BY <1>8, <1>9

\* Nothing was to be done, or the seat has no grab any more.
Dropped(s, t) == t.grab = None \/ t = s

\* The grab is given up, with the surfaces it held.
LEMMA FinishAgrees ==
    ASSUME NEW s, NEW g \in FocusGrabs, Busy(s, g), s.active[g] \/ s.surfs[g] = {},
           NEW t \in Finish(s, g, TRUE) \cup Finish(s, g, FALSE)
    PROVE  /\ Agree(t) /\ t.owner = s.owner /\ ~t.active[g] /\ t.surfs[g] = {}
           /\ Dropped(s, t)
<1>0. PICK cleared \in BOOLEAN : t \in Finish(s, g, cleared)
  OBVIOUS
<1>1. CASE ~s.active[g]
  <2>1. t = s /\ Whole(s, g)
    BY <1>0, <1>1 DEF Finish, Busy, Whole
  <2>. QED  BY <1>1, <2>1, AgreeIsBusy DEF Dropped
<1>2. CASE s.active[g]
  <2>. DEFINE off == [s EXCEPT !.active[g] = FALSE]
  <2>1. s.grab = g /\ s.told[g] = 0
    BY <1>2 DEF Busy, Held
  <2>2. PICK u \in EndGrab(off) : t = Release(u, g, cleared)
    BY <1>0, <1>2, <2>1 DEF Finish
  <2>3. /\ off \in Seat /\ off.grab = s.grab /\ off.owner = s.owner
        /\ off.grabbed = s.grabbed /\ off.surfs = s.surfs /\ off.state = s.state
        /\ ~off.active[g] /\ off.told = s.told
        /\ \A h \in FocusGrabs \ {g} : off.active[h] = s.active[h]
    BY DEF Busy, Seat
  <2>. HIDE DEF off
  <2>4. \A h \in FocusGrabs \ {g} : Whole(off, h)
    <3>1. \A h \in FocusGrabs \ {g} : Whole(s, h)
      BY DEF Busy
    <3>. QED  BY <2>3, <3>1, SameWhole
  <2>5. Endable(off)
    BY <2>1, <2>3 DEF Endable
  <2>6. Ended(off, u, None)
    BY <2>2, <2>5, EndGrabEnds
  <2>7. \A h \in FocusGrabs \ {g} : Whole(u, h)
    BY <2>4, <2>6, EndedWhole, Constants
  <2>8. u \in Seat /\ u.told[g] = 0 /\ u.grab = None /\ u.grabbed = s.grabbed
        /\ u.owner = s.owner
    BY <2>1, <2>3, <2>6, Constants DEF Ended
  <2>9. Released(u, t, g)
    BY <2>2, <2>8, ReleaseIs
  <2>10. \A h \in FocusGrabs \ {g} : Whole(t, h)
    BY <2>7, <2>9, SameWhole DEF Released
  <2>11. In(t, g, "Committed") = {} /\ In(t, g, "PendingRemoval") = {}
    BY <2>9 DEF Released, In, Blank
  <2>12. Whole(t, g)
    BY <2>8, <2>9, <2>11, Constants DEF Released, Whole, Held
  <2>13. PopupsAgree(t)
    BY <2>8, <2>9, Constants DEF Released, Busy, PopupsAgree
  <2>. QED  BY <1>2, <2>8, <2>9, <2>10, <2>12, <2>13 DEF Released, Agree, Dropped
<1>. QED  BY <1>1, <1>2

\* What changes of one focus grab only: the states of its surfaces and which of
\* them the seat grab has.
OnlyList(s, t, g) ==
    /\ t \in Seat /\ t.grab = s.grab /\ t.owner = s.owner /\ t.grabbed = s.grabbed
    /\ t.active = s.active /\ t.told = s.told /\ t.surfs[Xdg] = s.surfs[Xdg]
    /\ \A h \in FocusGrabs \ {g} : t.surfs[h] = s.surfs[h] /\ t.state[h] = s.state[h]

\* s with another list of surfaces for g.
Listing(s, g, held, st) == [s EXCEPT !.surfs[g] = held, !.state[g] = st]

LEMMA ListIs ==
    ASSUME NEW s \in Seat, NEW g \in FocusGrabs,
           NEW held \in SUBSET Surfaces, NEW st \in [Surfs -> States]
    PROVE  LET t == Listing(s, g, held, st)
           IN  OnlyList(s, t, g) /\ t.surfs[g] = held /\ t.state[g] = st
BY Constants DEF OnlyList, Listing, Seat

LEMMA OthersKeep ==
    ASSUME NEW s, NEW t, NEW g \in FocusGrabs, OnlyList(s, t, g),
           \A h \in FocusGrabs \ {g} : Whole(s, h), PopupsAgree(s)
    PROVE  (\A h \in FocusGrabs \ {g} : Whole(t, h)) /\ PopupsAgree(t)
<1>1. \A h \in FocusGrabs \ {g} : Whole(t, h)
  BY SameWhole DEF OnlyList
<1>2. PopupsAgree(t)
  BY DEF OnlyList, PopupsAgree
<1>. QED  BY <1>1, <1>2

LEMMA AddedKeeps ==
    ASSUME NEW s, NEW g \in FocusGrabs, Busy(s, g),
           NEW new \in SUBSET In(s, g, "PendingAddition")
    PROVE  LET t == Added(s, g, new)
           IN  /\ Busy(t, g) /\ t.owner = s.owner /\ t.grab = s.grab
               /\ In(t, g, "PendingRemoval") = In(s, g, "PendingRemoval")
               /\ new \subseteq In(t, g, "Committed")
               /\ In(s, g, "Committed") \subseteq In(t, g, "Committed")
<1>. DEFINE st == [x \in Surfs |-> IF x \in new THEN "Committed" ELSE s.state[g][x]]
            t == Added(s, g, new)
<1>1. new \subseteq Surfs /\ \A x \in new : s.state[g][x] = "PendingAddition"
  BY DEF In
<1>2. s \in Seat /\ s.state[g] \in [Surfs -> States] /\ s.surfs[g] \subseteq Surfaces
  BY DEF Busy, Seat, Grabs
<1>3. st \in [Surfs -> States] /\ s.surfs[g] \cup new \in SUBSET Surfaces
  BY <1>1, <1>2, Constants DEF States
<1>4. t = Listing(s, g, s.surfs[g] \cup new, st)
  BY DEF Added, Listing
<1>5. OnlyList(s, t, g) /\ t.surfs[g] = s.surfs[g] \cup new /\ t.state[g] = st
  <2>. HIDE DEF t, st
  <2>. QED  BY ONLY <1>2, <1>3, <1>4, g \in FocusGrabs, ListIs
<1>6. /\ In(t, g, "PendingRemoval") = In(s, g, "PendingRemoval")
      /\ In(t, g, "Committed") = In(s, g, "Committed") \cup new
  BY <1>1, <1>5 DEF In
<1>. HIDE DEF t, st
<1>7. Held(t, g)
  BY <1>5, <1>6 DEF Busy, Held, OnlyList
<1>. QED  BY <1>5, <1>6, <1>7, OthersKeep DEF Busy, OnlyList, t

\* All that was to be removed goes.
LEMMA RemovedKeeps ==
    ASSUME NEW s, NEW g \in FocusGrabs, Busy(s, g),
           NEW t \in Removed(s, g, In(s, g, "PendingRemoval"))
    PROVE  /\ Busy(t, g) /\ t.owner = s.owner /\ t.grab = s.grab
           /\ In(t, g, "PendingRemoval") = {}
           /\ In(t, g, "PendingAddition") = In(s, g, "PendingAddition")
           /\ In(t, g, "Committed") = In(s, g, "Committed")
<1>. DEFINE gone == In(s, g, "PendingRemoval")
            st == [x \in Surfs |-> IF x \in gone THEN "none" ELSE s.state[g][x]]
            rest == [s EXCEPT !.surfs[g] = s.surfs[g] \ gone, !.state[g] = st]
<1>1. t = rest \/ t \in RefocusGrab(rest) \/ \E x \in gone : t = [rest EXCEPT !.kb = x]
  BY DEF Removed
<1>2. s \in Seat /\ s.state[g] \in [Surfs -> States] /\ s.surfs[g] \subseteq Surfaces
  BY DEF Busy, Seat, Grabs
<1>3. st \in [Surfs -> States] /\ s.surfs[g] \ gone \in SUBSET Surfaces
  BY <1>2 DEF States
<1>4. /\ OnlyList(s, rest, g) /\ rest.surfs[g] = s.surfs[g] \ gone
      /\ rest.state[g] = st
  <2>1. rest = Listing(s, g, s.surfs[g] \ gone, st)
    BY DEF Listing
  <2>. HIDE DEF rest, st, gone
  <2>. QED  BY ONLY <1>2, <1>3, <2>1, g \in FocusGrabs, ListIs
<1>5. /\ In(rest, g, "PendingRemoval") = {}
      /\ In(rest, g, "Committed") = In(s, g, "Committed")
      /\ In(rest, g, "PendingAddition") = In(s, g, "PendingAddition")
  BY <1>4 DEF In
<1>6. In(s, g, "Committed") \cap gone = {}
  BY DEF In
<1>. HIDE DEF rest, st, gone
<1>7. Held(rest, g)
  BY <1>4, <1>5, <1>6 DEF Busy, Held, OnlyList, gone
<1>8. Busy(rest, g)
  BY <1>4, <1>7, OthersKeep DEF Busy, OnlyList
<1>9. OnlyFocus(rest, t)
  <2>1. gone \subseteq Surfaces /\ rest \in Seat
    BY <1>4, Constants DEF gone, In, OnlyList
  <2>2. CASE t = rest \/ t \in RefocusGrab(rest)
    BY <2>1, <2>2, FocusMoves, SetFocus, Constants
  <2>3. ASSUME NEW x \in gone, t = [rest EXCEPT !.kb = x]
        PROVE  OnlyFocus(rest, t)
    BY <2>1, <2>3, SetFocus, Constants DEF Seat
  <2>. QED  BY <1>1, <2>2, <2>3
<1>. QED  BY <1>4, <1>5, <1>8, <1>9, FocusKeeps DEF OnlyFocus, OnlyList

\* A commit leaves the grab the seat's with what it has left, or nobody's with
\* nothing.
LEMMA CommitAgrees ==
    ASSUME NEW s, NEW g \in FocusGrabs, Agree(s),
           NEW t \in Commit(s, g, TRUE) \cup Commit(s, g, FALSE)
    PROVE  /\ Agree(t) /\ t.owner = s.owner
           /\ t = s \/ (t.grab = g /\ t.kb \in t.surfs[g]) \/ t.grab = None
<1>0. PICK removeOnly \in BOOLEAN : t \in Commit(s, g, removeOnly)
  OBVIOUS
<1>. DEFINE gone == In(s, g, "PendingRemoval")
            new == IF removeOnly THEN {} ELSE In(s, g, "PendingAddition")
            both == Removed(Added(s, g, new), g, gone)
                    \cup {Added(u, g, new) : u \in Removed(s, g, gone)}
<1>1. CASE gone \cup new = {}
  <2>1. t = s
    BY <1>0, <1>1 DEF Commit
  <2>. QED  BY <2>1
<1>2. CASE gone \cup new # {}
  <2>1. PICK u \in both :
            t \in IF In(u, g, "Committed") # {} THEN Start(u, g) ELSE Finish(u, g, TRUE)
    BY <1>0, <1>2 DEF Commit
  <2>2. Busy(s, g)
    BY AgreeIsBusy
  <2>3. new \in SUBSET In(s, g, "PendingAddition")
    OBVIOUS
  <2>4. /\ Busy(u, g) /\ u.owner = s.owner /\ u.grab = s.grab
        /\ In(u, g, "PendingRemoval") = {} /\ new \subseteq In(u, g, "Committed")
    <3>. HIDE DEF new
    <3>1. CASE u \in Removed(Added(s, g, new), g, gone)
      <4>1. /\ Busy(Added(s, g, new), g) /\ In(Added(s, g, new), g, "PendingRemoval") = gone
            /\ Added(s, g, new).owner = s.owner /\ Added(s, g, new).grab = s.grab
            /\ new \subseteq In(Added(s, g, new), g, "Committed")
        BY <2>2, <2>3, AddedKeeps
      <4>2. u \in Removed(Added(s, g, new), g, In(Added(s, g, new), g, "PendingRemoval"))
        BY <3>1, <4>1
      <4>. QED  BY <4>1, <4>2, RemovedKeeps
    <3>2. CASE u \in {Added(v, g, new) : v \in Removed(s, g, gone)}
      <4>1. PICK v \in Removed(s, g, gone) : u = Added(v, g, new)
        BY <3>2
      <4>2. /\ Busy(v, g) /\ v.owner = s.owner /\ v.grab = s.grab
            /\ In(v, g, "PendingRemoval") = {}
            /\ In(v, g, "PendingAddition") = In(s, g, "PendingAddition")
        BY <2>2, RemovedKeeps
      <4>. QED  BY <2>3, <4>1, <4>2, AddedKeeps
    <3>. QED  BY <3>1, <3>2
  <2>. HIDE DEF both, new
  <2>5. u.surfs[g] = In(u, g, "Committed")
    BY <2>4 DEF Busy, Held
  <2>6. CASE In(u, g, "Committed") # {}
    BY <2>1, <2>4, <2>5, <2>6, StartAgrees
  <2>7. CASE In(u, g, "Committed") = {}
    <3>1. t \in Finish(u, g, TRUE) \cup Finish(u, g, FALSE)
      BY <2>1, <2>7
    <3>2. gone # {}
      BY <1>2, <2>4, <2>7
    <3>3. s.active[g] /\ s.grab = g
      BY <3>2 DEF Agree, Whole, Held
    <3>4. Busy(u, g) /\ u.active[g]
      BY <2>4, <3>3 DEF Busy, Held
    <3>5. Agree(t) /\ t.owner = u.owner /\ ~t.active[g] /\ Dropped(u, t)
      <4>1. u.active[g] \/ u.surfs[g] = {}
        BY <3>4
      <4>. QED  BY <3>1, <3>4, <4>1, FinishAgrees
    <3>. QED  BY <2>4, <3>4, <3>5 DEF Dropped
  <2>. QED  BY <2>6, <2>7
<1>. QED  BY <1>1, <1>2

\* The keyboard and the grabs' surfaces are as before.
SameFocus(s, t) == t.grab = s.grab /\ t.kb = s.kb /\ t.surfs = s.surfs

\* One surface changes its state without the seat grab noticing.
LEMMA MarkAgrees ==
    ASSUME NEW s, NEW g \in FocusGrabs, Agree(s), NEW st \in [Surfs -> States],
           \A x \in Surfs : st[x] \in {"Committed", "PendingRemoval"}
                            <=> s.state[g][x] \in {"Committed", "PendingRemoval"}
    PROVE  LET t == [s EXCEPT !.state[g] = st]
           IN  Agree(t) /\ t.owner = s.owner /\ SameFocus(s, t)
<1>. DEFINE t == [s EXCEPT !.state[g] = st]
<1>1. s \in Seat /\ s.surfs[g] \in SUBSET Surfaces
  BY DEF Agree, Seat, Grabs
<1>2. OnlyList(s, t, g) /\ t.surfs[g] = s.surfs[g] /\ t.state[g] = st
  BY <1>1, Constants DEF OnlyList, Seat
<1>. HIDE DEF t
<1>3. In(t, g, "Committed") \cup In(t, g, "PendingRemoval")
      = In(s, g, "Committed") \cup In(s, g, "PendingRemoval")
  BY <1>2 DEF In
<1>4. Whole(s, g)
  BY DEF Agree
<1>5. Whole(t, g)
  BY <1>2, <1>3, <1>4 DEF OnlyList, Whole, Held
<1>6. (\A h \in FocusGrabs \ {g} : Whole(t, h)) /\ PopupsAgree(t)
  BY <1>2, OthersKeep DEF Agree
<1>7. SameFocus(s, t)
  BY <1>1 DEF SameFocus, Seat, t
<1>. QED  BY <1>2, <1>5, <1>6, <1>7 DEF OnlyList, Agree, t

LEMMA RemoveSurfaceAgrees ==
    ASSUME NEW s, NEW g \in FocusGrabs, Agree(s), NEW x \in Surfs
    PROVE  LET t == RemoveSurface(s, g, x)
           IN  Agree(t) /\ t.owner = s.owner /\ SameFocus(s, t)
<1>. DEFINE st == [s.state[g] EXCEPT ![x] =
                      IF s.state[g][x] \in {"Committed", "PendingRemoval"}
                      THEN "PendingRemoval" ELSE "none"]
<1>1. s.state[g] \in [Surfs -> States] /\ s \in Seat
  BY DEF Agree, Seat
<1>2. st \in [Surfs -> States]
  BY <1>1 DEF States
<1>3. \A y \in Surfs : st[y] \in {"Committed", "PendingRemoval"}
                       <=> s.state[g][y] \in {"Committed", "PendingRemoval"}
  BY <1>1
<1>4. RemoveSurface(s, g, x) = [s EXCEPT !.state[g] = st]
  BY DEF RemoveSurface
<1>. HIDE DEF st
<1>. QED  BY <1>2, <1>3, <1>4, MarkAgrees

LEMMA EraseAgrees ==
    ASSUME NEW s, NEW g \in FocusGrabs, Agree(s), NEW x \in Surfs,
           NEW t \in EraseSurface(s, g, x)
    PROVE  /\ Agree(t) /\ t.owner = s.owner
           /\ SameFocus(s, t) \/ (t.grab = g /\ t.kb \in t.surfs[g]) \/ t.grab = None
<1>1. t = s \/ t \in Commit(RemoveSurface(s, g, x), g, TRUE)
  BY DEF EraseSurface
<1>. DEFINE m == RemoveSurface(s, g, x)
<1>2. Agree(m) /\ m.owner = s.owner /\ SameFocus(s, m)
  BY RemoveSurfaceAgrees
<1>. HIDE DEF m
<1>. QED  BY <1>1, <1>2, CommitAgrees DEF SameFocus, m

-----------------------------------------------------------------------------
(* Popups *)

\* What changes of the popups only.
OnlyPopups(s, t) ==
    /\ t \in Seat /\ t.grab = s.grab
    /\ t.active = s.active /\ t.told = s.told /\ t.state = s.state
    /\ \A h \in FocusGrabs : t.surfs[h] = s.surfs[h]

\* s with other popups.
Joining(s, o, P, held) ==
    [s EXCEPT !.owner = o, !.grabbed = P, !.surfs[Xdg] = held]

LEMMA PopupsIs ==
    ASSUME NEW s \in Seat, NEW o \in Popups \cup {None}, NEW P \in SUBSET Popups,
           NEW held \in SUBSET Surfaces
    PROVE  LET t == Joining(s, o, P, held)
           IN  OnlyPopups(s, t) /\ t.owner = o /\ t.grabbed = P /\ t.surfs[Xdg] = held
BY Constants DEF OnlyPopups, Joining, Seat

LEMMA PopupsKeep ==
    ASSUME NEW s, NEW t, OnlyPopups(s, t), \A g \in FocusGrabs : Whole(s, g)
    PROVE  \A g \in FocusGrabs : Whole(t, g)
BY SameWhole DEF OnlyPopups

\* A popup takes the seat, or joins those that have it.
LEMMA AddOrStartAgrees ==
    ASSUME NEW s, Agree(s), NEW p \in Popups, NEW parent \in Surfaces,
           NEW t \in AddOrStartGrab(s, p, parent)
    PROVE  Agree(t) /\ t.owner \in {s.owner, p}
<1>1. s \in Seat /\ s.grabbed \in SUBSET Popups /\ s.surfs[Xdg] \in SUBSET Surfaces
      /\ s.owner \in Popups \cup {None}
  BY Constants DEF Agree, Seat
<1>2. CASE s.owner = None
  <2>. DEFINE q == Joining(s, p, {}, {p, parent})
  <2>1. PICK u \in SetGrab(q, Xdg) : t = [u EXCEPT !.grabbed = {p}]
    BY <1>2 DEF AddOrStartGrab, Joining
  <2>2. {p, parent} \in SUBSET Surfaces /\ {} \in SUBSET Popups
    BY Constants
  <2>3. OnlyPopups(s, q) /\ q.owner = p /\ q.grabbed = {} /\ q.surfs[Xdg] = {p, parent}
    BY <1>1, <2>2, PopupsIs
  <2>. HIDE DEF q
  <2>4. \A g \in FocusGrabs : Whole(q, g)
    BY <2>3, PopupsKeep DEF Agree
  <2>5. Endable(q)
    BY <2>3, <2>4 DEF Endable, Whole, Held, OnlyPopups
  <2>6. Ended(q, u, Xdg)
    BY <2>1, <2>5, SetGrabEnds, Constants
  <2>7. \A g \in FocusGrabs : Whole(u, g)
    BY <2>4, <2>6, EndedWhole, Constants
  <2>8. /\ OnlyPopups(u, t) /\ t.owner = p /\ t.grabbed = {p}
        /\ t.surfs[Xdg] = {p, parent}
    BY <2>1, <2>3, <2>6 DEF Ended, OnlyPopups, Seat
  <2>9. \A g \in FocusGrabs : Whole(t, g)
    BY <2>7, <2>8, PopupsKeep
  <2>10. PopupsAgree(t)
    BY <2>8, Constants DEF PopupsAgree
  <2>. QED  BY <2>8, <2>9, <2>10 DEF Agree, OnlyPopups
<1>3. CASE s.owner # None
  <2>1. t = [s EXCEPT !.grabbed = s.grabbed \cup {p},
                      !.surfs[Xdg] = s.surfs[Xdg] \cup {p, parent}]
    BY <1>3 DEF AddOrStartGrab
  <2>2. t = Joining(s, s.owner, s.grabbed \cup {p}, s.surfs[Xdg] \cup {p, parent})
    BY <1>1, <2>1 DEF Joining, Seat
  <2>3. s.grabbed \cup {p} \in SUBSET Popups
        /\ s.surfs[Xdg] \cup {p, parent} \in SUBSET Surfaces
    BY <1>1, Constants
  <2>4. /\ OnlyPopups(s, t) /\ t.owner = s.owner /\ t.grabbed = s.grabbed \cup {p}
        /\ t.surfs[Xdg] = s.surfs[Xdg] \cup {p, parent}
    BY <1>1, <2>2, <2>3, PopupsIs
  <2>5. \A g \in FocusGrabs : Whole(t, g)
    BY <2>4, PopupsKeep DEF Agree
  <2>6. PopupsAgree(t)
    BY <1>3, <2>4 DEF Agree, PopupsAgree, OnlyPopups
  <2>. QED  BY <2>4, <2>5, <2>6 DEF Agree, OnlyPopups
<1>. QED  BY <1>2, <1>3

\* A popup that is destroyed owns nothing afterwards.
LEMMA PopupDestroyAgrees ==
    ASSUME NEW s, Agree(s), NEW p \in Popups, NEW t \in OnPopupDestroy(s, p)
    PROVE  Agree(t) /\ t.owner \in {s.owner, None} \ {p}
<1>1. CASE p = s.owner
  <2>1. PICK u \in EndGrab(s) : t = [u EXCEPT !.grabbed = {}, !.owner = None]
    BY <1>1 DEF OnPopupDestroy
  <2>2. Agree(u) /\ u.grab = None
    BY <2>1, EndGrabAgrees
  <2>3. OnlyPopups(u, t) /\ t.owner = None /\ t.grabbed = {}
    BY <2>1, <2>2 DEF Agree, OnlyPopups, Seat
  <2>4. \A g \in FocusGrabs : Whole(t, g)
    BY <2>2, <2>3, PopupsKeep DEF Agree
  <2>. QED  BY <2>2, <2>3, <2>4, Constants DEF Agree, PopupsAgree, OnlyPopups
<1>2. CASE p # s.owner
  <2>. DEFINE rest == [s EXCEPT !.grabbed = s.grabbed \ {p},
                                !.surfs[Xdg] = s.surfs[Xdg] \ {p}]
  <2>1. t = rest \/ t \in RefocusGrab(rest)
    BY <1>2 DEF OnPopupDestroy
  <2>2. s \in Seat /\ s.grabbed \in SUBSET Popups /\ s.surfs[Xdg] \in SUBSET Surfaces
        /\ s.owner \in Popups \cup {None}
    BY Constants DEF Agree, Seat
  <2>3. rest = Joining(s, s.owner, s.grabbed \ {p}, s.surfs[Xdg] \ {p})
    BY <2>2 DEF Joining, Seat
  <2>. HIDE DEF rest
  <2>4. /\ OnlyPopups(s, rest) /\ rest.owner = s.owner
        /\ rest.grabbed = s.grabbed \ {p} /\ rest.surfs[Xdg] = s.surfs[Xdg] \ {p}
    <3>1. s.grabbed \ {p} \in SUBSET Popups /\ s.surfs[Xdg] \ {p} \in SUBSET Surfaces
      BY <2>2
    <3>. QED  BY <2>2, <2>3, <3>1, PopupsIs
  <2>5. \A g \in FocusGrabs : Whole(rest, g)
    BY <2>4, PopupsKeep DEF Agree
  <2>6. PopupsAgree(rest)
    BY <1>2, <2>4 DEF Agree, PopupsAgree, OnlyPopups
  <2>7. Agree(rest)
    BY <2>4, <2>5, <2>6 DEF Agree, OnlyPopups
  <2>8. OnlyFocus(rest, t)
    BY <2>1, <2>7, FocusMoves, SetFocus, Constants DEF Agree
  <2>. QED  BY <1>2, <2>4, <2>7, <2>8, FocusKeeps DEF OnlyFocus
<1>. QED  BY <1>1, <1>2

LEMMA ExpireKeeps ==
    ASSUME NEW s \in Seat, NEW x
    PROVE  OnlyFocus(s, Expire(s, x))
<1>. DEFINE k == IF s.kb = x THEN None ELSE s.kb
            f == IF s.fs = x THEN None ELSE s.fs
<1>1. k \in Surfaces \cup {None} /\ f \in Surfaces \cup {None}
  BY DEF Seat
<1>2. Expire(s, x) = [s EXCEPT !.kb = k, !.fs = f]
  BY DEF Expire
<1>. HIDE DEF k, f
<1>. QED  BY <1>1, <1>2 DEF OnlyFocus, Seat

-----------------------------------------------------------------------------
(* The steps *)

LEMMA InitInv == Init => Inv
<1>. SUFFICES ASSUME Init PROVE Inv
  OBVIOUS
<1>1. seat \in Seat
  BY Constants DEF Init, Seat, States
<1>2. \A g \in FocusGrabs : In(seat, g, "Committed") = {} /\ In(seat, g, "PendingRemoval") = {}
  BY DEF Init, In
<1>3. ASSUME NEW g \in FocusGrabs PROVE Whole(seat, g)
  BY <1>2, Constants DEF Init, Whole, Held
<1>. QED  BY <1>1, <1>3, Constants DEF Init, Inv, Agree, PopupsAgree

\* What is left to show of a step that keeps the owner and those that live.
LEMMA SeatStep ==
    ASSUME Inv, Agree(seat'), seat'.owner = seat.owner, live' = live
    PROVE  Inv'
BY DEF Inv, Agree, PopupsAgree, Whole, Held, In, Seat

LEMMA GrabKeeps == ASSUME Inv, GrabStep PROVE Inv'
<1>. USE DEF Inv
<1>1. PICK g \in FocusGrabs :
        \/ CreateGrab(g) \/ CommitRequest(g) \/ DestroyGrab(g)
        \/ \E x \in Surfs : AddSurface(g, x) \/ RemoveRequest(g, x)
  BY DEF GrabStep
<1>2. seat \in Seat /\ seat.state[g] \in [Surfs -> States]
      /\ seat.owner \in Popups \cup {None}
  BY DEF Agree, Seat
<1>3. CASE CreateGrab(g)
  <2>1. /\ seat' \in Seat /\ seat'.grab = seat.grab /\ seat'.owner = seat.owner
        /\ seat'.grabbed = seat.grabbed /\ seat'.surfs = seat.surfs
        /\ seat'.active = seat.active /\ seat'.state = seat.state
        /\ seat'.told[g] = 0 /\ \A h \in FocusGrabs \ {g} : seat'.told[h] = seat.told[h]
    BY <1>2, <1>3 DEF CreateGrab, Seat
  <2>2. ASSUME NEW h \in FocusGrabs
        PROVE  Whole(seat', h)
    <3>1. Whole(seat, h)
      BY DEF Agree
    <3>2. /\ In(seat', h, "Committed") = In(seat, h, "Committed")
          /\ In(seat', h, "PendingRemoval") = In(seat, h, "PendingRemoval")
      BY <2>1 DEF In
    <3>. QED  BY <2>1, <3>1, <3>2 DEF Whole, Held
  <2>3. PopupsAgree(seat')
    BY <2>1 DEF Agree, PopupsAgree
  <2>4. live' \subseteq FocusGrabs \cup Popups /\ live \subseteq live'
    BY <1>3 DEF CreateGrab
  <2>. QED  BY <2>1, <2>2, <2>3, <2>4 DEF Agree
<1>4. CASE CommitRequest(g)
  <2>1. live' = live /\ seat' \in Commit(seat, g, TRUE) \cup Commit(seat, g, FALSE)
    BY <1>4 DEF CommitRequest
  <2>. QED  BY <2>1, CommitAgrees, SeatStep
<1>5. CASE DestroyGrab(g)
  <2>1. PICK t \in Finish(seat, g, TRUE) \cup Finish(seat, g, FALSE) :
            seat' = [t EXCEPT !.state[g] = Blank]
    BY <1>5 DEF DestroyGrab, Blank
  <2>2. Busy(seat, g) /\ (seat.active[g] \/ seat.surfs[g] = {})
    BY AgreeIsBusy DEF Agree, Whole
  <2>3. Agree(t) /\ t.owner = seat.owner /\ t.surfs[g] = {}
    BY <2>1, <2>2, FinishAgrees
  <2>4. Blank \in [Surfs -> States]
    BY DEF Blank, States
  <2>5. In(t, g, "Committed") \cup In(t, g, "PendingRemoval") = {}
    BY <2>3 DEF Agree, Whole, Held
  <2>6. \A x \in Surfs : Blank[x] \in {"Committed", "PendingRemoval"}
                         <=> t.state[g][x] \in {"Committed", "PendingRemoval"}
    BY <2>5 DEF In, Blank
  <2>7. Agree(seat') /\ seat'.owner = t.owner
    BY <2>1, <2>3, <2>4, <2>6, MarkAgrees
  <2>8. live' = live \ {g}
    BY <1>5 DEF DestroyGrab
  <2>. QED  BY <1>2, <2>3, <2>7, <2>8, Constants
<1>6. ASSUME NEW x \in Surfs, AddSurface(g, x)
      PROVE  Inv'
  <2>. DEFINE st == [seat.state[g] EXCEPT ![x] = "PendingAddition"]
  <2>1. live' = live /\ seat' = [seat EXCEPT !.state[g] = st] /\ seat.state[g][x] = "none"
    BY <1>6 DEF AddSurface
  <2>2. st \in [Surfs -> States]
    BY <1>2 DEF States
  <2>3. \A y \in Surfs : st[y] \in {"Committed", "PendingRemoval"}
                         <=> seat.state[g][y] \in {"Committed", "PendingRemoval"}
    BY <1>2, <2>1
  <2>. HIDE DEF st
  <2>. QED  BY <2>1, <2>2, <2>3, MarkAgrees, SeatStep
<1>7. ASSUME NEW x \in Surfs, RemoveRequest(g, x)
      PROVE  Inv'
  <2>1. live' = live /\ seat' = RemoveSurface(seat, g, x)
    BY <1>7 DEF RemoveRequest
  <2>. QED  BY <2>1, RemoveSurfaceAgrees, SeatStep
<1>. QED  BY <1>1, <1>3, <1>4, <1>5, <1>6, <1>7

LEMMA PopupKeeps == ASSUME Inv, PopupStep PROVE Inv'
<1>. USE DEF Inv
<1>1. PICK p \in Popups : CreatePopup(p) \/ GrabRequest(p) \/ DestroyPopup(p)
  BY DEF PopupStep
<1>2. CASE CreatePopup(p)
  <2>1. seat' = seat /\ live' = live \cup {p}
    BY <1>2 DEF CreatePopup
  <2>2. Agree(seat')
    BY <2>1
  <2>. QED  BY <2>1, <2>2
<1>3. CASE GrabRequest(p)
  <2>1. PICK parent \in {App} \cup ((live \ {p}) \cap Popups) :
            seat' \in AddOrStartGrab(seat, p, parent)
    BY <1>3 DEF GrabRequest
  <2>2. parent \in Surfaces
    BY Constants
  <2>3. Agree(seat') /\ seat'.owner \in {seat.owner, p}
    BY <2>1, <2>2, AddOrStartAgrees
  <2>4. live' = live /\ p \in live
    BY <1>3 DEF GrabRequest
  <2>. QED  BY <2>3, <2>4
<1>4. CASE DestroyPopup(p)
  <2>1. PICK t \in OnPopupDestroy(seat, p) : seat' = Expire(t, p)
    BY <1>4 DEF DestroyPopup
  <2>2. Agree(t) /\ t.owner \in {seat.owner, None} \ {p}
    BY <2>1, PopupDestroyAgrees
  <2>3. OnlyFocus(t, seat')
    BY <2>1, <2>2, ExpireKeeps DEF Agree
  <2>4. Agree(seat') /\ seat'.owner = t.owner
    BY <2>2, <2>3, FocusKeeps DEF OnlyFocus
  <2>5. live' = live \ {p}
    BY <1>4 DEF DestroyPopup
  <2>. QED  BY <2>2, <2>4, <2>5
<1>. QED  BY <1>1, <1>2, <1>3, <1>4

\* The surface is erased from every list it is in; the inactive ones hold nothing
\* that could go.
LEMMA SurfaceGoneAgrees ==
    ASSUME Inv, NEW x \in Surfs, SurfaceGone(x)
    PROVE  Inv'
<1>. DEFINE held == {g \in FocusGrabs : seat.active[g]}
            New(t) == [g \in FocusGrabs |->
                          IF g \in held THEN t.state[g]
                          ELSE [t.state[g] EXCEPT ![x] = "none"]]
<1>1. PICK t \in IF held = {} THEN {seat}
                 ELSE UNION {EraseSurface(seat, g, x) : g \in held} :
          seat' = [Expire(t, x) EXCEPT !.state = New(t)]
  BY DEF SurfaceGone
<1>2. Agree(seat) /\ \A g \in FocusGrabs : g \in held <=> seat.grab = g
  BY DEF Inv, Agree, Whole, Held
<1>3. Agree(t) /\ t.owner = seat.owner /\ \A g \in FocusGrabs \ held : t.grab # g
  <2>1. CASE held = {}
    BY <1>1, <1>2, <2>1
  <2>2. CASE held # {}
    <3>1. PICK g \in held : t \in EraseSurface(seat, g, x)
      BY <1>1, <2>2
    <3>2. Agree(t) /\ t.owner = seat.owner /\ t.grab \in {seat.grab, g, None}
      BY <1>2, <3>1, EraseAgrees DEF SameFocus
    <3>. QED  BY <1>2, <3>2, Constants
  <2>. QED  BY <2>1, <2>2
<1>4. OnlyFocus(t, Expire(t, x))
  BY <1>3, ExpireKeeps DEF Agree
<1>. DEFINE u == Expire(t, x)
<1>. HIDE DEF u, held
<1>5. Agree(u) /\ u.owner = seat.owner /\ u.state = t.state
      /\ \A g \in FocusGrabs \ held : u.grab # g
  BY <1>3, <1>4, FocusKeeps DEF OnlyFocus, u
<1>6. New(t) \in [FocusGrabs -> [Surfs -> States]]
  BY <1>3 DEF Agree, Seat, States
<1>7. \A g \in FocusGrabs : New(t)[g] = IF g \in held THEN t.state[g]
                                        ELSE [t.state[g] EXCEPT ![x] = "none"]
  OBVIOUS
<1>. HIDE DEF New
<1>8. /\ seat' \in Seat /\ seat'.grab = u.grab /\ seat'.owner = u.owner
      /\ seat'.grabbed = u.grabbed /\ seat'.surfs = u.surfs
      /\ seat'.active = u.active /\ seat'.told = u.told /\ seat'.state = New(t)
  BY <1>1, <1>5, <1>6 DEF Agree, Seat, u
<1>9. ASSUME NEW g \in FocusGrabs
      PROVE  Whole(seat', g)
  <2>1. Whole(u, g)
    BY <1>5 DEF Agree
  <2>2. CASE g \in held
    BY <1>5, <1>7, <1>8, <2>1, <2>2, SameWhole
  <2>3. CASE g \notin held
    <3>1. ~u.active[g] /\ u.surfs[g] = {} /\ u.grab # g
      BY <1>5, <2>1, <2>3 DEF Whole, Held
    <3>2. \A y \in Surfs : t.state[g][y] \notin {"Committed", "PendingRemoval"}
      BY <1>5, <2>1, <3>1 DEF Whole, Held, In
    <3>3. t.state[g] \in [Surfs -> States]
      BY <1>3 DEF Agree, Seat
    <3>4. \A y \in Surfs : New(t)[g][y] \notin {"Committed", "PendingRemoval"}
      BY <1>7, <2>3, <3>2, <3>3
    <3>5. In(seat', g, "Committed") = {} /\ In(seat', g, "PendingRemoval") = {}
      BY <1>8, <3>4 DEF In
    <3>. QED  BY <1>8, <3>1, <3>5 DEF Whole, Held
  <2>. QED  BY <2>2, <2>3
<1>10. PopupsAgree(seat')
  BY <1>5, <1>8 DEF Agree, PopupsAgree
<1>11. live' = live
  BY DEF SurfaceGone
<1>. QED  BY <1>5, <1>8, <1>9, <1>10, <1>11, SeatStep DEF Agree

LEMMA FocusStepKeeps == ASSUME Inv, FocusStep PROVE Inv'
<1>1. Agree(seat) /\ seat \in Seat /\ seat.fs \in Surfaces \cup {None}
  BY DEF Inv, Agree, Seat
<1>2. ASSUME live' = live, OnlyFocus(seat, seat')
      PROVE  Inv'
  BY <1>1, <1>2, FocusKeeps, SeatStep DEF OnlyFocus
<1>3. CASE GrabDropped
  BY <1>1, <1>3, EndGrabAgrees, SeatStep DEF GrabDropped
<1>4. CASE OtherLayerUnmaps
  <2>1. live' = live /\ seat' = [seat EXCEPT !.kb = seat.fs]
    BY <1>4 DEF OtherLayerUnmaps
  <2>. QED  BY <1>1, <1>2, <2>1 DEF OnlyFocus, Seat
<1>5. CASE NoWindowLeft
  <2>1. live' = live /\ seat' = [seat EXCEPT !.kb = None, !.fs = None]
    BY <1>5 DEF NoWindowLeft
  <2>. QED  BY <1>1, <1>2, <2>1 DEF OnlyFocus, Seat
<1>6. ASSUME NEW x \in Surfs, LayerMaps(x)
      PROVE  Inv'
  <2>1. PICK t \in {seat} \cup EndGrab(seat) : seat' = RawSurfaceFocus(t, x)
    BY <1>6 DEF LayerMaps
  <2>2. Agree(t) /\ t.owner = seat.owner
    BY <1>1, <2>1, EndGrabAgrees
  <2>3. OnlyFocus(t, seat')
    BY <2>1, <2>2, FocusMoves, Constants DEF Agree
  <2>4. live' = live
    BY <1>6 DEF LayerMaps
  <2>. QED  BY <2>2, <2>3, <2>4, FocusKeeps, SeatStep DEF OnlyFocus
<1>7. ASSUME NEW x \in Surfs \cup (live \cap Popups) \cup {App, None}, FocusRequest(x)
      PROVE  Inv'
  <2>1. live' = live /\ seat' = RawSurfaceFocus(seat, x) /\ x \in Surfaces \cup {None}
    BY <1>7, Constants DEF FocusRequest
  <2>. QED  BY <1>1, <1>2, <2>1, FocusMoves
<1>. QED  BY <1>3, <1>4, <1>5, <1>6, <1>7, SurfaceGoneAgrees DEF FocusStep

LEMMA StepInv == Inv /\ [Next]_vars => Inv'
<1>. SUFFICES ASSUME Inv, [Next]_vars PROVE Inv'
  OBVIOUS
<1>1. CASE UNCHANGED vars
  BY <1>1, SeatStep DEF vars, Inv
<1>. QED  BY <1>1, GrabKeeps, PopupKeeps, FocusStepKeeps DEF Next

LEMMA Invariance == Spec => []Inv
<1>. QED  BY InitInv, StepInv, PTL DEF Spec

-----------------------------------------------------------------------------
(* The keyboard *)

\* What KeyboardStaysInGrab says of a step.
Kept ==
    seat.grab # None /\ seat'.grab = seat.grab
    => (seat.kb \in seat.surfs[seat.grab]
        => seat'.kb \in seat'.surfs[seat.grab] \cup {seat.fs, None})

\* RawSurfaceFocus asks the grab.
LEMMA FocusAsks ==
    ASSUME NEW s \in Seat, NEW x \in Surfaces \cup {None},
           s.grab # None, s.kb \in s.surfs[s.grab]
    PROVE  LET t == RawSurfaceFocus(s, x)
           IN  t.grab = s.grab /\ t.kb \in t.surfs[s.grab]
BY DEF RawSurfaceFocus, Accepts, Seat

\* Once the surface expired, the keyboard is where it was, or nowhere.
LEMMA ExpireFocus ==
    ASSUME NEW s \in Seat, NEW x
    PROVE  LET t == Expire(s, x)
           IN  t.surfs = s.surfs /\ (t.kb = None \/ (t.kb = s.kb /\ s.kb # x))
BY DEF Expire, Seat

LEMMA GrabStepKept == ASSUME Inv, GrabStep PROVE Kept
<1>. SUFFICES ASSUME seat.grab # None, seat'.grab = seat.grab,
                     seat.kb \in seat.surfs[seat.grab]
              PROVE  seat'.kb \in seat'.surfs[seat.grab] \cup {seat.fs, None}
  BY DEF Kept
<1>1. Agree(seat) /\ seat \in Seat
  BY DEF Inv, Agree
<1>2. PICK g \in FocusGrabs :
        \/ CreateGrab(g) \/ CommitRequest(g) \/ DestroyGrab(g)
        \/ \E x \in Surfs : AddSurface(g, x) \/ RemoveRequest(g, x)
  BY DEF GrabStep
<1>3. CASE CreateGrab(g) \/ \E x \in Surfs : AddSurface(g, x)
  <2>1. seat'.kb = seat.kb /\ seat'.surfs = seat.surfs
    BY <1>1, <1>3 DEF CreateGrab, AddSurface, Seat
  <2>. QED  BY <2>1
<1>4. ASSUME NEW x \in Surfs, RemoveRequest(g, x)
      PROVE  seat'.kb \in seat'.surfs[seat.grab]
  BY <1>1, <1>4, RemoveSurfaceAgrees DEF RemoveRequest, SameFocus
<1>5. CASE CommitRequest(g)
  <2>1. seat' \in Commit(seat, g, TRUE) \cup Commit(seat, g, FALSE)
    BY <1>5 DEF CommitRequest
  <2>2. seat' = seat \/ (seat'.grab = g /\ seat'.kb \in seat'.surfs[g]) \/ seat'.grab = None
    BY ONLY <1>1, <2>1, g \in FocusGrabs, CommitAgrees, Zenon
  <2>. QED  BY <2>2
<1>6. CASE DestroyGrab(g)
  <2>1. PICK t \in Finish(seat, g, TRUE) \cup Finish(seat, g, FALSE) :
            seat' = [t EXCEPT !.state[g] = Blank]
    BY <1>6 DEF DestroyGrab, Blank
  <2>2. Busy(seat, g) /\ (seat.active[g] \/ seat.surfs[g] = {})
    BY <1>1, AgreeIsBusy DEF Agree, Whole
  <2>3. Agree(t) /\ Dropped(seat, t)
    BY <2>1, <2>2, FinishAgrees
  <2>4. seat'.grab = t.grab /\ seat'.kb = t.kb /\ seat'.surfs = t.surfs
    BY <2>1, <2>3 DEF Agree, Seat
  <2>. QED  BY <2>3, <2>4 DEF Dropped
<1>. QED  BY <1>2, <1>3, <1>4, <1>5, <1>6

LEMMA PopupStepKept == ASSUME Inv, PopupStep PROVE Kept
<1>. SUFFICES ASSUME seat.grab # None, seat'.grab = seat.grab,
                     seat.kb \in seat.surfs[seat.grab]
              PROVE  seat'.kb \in seat'.surfs[seat.grab] \cup {seat.fs, None}
  BY DEF Kept
<1>1. Agree(seat) /\ seat \in Seat /\ seat.grab \in Grabs /\ seat.kb # None
  BY Constants DEF Inv, Agree, Seat
<1>2. PICK p \in Popups : CreatePopup(p) \/ GrabRequest(p) \/ DestroyPopup(p)
  BY DEF PopupStep
<1>3. CASE CreatePopup(p)
  BY <1>3 DEF CreatePopup
<1>4. CASE GrabRequest(p)
  <2>1. PICK parent \in {App} \cup ((live \ {p}) \cap Popups) :
            seat' \in AddOrStartGrab(seat, p, parent)
    BY <1>4 DEF GrabRequest
  <2>2. CASE seat.owner = None
    <3>1. seat.grab # Xdg
      BY <1>1, <2>2, Constants DEF Agree, PopupsAgree, Seat
    <3>. DEFINE q == Joining(seat, p, {}, {p, parent})
    <3>2. PICK u \in SetGrab(q, Xdg) : seat' = [u EXCEPT !.grabbed = {p}]
      BY <2>1, <2>2 DEF AddOrStartGrab, Joining
    <3>3. {p, parent} \in SUBSET Surfaces /\ {} \in SUBSET Popups
      BY Constants
    <3>4. OnlyPopups(seat, q)
      BY <1>1, <3>3, PopupsIs
    <3>. HIDE DEF q
    <3>5. \A g \in FocusGrabs : Whole(q, g)
      BY <1>1, <3>4, PopupsKeep DEF Agree
    <3>6. Endable(q)
      BY <3>4, <3>5 DEF Endable, Whole, Held, OnlyPopups
    <3>7. Ended(q, u, Xdg)
      BY <3>2, <3>6, SetGrabEnds, Constants
    <3>8. seat'.grab = Xdg
      BY <3>2, <3>7 DEF Ended, Seat
    <3>. QED  BY <3>1, <3>8
  <2>3. CASE seat.owner # None
    <3>1. seat' = [seat EXCEPT !.grabbed = seat.grabbed \cup {p},
                               !.surfs[Xdg] = seat.surfs[Xdg] \cup {p, parent}]
      BY <2>1, <2>3 DEF AddOrStartGrab
    <3>2. seat'.kb = seat.kb /\ seat.surfs[seat.grab] \subseteq seat'.surfs[seat.grab]
      BY <1>1, <3>1 DEF Seat
    <3>. QED  BY <3>2
  <2>. QED  BY <2>2, <2>3
<1>5. CASE DestroyPopup(p)
  <2>1. PICK t \in OnPopupDestroy(seat, p) : seat' = Expire(t, p)
    BY <1>5 DEF DestroyPopup
  <2>2. Agree(t) /\ t \in Seat
    BY <1>1, <2>1, PopupDestroyAgrees DEF Agree
  <2>3. seat'.surfs = t.surfs /\ (seat'.kb = None \/ (seat'.kb = t.kb /\ t.kb # p))
    BY <2>1, <2>2, ExpireFocus
  <2>4. t.grab = seat.grab
    BY <2>1, <2>2, ExpireKeeps DEF OnlyFocus
  <2>5. CASE p = seat.owner
    <3>1. PICK u \in EndGrab(seat) : t = [u EXCEPT !.grabbed = {}, !.owner = None]
      BY <2>1, <2>5 DEF OnPopupDestroy
    <3>2. u \in Seat /\ u.grab = None
      BY <1>1, <3>1, EndGrabAgrees DEF Agree
    <3>3. t.grab = None
      BY <3>1, <3>2 DEF Seat
    <3>. QED  BY <2>4, <3>3
  <2>6. CASE p # seat.owner
    <3>. DEFINE rest == [seat EXCEPT !.grabbed = seat.grabbed \ {p},
                                     !.surfs[Xdg] = seat.surfs[Xdg] \ {p}]
    <3>1. t = rest \/ t \in RefocusGrab(rest)
      BY <2>1, <2>6 DEF OnPopupDestroy
    <3>2. /\ rest \in Seat /\ rest.grab = seat.grab /\ rest.kb = seat.kb
          /\ seat.surfs[seat.grab] \ {p} \subseteq rest.surfs[seat.grab]
      BY <1>1 DEF Seat
    <3>. HIDE DEF rest
    <3>3. t = rest \/ \E x \in rest.surfs[rest.grab] : t = [rest EXCEPT !.kb = x]
      BY <3>1 DEF RefocusGrab
    <3>4. CASE t = rest
      BY <2>3, <3>2, <3>4
    <3>5. ASSUME NEW x \in rest.surfs[rest.grab], t = [rest EXCEPT !.kb = x]
          PROVE  t.kb \in t.surfs[seat.grab]
      BY <3>2, <3>5 DEF Seat
    <3>. QED  BY <2>3, <3>3, <3>4, <3>5
  <2>. QED  BY <2>5, <2>6
<1>. QED  BY <1>2, <1>3, <1>4, <1>5

LEMMA FocusStepKept == ASSUME Inv, FocusStep PROVE Kept
<1>. SUFFICES ASSUME seat.grab # None, seat'.grab = seat.grab,
                     seat.kb \in seat.surfs[seat.grab]
              PROVE  seat'.kb \in seat'.surfs[seat.grab] \cup {seat.fs, None}
  BY DEF Kept
<1>1. Agree(seat) /\ seat \in Seat
  BY DEF Inv, Agree
<1>2. CASE GrabDropped
  BY <1>1, <1>2, EndGrabAgrees DEF GrabDropped
<1>3. CASE OtherLayerUnmaps
  BY <1>1, <1>3 DEF OtherLayerUnmaps, Seat
<1>4. CASE NoWindowLeft
  BY <1>1, <1>4 DEF NoWindowLeft, Seat
<1>5. ASSUME NEW x \in Surfs, LayerMaps(x)
      PROVE  seat'.kb \in seat'.surfs[seat.grab]
  <2>1. CASE Accepts(seat, x)
    BY <1>1, <1>5, <2>1, FocusAsks, Constants DEF LayerMaps
  <2>2. CASE ~Accepts(seat, x)
    <3>1. PICK t \in EndGrab(seat) : seat' = RawSurfaceFocus(t, x)
      BY <1>5, <2>2 DEF LayerMaps
    <3>2. t \in Seat /\ t.grab = None
      BY <1>1, <3>1, EndGrabAgrees DEF Agree
    <3>3. seat'.grab = None
      BY <3>1, <3>2, FocusMoves, Constants DEF OnlyFocus
    <3>. QED  BY <3>3
  <2>. QED  BY <2>1, <2>2
<1>6. ASSUME NEW x \in Surfs \cup (live \cap Popups) \cup {App, None}, FocusRequest(x)
      PROVE  seat'.kb \in seat'.surfs[seat.grab]
  <2>1. x \in Surfaces \cup {None}
    BY Constants
  <2>. QED  BY <1>1, <1>6, <2>1, FocusAsks DEF FocusRequest
<1>7. ASSUME NEW x \in Surfs, SurfaceGone(x)
      PROVE  seat'.kb \in seat'.surfs[seat.grab] \cup {None}
  <2>. DEFINE held == {g \in FocusGrabs : seat.active[g]}
  <2>1. PICK t \in IF held = {} THEN {seat}
                   ELSE UNION {EraseSurface(seat, g, x) : g \in held} :
            \E st : seat' = [Expire(t, x) EXCEPT !.state = st]
    BY <1>7 DEF SurfaceGone
  <2>2. /\ t \in Seat
        /\ \/ SameFocus(seat, t)
           \/ t.grab = seat.grab /\ t.kb \in t.surfs[seat.grab]
           \/ t.grab = None
    <3>1. CASE held = {}
      BY <1>1, <2>1, <3>1 DEF SameFocus
    <3>2. CASE held # {}
      <4>1. PICK g \in held : t \in EraseSurface(seat, g, x)
        BY <2>1, <3>2
      <4>2. seat.grab = g
        BY <1>1, <4>1 DEF Agree, Whole, Held
      <4>3. /\ Agree(t)
            /\ SameFocus(seat, t) \/ (t.grab = g /\ t.kb \in t.surfs[g]) \/ t.grab = None
        BY <1>1, <4>1, EraseAgrees
      <4>. QED  BY <4>2, <4>3 DEF Agree
    <3>. QED  BY <3>1, <3>2
  <2>3. OnlyFocus(t, Expire(t, x))
    BY <2>2, ExpireKeeps
  <2>4. /\ Expire(t, x).surfs = t.surfs
        /\ Expire(t, x).kb = None \/ Expire(t, x).kb = t.kb
    BY <2>2, ExpireFocus
  <2>5. /\ seat'.grab = t.grab /\ seat'.surfs = t.surfs
        /\ seat'.kb = Expire(t, x).kb
    BY <2>1, <2>3, <2>4 DEF OnlyFocus, Seat
  <2>. QED  BY <2>2, <2>4, <2>5 DEF SameFocus
<1>. QED  BY <1>2, <1>3, <1>4, <1>5, <1>6, <1>7 DEF FocusStep

LEMMA StepKept == Inv /\ [Next]_vars => [Kept]_vars
BY GrabStepKept, PopupStepKept, FocusStepKept DEF Next

-----------------------------------------------------------------------------
(* Theorems *)

\* The handlers' state has its type, and no client is told twice that its grab is
\* cleared, for every set of grabs, surfaces and popups.
THEOREM TypeCorrect == Spec => []TypeOK
<1>1. Inv => TypeOK
  BY DEF Inv, Agree, TypeOK
<1>. QED  BY <1>1, Invariance, PTL

\* setGrab and the callbacks it runs in the middle of other requests never leave
\* the seat and an object that asks for its grab in disagreement.
THEOREM SeatAndGrabsAgree == Spec => []GrabsAgree
<1>1. Inv => GrabsAgree
  BY DEF Inv, Agree, PopupsAgree, Whole, Held, GrabsAgree
<1>. QED  BY <1>1, Invariance, PTL

\* The keyboard leaves a lasting grab only for the surface the focus state still
\* remembers, or for none, in whatever order surfaces, popups and grabs go.
THEOREM KeyboardIsKept == Spec => KeyboardStaysInGrab
<1>1. Inv /\ [Next]_vars => [Kept]_vars
  BY StepKept
<1>2. Spec => [][Kept]_vars
  BY <1>1, Invariance, PTL DEF Spec
<1>. QED  BY <1>2 DEF KeyboardStaysInGrab, Kept

=============================================================================
