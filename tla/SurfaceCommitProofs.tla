------------------------ MODULE SurfaceCommitProofs ------------------------
(***************************************************************************)
(* The queue of surface states keeps its promises for any number of        *)
(* commits, any scales and any choice of the protocols in use: commits     *)
(* become current in order and only when ready, FIFO commits wait for a    *)
(* frame, no feedback is lost and none lies.                               *)
(***************************************************************************)
EXTENDS SurfaceCommit, SequenceTheorems, WellFoundedInduction, TLAPS

Targets == {"none", "far", "near", "past", "fired"}
Answers == {"none", "open", "presented", "discarded"}
Current == [id: 0..MaxCommits, content: 0..MaxCommits, texture: BOOLEAN, scale: Scales,
            barrier: BOOLEAN, fbs: SUBSET Commits]

\* The commits of q come after c and not after n, in their order.
InOrder(q, c, n) ==
    \A k \in 1..Len(q) :
        /\ c < q[k].id /\ q[k].id <= n
        /\ \A j \in 1..(k - 1) : q[j].id < q[k].id

\* q may be processed on cur, n commits being sent.
Processable(q, cur, n) ==
    /\ q \in Seq(QueuedState) /\ cur \in Current
    /\ n \in Nat /\ cur.content <= cur.id /\ cur.id <= n
    /\ InOrder(q, cur.id, n)
    /\ \A i \in cur.fbs : i >= cur.content

\* A lock stands as long as one waits (w) for what it is about; what is
\* applied has none any more.  fo: released by the ticker.
Ready(i, t, w) == i \notin w /\ t[i] # "far"
LocksHold(q, ap, t, w, fo) ==
    /\ \A k \in 1..Len(q) : q[k].id \notin fo =>
          /\ "fence" \notin q[k].lock => q[k].id \notin w
          /\ "timer" \notin q[k].lock => t[q[k].id] # "far"
    /\ \A i \in ap \ fo : Ready(i, t, w)

\* A commit that has seen no frame yet is behind a barrier.
BarrierHolds(q, cur, ap, uns) ==
    /\ uns # {} => cur.barrier
    /\ \A k \in 1..Len(q) : q[k].id \in uns => "fifo" \in q[k].lock
    /\ ap \cap uns = {}

\* Whoever holds a feedback holds one that was asked for.
HeldIsKnown(q, cur, ap, f) ==
    /\ \A k \in 1..Len(q) : q[k].fb => f[q[k].id] # "none"
    /\ \A i \in cur.fbs : i \in ap /\ f[i] # "none"

\* All of it for one queue and one current state.
Sound(q, cur, ap, f, t, n, w, fo, uns) ==
    /\ Processable(q, cur, n)
    /\ ap \subseteq 1..cur.id
    /\ LocksHold(q, ap, t, w, fo)
    /\ BarrierHolds(q, cur, ap, uns)
    /\ HeldIsKnown(q, cur, ap, f)

\* No fence signals that failed, and none of a commit still to come.
Waiters ==
    /\ fence \cap failed = {}
    /\ fence \cup failed \cup forced \subseteq 1..sent
    /\ unseen \subseteq 1..(sent + 1)

PresentedWillBeDrawn ==
    /\ pending.fb => sent < MaxCommits /\ fb[sent + 1] # "none"
    /\ \A r \in presQ : r.shown => r.fb \in drawn

\* The inductive invariant.
Inv ==
    /\ TypeOK
    /\ Sound(queue, current, applied, fb, target, sent, fence \cup failed, forced, unseen)
    /\ Waiters
    /\ PresentedWillBeDrawn
    /\ FeedbackIsTrue

-----------------------------------------------------------------------------
(* The newest of some commits                                              *)

LEMMA BelowIsWellFounded == IsWellFoundedOn(OpToRel(<, Nat), Nat)
BY NatLessThanWellFounded

LEMMA HasNewest ==
    ASSUME NEW n \in Nat, NEW S, S \subseteq 0..n, S # {}
    PROVE  MaxOf(S) \in S /\ \A k \in S : k <= MaxOf(S)
<1> DEFINE T == {n - k : k \in S}
<1>1. T \subseteq Nat /\ T # {}
  <2>1. PICK m \in S : TRUE
    OBVIOUS
  <2>2. n - m \in T
    BY <2>1
  <2>3. \A k \in S : n - k \in Nat
    OBVIOUS
  <2>. QED  BY <2>2, <2>3
<1>2. PICK x \in T : \A y \in T : <<y, x>> \notin OpToRel(<, Nat)
  BY <1>1, WFMin, BelowIsWellFounded
<1>3. \A y \in T : ~(y < x)
  BY <1>1, <1>2 DEF OpToRel
<1>4. PICK m \in S : x = n - m
  OBVIOUS
<1>5. \A k \in S : k <= m
  <2> TAKE k \in S
  <2>1. ~(n - k < n - m)
    BY <1>3, <1>4
  <2>. QED  BY <2>1
<1>. QED  BY <1>5 DEF MaxOf

-----------------------------------------------------------------------------
(* Locks come off                                                          *)

\* r is q with some locks off.
Loosened(q, r) ==
    /\ r \in Seq(QueuedState) /\ Len(r) = Len(q)
    /\ \A k \in 1..Len(q) :
          /\ r[k].id = q[k].id /\ r[k].fb = q[k].fb
          /\ r[k].lock \subseteq q[k].lock

LEMMA MapLocks ==
    ASSUME NEW q \in Seq(QueuedState), NEW r, DOMAIN r = DOMAIN q,
           r = [k \in DOMAIN q |-> r[k]],
           \A k \in DOMAIN q : r[k].lock \subseteq q[k].lock /\ r[k] = [q[k] EXCEPT !.lock = r[k].lock]
    PROVE  Loosened(q, r)
<1>1. DOMAIN q = 1..Len(q) /\ Len(q) \in Nat
  OBVIOUS
<1>2. \A k \in 1..Len(q) : q[k] \in QueuedState
  OBVIOUS
<1>3. \A k \in 1..Len(q) :
         /\ r[k] \in QueuedState
         /\ r[k].id = q[k].id /\ r[k].fb = q[k].fb /\ r[k].lock \subseteq q[k].lock
  BY <1>1, <1>2 DEF QueuedState
<1>4. r \in [1..Len(q) -> QueuedState]
  BY <1>1, <1>3
<1>5. r \in Seq(QueuedState) /\ Len(r) = Len(q)
  BY <1>1, <1>4
<1>. QED  BY <1>3, <1>5 DEF Loosened

LEMMA UnlockLoosens ==
    ASSUME NEW q \in Seq(QueuedState), NEW i, NEW reason
    PROVE  /\ Loosened(q, Unlock(q, i, reason))
           /\ \A k \in 1..Len(q), l \in Reasons :
                 l \in Unlock(q, i, reason)[k].lock
                    <=> l \in q[k].lock /\ (q[k].id = i => l # reason)
<1> DEFINE r == Unlock(q, i, reason)
<1>1. DOMAIN q = 1..Len(q) /\ \A k \in DOMAIN q : q[k] \in QueuedState
  OBVIOUS
<1>2. \A k \in DOMAIN q :
         r[k] = [q[k] EXCEPT !.lock = IF q[k].id = i THEN q[k].lock \ {reason} ELSE q[k].lock]
  BY <1>1 DEF Unlock, QueuedState
<1>3. DOMAIN r = DOMAIN q /\ r = [k \in DOMAIN q |-> r[k]]
  BY DEF Unlock
<1>4. \A k \in DOMAIN q : r[k].lock = IF q[k].id = i THEN q[k].lock \ {reason} ELSE q[k].lock
  BY <1>1, <1>2 DEF QueuedState
<1>5. Loosened(q, r)
  <2> HIDE DEF r
  <2>1. \A k \in DOMAIN q : r[k].lock \subseteq q[k].lock /\ r[k] = [q[k] EXCEPT !.lock = r[k].lock]
    BY <1>2, <1>4
  <2>. QED  BY <1>3, <2>1, MapLocks
<1> HIDE DEF r
<1>6. \A k \in 1..Len(q), l \in Reasons :
         l \in r[k].lock <=> l \in q[k].lock /\ (q[k].id = i => l # reason)
  BY <1>1, <1>4
<1>. QED  BY <1>5, <1>6 DEF r

\* State k is the first that waits for one of the reasons.
IsFirst(q, k, reasons) ==
    /\ q[k].lock \cap reasons # {}
    /\ \A j \in 1..(k - 1) : q[j].lock \cap reasons = {}

LEMMA UnlockFirstLoosens ==
    ASSUME NEW q \in Seq(QueuedState), NEW reasons
    PROVE  /\ Loosened(q, UnlockFirst(q, reasons))
           /\ \A k \in 1..Len(q), l \in Reasons :
                 l \in UnlockFirst(q, reasons)[k].lock
                    <=> l \in q[k].lock /\ (IsFirst(q, k, reasons) => l \notin reasons)
<1> DEFINE r == UnlockFirst(q, reasons)
<1>1. DOMAIN q = 1..Len(q) /\ \A k \in DOMAIN q : q[k] \in QueuedState
  OBVIOUS
<1>2. \A k \in DOMAIN q :
         r[k] = [q[k] EXCEPT !.lock = IF IsFirst(q, k, reasons) THEN q[k].lock \ reasons ELSE q[k].lock]
  BY <1>1 DEF UnlockFirst, QueuedState, IsFirst
<1>3. DOMAIN r = DOMAIN q /\ r = [k \in DOMAIN q |-> r[k]]
  BY DEF UnlockFirst
<1>4. \A k \in DOMAIN q : r[k].lock = IF IsFirst(q, k, reasons) THEN q[k].lock \ reasons ELSE q[k].lock
  BY <1>1, <1>2 DEF QueuedState
<1>5. Loosened(q, r)
  <2> HIDE DEF r
  <2>1. \A k \in DOMAIN q : r[k].lock \subseteq q[k].lock /\ r[k] = [q[k] EXCEPT !.lock = r[k].lock]
    BY <1>2, <1>4
  <2>. QED  BY <1>3, <2>1, MapLocks
<1> HIDE DEF r
<1>6. \A k \in 1..Len(q), l \in Reasons :
         l \in r[k].lock <=> l \in q[k].lock /\ (IsFirst(q, k, reasons) => l \notin reasons)
  BY <1>1, <1>4
<1>. QED  BY <1>5, <1>6 DEF r

LEMMA ReleaseLoosens ==
    ASSUME NEW q \in Seq(QueuedState)
    PROVE  /\ Loosened(q, ReleaseDueStates(q))
           /\ \A k \in 1..Len(q), l \in Reasons :
                 l \in ReleaseDueStates(q)[k].lock
                    <=> l \in q[k].lock /\ (target[q[k].id] \in {"near", "past"} => l # "timer")
<1> DEFINE r == ReleaseDueStates(q)
           Due(k) == target[q[k].id] \in {"near", "past"}
<1>1. DOMAIN q = 1..Len(q) /\ \A k \in DOMAIN q : q[k] \in QueuedState
  OBVIOUS
<1>2. \A k \in DOMAIN q :
         r[k] = [q[k] EXCEPT !.lock = IF Due(k) THEN q[k].lock \ {"timer"} ELSE q[k].lock]
  BY <1>1 DEF ReleaseDueStates, QueuedState
<1>3. DOMAIN r = DOMAIN q /\ r = [k \in DOMAIN q |-> r[k]]
  BY DEF ReleaseDueStates
<1> HIDE DEF Due
<1>4. \A k \in DOMAIN q : r[k].lock = IF Due(k) THEN q[k].lock \ {"timer"} ELSE q[k].lock
  BY <1>1, <1>2 DEF QueuedState
<1>5. Loosened(q, r)
  <2> HIDE DEF r
  <2>1. \A k \in DOMAIN q : r[k].lock \subseteq q[k].lock /\ r[k] = [q[k] EXCEPT !.lock = r[k].lock]
    BY <1>2, <1>4
  <2>. QED  BY <1>3, <2>1, MapLocks
<1> HIDE DEF r
<1>6. \A k \in 1..Len(q), l \in Reasons :
         l \in r[k].lock <=> l \in q[k].lock /\ (Due(k) => l # "timer")
  BY <1>1, <1>4
<1>. QED  BY <1>5, <1>6 DEF r, Due

-----------------------------------------------------------------------------
(* States go in                                                            *)

LEMMA AppliedHaveNewest ==
    ASSUME NEW q \in Seq(QueuedState), NEW n \in 0..Len(q),
           NEW D, D \subseteq {q[k] : k \in 1..n}, D # {}
    PROVE  /\ MaxOf({s.id : s \in D}) \in {s.id : s \in D}
           /\ \A s \in D : s.id <= MaxOf({t.id : t \in D})
<1> DEFINE S == {s.id : s \in D}
<1>1. \A k \in 1..n : q[k] \in QueuedState
  OBVIOUS
<1>2. \A s \in D : s.id \in 0..MaxCommits
  BY <1>1, SurfaceAssumption DEF QueuedState, Commits
<1>3. S \subseteq 0..MaxCommits /\ S # {}
  BY <1>2
<1>4. MaxOf(S) \in S /\ \A k \in S : k <= MaxOf(S)
  <2> HIDE DEF S
  <2>. QED  BY <1>3, HasNewest, SurfaceAssumption
<1>. QED  BY <1>4

\* What n states of the queue make of the current one.
LEMMA UpdateFromQueue ==
    ASSUME NEW q, NEW cur, NEW m, Processable(q, cur, m), NEW n \in 0..Len(q),
           NEW new, new = UpdateFrom(cur, {q[k] : k \in 1..n})
    PROVE  /\ new \in Current
           /\ new.id = IF n = 0 THEN cur.id ELSE q[n].id
           /\ cur.content <= new.content /\ new.content <= new.id
           /\ cur.barrier => new.barrier
           /\ \A i \in new.fbs :
                 /\ i \in cur.fbs \/ \E k \in 1..n : q[k].fb /\ q[k].id = i
                 /\ i >= new.content
<1> DEFINE done == {q[k] : k \in 1..n}
           withBuffer == {s \in done : s.attach # "no"}
           withScale  == {s \in done : s.scaleBit}
           newest     == IF withBuffer = {} THEN cur.content ELSE MaxOf({s.id : s \in withBuffer})
           last       == CHOOSE s \in withScale : \A t \in withScale : t.id <= s.id
           texture    == cur.texture \/ withBuffer # {}
           barrier    == cur.barrier \/ \E s \in done : s.barrier
           scale      == IF withScale = {} THEN cur.scale ELSE last.scale
           kept       == IF withBuffer = {} THEN cur.fbs \cup {s.id : s \in {t \in done : t.fb}}
                         ELSE {s.id : s \in {t \in done : t.fb /\ t.id >= newest}}
<1> USE DEF Processable
<1>1. /\ q \in Seq(QueuedState) /\ \A k \in 1..n : q[k] \in QueuedState /\ q[k].id \in Commits
      /\ \A s \in done : s \in QueuedState /\ s.id \in Commits
      /\ cur.id \in Nat /\ cur.content \in Nat /\ Commits \subseteq Nat /\ MaxCommits \in Nat
      /\ \A i \in Commits : i <= MaxCommits
  <2>1. q \in Seq(QueuedState)
    OBVIOUS
  <2>2. \A k \in 1..n : q[k] \in QueuedState
    BY <2>1
  <2>3. \A s \in QueuedState : s.id \in Commits
    BY DEF QueuedState
  <2>4. cur.id \in Nat /\ cur.content \in Nat
    BY DEF Current
  <2>5. \A s \in done : s \in QueuedState
    BY <2>2
  <2>. QED  BY <2>1, <2>2, <2>3, <2>4, <2>5, SurfaceAssumption DEF Commits
<1>0. n \in Nat /\ (n # 0 => n \in 1..n /\ q[n].id \in Nat) /\ \A k \in 1..n : q[k].id \in Nat
  <2>1. n \in Nat /\ (n # 0 => n \in 1..n)
    OBVIOUS
  <2>2. \A k \in 1..n : q[k].id \in Nat
    BY <1>1
  <2>. QED  BY <2>1, <2>2
<1>2. \A k \in 1..n : cur.id < q[k].id /\ q[k].id <= q[n].id
  <2> TAKE k \in 1..n
  <2>1. n \in 1..Len(q) /\ k \in 1..Len(q) /\ (k = n \/ k \in 1..(n - 1))
    BY <1>1
  <2>2. cur.id < q[k].id /\ (k \in 1..(n - 1) => q[k].id < q[n].id)
    BY <2>1 DEF InOrder
  <2>3. q[k].id \in Nat /\ q[n].id \in Nat
    BY <1>0
  <2>. QED  BY <2>1, <2>2, <2>3
<1>3. new.id = IF n = 0 THEN cur.id ELSE q[n].id
  <2>1. new.id = IF done = {} THEN cur.id ELSE MaxOf({s.id : s \in done})
    BY DEF UpdateFrom
  <2>2. CASE n = 0
    BY <2>1, <2>2
  <2>3. CASE n # 0
    <3>1. q[n] \in done
      BY <2>3
    <3>2. /\ MaxOf({s.id : s \in done}) \in {s.id : s \in done}
          /\ \A s \in done : s.id <= MaxOf({t.id : t \in done})
      <4> HIDE DEF done
      <4>1. done \subseteq {q[k] : k \in 1..n} /\ done # {}
        BY <3>1 DEF done
      <4>. QED  BY <1>1, <4>1, AppliedHaveNewest
    <3>3. PICK k \in 1..n : MaxOf({s.id : s \in done}) = q[k].id
      BY <3>2
    <3>4. q[k].id <= q[n].id /\ q[n].id <= q[k].id
      BY <1>2, <3>1, <3>2, <3>3
    <3>5. n \in 1..n /\ q[k].id \in Nat /\ q[n].id \in Nat
      BY <1>0, <2>3
    <3>6. q[k].id = q[n].id
      BY <3>4, <3>5
    <3>. QED  BY <2>1, <2>3, <3>1, <3>3, <3>6
  <2>. QED  BY <2>2, <2>3
<1>4. withBuffer # {} => \E k \in 1..n : newest = q[k].id
  <2> SUFFICES ASSUME withBuffer # {} PROVE \E k \in 1..n : newest = q[k].id
    OBVIOUS
  <2>1. MaxOf({s.id : s \in withBuffer}) \in {s.id : s \in withBuffer}
    <3>1. withBuffer \subseteq {q[k] : k \in 1..n}
      OBVIOUS
    <3> HIDE DEF withBuffer
    <3>. QED  BY <1>1, <3>1, AppliedHaveNewest
  <2>. QED  BY <2>1
<1>5. withScale # {} => last \in withScale
  <2> SUFFICES ASSUME withScale # {} PROVE last \in withScale
    OBVIOUS
  <2>1. withScale \subseteq {q[k] : k \in 1..n}
    OBVIOUS
  <2> HIDE DEF withScale
  <2>2. /\ MaxOf({s.id : s \in withScale}) \in {s.id : s \in withScale}
        /\ \A s \in withScale : s.id <= MaxOf({t.id : t \in withScale})
    BY <1>1, <2>1, AppliedHaveNewest
  <2>3. \E s \in withScale : \A t \in withScale : t.id <= s.id
    BY <2>2
  <2>. QED  BY <2>3
<1>6. /\ cur.content <= newest /\ newest \in 0..MaxCommits
      /\ newest <= new.id
  <2>1. CASE withBuffer = {}
    <3>1. newest = cur.content
      BY <2>1
    <3>2. cur.content \in 0..MaxCommits
      BY DEF Current
    <3>3. CASE n = 0
      BY <1>3, <3>1, <3>2, <3>3
    <3>4. CASE n # 0
      <4>1. n \in 1..n
        BY <3>4
      <4>2. cur.id < q[n].id /\ q[n].id \in Nat /\ new.id = q[n].id
        BY <1>1, <1>2, <1>3, <3>4, <4>1
      <4> HIDE DEF newest
      <4>. QED  BY <1>1, <3>1, <3>2, <4>2
    <3>. QED  BY <3>3, <3>4
  <2>2. CASE withBuffer # {}
    <3> HIDE DEF newest, withBuffer, done
    <3>1. PICK k \in 1..n : newest = q[k].id
      BY <1>4, <2>2
    <3>2. n # 0 /\ n \in 1..n /\ new.id = q[n].id
      BY <1>3, <3>1
    <3>3. cur.id < q[k].id /\ q[k].id <= q[n].id /\ q[k].id \in Commits
      BY <1>1, <1>2
    <3>. QED  BY <1>1, <3>1, <3>2, <3>3 DEF Commits
  <2>. QED  BY <2>1, <2>2
<1>7. new = [id |-> new.id, content |-> newest, texture |-> texture, scale |-> scale,
             barrier |-> barrier, fbs |-> kept]
  BY DEF UpdateFrom
<1>10. new.content = newest /\ new.fbs = kept /\ (cur.barrier => new.barrier)
  <2>1. new.content = newest /\ new.fbs = kept /\ new.barrier = barrier
    <3> HIDE DEF newest, texture, barrier, scale, kept
    <3>. QED  BY <1>7
  <2>2. cur.barrier => barrier
    OBVIOUS
  <2> HIDE DEF newest, barrier, kept
  <2>. QED  BY <2>1, <2>2
<1>8. \A i \in new.fbs :
         /\ i \in cur.fbs \/ \E k \in 1..n : q[k].fb /\ q[k].id = i
         /\ i >= new.content /\ i \in Commits
  <2> TAKE i \in new.fbs
  <2>1. CASE withBuffer = {}
    <3>1. i \in cur.fbs \/ \E k \in 1..n : q[k].fb /\ q[k].id = i
      BY <1>10, <2>1
    <3>2. new.content = cur.content
      BY <1>10, <2>1
    <3>3. cur.fbs \subseteq Commits
      BY DEF Current
    <3>4. CASE i \in cur.fbs
      BY <3>1, <3>2, <3>3, <3>4
    <3>5. CASE \E k \in 1..n : q[k].fb /\ q[k].id = i
      <4>1. PICK k \in 1..n : q[k].id = i
        BY <3>5
      <4>2. i \in Commits /\ i \in Nat /\ cur.id < i
        BY <1>1, <1>2, <4>1
      <4>3. i >= cur.content
        BY <1>1, <4>2
      <4>. QED  BY <3>2, <3>5, <4>2, <4>3
    <3>. QED  BY <3>1, <3>4, <3>5
  <2>2. CASE withBuffer # {}
    <3>1. new.content = newest /\ i \in {s.id : s \in {t \in done : t.fb /\ t.id >= newest}}
      <4> HIDE DEF newest
      <4>. QED  BY <1>10, <2>2
    <3>2. PICK t \in done : t.fb /\ t.id >= newest /\ t.id = i
      BY <3>1
    <3>. QED  BY <1>1, <3>1, <3>2
  <2>. QED  BY <2>1, <2>2
<1>9. new \in Current
  <2>1. new.id \in 0..MaxCommits
    <3>1. n # 0 => n \in 1..n
      OBVIOUS
    <3>2. cur.id \in 0..MaxCommits /\ \A i \in Commits : i \in 0..MaxCommits
      BY <1>1 DEF Current
    <3>. QED  BY <1>1, <1>3, <3>1, <3>2
  <2>2. scale \in Scales
    BY <1>1, <1>5 DEF Current, QueuedState
  <2>3. kept \subseteq Commits
    <3> HIDE DEF kept
    <3>. QED  BY <1>8, <1>10
  <2>4. texture \in BOOLEAN /\ barrier \in BOOLEAN
    OBVIOUS
  <2>5. newest \in 0..MaxCommits
    BY <1>6
  <2> HIDE DEF texture, barrier, scale, newest, kept
  <2>6. /\ new.id \in 0..MaxCommits /\ newest \in 0..MaxCommits /\ texture \in BOOLEAN
        /\ scale \in Scales /\ barrier \in BOOLEAN /\ kept \in SUBSET Commits
    BY <2>1, <2>2, <2>3, <2>4, <2>5
  <2>7. [id |-> new.id, content |-> newest, texture |-> texture, scale |-> scale,
         barrier |-> barrier, fbs |-> kept] \in Current
    BY <2>6 DEF Current
  <2>. QED  BY <1>7, <2>7
<1> HIDE DEF newest
<1>. QED  BY <1>3, <1>6, <1>8, <1>9, <1>10

\* p is what is left of q and cur after n states went in.
Processed(q, cur, f, n, p) ==
    /\ p = [queue |-> p.queue, current |-> p.current, applied |-> p.applied, fb |-> p.fb,
            mapped |-> p.mapped]
    /\ p.queue \in Seq(QueuedState) /\ Len(p.queue) = Len(q) - n
    /\ \A k \in 1..(Len(q) - n) :
          /\ p.queue[k].id = q[k + n].id /\ p.queue[k].fb = q[k + n].fb
          /\ \/ p.queue[k].lock = q[k + n].lock
             \/ ~p.current.barrier /\ p.queue[k].lock = q[k + n].lock \ {"fifo"}
    /\ p.current \in Current
    /\ p.current.id = IF n = 0 THEN cur.id ELSE q[n].id
    /\ cur.content <= p.current.content /\ p.current.content <= p.current.id
    /\ cur.barrier => p.current.barrier
    /\ \A i \in p.current.fbs :
          /\ i \in cur.fbs \/ \E k \in 1..n : q[k].fb /\ q[k].id = i
          /\ i >= p.current.content
    /\ p.applied = applied \cup {q[k].id : k \in 1..n}
    /\ p.mapped \in BOOLEAN
    /\ p.fb \in [Commits -> Answers]
    /\ \A i \in Commits : p.fb[i] = f[i] \/ (f[i] = "open" /\ p.fb[i] = "discarded")
    /\ \A i \in Commits : p.fb[i] = "open" /\ (\/ i \in cur.fbs
                                               \/ \E k \in 1..n : q[k].fb /\ q[k].id = i)
                             => i \in p.current.fbs

LEMMA AnsweredOnce ==
    ASSUME NEW f \in [Commits -> Answers], NEW S, NEW what \in Answers
    PROVE  /\ Answered(f, S, what) \in [Commits -> Answers]
           /\ \A i \in Commits :
                 Answered(f, S, what)[i] = IF i \in S /\ f[i] = "open" THEN what ELSE f[i]
BY DEF Answered

\* tryProcess leaves the tail of the queue, its first state maybe without
\* the FIFO lock.
LEMMA RestIsTail ==
    ASSUME NEW q \in Seq(QueuedState), NEW n \in 0..Len(q), NEW b \in BOOLEAN
    PROVE  /\ Rest(q, n, b) \in Seq(QueuedState) /\ Len(Rest(q, n, b)) = Len(q) - n
           /\ \A k \in 1..(Len(q) - n) :
                 /\ Rest(q, n, b)[k].id = q[k + n].id /\ Rest(q, n, b)[k].fb = q[k + n].fb
                 /\ \/ Rest(q, n, b)[k].lock = q[k + n].lock
                    \/ ~b /\ Rest(q, n, b)[k].lock = q[k + n].lock \ {"fifo"}
<1> DEFINE r == SubSeq(q, n + 1, Len(q))
<1>0. Len(q) \in Nat /\ n \in Nat /\ n <= Len(q)
  OBVIOUS
<1>1. r \in Seq(QueuedState) /\ Len(r) = Len(q) - n
      /\ \A k \in 1..(Len(q) - n) : r[k] = q[k + n]
  OBVIOUS
<1>2. CASE r # <<>> /\ ~b
  <2> DEFINE s == [r EXCEPT ![1].lock = @ \ {"fifo"}]
  <2> HIDE DEF r
  <2>1. Rest(q, n, b) = s
    BY <1>2 DEF Rest, r
  <2>2. DOMAIN r = 1..Len(r) /\ \A k \in 1..Len(r) : r[k] \in QueuedState
    BY <1>1
  <2>3. \A k \in 1..Len(r) :
           s[k] = IF k = 1 THEN [r[1] EXCEPT !.lock = r[1].lock \ {"fifo"}] ELSE r[k]
    BY <2>2
  <2>4. \A k \in 1..Len(r) :
           /\ s[k] \in QueuedState /\ s[k].id = r[k].id /\ s[k].fb = r[k].fb
           /\ s[k].lock = r[k].lock \/ s[k].lock = r[k].lock \ {"fifo"}
    BY <2>2, <2>3 DEF QueuedState
  <2>5. s \in [1..Len(r) -> QueuedState]
    BY <2>2, <2>4
  <2>6. s \in Seq(QueuedState) /\ Len(s) = Len(r)
    BY <1>1, <2>5
  <2> HIDE DEF s
  <2>. QED  BY <1>1, <1>2, <2>1, <2>4, <2>6
<1>3. CASE ~(r # <<>> /\ ~b)
  <2>1. Rest(q, n, b) = r
    BY <1>3 DEF Rest
  <2> HIDE DEF r
  <2>. QED  BY <1>1, <2>1
<1>. QED  BY <1>2, <1>3

LEMMA ApplyingProcesses ==
    ASSUME NEW q, NEW cur, NEW f \in [Commits -> Answers], NEW m, Processable(q, cur, m),
           NEW n \in 0..Len(q), mapped \in BOOLEAN,
           NEW p, p = Applying(q, cur, f, n)
    PROVE  Processed(q, cur, f, n, p)
<1> DEFINE done == {q[k] : k \in 1..n}
           new == UpdateFrom(cur, done)
           gone == Superseded(cur, new, done)
           up == mapped \/ (n > 0 /\ new.texture)
           ap == applied \cup {s.id : s \in done}
           answered == DiscardFeedbacks(f, gone)
           rest == Rest(q, n, new.barrier)
<1>1. p = [queue |-> rest, current |-> new, applied |-> ap, fb |-> answered, mapped |-> up]
  BY DEF Applying
<1>2. /\ new \in Current
      /\ new.id = IF n = 0 THEN cur.id ELSE q[n].id
      /\ cur.content <= new.content /\ new.content <= new.id
      /\ cur.barrier => new.barrier
      /\ \A i \in new.fbs :
            /\ i \in cur.fbs \/ \E k \in 1..n : q[k].fb /\ q[k].id = i
            /\ i >= new.content
  <2> HIDE DEF new
  <2>. QED  BY UpdateFromQueue DEF new
<1>3. new.barrier \in BOOLEAN /\ q \in Seq(QueuedState)
  BY <1>2 DEF Current, Processable
<1>4. gone = (cur.fbs \cup {q[k].id : k \in {j \in 1..n : q[j].fb}}) \ new.fbs
  BY DEF Superseded
<1>5. up \in BOOLEAN
  OBVIOUS
<1>6. ap = applied \cup {q[k].id : k \in 1..n}
  OBVIOUS
<1> HIDE DEF new, gone, done, up, ap, answered, rest
<1>7. /\ p.queue = rest /\ p.current = new /\ p.applied = ap
      /\ p.fb = answered /\ p.mapped = up
      /\ p = [queue |-> p.queue, current |-> p.current, applied |-> p.applied, fb |-> p.fb,
              mapped |-> p.mapped]
  BY <1>1
<1>8. /\ p.queue \in Seq(QueuedState) /\ Len(p.queue) = Len(q) - n
      /\ \A k \in 1..(Len(q) - n) :
            /\ p.queue[k].id = q[k + n].id /\ p.queue[k].fb = q[k + n].fb
            /\ \/ p.queue[k].lock = q[k + n].lock
               \/ ~p.current.barrier /\ p.queue[k].lock = q[k + n].lock \ {"fifo"}
  BY <1>3, <1>7, RestIsTail DEF rest
<1>9. /\ p.fb \in [Commits -> Answers]
      /\ \A i \in Commits : p.fb[i] = IF i \in gone /\ f[i] = "open" THEN "discarded" ELSE f[i]
  BY <1>7, AnsweredOnce DEF DiscardFeedbacks, Answers, answered
<1>10. \A i \in Commits : p.fb[i] = "open" /\ (\/ i \in cur.fbs
                                               \/ \E k \in 1..n : q[k].fb /\ q[k].id = i)
                             => i \in p.current.fbs
  BY <1>4, <1>7, <1>9
<1>11. \A i \in Commits : p.fb[i] = f[i] \/ (f[i] = "open" /\ p.fb[i] = "discarded")
  BY <1>9
<1>. QED  BY <1>2, <1>5, <1>6, <1>7, <1>8, <1>9, <1>10, <1>11 DEF Processed

LEMMA TimersKept ==
    ASSUME NEW t \in [Commits -> Targets], NEW q, NEW n
    PROVE  /\ KeepTimers(t, q, n) \in [Commits -> Targets]
           /\ \A i \in Commits : KeepTimers(t, q, n)[i] \in {t[i], "none"}
BY DEF KeepTimers, Targets

LEMMA QueueIds ==
    ASSUME NEW q \in Seq(QueuedState)
    PROVE  /\ Len(q) \in Nat /\ DOMAIN q = 1..Len(q)
           /\ \A k \in 1..Len(q) : /\ q[k] \in QueuedState /\ q[k].id \in Commits
                                   /\ q[k].id \in Nat /\ q[k].id <= MaxCommits
                                   /\ q[k].lock \subseteq Reasons /\ q[k].fb \in BOOLEAN
<1>1. Len(q) \in Nat /\ DOMAIN q = 1..Len(q) /\ \A k \in 1..Len(q) : q[k] \in QueuedState
  OBVIOUS
<1>2. \A s \in QueuedState : /\ s.id \in Commits /\ s.lock \subseteq Reasons /\ s.fb \in BOOLEAN
                             /\ s.id \in Nat /\ s.id <= MaxCommits
  BY SurfaceAssumption DEF QueuedState, Commits
<1>. QED  BY <1>1, <1>2

\* Whatever tryProcess does to a sound queue leaves it sound.
LEMMA ProcessedIsSound ==
    ASSUME NEW q, NEW cur, NEW f \in [Commits -> Answers], NEW t \in [Commits -> Targets],
           NEW m \in 0..MaxCommits, NEW w, NEW fo, NEW uns,
           Sound(q, cur, applied, f, t, m, w, fo, uns),
           NEW n \in 0..Len(q), StopsAfter(q, cur.barrier, n),
           NEW p, Processed(q, cur, f, n, p)
    PROVE  Sound(p.queue, p.current, p.applied, p.fb, KeepTimers(t, p.queue, m), m, w, fo, uns)
<1> DEFINE r == p.queue
           new == p.current
           t2 == KeepTimers(t, p.queue, m)
<1>1. /\ q \in Seq(QueuedState) /\ r \in Seq(QueuedState)
      /\ Len(q) \in Nat /\ n \in Nat /\ n <= Len(q) /\ Len(r) = Len(q) - n
      /\ cur.id \in Nat /\ cur.id <= m /\ m \in Nat /\ m <= MaxCommits
  BY QueueIds, SurfaceAssumption DEF Sound, Processable, Processed, Current
<1>0. applied \subseteq Commits
  <2>1. applied \subseteq 1..cur.id
    BY DEF Sound
  <2>2. \A i \in 1..cur.id : i \in Commits
    BY <1>1, SurfaceAssumption DEF Commits
  <2>. QED  BY <2>1, <2>2
<1>2. /\ \A k \in 1..Len(q) : q[k].id \in Commits /\ q[k].id \in Nat
      /\ \A k \in 1..Len(r) : r[k].id \in Commits /\ r[k].id \in Nat
  BY <1>1, QueueIds
<1>3. \A k \in 1..Len(r) : /\ k \in Nat /\ k + n \in 1..Len(q)
                           /\ r[k].id = q[k + n].id /\ r[k].fb = q[k + n].fb
                           /\ \/ r[k].lock = q[k + n].lock
                              \/ ~new.barrier /\ r[k].lock = q[k + n].lock \ {"fifo"}
  BY <1>1 DEF Processed
<1>4. \A k \in 1..n : k \in 1..Len(q) /\ MayGo(q, cur.barrier, k)
  BY <1>1 DEF StopsAfter
<1>5. /\ t2 \in [Commits -> Targets]
      /\ \A i \in Commits : t2[i] \in {t[i], "none"}
  BY TimersKept
<1>6. InOrder(q, cur.id, m)
  BY DEF Sound, Processable
<1>7. /\ new.id = IF n = 0 THEN cur.id ELSE q[n].id
      /\ new \in Current /\ new.id \in Nat /\ new.id <= m /\ cur.id <= new.id
      /\ \A k \in 1..n : q[k].id <= new.id
  <2>1. new \in Current /\ new.id = IF n = 0 THEN cur.id ELSE q[n].id
    BY DEF Processed
  <2>2. CASE n = 0
    BY <1>1, <2>1, <2>2
  <2>3. CASE n # 0
    <3>1. n \in 1..Len(q) /\ new.id = q[n].id
      BY <1>1, <2>1, <2>3
    <3>2. cur.id < q[n].id /\ q[n].id <= m /\ \A j \in 1..(n - 1) : q[j].id < q[n].id
      BY <1>6, <3>1 DEF InOrder
    <3>3. \A k \in 1..n : k = n \/ k \in 1..(n - 1)
      BY <1>1
    <3>. QED  BY <1>1, <1>2, <1>4, <2>1, <3>1, <3>2, <3>3
  <2>. QED  BY <2>2, <2>3
<1>8. InOrder(r, new.id, m)
  <2> SUFFICES ASSUME NEW k \in 1..Len(r)
               PROVE  /\ new.id < r[k].id /\ r[k].id <= m
                      /\ \A j \in 1..(k - 1) : r[j].id < r[k].id
    BY DEF InOrder
  <2>1. k + n \in 1..Len(q) /\ r[k].id = q[k + n].id
    BY <1>3
  <2>2. cur.id < q[k + n].id /\ q[k + n].id <= m /\ \A j \in 1..(k + n - 1) : q[j].id < q[k + n].id
    BY <1>6, <2>1 DEF InOrder
  <2>3. \A j \in 1..(k - 1) : j \in 1..Len(r) /\ j + n \in 1..(k + n - 1)
    BY <1>1
  <2>4. \A j \in 1..(k - 1) : r[j].id < r[k].id
    BY <1>3, <2>1, <2>2, <2>3
  <2>5. n # 0 => n \in 1..(k + n - 1)
    BY <1>1
  <2>. QED  BY <1>7, <2>1, <2>2, <2>4, <2>5
<1>9. Processable(r, new, m)
  BY <1>1, <1>7, <1>8 DEF Processable, Processed
<1>10. p.applied = applied \cup {q[k].id : k \in 1..n}
  BY DEF Processed
<1>11. p.applied \subseteq 1..new.id
  <2>1. applied \subseteq 1..cur.id
    BY DEF Sound
  <2>2. \A k \in 1..n : q[k].id \in 1..new.id
    BY <1>2, <1>4, <1>7 DEF Commits
  <2>3. \A i \in 1..cur.id : i \in 1..new.id
    BY <1>1, <1>7
  <2>. QED  BY <1>10, <2>1, <2>2, <2>3
<1>12. LocksHold(r, p.applied, t2, w, fo)
  <2>1. ASSUME NEW k \in 1..Len(r), r[k].id \notin fo
        PROVE  /\ "fence" \notin r[k].lock => r[k].id \notin w
               /\ "timer" \notin r[k].lock => t2[r[k].id] # "far"
    <3>1. /\ r[k].id = q[k + n].id
          /\ "fence" \in r[k].lock <=> "fence" \in q[k + n].lock
          /\ "timer" \in r[k].lock <=> "timer" \in q[k + n].lock
      BY <1>3
    <3>2. /\ "fence" \notin q[k + n].lock => q[k + n].id \notin w
          /\ "timer" \notin q[k + n].lock => t[q[k + n].id] # "far"
      BY <1>3, <2>1, <3>1 DEF Sound, LocksHold
    <3>. QED  BY <1>2, <1>5, <3>1, <3>2
  <2>2. ASSUME NEW i \in p.applied \ fo
        PROVE  Ready(i, t2, w)
    <3>1. CASE i \in applied
      <4>1. Ready(i, t, w)
        BY <2>2, <3>1 DEF Sound, LocksHold
      <4>2. i \in Commits
        BY <3>1, <1>0
      <4>. QED  BY <1>5, <4>1, <4>2 DEF Ready
    <3>2. CASE i \notin applied
      <4>1. PICK k \in 1..n : i = q[k].id
        BY <1>10, <3>2
      <4>2. "fence" \notin q[k].lock /\ "timer" \notin q[k].lock
        BY <1>4 DEF MayGo
      <4>3. i \notin w /\ t[i] # "far"
        BY <1>4, <2>2, <4>1, <4>2 DEF Sound, LocksHold
      <4>. QED  BY <1>2, <1>4, <1>5, <4>1, <4>3 DEF Ready
    <3>. QED  BY <3>1, <3>2
  <2>. QED  BY <2>1, <2>2 DEF LocksHold
<1>13. BarrierHolds(r, new, p.applied, uns)
  <2>1. uns # {} => cur.barrier /\ new.barrier
    BY DEF Sound, BarrierHolds, Processed
  <2>2. ASSUME NEW k \in 1..Len(r), r[k].id \in uns
        PROVE  "fifo" \in r[k].lock
    BY <1>3, <2>1, <2>2 DEF Sound, BarrierHolds
  <2>3. ASSUME NEW k \in 1..n, q[k].id \in uns
        PROVE  FALSE
    BY <1>4, <2>1, <2>3 DEF Sound, BarrierHolds, MayGo
  <2>. QED  BY <1>10, <2>1, <2>2, <2>3 DEF Sound, BarrierHolds
<1>14. HeldIsKnown(r, new, p.applied, p.fb)
  <2>1. \A i \in Commits : f[i] # "none" => p.fb[i] # "none"
    BY DEF Processed
  <2>2. ASSUME NEW k \in 1..Len(r), r[k].fb
        PROVE  p.fb[r[k].id] # "none"
    BY <1>2, <1>3, <2>1, <2>2 DEF Sound, HeldIsKnown
  <2>3. ASSUME NEW i \in new.fbs
        PROVE  i \in p.applied /\ p.fb[i] # "none"
    <3>1. i \in cur.fbs \/ \E k \in 1..n : q[k].fb /\ q[k].id = i
      BY DEF Processed
    <3>2. CASE i \in cur.fbs
      <4>1. i \in applied /\ f[i] # "none"
        BY <3>2 DEF Sound, HeldIsKnown
      <4>2. i \in Commits
        BY <4>1, <1>0
      <4>. QED  BY <1>10, <2>1, <4>1, <4>2
    <3>3. CASE \E k \in 1..n : q[k].fb /\ q[k].id = i
      <4>1. PICK k \in 1..n : q[k].fb /\ q[k].id = i
        BY <3>3
      <4>. QED  BY <1>2, <1>4, <1>10, <2>1, <4>1 DEF Sound, HeldIsKnown
    <3>. QED  BY <3>1, <3>2, <3>3
  <2>. QED  BY <2>2, <2>3 DEF HeldIsKnown
<1>. QED  BY <1>9, <1>11, <1>12, <1>13, <1>14 DEF Sound

\* Who held an open feedback in q or cur holds it still, or it was answered.
LEMMA ProcessedKeepsFeedback ==
    ASSUME NEW q \in Seq(QueuedState), NEW cur, NEW f, NEW n \in 0..Len(q), NEW p,
           Processed(q, cur, f, n, p), NEW i \in Commits, p.fb[i] = "open",
           i \in Fbs(q) \cup cur.fbs
    PROVE  i \in Fbs(p.queue) \cup p.current.fbs
<1>1. CASE i \in cur.fbs
  BY <1>1 DEF Processed
<1>2. CASE i \in Fbs(q)
  <2>1. PICK k \in 1..Len(q) : q[k].fb /\ q[k].id = i
    BY <1>2, QueueIds DEF Fbs, Held
  <2>2. CASE k \in 1..n
    BY <2>1, <2>2 DEF Processed
  <2>3. CASE k \notin 1..n
    <3>1. k - n \in 1..(Len(q) - n) /\ (k - n) + n = k
      BY <2>3
    <3>2. p.queue[k - n].id = i /\ p.queue[k - n].fb
      BY <2>1, <3>1 DEF Processed
    <3>3. k - n \in DOMAIN p.queue
      BY <3>1, QueueIds DEF Processed
    <3>. QED  BY <3>2, <3>3 DEF Fbs, Held
  <2>. QED  BY <2>2, <2>3
<1>. QED  BY <1>1, <1>2

\* In the eyes of the client: what waits less of q is given up or shown, in order.
Advances(avail, shown0, waiting1, shown1) ==
    /\ waiting1 \subseteq avail
    /\ \/ shown1 = shown0
       \/ /\ shown1 \in avail \ waiting1
          /\ shown1 > shown0
          /\ \A i \in waiting1 : i > shown1

LEMMA ProcessedAdvances ==
    ASSUME NEW q, NEW cur, NEW m, Processable(q, cur, m),
           NEW f, NEW n \in 0..Len(q), NEW p, Processed(q, cur, f, n, p),
           InOrder(p.queue, p.current.id, m)
    PROVE  Advances(Ids(q), cur.id, Ids(p.queue), p.current.id)
<1>1. q \in Seq(QueuedState) /\ p.queue \in Seq(QueuedState) /\ cur.id \in Nat
  BY SurfaceAssumption DEF Processable, Processed, Current
<1>2. Ids(q) = {q[k].id : k \in 1..Len(q)} /\ Ids(p.queue) = {p.queue[k].id : k \in 1..Len(p.queue)}
  BY <1>1, QueueIds DEF Ids, Held
<1>3. Ids(p.queue) \subseteq Ids(q)
  <2> SUFFICES ASSUME NEW k \in 1..Len(p.queue) PROVE p.queue[k].id \in Ids(q)
    BY <1>2
  <2>1. k \in 1..(Len(q) - n) /\ k + n \in 1..Len(q)
    BY <1>1, QueueIds DEF Processed
  <2>2. p.queue[k].id = q[k + n].id
    BY <2>1 DEF Processed
  <2>. QED  BY <1>2, <2>1, <2>2
<1>4. \A i \in Ids(p.queue) : i > p.current.id /\ i \in Nat
  BY <1>1, <1>2, QueueIds DEF InOrder
<1>5. CASE n = 0
  BY <1>3, <1>5 DEF Advances, Processed
<1>6. CASE n # 0
  <2>1. n \in 1..Len(q) /\ p.current.id = q[n].id
    BY <1>1, <1>6, QueueIds DEF Processed
  <2>2. q[n].id \in Ids(q) /\ q[n].id \in Nat /\ q[n].id > cur.id
    BY <1>1, <1>2, <2>1, QueueIds DEF Processable, InOrder
  <2>3. q[n].id \notin Ids(p.queue)
    BY <1>4, <2>1, <2>2
  <2>. QED  BY <1>3, <1>4, <2>1, <2>2, <2>3 DEF Advances
<1>. QED  BY <1>5, <1>6

-----------------------------------------------------------------------------
(* The surface after a callback                                            *)

\* The surface is sound again, n commits being sent, after q was tried on cur:
\* no feedback of f is lost, and the client sees its commits in order.
Ran(q, cur, f, n, w, fo, uns) ==
    /\ Sound(queue', current', applied', fb', target', n, w, fo, uns)
    /\ fb' \in [Commits -> Answers] /\ target' \in [Commits -> Targets]
    /\ mapped' \in BOOLEAN /\ frameDue' \in BOOLEAN
    /\ \A i \in Commits : fb'[i] = f[i] \/ (f[i] = "open" /\ fb'[i] = "discarded")
    /\ \A i \in Commits : fb'[i] = "open" /\ i \in Fbs(q) \cup cur.fbs
                             => i \in Fbs(queue') \cup current'.fbs
    /\ Advances(Ids(q), cur.id, Ids(queue'), current'.id)

LEMMA TryProcessRuns ==
    ASSUME NEW q, NEW cur, NEW f \in [Commits -> Answers], NEW t \in [Commits -> Targets],
           NEW n \in 0..MaxCommits, NEW w, NEW fo, NEW uns, mapped \in BOOLEAN,
           Sound(q, cur, applied, f, t, n, w, fo, uns),
           NEW due, Becomes(TryProcess(q, cur, f), t, due, n)
    PROVE  Ran(q, cur, f, n, w, fo, uns)
<1>1. PICK p \in TryProcess(q, cur, f) :
         /\ queue' = p.queue /\ current' = p.current /\ applied' = p.applied
         /\ fb' = p.fb /\ mapped' = p.mapped /\ target' = KeepTimers(t, p.queue, n)
         /\ frameDue' \in BOOLEAN
  BY DEF Becomes
<1>2. PICK k \in 0..Len(q) : StopsAfter(q, cur.barrier, k) /\ p = Applying(q, cur, f, k)
  BY <1>1 DEF TryProcess
<1>3. Processable(q, cur, n) /\ q \in Seq(QueuedState)
  BY DEF Sound, Processable
<1>4. Processed(q, cur, f, k, p)
  BY <1>2, <1>3, ApplyingProcesses
<1>5. Sound(p.queue, p.current, p.applied, p.fb, KeepTimers(t, p.queue, n), n, w, fo, uns)
  BY <1>2, <1>4, ProcessedIsSound
<1>6. InOrder(p.queue, p.current.id, n)
  BY <1>5 DEF Sound, Processable
<1>7. Advances(Ids(q), cur.id, Ids(p.queue), p.current.id)
  BY <1>3, <1>4, <1>6, ProcessedAdvances
<1>8. \A i \in Commits : p.fb[i] = "open" /\ i \in Fbs(q) \cup cur.fbs
                            => i \in Fbs(p.queue) \cup p.current.fbs
  BY <1>3, <1>4, ProcessedKeepsFeedback
<1>9. /\ p.fb \in [Commits -> Answers] /\ p.mapped \in BOOLEAN
      /\ \A i \in Commits : p.fb[i] = f[i] \/ (f[i] = "open" /\ p.fb[i] = "discarded")
  BY <1>4 DEF Processed
<1>. QED  BY <1>1, <1>5, <1>7, <1>8, <1>9, TimersKept DEF Ran

\* A queue nobody tries.
LEMMA UnprocessedRuns ==
    ASSUME NEW q, NEW f \in [Commits -> Answers], NEW t \in [Commits -> Targets],
           NEW n \in 0..MaxCommits, NEW w, NEW fo, NEW uns, mapped \in BOOLEAN,
           Sound(q, current, applied, f, t, n, w, fo, uns),
           NEW due, Becomes(Unprocessed(q, f), t, due, n)
    PROVE  Ran(q, current, f, n, w, fo, uns)
<1> DEFINE p == Applying(q, current, f, 0)
<1>1. current \in Current /\ q \in Seq(QueuedState) /\ Processable(q, current, n)
  BY DEF Sound, Processable
<1>2. {q[k] : k \in 1..0} = {}
  OBVIOUS
<1>3. UpdateFrom(current, {}) = current
  <2> DEFINE new == UpdateFrom(current, {})
  <2>1. new = [id |-> current.id, content |-> current.content, texture |-> current.texture,
               scale |-> current.scale, barrier |-> current.barrier, fbs |-> current.fbs]
    BY <1>1 DEF UpdateFrom, Current
  <2>. QED  BY <1>1, <2>1 DEF Current
<1>4. p = [queue |-> p.queue, current |-> current, applied |-> applied, fb |-> f,
           mapped |-> mapped]
  <2>1. Superseded(current, current, {}) = {}
    BY DEF Superseded
  <2>2. DiscardFeedbacks(f, {}) = f
    BY DEF DiscardFeedbacks, Answered
  <2> DEFINE rest == Rest(q, 0, current.barrier)
             up == mapped \/ (0 > 0 /\ current.texture)
             ap == applied \cup {s.id : s \in {}}
  <2>3. p = [queue |-> rest, current |-> current, applied |-> ap, fb |-> f, mapped |-> up]
    BY <1>2, <1>3, <2>1, <2>2 DEF Applying
  <2>4. up = mapped /\ ap = applied
    OBVIOUS
  <2> HIDE DEF rest, up, ap, p
  <2>. QED  BY <2>3, <2>4
<1>5. /\ queue' = q /\ current' = current /\ applied' = applied
      /\ fb' = f /\ mapped' = mapped /\ target' = KeepTimers(t, q, n)
  <2> HIDE DEF p
  <2>1. PICK r \in {[p EXCEPT !.queue = q]} :
           /\ queue' = r.queue /\ current' = r.current /\ applied' = r.applied
           /\ fb' = r.fb /\ mapped' = r.mapped /\ target' = KeepTimers(t, r.queue, n)
    BY DEF Becomes, Unprocessed, p
  <2>2. r = [queue |-> q, current |-> current, applied |-> applied, fb |-> f, mapped |-> mapped]
    BY <1>4, <2>1
  <2>. QED  BY <2>1, <2>2
<1>6. applied \subseteq Commits
  <2>1. applied \subseteq 1..current.id /\ current.id \in 0..MaxCommits
    BY <1>1 DEF Sound, Current
  <2>. QED  BY <2>1, SurfaceAssumption DEF Commits
<1>7. LocksHold(q, applied, KeepTimers(t, q, n), w, fo)
  BY <1>1, <1>6, TimersKept, QueueIds DEF Sound, LocksHold, Ready
<1>8. Sound(q, current, applied, f, KeepTimers(t, q, n), n, w, fo, uns)
  BY <1>7 DEF Sound
<1>9. Advances(Ids(q), current.id, Ids(q), current.id) /\ frameDue' \in BOOLEAN
  BY DEF Advances, Becomes
<1>. QED  BY <1>5, <1>8, <1>9, TimersKept DEF Ran

-----------------------------------------------------------------------------
(* Every step                                                              *)

\* The client sees its commits in order.
Shown == Advances(Ids(queue) \cup {i \in {sent'} : i > sent}, current.id,
                  Ids(queue'), current'.id)

LEMMA InvTypes ==
    ASSUME Inv
    PROVE  /\ sent \in 0..MaxCommits /\ sent \in Nat /\ MaxCommits \in Nat
           /\ queue \in Seq(QueuedState) /\ Processable(queue, current, sent)
           /\ current \in Current /\ current.id \in Nat /\ current.id <= sent
           /\ applied \subseteq 1..current.id /\ applied \subseteq Commits
           /\ pending \in PendingState
           /\ fb \in [Commits -> Answers] /\ target \in [Commits -> Targets]
           /\ mapped \in BOOLEAN /\ fifo \in BOOLEAN /\ frameDue \in BOOLEAN
           /\ flip \in BOOLEAN /\ tearing \in BOOLEAN /\ hidden \in BOOLEAN
           /\ presQ \subseteq [fb: Commits, shown: BOOLEAN]
<1>1. TypeOK
  BY DEF Inv
<1>2. Processable(queue, current, sent) /\ applied \subseteq 1..current.id
  BY DEF Inv, Sound
<1>3. current.id \in Nat /\ current.id <= sent /\ sent \in 0..MaxCommits /\ MaxCommits \in Nat
  BY <1>1, <1>2, SurfaceAssumption DEF Processable, Current, TypeOK
<1>4. applied \subseteq Commits
  BY <1>2, <1>3 DEF Commits
<1>. QED  BY <1>1, <1>2, <1>3, <1>4 DEF Processable, TypeOK, Answers, Targets

\* A queue that is sound for n commits is sound for the next one.
LEMMA MoreCommits ==
    ASSUME NEW q, NEW cur, NEW n \in Nat, NEW k \in {n, n + 1}, Processable(q, cur, n)
    PROVE  Processable(q, cur, k)
<1>1. q \in Seq(QueuedState) /\ cur.id \in Nat
  BY SurfaceAssumption DEF Processable, Current
<1>2. InOrder(q, cur.id, k)
  BY <1>1, QueueIds DEF Processable, InOrder
<1>. QED  BY <1>1, <1>2 DEF Processable

\* Steps that leave the queue and the current state alone.
LEMMA QuietSteps ==
    ASSUME Inv, UNCHANGED <<queue, current, applied>>, sent' \in {sent, sent + 1},
           fb' \in [Commits -> Answers], \A i \in Commits : fb[i] # "none" => fb'[i] # "none",
           LocksHold(queue, applied, target', fence' \cup failed', forced'),
           BarrierHolds(queue, current, applied, unseen')
    PROVE  /\ Sound(queue', current', applied', fb', target', sent', fence' \cup failed',
                    forced', unseen')
           /\ Shown
<1> USE InvTypes
<1>1. Processable(queue, current, sent')
  BY MoreCommits
<1>2. HeldIsKnown(queue, current, applied, fb')
  <2>1. HeldIsKnown(queue, current, applied, fb)
    BY DEF Inv, Sound
  <2>. QED  BY <2>1, QueueIds DEF HeldIsKnown
<1>3. Shown
  BY DEF Shown, Advances
<1>. QED  BY <1>1, <1>2, <1>3 DEF Sound

\* Locks and barriers when nobody waits for more than before.
LEMMA SameLocks ==
    ASSUME Inv
    PROVE  /\ LocksHold(queue, applied, target, fence \cup failed, forced)
           /\ BarrierHolds(queue, current, applied, unseen)
BY DEF Inv, Sound

LEMMA FewerUnseen ==
    ASSUME NEW q, NEW cur, NEW ap, NEW uns, BarrierHolds(q, cur, ap, uns), NEW S \in SUBSET uns
    PROVE  BarrierHolds(q, cur, ap, S)
BY DEF BarrierHolds

LEMMA InitInv == Init => Inv
<1> SUFFICES ASSUME Init PROVE Inv
  OBVIOUS
<1> USE SurfaceAssumption DEF Init
<1>1. TypeOK
  <2>1. pending \in PendingState
    BY DEF PendingState
  <2>2. current \in Current
    BY DEF Current
  <2>3. queue \in Seq(QueuedState)
    OBVIOUS
  <2>. QED  BY <2>1, <2>2, <2>3 DEF TypeOK, Current
<1>2. Processable(queue, current, sent)
  <2>1. current \in Current /\ queue \in Seq(QueuedState) /\ current.fbs = {} /\ Len(queue) = 0
    BY DEF Current
  <2>. QED  BY <2>1 DEF Processable, InOrder
<1>3. Sound(queue, current, applied, fb, target, sent, fence \cup failed, forced, unseen)
  BY <1>2 DEF Sound, LocksHold, BarrierHolds, HeldIsKnown
<1>4. Waiters /\ PresentedWillBeDrawn /\ FeedbackIsTrue
  BY DEF Waiters, PresentedWillBeDrawn, FeedbackIsTrue
<1>. QED  BY <1>1, <1>3, <1>4 DEF Inv

\* Requests that only note something in the pending state.
LEMMA NotesKeep ==
    ASSUME Inv,
           \/ \E kind \in {"null", "buffer"} : Attach(kind)
           \/ \E n \in Scales : SetScale(n)
           \/ SetBarrier
    PROVE  Inv' /\ Shown
<1> USE InvTypes, SameLocks
<1>1. /\ UNCHANGED <<surface, sent, queue, current, mapped, fifo, fence, monitorVars, presQ,
                     failed, forced, applied, drawn, target, fb, unseen>>
      /\ pending' \in PendingState /\ pending'.fb = pending.fb
  BY DEF Attach, SetScale, SetBarrier, OnlyPending, PendingState
<1>2. TypeOK'
  BY <1>1 DEF Inv, TypeOK, monitorVars
<1>3. Sound(queue, current, applied, fb, target, sent, fence \cup failed, forced, unseen)' /\ Shown
  BY <1>1, QuietSteps
<1>4. (Waiters /\ PresentedWillBeDrawn /\ FeedbackIsTrue)'
  BY <1>1 DEF Inv, Waiters, PresentedWillBeDrawn, FeedbackIsTrue, Fbs, Held
<1>. QED  BY <1>2, <1>3, <1>4 DEF Inv

LEMMA WaitBarrierKeeps == Inv /\ WaitBarrier => Inv' /\ Shown
<1> SUFFICES ASSUME Inv, WaitBarrier PROVE Inv' /\ Shown
  OBVIOUS
<1> USE InvTypes, SameLocks
<1>1. /\ UNCHANGED <<surface, sent, queue, current, mapped, fifo, fence, monitorVars, presQ,
                     failed, forced, applied, drawn, target, fb>>
      /\ pending' \in PendingState /\ pending'.fb = pending.fb /\ sent < MaxCommits
      /\ unseen' = unseen \/ (current.barrier /\ unseen' = unseen \cup {sent + 1})
  BY DEF WaitBarrier, MayRequest, CheckMonitors, OnlyPending, PendingState
<1>2. sent + 1 \in Commits /\ sent + 1 \notin applied /\ \A k \in 1..Len(queue) : queue[k].id # sent + 1
  <2>1. \A k \in 1..Len(queue) : queue[k].id <= sent /\ queue[k].id \in Nat
    BY QueueIds DEF Processable, InOrder
  <2>2. sent + 1 \in Commits /\ sent + 1 \notin applied
    BY <1>1 DEF Commits
  <2>. QED  BY <2>1, <2>2
<1>3. BarrierHolds(queue, current, applied, unseen')
  <2>1. BarrierHolds(queue, current, applied, unseen)
    OBVIOUS
  <2>2. ASSUME current.barrier, unseen' = unseen \cup {sent + 1}
        PROVE  BarrierHolds(queue, current, applied, unseen')
    <3>1. applied \cap unseen' = {}
      BY <1>2, <2>1, <2>2 DEF BarrierHolds
    <3>2. \A k \in 1..Len(queue) : queue[k].id \in unseen' => queue[k].id \in unseen
      BY <1>2, <2>2
    <3>. QED  BY <2>1, <2>2, <3>1, <3>2 DEF BarrierHolds
  <2>. QED  BY <1>1, <2>1, <2>2
<1>4. TypeOK'
  BY <1>1, <1>2 DEF Inv, TypeOK, monitorVars
<1>5. Sound(queue, current, applied, fb, target, sent, fence \cup failed, forced, unseen)' /\ Shown
  BY <1>1, <1>3, QuietSteps
<1>6. (Waiters /\ PresentedWillBeDrawn /\ FeedbackIsTrue)'
  BY <1>1 DEF Inv, Waiters, PresentedWillBeDrawn, FeedbackIsTrue, Fbs, Held
<1>. QED  BY <1>4, <1>5, <1>6 DEF Inv

LEMMA SetTimestampKeeps == Inv /\ SetTimestamp => Inv' /\ Shown
<1> SUFFICES ASSUME Inv, SetTimestamp PROVE Inv' /\ Shown
  OBVIOUS
<1> USE InvTypes, SameLocks
<1>1. /\ UNCHANGED <<surface, sent, queue, current, mapped, fifo, fence, monitorVars, presQ,
                     failed, forced, applied, drawn, fb, unseen>>
      /\ pending' \in PendingState /\ pending'.fb = pending.fb /\ sent < MaxCommits
      /\ target' = [target EXCEPT ![sent + 1] = "far"]
  BY DEF SetTimestamp, MayRequest, OnlyPending, PendingState
<1>2. sent + 1 \in Commits /\ sent + 1 \notin applied /\ \A k \in 1..Len(queue) : queue[k].id # sent + 1
  <2>1. \A k \in 1..Len(queue) : queue[k].id <= sent /\ queue[k].id \in Nat
    BY QueueIds DEF Processable, InOrder
  <2>. QED  BY <1>1, <2>1 DEF Commits
<1>3. target' \in [Commits -> Targets] /\ \A i \in Commits \ {sent + 1} : target'[i] = target[i]
  BY <1>1 DEF Targets
<1>4. LocksHold(queue, applied, target', fence \cup failed, forced)
  <2>1. \A k \in 1..Len(queue) : target'[queue[k].id] = target[queue[k].id]
    BY <1>2, <1>3, QueueIds
  <2>2. \A i \in applied : target'[i] = target[i]
    BY <1>2, <1>3
  <2>3. LocksHold(queue, applied, target, fence \cup failed, forced)
    OBVIOUS
  <2>. QED  BY <2>1, <2>2, <2>3 DEF LocksHold, Ready
<1>5. TypeOK'
  BY <1>1, <1>3 DEF Inv, TypeOK, monitorVars, Targets
<1>6. Sound(queue, current, applied, fb, target, sent, fence \cup failed, forced, unseen)' /\ Shown
  BY <1>1, <1>4, QuietSteps
<1>7. (Waiters /\ PresentedWillBeDrawn /\ FeedbackIsTrue)'
  BY <1>1 DEF Inv, Waiters, PresentedWillBeDrawn, FeedbackIsTrue, Fbs, Held
<1>. QED  BY <1>5, <1>6, <1>7 DEF Inv

LEMMA RequestFeedbackKeeps == Inv /\ RequestFeedback => Inv' /\ Shown
<1> SUFFICES ASSUME Inv, RequestFeedback PROVE Inv' /\ Shown
  OBVIOUS
<1> USE InvTypes, SameLocks
<1>1. /\ UNCHANGED <<surface, sent, queue, current, mapped, fifo, fence, monitorVars, presQ,
                     failed, forced, applied, drawn, target, unseen>>
      /\ pending' \in PendingState /\ pending'.fb /\ sent < MaxCommits
      /\ fb' = [fb EXCEPT ![sent + 1] = "open"]
  BY DEF RequestFeedback, MayRequest, OnlyPending, PendingState
<1>2. /\ sent + 1 \in Commits
      /\ fb' \in [Commits -> Answers]
      /\ \A i \in Commits : fb'[i] = IF i = sent + 1 THEN "open" ELSE fb[i]
  <2>1. sent + 1 \in Commits
    BY <1>1 DEF Commits
  <2>. QED  BY <1>1, <2>1 DEF Answers
<1>3. TypeOK'
  BY <1>1, <1>2 DEF Inv, TypeOK, monitorVars, Answers
<1>4. Sound(queue, current, applied, fb, target, sent, fence \cup failed, forced, unseen)' /\ Shown
  BY <1>1, <1>2, QuietSteps
<1>5. (Waiters /\ PresentedWillBeDrawn)'
  BY <1>1, <1>2 DEF Inv, Waiters, PresentedWillBeDrawn
<1>6. FeedbackIsTrue'
  BY <1>1, <1>2 DEF Inv, FeedbackIsTrue, Fbs, Held
<1>. QED  BY <1>3, <1>4, <1>5, <1>6 DEF Inv

LEMMA CommitRejectedKeeps == Inv /\ CommitRejected => Inv' /\ Shown
<1> SUFFICES ASSUME Inv, CommitRejected PROVE Inv' /\ Shown
  OBVIOUS
<1> USE InvTypes, SameLocks
<1>1. /\ UNCHANGED <<queue, current, mapped, fifo, fence, monitorVars, presQ, failed, forced,
                     applied, drawn>>
      /\ surface' = "error" /\ sent < MaxCommits /\ sent' = sent + 1
      /\ fb' = DiscardFeedbacks(fb, {sent + 1}) /\ pending' = ResetPending(pending)
      /\ target' = [target EXCEPT ![sent + 1] = "none"] /\ unseen' = unseen \ {sent + 1}
  BY DEF CommitRejected, MayRequest
<1>2. pending' \in PendingState /\ ~pending'.fb
  BY <1>1 DEF ResetPending, PendingState
<1>3. sent + 1 \in Commits /\ sent' \in Nat /\ sent' \in 0..MaxCommits
  BY <1>1 DEF Commits
<1>4. /\ fb' \in [Commits -> Answers]
      /\ \A i \in Commits : fb'[i] = IF i = sent + 1 /\ fb[i] = "open" THEN "discarded" ELSE fb[i]
  BY <1>1, AnsweredOnce DEF DiscardFeedbacks, Answers
<1>5. /\ target' \in [Commits -> Targets]
      /\ \A i \in Commits : target'[i] = target[i] \/ target'[i] = "none"
  BY <1>1, <1>3 DEF Targets
<1>6. LocksHold(queue, applied, target', fence \cup failed, forced)
  <2>1. LocksHold(queue, applied, target, fence \cup failed, forced)
    OBVIOUS
  <2>. QED  BY <1>5, <2>1, QueueIds DEF LocksHold, Ready
<1>7. TypeOK'
  <2>1. TypeOK
    BY DEF Inv
  <2>2. fb' \in [Commits -> {"none", "open", "presented", "discarded"}]
        /\ target' \in [Commits -> {"none", "far", "near", "past", "fired"}]
    BY <1>4, <1>5 DEF Answers, Targets
  <2>3. unseen' \subseteq Commits
    BY <1>1, <2>1 DEF TypeOK
  <2>4. surface' \in {"live", "error", "gone"} /\ sent' \in 0..MaxCommits /\ pending' \in PendingState
    BY <1>1, <1>2, <1>3
  <2>5. UNCHANGED <<queue, current, mapped, fifo, fence, frameDue, flip, tearing, hidden, scanout,
                    presQ, failed, forced, applied, drawn>>
    BY <1>1 DEF monitorVars
  <2>. QED  BY <2>1, <2>2, <2>3, <2>4, <2>5 DEF TypeOK
<1>8. BarrierHolds(queue, current, applied, unseen')
  BY <1>1, FewerUnseen
<1>9. Sound(queue, current, applied, fb, target, sent, fence \cup failed, forced, unseen)' /\ Shown
  BY <1>1, <1>4, <1>6, <1>8, QuietSteps
<1>10. Waiters'
  <2>1. Waiters
    BY DEF Inv
  <2>2. /\ \A i \in 1..sent : i \in 1..(sent + 1)
        /\ \A i \in 1..(sent + 1) : i \in 1..(sent + 1 + 1)
    OBVIOUS
  <2>3. unseen \subseteq 1..(sent + 1) /\ fence \cup failed \cup forced \subseteq 1..sent
        /\ fence \cap failed = {}
    BY <2>1 DEF Waiters
  <2>4. unseen' \subseteq 1..(sent' + 1) /\ fence \cup failed \cup forced \subseteq 1..sent'
    BY <1>1, <2>2, <2>3
  <2>. QED  BY <1>1, <2>3, <2>4 DEF Waiters
<1>11. PresentedWillBeDrawn'
  BY <1>1, <1>2 DEF Inv, PresentedWillBeDrawn
<1>12. FeedbackIsTrue'
  <2>1. \A i \in Commits : fb'[i] = "open" => fb[i] = "open" /\ i # sent + 1
    BY <1>3, <1>4
  <2>2. \A i \in Commits : fb'[i] = "presented" => fb[i] = "presented"
    BY <1>4
  <2>3. FeedbackIsTrue
    BY DEF Inv
  <2>4. Fbs(queue)' = Fbs(queue) /\ UNCHANGED <<current, presQ, drawn>>
    BY <1>1 DEF Fbs, Held
  <2>. QED  BY <2>1, <2>2, <2>3, <2>4 DEF FeedbackIsTrue
<1>. QED  BY <1>7, <1>9, <1>10, <1>11, <1>12 DEF Inv

LEMMA ToggleFifoKeeps == Inv /\ ToggleFifo => Inv' /\ Shown
<1> SUFFICES ASSUME Inv, ToggleFifo PROVE Inv' /\ Shown
  OBVIOUS
<1> USE InvTypes, SameLocks
<1>1. UNCHANGED <<surface, sent, stateVars, fence, target, monitorVars, failed, forced,
                  drawn, unseen>> /\ fifo' \in BOOLEAN
  BY DEF ToggleFifo
<1>2. Sound(queue, current, applied, fb, target, sent, fence \cup failed, forced, unseen)' /\ Shown
  BY <1>1, QuietSteps DEF stateVars
<1>3. TypeOK'
  BY <1>1 DEF Inv, TypeOK, monitorVars, stateVars
<1>4. (Waiters /\ PresentedWillBeDrawn /\ FeedbackIsTrue)'
  BY <1>1 DEF Inv, Waiters, PresentedWillBeDrawn, FeedbackIsTrue, Fbs, Held, stateVars
<1>. QED  BY <1>2, <1>3, <1>4 DEF Inv

LEMMA FenceFailsKeeps == Inv /\ (\E i \in Commits : FenceFails(i)) => Inv' /\ Shown
<1> SUFFICES ASSUME Inv, NEW i \in Commits, FenceFails(i) PROVE Inv' /\ Shown
  OBVIOUS
<1> USE InvTypes, SameLocks
<1>1. /\ UNCHANGED <<clientVars, stateVars, target, monitorVars, forced, drawn, unseen>>
      /\ i \in fence /\ fence' = fence \ {i} /\ failed' = failed \cup {i}
  BY DEF FenceFails
<1>2. fence' \cup failed' = fence \cup failed
  BY <1>1
<1>3. Sound(queue, current, applied, fb, target, sent, fence \cup failed, forced, unseen)' /\ Shown
  BY <1>1, <1>2, QuietSteps DEF stateVars, clientVars
<1>4. TypeOK'
  BY <1>1 DEF Inv, TypeOK, monitorVars, stateVars, clientVars
<1>5. (Waiters /\ PresentedWillBeDrawn /\ FeedbackIsTrue)'
  BY <1>1, <1>2 DEF Inv, Waiters, PresentedWillBeDrawn, FeedbackIsTrue, Fbs, Held, stateVars, clientVars
<1>. QED  BY <1>3, <1>4, <1>5 DEF Inv

LEMMA TimePassesKeeps == Inv /\ (\E i \in Commits : TimePasses(i)) => Inv' /\ Shown
<1> SUFFICES ASSUME Inv, NEW i \in Commits, TimePasses(i) PROVE Inv' /\ Shown
  OBVIOUS
<1> USE InvTypes, SameLocks
<1>1. /\ UNCHANGED <<clientVars, stateVars, fence, monitorVars, failed, forced, drawn, unseen>>
      /\ target' = [target EXCEPT ![i] = "near"] \/ target' = [target EXCEPT ![i] = "past"]
  BY DEF TimePasses
<1>2. /\ target' \in [Commits -> Targets]
      /\ \A j \in Commits : target'[j] = target[j] \/ target'[j] \in {"near", "past"}
  BY <1>1 DEF Targets
<1>3. LocksHold(queue, applied, target', fence \cup failed, forced)
  <2>1. LocksHold(queue, applied, target, fence \cup failed, forced)
    OBVIOUS
  <2>. QED  BY <1>2, <2>1, QueueIds DEF LocksHold, Ready
<1>4. Sound(queue, current, applied, fb, target, sent, fence \cup failed, forced, unseen)' /\ Shown
  BY <1>1, <1>3, QuietSteps DEF stateVars, clientVars
<1>5. TypeOK'
  BY <1>1, <1>2 DEF Inv, TypeOK, monitorVars, stateVars, clientVars, Targets
<1>6. (Waiters /\ PresentedWillBeDrawn /\ FeedbackIsTrue)'
  BY <1>1 DEF Inv, Waiters, PresentedWillBeDrawn, FeedbackIsTrue, Fbs, Held, stateVars, clientVars
<1>. QED  BY <1>4, <1>5, <1>6 DEF Inv

LEMMA ReplugKeeps == Inv /\ Replug => Inv' /\ Shown
<1> SUFFICES ASSUME Inv, Replug PROVE Inv' /\ Shown
  OBVIOUS
<1> USE InvTypes, SameLocks
<1> DEFINE S == {r.fb : r \in presQ}
<1>1. /\ UNCHANGED <<clientVars, pending, queue, current, mapped, applied, fence, target, hidden,
                     failed, forced, drawn, unseen>>
      /\ fb' = DiscardFeedbacks(fb, S) /\ presQ' = {}
      /\ flip' = FALSE /\ tearing' = FALSE /\ frameDue' = TRUE /\ scanout' = 0
  BY DEF Replug
<1>2. /\ fb' \in [Commits -> Answers]
      /\ \A i \in Commits : fb'[i] = IF i \in S /\ fb[i] = "open" THEN "discarded" ELSE fb[i]
  BY <1>1, AnsweredOnce DEF DiscardFeedbacks, Answers
<1>3. Sound(queue, current, applied, fb, target, sent, fence \cup failed, forced, unseen)' /\ Shown
  BY <1>1, <1>2, QuietSteps DEF clientVars
<1>4. TypeOK'
  <2>1. TypeOK
    BY DEF Inv
  <2>2. fb' \in [Commits -> {"none", "open", "presented", "discarded"}]
    BY <1>2 DEF Answers
  <2>3. UNCHANGED <<surface, sent, fifo, pending, queue, current, mapped, applied, fence, target,
                    hidden, failed, forced, drawn, unseen>>
    BY <1>1 DEF clientVars
  <2>4. presQ' = {} /\ flip' = FALSE /\ tearing' = FALSE /\ frameDue' = TRUE /\ scanout' \in 0..MaxCommits
    BY <1>1
  <2>. QED  BY <2>1, <2>2, <2>3, <2>4 DEF TypeOK
<1>5. (Waiters /\ PresentedWillBeDrawn)'
  <2>1. sent < MaxCommits => sent + 1 \in Commits
    BY DEF Commits
  <2>. QED  BY <1>1, <1>2, <2>1 DEF Inv, Waiters, PresentedWillBeDrawn, clientVars
<1>6. FeedbackIsTrue'
  BY <1>1, <1>2 DEF Inv, FeedbackIsTrue, Fbs, Held, clientVars
<1>. QED  BY <1>3, <1>4, <1>5, <1>6 DEF Inv

LEMMA UserKeeps == Inv /\ User => Inv' /\ Shown
<1> SUFFICES ASSUME Inv, User PROVE Inv' /\ Shown
  OBVIOUS
<1> USE InvTypes, SameLocks
<1>1. UNCHANGED <<clientVars, stateVars, fence, target, flip, tearing, scanout, failed, forced,
                  drawn, unseen>> /\ hidden' \in BOOLEAN /\ frameDue' \in BOOLEAN
  BY DEF User, Hide, Show, OtherDamage
<1>2. Sound(queue, current, applied, fb, target, sent, fence \cup failed, forced, unseen)' /\ Shown
  BY <1>1, QuietSteps DEF stateVars, clientVars
<1>3. TypeOK'
  BY <1>1 DEF Inv, TypeOK, stateVars, clientVars
<1>4. (Waiters /\ PresentedWillBeDrawn /\ FeedbackIsTrue)'
  BY <1>1 DEF Inv, Waiters, PresentedWillBeDrawn, FeedbackIsTrue, Fbs, Held, stateVars, clientVars
<1>. QED  BY <1>2, <1>3, <1>4 DEF Inv

-----------------------------------------------------------------------------
(* Steps that try the queue                                                *)

\* A queue with fewer locks, on a current state with less to tell.
LEMMA LoosenedSound ==
    ASSUME NEW q, NEW cur, NEW ap, NEW f, NEW t, NEW n, NEW w, NEW fo, NEW uns,
           Sound(q, cur, ap, f, t, n, w, fo, uns),
           NEW r, Loosened(q, r), NEW c \in Current,
           c.id = cur.id, c.content = cur.content, c.fbs \subseteq cur.fbs
    PROVE  /\ Processable(r, c, n) /\ ap \subseteq 1..c.id
           /\ HeldIsKnown(r, c, ap, f)
           /\ Ids(r) = Ids(q) /\ Fbs(r) = Fbs(q)
<1>1. q \in Seq(QueuedState) /\ r \in Seq(QueuedState) /\ Len(r) = Len(q)
      /\ \A k \in 1..Len(q) : r[k].id = q[k].id /\ r[k].fb = q[k].fb
  BY DEF Loosened, Sound, Processable
<1>2. Len(q) \in Nat /\ DOMAIN q = 1..Len(q) /\ DOMAIN r = 1..Len(q)
  BY <1>1, QueueIds
<1>3. InOrder(r, c.id, n)
  <2>1. InOrder(q, cur.id, n)
    BY DEF Sound, Processable
  <2>2. \A k \in 1..Len(q) : \A j \in 1..(k - 1) : j \in 1..Len(q)
    BY <1>2
  <2>. QED  BY <1>1, <2>1, <2>2 DEF InOrder
<1>4. Processable(r, c, n)
  <2>1. Processable(q, cur, n)
    BY DEF Sound
  <2>. QED  BY <1>1, <1>3, <2>1 DEF Processable
<1>5. HeldIsKnown(r, c, ap, f)
  BY <1>1 DEF Sound, HeldIsKnown
<1>6. Ids(r) = Ids(q)
  <2>1. Ids(q) = {q[k].id : k \in 1..Len(q)} /\ Ids(r) = {r[k].id : k \in 1..Len(q)}
    BY <1>2 DEF Ids, Held
  <2>. QED  BY <1>1, <2>1
<1>7. Fbs(r) = Fbs(q)
  <2>1. Fbs(q) = {q[k].id : k \in {j \in 1..Len(q) : q[j].fb}}
        /\ Fbs(r) = {r[k].id : k \in {j \in 1..Len(q) : r[j].fb}}
    BY <1>2 DEF Fbs, Held
  <2>. QED  BY <1>1, <2>1
<1>. QED  BY <1>4, <1>5, <1>6, <1>7 DEF Sound

LEMMA RanKeeps ==
    ASSUME Inv, NEW q, NEW cur, NEW f \in [Commits -> Answers],
           sent' \in {sent, sent + 1}, cur.id = current.id,
           Ids(q) \subseteq Ids(queue) \cup {i \in {sent'} : i > sent},
           Ran(q, cur, f, sent', fence' \cup failed', forced', unseen'),
           \A i \in Commits :
              /\ f[i] = "open" => \/ pending'.fb /\ i = sent' + 1
                                  \/ i \in Fbs(q) \cup cur.fbs
                                  \/ i \in {r.fb : r \in presQ'}
              /\ f[i] = "presented" => i \in drawn'
    PROVE  /\ Sound(queue, current, applied, fb, target, sent, fence \cup failed, forced, unseen)'
           /\ queue' \in Seq(QueuedState) /\ current' \in Current /\ applied' \subseteq Commits
           /\ fb' \in [Commits -> Answers] /\ target' \in [Commits -> Targets]
           /\ mapped' \in BOOLEAN /\ frameDue' \in BOOLEAN
           /\ \A i \in Commits : f[i] # "none" => fb'[i] # "none"
           /\ FeedbackIsTrue' /\ Shown
<1>1. Sound(queue, current, applied, fb, target, sent, fence \cup failed, forced, unseen)'
  BY DEF Ran
<1>2. queue' \in Seq(QueuedState) /\ current' \in Current /\ applied' \subseteq Commits
  <2>1. /\ queue' \in Seq(QueuedState) /\ current' \in Current
        /\ applied' \subseteq 1..current'.id
    BY <1>1 DEF Sound, Processable
  <2>. QED  BY <2>1, SurfaceAssumption DEF Current, Commits
<1>3. FeedbackIsTrue'
  <2> SUFFICES ASSUME NEW i \in Commits
               PROVE  /\ fb'[i] = "open" =>
                            \/ pending'.fb /\ i = sent' + 1
                            \/ i \in Fbs(queue') \cup current'.fbs \cup {r.fb : r \in presQ'}
                      /\ fb'[i] = "presented" => i \in drawn'
    BY DEF FeedbackIsTrue
  <2>1. fb'[i] = f[i] \/ (f[i] = "open" /\ fb'[i] = "discarded")
    BY DEF Ran
  <2>2. fb'[i] = "open" /\ i \in Fbs(q) \cup cur.fbs => i \in Fbs(queue') \cup current'.fbs
    BY DEF Ran
  <2>. QED  BY <2>1, <2>2
<1>4. Shown
  <2>1. Advances(Ids(q), current.id, Ids(queue'), current'.id)
    BY DEF Ran
  <2>. QED  BY <2>1 DEF Shown, Advances
<1>. QED  BY <1>1, <1>2, <1>3, <1>4 DEF Ran

LEMMA ResetForgets ==
    ASSUME pending \in PendingState
    PROVE  ResetPending(pending) \in PendingState /\ ~ResetPending(pending).fb
BY DEF ResetPending, PendingState

LEMMA CommitKeeps == Inv /\ (\E fenced \in BOOLEAN : Commit(fenced)) => Inv' /\ Shown
<1> SUFFICES ASSUME Inv, NEW fenced \in BOOLEAN, Commit(fenced) PROVE Inv' /\ Shown
  OBVIOUS
<1> USE InvTypes, SameLocks
<1> DEFINE id == sent + 1
           lock == {r \in Reasons : \/ r = "fence" /\ fenced
                                    \/ r = "fifo" /\ LockedByFifo
                                    \/ r = "timer" /\ LockedByTimer}
           state == [id |-> id, attach |-> pending.attach, scale |-> pending.scale,
                     scaleBit |-> pending.scaleBit, barrier |-> pending.barrier,
                     lock |-> lock, fb |-> pending.fb]
           q == Append(queue, state)
           t == IF LockedByTimer THEN target ELSE [target EXCEPT ![id] = "none"]
           w == fence' \cup failed
<1>1. /\ sent < MaxCommits /\ pending.attach # "null"
      /\ sent' = id
      /\ unseen' = IF LockedByFifo THEN unseen ELSE unseen \ {id}
      /\ fence' = IF fenced THEN fence \cup {id} ELSE fence
      /\ Becomes(IF fenced THEN Unprocessed(q, fb) ELSE TryProcess(q, current, fb), t, frameDue, id)
      /\ pending' = ResetPending(pending)
      /\ UNCHANGED <<surface, fifo, flip, tearing, hidden, scanout, presQ, failed, forced, drawn>>
  BY DEF Commit, MayQueue, MayRequest
<1>2. /\ id \in Commits /\ id \in Nat /\ id \in 0..MaxCommits
      /\ id \notin applied /\ \A k \in 1..Len(queue) : queue[k].id < id
  <2>1. \A k \in 1..Len(queue) : queue[k].id <= sent /\ queue[k].id \in Nat
    BY QueueIds DEF Processable, InOrder
  <2>. QED  BY <1>1, <2>1 DEF Commits
<1>3. pending' \in PendingState /\ ~pending'.fb
  BY <1>1, ResetForgets
<1>4. state \in QueuedState
  <2>1. /\ pending.attach \in {"no", "buffer"} /\ pending.scale \in Scales
        /\ pending.scaleBit \in BOOLEAN /\ pending.barrier \in BOOLEAN /\ pending.fb \in BOOLEAN
    BY <1>1 DEF PendingState
  <2>2. lock \in SUBSET Reasons
    OBVIOUS
  <2> HIDE DEF lock
  <2>. QED  BY <1>2, <2>1, <2>2 DEF QueuedState
<1>5. /\ state.id = id /\ state.fb = pending.fb /\ state.lock = lock
  OBVIOUS
<1> HIDE DEF state
<1>6. /\ q \in Seq(QueuedState) /\ Len(q) = Len(queue) + 1
      /\ \A k \in 1..Len(queue) : q[k] = queue[k]
      /\ q[Len(queue) + 1] = state
      /\ Len(queue) \in Nat /\ DOMAIN q = 1..(Len(queue) + 1) /\ DOMAIN queue = 1..Len(queue)
  BY <1>4, AppendProperties
<1> HIDE DEF q, t, lock
<1>7. \A k \in 1..Len(q) :
         \/ k \in 1..Len(queue) /\ q[k] = queue[k] /\ queue[k].id < id
         \/ k = Len(queue) + 1 /\ q[k] = state
  BY <1>2, <1>6
<1>8. Processable(q, current, id)
  <2>1. InOrder(q, current.id, id)
    <3> SUFFICES ASSUME NEW k \in 1..Len(q)
                 PROVE  /\ current.id < q[k].id /\ q[k].id <= id
                        /\ \A j \in 1..(k - 1) : q[j].id < q[k].id
      BY DEF InOrder
    <3>1. CASE k \in 1..Len(queue)
      <4>1. \A j \in 1..(k - 1) : j \in 1..Len(queue)
        BY <1>6, <3>1
      <4>2. /\ current.id < queue[k].id /\ queue[k].id <= sent
            /\ \A j \in 1..(k - 1) : queue[j].id < queue[k].id
        BY <3>1 DEF Processable, InOrder
      <4>3. queue[k].id \in Nat
        BY <3>1, QueueIds
      <4>. QED  BY <1>6, <3>1, <4>1, <4>2, <4>3
    <3>2. CASE k = Len(queue) + 1
      <4>1. \A j \in 1..(k - 1) : j \in 1..Len(queue)
        BY <1>6, <3>2
      <4>. QED  BY <1>2, <1>5, <1>6, <3>2, <4>1
    <3>. QED  BY <1>7, <3>1, <3>2
  <2>. QED  BY <1>2, <1>6, <2>1 DEF Processable
<1>9. /\ t \in [Commits -> Targets]
      /\ \A i \in Commits \ {id} : t[i] = target[i]
      /\ ~LockedByTimer => t[id] # "far"
  BY <1>2 DEF t, Targets
<1>10. id \notin fence \cup failed
  BY DEF Inv, Waiters
<1>11. LocksHold(q, applied, t, w, forced)
  <2>1. LocksHold(queue, applied, target, fence \cup failed, forced)
    OBVIOUS
  <2>2. ASSUME NEW k \in 1..Len(queue), queue[k].id \notin forced
        PROVE  /\ "fence" \notin queue[k].lock => queue[k].id \notin w
               /\ "timer" \notin queue[k].lock => t[queue[k].id] # "far"
    <3>1. queue[k].id # id /\ queue[k].id \in Commits
      BY <1>2, QueueIds
    <3>. QED  BY <1>1, <1>9, <2>1, <2>2, <3>1 DEF LocksHold
  <2>3. /\ "fence" \notin state.lock => id \notin w
        /\ "timer" \notin state.lock => t[id] # "far"
    BY <1>1, <1>5, <1>9, <1>10 DEF lock, Reasons
  <2>4. \A i \in applied \ forced : Ready(i, t, w)
    <3> SUFFICES ASSUME NEW i \in applied \ forced PROVE Ready(i, t, w)
      OBVIOUS
    <3>1. i # id /\ i \in Commits /\ Ready(i, target, fence \cup failed)
      BY <1>2, <2>1 DEF LocksHold
    <3>. QED  BY <1>1, <1>9, <3>1 DEF Ready
  <2>. QED  BY <1>5, <1>7, <2>2, <2>3, <2>4 DEF LocksHold
<1>12. BarrierHolds(q, current, applied, unseen')
  <2>1. BarrierHolds(queue, current, applied, unseen') /\ unseen' \subseteq unseen
    BY <1>1, FewerUnseen
  <2>2. id \in unseen' => "fifo" \in lock
    BY <1>1 DEF lock, Reasons
  <2>. QED  BY <1>5, <1>7, <2>1, <2>2 DEF BarrierHolds
<1>13. HeldIsKnown(q, current, applied, fb)
  <2>1. HeldIsKnown(queue, current, applied, fb)
    BY DEF Inv, Sound
  <2>2. pending.fb => fb[id] # "none"
    BY DEF Inv, PresentedWillBeDrawn
  <2>. QED  BY <1>5, <1>7, <2>1, <2>2 DEF HeldIsKnown
<1>14. Sound(q, current, applied, fb, t, id, w, forced, unseen')
  BY <1>8, <1>11, <1>12, <1>13 DEF Sound
<1>15. Ran(q, current, fb, id, w, forced, unseen')
  <2>1. CASE fenced
    BY <1>1, <1>2, <1>9, <1>14, <2>1, UnprocessedRuns
  <2>2. CASE ~fenced
    BY <1>1, <1>2, <1>9, <1>14, <2>2, TryProcessRuns
  <2>. QED  BY <2>1, <2>2
<1>16. Fbs(q) = Fbs(queue) \cup (IF pending.fb THEN {id} ELSE {}) /\ Ids(q) = Ids(queue) \cup {id}
  <2>1. Fbs(queue) = {queue[k].id : k \in {j \in 1..Len(queue) : queue[j].fb}}
        /\ Ids(queue) = {queue[k].id : k \in 1..Len(queue)}
    BY <1>6 DEF Fbs, Ids, Held
  <2>2. Fbs(q) = {q[k].id : k \in {j \in 1..Len(q) : q[j].fb}}
        /\ Ids(q) = {q[k].id : k \in 1..Len(q)}
    BY <1>6 DEF Fbs, Ids, Held
  <2>3. \A k \in 1..Len(queue) : k \in 1..Len(q) /\ q[k] = queue[k]
    BY <1>6
  <2>4. Len(queue) + 1 \in 1..Len(q) /\ q[Len(queue) + 1] = state
    BY <1>6
  <2>5. Ids(q) = Ids(queue) \cup {id}
    <3>1. Ids(q) \subseteq Ids(queue) \cup {id}
      BY <1>5, <1>7, <2>1, <2>2
    <3>2. Ids(queue) \cup {id} \subseteq Ids(q)
      BY <1>5, <2>1, <2>2, <2>3, <2>4
    <3>. QED  BY <3>1, <3>2
  <2>6. Fbs(q) \subseteq Fbs(queue) \cup (IF pending.fb THEN {id} ELSE {})
    BY <1>5, <1>7, <2>1, <2>2
  <2>7. Fbs(queue) \subseteq Fbs(q)
    BY <2>1, <2>2, <2>3
  <2>8. pending.fb => id \in Fbs(q)
    BY <1>5, <2>2, <2>4
  <2>. QED  BY <2>5, <2>6, <2>7, <2>8
<1>17. \A i \in Commits :
          /\ fb[i] = "open" => i \in Fbs(q) \cup current.fbs \/ i \in {r.fb : r \in presQ'}
          /\ fb[i] = "presented" => i \in drawn'
  BY <1>1, <1>16 DEF Inv, FeedbackIsTrue
<1>18. /\ Sound(queue, current, applied, fb, target, sent, fence \cup failed, forced, unseen)'
       /\ queue' \in Seq(QueuedState) /\ current' \in Current /\ applied' \subseteq Commits
       /\ fb' \in [Commits -> Answers] /\ target' \in [Commits -> Targets]
       /\ mapped' \in BOOLEAN /\ frameDue' \in BOOLEAN
       /\ FeedbackIsTrue' /\ Shown
  <2>1. Ids(q) \subseteq Ids(queue) \cup {i \in {sent'} : i > sent}
    BY <1>1, <1>16
  <2>. QED  BY <1>1, <1>15, <1>17, <2>1, RanKeeps
<1>19. Waiters'
  <2>1. \A i \in 1..sent : i \in 1..id
    OBVIOUS
  <2>2. \A i \in 1..id : i \in 1..(id + 1)
    OBVIOUS
  <2>3. Waiters /\ id \in 1..id
    BY <1>2 DEF Inv
  <2>4. fence' \cup failed' \cup forced' \subseteq 1..sent' /\ fence' \cap failed' = {}
    BY <1>1, <1>10, <2>1, <2>3 DEF Waiters
  <2>5. unseen' \subseteq 1..(sent' + 1)
    BY <1>1, <2>2, <2>3 DEF Waiters
  <2>. QED  BY <2>4, <2>5 DEF Waiters
<1>20. PresentedWillBeDrawn'
  BY <1>1, <1>3 DEF Inv, PresentedWillBeDrawn
<1>21. TypeOK'
  <2>1. TypeOK
    BY DEF Inv
  <2>2. fence' \subseteq Commits /\ unseen' \subseteq Commits
    BY <1>1, <1>2, <2>1 DEF TypeOK
  <2>3. sent' \in 0..MaxCommits
    BY <1>1, <1>2
  <2>. QED  BY <1>1, <1>3, <1>18, <2>1, <2>2, <2>3 DEF TypeOK, Current, Answers, Targets
<1>. QED  BY <1>18, <1>19, <1>20, <1>21 DEF Inv

\* A waiter takes its lock off, and the queue is tried.
LEMMA WakeupKeeps ==
    ASSUME Inv, NEW q, NEW t \in [Commits -> Targets],
           UNCHANGED <<surface, sent, fifo, pending, flip, tearing, hidden, scanout, presQ, failed,
                       forced, drawn, unseen>>, fence' \subseteq fence,
           Loosened(queue, q),
           LocksHold(q, applied, t, fence' \cup failed, forced),
           BarrierHolds(q, current, applied, unseen),
           Becomes(TryProcess(q, current, fb), t, frameDue, sent)
    PROVE  Inv' /\ Shown
<1> USE InvTypes
<1>1. Sound(queue, current, applied, fb, target, sent, fence \cup failed, forced, unseen)
  BY DEF Inv
<1>2. /\ Processable(q, current, sent) /\ applied \subseteq 1..current.id
      /\ HeldIsKnown(q, current, applied, fb)
      /\ Ids(q) = Ids(queue) /\ Fbs(q) = Fbs(queue)
  BY <1>1, LoosenedSound
<1>3. Sound(q, current, applied, fb, t, sent, fence' \cup failed, forced, unseen)
  BY <1>2 DEF Sound
<1>4. Ran(q, current, fb, sent, fence' \cup failed, forced, unseen)
  BY <1>3, TryProcessRuns
<1>5. \A j \in Commits :
          /\ fb[j] = "open" => \/ pending'.fb /\ j = sent' + 1
                               \/ j \in Fbs(q) \cup current.fbs
                               \/ j \in {r.fb : r \in presQ'}
          /\ fb[j] = "presented" => j \in drawn'
  BY <1>2 DEF Inv, FeedbackIsTrue
<1>6. /\ Sound(queue, current, applied, fb, target, sent, fence \cup failed, forced, unseen)'
      /\ queue' \in Seq(QueuedState) /\ current' \in Current /\ applied' \subseteq Commits
      /\ fb' \in [Commits -> Answers] /\ target' \in [Commits -> Targets]
      /\ mapped' \in BOOLEAN /\ frameDue' \in BOOLEAN
      /\ \A j \in Commits : fb[j] # "none" => fb'[j] # "none"
      /\ FeedbackIsTrue' /\ Shown
  BY <1>2, <1>4, <1>5, RanKeeps
<1>7. TypeOK'
  BY <1>6 DEF Inv, TypeOK, Current, Answers, Targets
<1>8. Waiters'
  BY DEF Inv, Waiters
<1>9. PresentedWillBeDrawn'
  <2>1. sent < MaxCommits => sent + 1 \in Commits
    BY DEF Commits
  <2>. QED  BY <1>6, <2>1 DEF Inv, PresentedWillBeDrawn
<1>. QED  BY <1>6, <1>7, <1>8, <1>9 DEF Inv

LEMMA FenceSignalsKeeps == Inv /\ (\E i \in Commits : FenceSignals(i)) => Inv' /\ Shown
<1> SUFFICES ASSUME Inv, NEW i \in Commits, FenceSignals(i) PROVE Inv' /\ Shown
  OBVIOUS
<1> USE InvTypes, SameLocks
<1> DEFINE q == Unlock(queue, i, "fence")
           w == fence' \cup failed
<1>1. /\ i \in fence /\ fence' = fence \ {i}
      /\ UNCHANGED <<surface, sent, fifo, pending, flip, tearing, hidden, scanout, presQ, failed,
                     forced, drawn, unseen>>
  BY DEF FenceSignals, clientVars
<1>2. i \notin failed
  BY <1>1 DEF Inv, Waiters
<1>3. CASE i \in Ids(queue)
  <2>1. Becomes(TryProcess(q, current, fb), target, frameDue, sent)
    BY <1>3 DEF FenceSignals
  <2>2. /\ Loosened(queue, q)
        /\ \A k \in 1..Len(queue), l \in Reasons :
              l \in q[k].lock <=> l \in queue[k].lock /\ (queue[k].id = i => l # "fence")
    BY UnlockLoosens
  <2> HIDE DEF q
  <2>3. /\ Len(q) = Len(queue)
        /\ \A k \in 1..Len(queue) : q[k].id = queue[k].id
    BY <2>2 DEF Loosened
  <2>4. LocksHold(q, applied, target, w, forced)
    BY <1>1, <1>2, <2>2, <2>3 DEF LocksHold, Ready, Reasons
  <2>5. BarrierHolds(q, current, applied, unseen)
    BY <2>2, <2>3 DEF BarrierHolds, Reasons
  <2>. QED  BY <1>1, <2>1, <2>2, <2>4, <2>5, WakeupKeeps
<1>4. CASE i \notin Ids(queue)
  <2>1. UNCHANGED <<queue, current, applied, fb, mapped, target, frameDue>>
    BY <1>4 DEF FenceSignals
  <2>2. LocksHold(queue, applied, target, w, forced)
    BY <1>1 DEF LocksHold, Ready
  <2>3. Sound(queue, current, applied, fb, target, sent, fence \cup failed, forced, unseen)' /\ Shown
    BY <1>1, <2>1, <2>2, QuietSteps
  <2>4. TypeOK'
    BY <1>1, <2>1 DEF Inv, TypeOK
  <2>5. (Waiters /\ PresentedWillBeDrawn /\ FeedbackIsTrue)'
    BY <1>1, <2>1 DEF Inv, Waiters, PresentedWillBeDrawn, FeedbackIsTrue, Fbs, Held
  <2>. QED  BY <2>3, <2>4, <2>5 DEF Inv
<1>. QED  BY <1>3, <1>4

LEMMA TimerFiresKeeps == Inv /\ (\E i \in Commits : TimerFires(i)) => Inv' /\ Shown
<1> SUFFICES ASSUME Inv, NEW i \in Commits, TimerFires(i) PROVE Inv' /\ Shown
  OBVIOUS
<1> USE InvTypes, SameLocks
<1> DEFINE q == Unlock(queue, i, "timer")
           t == [target EXCEPT ![i] = "fired"]
<1>1. UNCHANGED <<surface, sent, fifo, pending, fence, flip, tearing, hidden, scanout, presQ,
                  failed, forced, drawn, unseen>>
      /\ Becomes(TryProcess(q, current, fb), t, frameDue, sent)
  BY DEF TimerFires, clientVars
<1>2. t \in [Commits -> Targets] /\ \A j \in Commits : t[j] = IF j = i THEN "fired" ELSE target[j]
  BY DEF Targets
<1>3. /\ Loosened(queue, q)
      /\ \A k \in 1..Len(queue), l \in Reasons :
            l \in q[k].lock <=> l \in queue[k].lock /\ (queue[k].id = i => l # "timer")
  BY UnlockLoosens
<1> HIDE DEF q, t
<1>4. /\ Len(q) = Len(queue)
      /\ \A k \in 1..Len(queue) : q[k].id = queue[k].id
  BY <1>3 DEF Loosened
<1>5. LocksHold(q, applied, t, fence \cup failed, forced)
  BY <1>2, <1>3, <1>4, QueueIds DEF LocksHold, Ready, Reasons
<1>6. BarrierHolds(q, current, applied, unseen)
  BY <1>3, <1>4 DEF BarrierHolds, Reasons
<1>. QED  BY <1>1, <1>2, <1>3, <1>5, <1>6, WakeupKeeps

-----------------------------------------------------------------------------
(* Steps that drop the queue or take from the current state                *)

LEMMA NothingQueued ==
    /\ <<>> \in Seq(QueuedState) /\ Len(<<>>) = 0
    /\ \A k \in 1..Len(<<>>) : FALSE
    /\ Ids(<<>>) = {} /\ Fbs(<<>>) = {}
  BY DEF Ids, Fbs, Held

LEMMA CommitNullKeeps == Inv /\ CommitNull => Inv' /\ Shown
<1> SUFFICES ASSUME Inv, CommitNull PROVE Inv' /\ Shown
  OBVIOUS
<1> USE InvTypes
<1> DEFINE id == sent + 1
           t == [target EXCEPT ![id] = "none"]
           new == [current EXCEPT !.id = id, !.content = id, !.texture = FALSE,
                                  !.scale = IF pending.scaleBit THEN pending.scale ELSE @,
                                  !.barrier = @ \/ pending.barrier,
                                  !.fbs = IF pending.fb THEN {id} ELSE {}]
           lost == IF mapped THEN Commits ELSE current.fbs \cup Fbs(queue)
<1>1. /\ sent < MaxCommits /\ sent' = id
      /\ current' = IF mapped THEN [new EXCEPT !.fbs = {}] ELSE new
      /\ fb' = DiscardFeedbacks(fb, lost)
      /\ presQ' = IF mapped THEN {} ELSE presQ
      /\ applied' = applied \cup {id} /\ unseen' = unseen \ {id}
      /\ target' = KeepTimers(t, <<>>, id)
      /\ mapped' = FALSE /\ queue' = <<>> /\ pending' = ResetPending(pending)
      /\ frameDue' = (frameDue \/ mapped)
      /\ UNCHANGED <<surface, fifo, fence, flip, tearing, hidden, scanout, failed, forced, drawn>>
  <2>1. CommitNull
    OBVIOUS
  <2>. QED  BY <2>1 DEF CommitNull, MayRequest, Cleared, DiscardAll
<1>2. id \in Commits /\ id \in Nat /\ id \in 0..MaxCommits
  BY <1>1 DEF Commits
<1>3. /\ new.id = id /\ new.content = id /\ new.scale \in Scales
      /\ new.barrier = (current.barrier \/ pending.barrier)
      /\ new.fbs = IF pending.fb THEN {id} ELSE {}
      /\ new \in Current
  <2> DEFINE scale == IF pending.scaleBit THEN pending.scale ELSE current.scale
             barrier == current.barrier \/ pending.barrier
             fbs == IF pending.fb THEN {id} ELSE {}
  <2>1. new = [id |-> id, content |-> id, texture |-> FALSE, scale |-> scale, barrier |-> barrier,
               fbs |-> fbs]
    <3>1. new = [current EXCEPT !.id = id, !.content = id, !.texture = FALSE, !.scale = scale,
                                !.barrier = barrier, !.fbs = fbs]
      OBVIOUS
    <3> HIDE DEF scale, barrier, fbs, new
    <3>. QED  BY <3>1 DEF Current
  <2>2. scale \in Scales /\ barrier \in BOOLEAN /\ fbs \in SUBSET Commits
    BY <1>2 DEF PendingState, Current
  <2> HIDE DEF scale, barrier, fbs, new
  <2>3. /\ new.id = id /\ new.content = id /\ new.scale = scale /\ new.barrier = barrier
        /\ new.fbs = fbs
    BY <2>1
  <2>4. new \in Current
    BY <1>2, <2>1, <2>2 DEF Current
  <2>. QED  BY <2>2, <2>3, <2>4 DEF scale, barrier, fbs
<1> HIDE DEF new
<1>4. /\ current' \in Current /\ current'.id = id /\ current'.content = id
      /\ current'.barrier = (current.barrier \/ pending.barrier)
      /\ current'.fbs = IF pending.fb /\ ~mapped THEN {id} ELSE {}
  BY <1>1, <1>3 DEF Current
<1>5. /\ fb' \in [Commits -> Answers]
      /\ \A i \in Commits : fb'[i] = IF i \in lost /\ fb[i] = "open" THEN "discarded" ELSE fb[i]
  BY <1>1, AnsweredOnce DEF DiscardFeedbacks, Answers
<1>6. /\ t \in [Commits -> Targets] /\ t[id] = "none" /\ \A i \in Commits \ {id} : t[i] = target[i]
  BY <1>2 DEF Targets
<1>7. /\ target' \in [Commits -> Targets]
      /\ target'[id] # "far"
      /\ \A i \in Commits \ {id} : target'[i] \in {target[i], "none"}
  BY <1>1, <1>2, <1>6, TimersKept DEF Targets
<1>8. pending' \in PendingState /\ ~pending'.fb
  BY <1>1, ResetForgets
<1>9. Processable(queue', current', sent')
  <2>1. InOrder(<<>>, id, id)
    BY NothingQueued DEF InOrder
  <2>2. \A i \in current'.fbs : i = id
    BY <1>4
  <2>. QED  BY <1>1, <1>2, <1>4, <2>1, <2>2, NothingQueued DEF Processable
<1>10. applied' \subseteq 1..current'.id
  <2>1. \A i \in 1..current.id : i \in 1..id
    OBVIOUS
  <2>. QED  BY <1>1, <1>2, <1>4, <2>1 DEF Commits
<1>11. LocksHold(queue', applied', target', fence' \cup failed', forced')
  <2>1. id \notin fence \cup failed
    BY DEF Inv, Waiters
  <2>2. \A i \in applied : i \in Commits \ {id}
    OBVIOUS
  <2>3. LocksHold(queue, applied, target, fence \cup failed, forced)
    BY SameLocks
  <2>. QED  BY <1>1, <1>7, <2>1, <2>2, <2>3, NothingQueued DEF LocksHold, Ready
<1>12. BarrierHolds(queue', current', applied', unseen')
  <2>1. BarrierHolds(queue, current, applied, unseen)
    BY SameLocks
  <2>. QED  BY <1>1, <1>4, <2>1, NothingQueued DEF BarrierHolds
<1>13. HeldIsKnown(queue', current', applied', fb')
  <2>1. pending.fb => fb[id] # "none"
    BY DEF Inv, PresentedWillBeDrawn
  <2>. QED  BY <1>1, <1>2, <1>4, <1>5, <2>1, NothingQueued DEF HeldIsKnown
<1>14. Sound(queue, current, applied, fb, target, sent, fence \cup failed, forced, unseen)'
  BY <1>9, <1>10, <1>11, <1>12, <1>13 DEF Sound
<1>15. Shown
  BY <1>1, <1>2, <1>4, NothingQueued DEF Shown, Advances
<1>16. Waiters'
  <2>1. /\ \A i \in 1..sent : i \in 1..id
        /\ \A i \in 1..id : i \in 1..(id + 1)
    OBVIOUS
  <2>2. Waiters
    BY DEF Inv
  <2>3. fence' \cup failed' \cup forced' \subseteq 1..sent' /\ fence' \cap failed' = {}
    BY <1>1, <2>1, <2>2 DEF Waiters
  <2>4. unseen' \subseteq 1..(sent' + 1)
    BY <1>1, <2>1, <2>2 DEF Waiters
  <2>. QED  BY <2>3, <2>4 DEF Waiters
<1>17. PresentedWillBeDrawn'
  BY <1>1, <1>8 DEF Inv, PresentedWillBeDrawn
<1>18. FeedbackIsTrue'
  <2> SUFFICES ASSUME NEW i \in Commits
               PROVE  /\ fb'[i] = "open" =>
                            \/ pending'.fb /\ i = sent' + 1
                            \/ i \in Fbs(queue') \cup current'.fbs \cup {r.fb : r \in presQ'}
                      /\ fb'[i] = "presented" => i \in drawn'
    BY DEF FeedbackIsTrue
  <2>1. /\ fb[i] = "open" => \/ pending.fb /\ i = sent + 1
                             \/ i \in Fbs(queue) \cup current.fbs \cup {r.fb : r \in presQ}
        /\ fb[i] = "presented" => i \in drawn
    BY DEF Inv, FeedbackIsTrue
  <2>2. fb'[i] = "open" => fb[i] = "open" /\ i \notin lost
    BY <1>5
  <2>3. CASE mapped
    BY <1>1, <1>5, <2>1, <2>2, <2>3
  <2>4. CASE ~mapped
    BY <1>1, <1>4, <1>5, <2>1, <2>2, <2>4
  <2>. QED  BY <2>3, <2>4
<1>19. TypeOK'
  <2>1. TypeOK
    BY DEF Inv
  <2>2. applied' \subseteq Commits /\ unseen' \subseteq Commits /\ presQ' \subseteq [fb: Commits, shown: BOOLEAN]
    BY <1>1, <1>2, <2>1 DEF TypeOK
  <2>3. sent' \in 0..MaxCommits /\ queue' \in Seq(QueuedState) /\ mapped' \in BOOLEAN /\ frameDue' \in BOOLEAN
    BY <1>1, <1>2, NothingQueued
  <2>4. UNCHANGED <<surface, fifo, fence, flip, tearing, hidden, scanout, failed, forced, drawn>>
    BY <1>1
  <2>5. /\ pending' \in PendingState /\ current' \in Current
        /\ fb' \in [Commits -> Answers] /\ target' \in [Commits -> Targets]
    BY <1>4, <1>5, <1>7, <1>8
  <2>. QED  BY <2>1, <2>2, <2>3, <2>4, <2>5 DEF TypeOK, Current, Answers, Targets
<1>. QED  BY <1>14, <1>15, <1>16, <1>17, <1>18, <1>19 DEF Inv

LEMMA DestroyKeeps == Inv /\ DestroySurface => Inv' /\ Shown
<1> SUFFICES ASSUME Inv, DestroySurface PROVE Inv' /\ Shown
  OBVIOUS
<1> USE InvTypes
<1> DEFINE t == [i \in Commits |-> "none"]
<1>1. /\ surface' = "gone" /\ fb' = DiscardFeedbacks(fb, Commits) /\ presQ' = {}
      /\ queue' = <<>> /\ mapped' = FALSE /\ pending' = ResetPending(pending)
      /\ current' = [current EXCEPT !.fbs = {}]
      /\ target' = KeepTimers(t, <<>>, sent) /\ frameDue' = (frameDue \/ mapped)
      /\ UNCHANGED <<sent, fifo, fence, flip, tearing, hidden, scanout, failed, forced, applied,
                     drawn, unseen>>
  BY DEF DestroySurface, DiscardAll
<1>2. /\ current' \in Current /\ current'.id = current.id /\ current'.content = current.content
      /\ current'.barrier = current.barrier /\ current'.fbs = {}
  BY <1>1 DEF Current
<1>3. /\ fb' \in [Commits -> Answers]
      /\ \A i \in Commits : fb'[i] = IF fb[i] = "open" THEN "discarded" ELSE fb[i]
  BY <1>1, AnsweredOnce DEF DiscardFeedbacks, Answers
<1>4. target' \in [Commits -> Targets] /\ \A i \in Commits : target'[i] = "none"
  <2>1. t \in [Commits -> Targets] /\ \A i \in Commits : t[i] = "none"
    BY DEF Targets
  <2> HIDE DEF t
  <2>. QED  BY <1>1, <2>1, TimersKept
<1>5. pending' \in PendingState /\ ~pending'.fb
  BY <1>1, ResetForgets
<1>6. Processable(queue', current', sent')
  <2>1. InOrder(<<>>, current.id, sent)
    BY NothingQueued DEF InOrder
  <2>. QED  BY <1>1, <1>2, <2>1, NothingQueued DEF Processable
<1>7. LocksHold(queue', applied', target', fence' \cup failed', forced')
  <2>1. LocksHold(queue, applied, target, fence \cup failed, forced)
    BY SameLocks
  <2>. QED  BY <1>1, <1>4, <2>1, NothingQueued DEF LocksHold, Ready
<1>8. BarrierHolds(queue', current', applied', unseen')
  <2>1. BarrierHolds(queue, current, applied, unseen)
    BY SameLocks
  <2>. QED  BY <1>1, <1>2, <2>1, NothingQueued DEF BarrierHolds
<1>9. HeldIsKnown(queue', current', applied', fb')
  BY <1>1, <1>2, NothingQueued DEF HeldIsKnown
<1>10. Sound(queue, current, applied, fb, target, sent, fence \cup failed, forced, unseen)'
  BY <1>1, <1>2, <1>6, <1>7, <1>8, <1>9 DEF Sound
<1>11. Shown
  BY <1>1, <1>2, NothingQueued DEF Shown, Advances
<1>12. (Waiters /\ PresentedWillBeDrawn)'
  BY <1>1, <1>5 DEF Inv, Waiters, PresentedWillBeDrawn
<1>13. FeedbackIsTrue'
  BY <1>1, <1>3 DEF Inv, FeedbackIsTrue
<1>14. TypeOK'
  <2>1. TypeOK
    BY DEF Inv
  <2>2. queue' \in Seq(QueuedState) /\ mapped' \in BOOLEAN /\ frameDue' \in BOOLEAN
        /\ presQ' \subseteq [fb: Commits, shown: BOOLEAN]
    BY <1>1, NothingQueued
  <2>. QED  BY <1>1, <1>2, <1>3, <1>4, <1>5, <2>1, <2>2 DEF TypeOK, Current, Answers, Targets
<1>. QED  BY <1>10, <1>11, <1>12, <1>13, <1>14 DEF Inv

\* The current state without its feedbacks.
Silent == [current EXCEPT !.fbs = {}]

LEMMA SilentSound ==
    ASSUME Inv, NEW f, \A i \in Commits : fb[i] # "none" => f[i] # "none"
    PROVE  /\ Silent \in Current /\ Silent.id = current.id /\ Silent.content = current.content
           /\ Silent.barrier = current.barrier /\ Silent.fbs = {}
           /\ Sound(queue, Silent, applied, f, target, sent, fence \cup failed, forced, unseen)
<1> USE InvTypes
<1>1. /\ Silent \in Current /\ Silent.id = current.id /\ Silent.content = current.content
      /\ Silent.barrier = current.barrier /\ Silent.fbs = {}
  BY DEF Silent, Current
<1>2. Sound(queue, current, applied, fb, target, sent, fence \cup failed, forced, unseen)
  BY DEF Inv
<1>3. Processable(queue, Silent, sent)
  BY <1>1 DEF Processable
<1>4. HeldIsKnown(queue, Silent, applied, f)
  BY <1>1, <1>2, QueueIds DEF Sound, HeldIsKnown
<1>5. BarrierHolds(queue, Silent, applied, unseen)
  BY <1>1, <1>2 DEF Sound, BarrierHolds
<1>. QED  BY <1>1, <1>2, <1>3, <1>4, <1>5 DEF Sound

\* What presentFeedback takes from the current state is in the frame.
LEMMA CurrentOnScreen == Inv => current.fbs \subseteq OnScreen /\ OnScreen \subseteq Commits
<1> SUFFICES ASSUME Inv PROVE current.fbs \subseteq OnScreen /\ OnScreen \subseteq Commits
  OBVIOUS
<1>1. \A i \in current.fbs : i \in applied /\ fb[i] # "none" /\ i >= current.content
  BY DEF Inv, Sound, HeldIsKnown, Processable
<1>. QED  BY <1>1, InvTypes DEF OnScreen

LEMMA MovedFeedback ==
    ASSUME presQ \subseteq [fb: Commits, shown: BOOLEAN], NEW cur \in Current, NEW shown \in BOOLEAN
    PROVE  /\ Moved(cur, shown) \subseteq [fb: Commits, shown: BOOLEAN]
           /\ {r.fb : r \in Moved(cur, shown)} = {r.fb : r \in presQ} \cup cur.fbs
           /\ \A r \in Moved(cur, shown) : r \in presQ \/ (r.shown = shown /\ r.fb \in cur.fbs)
<1> DEFINE new == {[fb |-> i, shown |-> shown] : i \in cur.fbs}
<1>1. Moved(cur, shown) = presQ \cup new
  BY DEF Moved
<1>2. \A r \in new : r \in [fb: Commits, shown: BOOLEAN] /\ r.shown = shown /\ r.fb \in cur.fbs
  BY DEF Current
<1>3. \A i \in cur.fbs : \E r \in new : r.fb = i
  <2> TAKE i \in cur.fbs
  <2>1. [fb |-> i, shown |-> shown] \in new /\ [fb |-> i, shown |-> shown].fb = i
    OBVIOUS
  <2>. QED  BY <2>1
<1> HIDE DEF new
<1>. QED  BY <1>1, <1>2, <1>3

\* A step that touches only what the monitor and the current state hold.
LEMMA FrameTypes ==
    ASSUME Inv, UNCHANGED <<surface, sent, pending, fifo, fence, hidden, failed>>,
           queue' \in Seq(QueuedState), current' \in Current, target' \in [Commits -> Targets],
           fb' \in [Commits -> Answers], presQ' \subseteq [fb: Commits, shown: BOOLEAN],
           mapped' \in BOOLEAN, frameDue' \in BOOLEAN, flip' \in BOOLEAN, tearing' \in BOOLEAN,
           scanout' \in 0..MaxCommits, forced' \subseteq Commits, applied' \subseteq Commits,
           drawn' \subseteq Commits, unseen' \subseteq Commits
    PROVE  TypeOK'
<1>1. /\ surface' \in {"live", "error", "gone"} /\ sent' \in 0..MaxCommits
      /\ pending' \in PendingState /\ fence' \subseteq Commits
      /\ fifo' \in BOOLEAN /\ hidden' \in BOOLEAN /\ failed' \subseteq Commits
  BY DEF Inv, TypeOK
<1>2. {mapped', fifo', frameDue', flip', tearing', hidden'} \subseteq BOOLEAN
  BY <1>1
<1>3. \A S \in {failed', forced', applied', drawn', unseen'} : S \subseteq Commits
  BY <1>1
<1>. QED  BY <1>1, <1>2, <1>3 DEF TypeOK, Current, Answers, Targets

LEMMA RenderKeeps ==
    Inv /\ (\E how \in {"composed", "covered", "scanout"}, tear \in BOOLEAN : Render(how, tear))
      => Inv' /\ Shown
<1> SUFFICES ASSUME Inv, NEW how \in {"composed", "covered", "scanout"}, NEW tear \in BOOLEAN,
                    Render(how, tear)
             PROVE  Inv' /\ Shown
  OBVIOUS
<1> USE InvTypes
<1>1. /\ frameDue' = FALSE /\ flip' = TRUE /\ tearing' = tear
      /\ UNCHANGED <<surface, sent, fifo, pending, queue, mapped, fb, applied, fence, target,
                     hidden, failed, forced, unseen>>
  BY DEF Render, clientVars
<1>2. CASE Visible
  <2> DEFINE shown == how # "covered"
  <2>1. /\ presQ' = Moved(current, shown) /\ current' = Silent
        /\ drawn' = IF shown THEN drawn \cup OnScreen ELSE drawn
        /\ scanout' = IF how = "scanout" THEN current.content ELSE 0
    BY <1>2 DEF Render, Silent
  <2>2. shown \in BOOLEAN
    OBVIOUS
  <2> HIDE DEF shown
  <2>3. /\ Silent \in Current /\ Silent.id = current.id /\ Silent.fbs = {}
        /\ Sound(queue, Silent, applied, fb, target, sent, fence \cup failed, forced, unseen)
    BY SilentSound
  <2>4. /\ presQ' \subseteq [fb: Commits, shown: BOOLEAN]
        /\ {r.fb : r \in presQ'} = {r.fb : r \in presQ} \cup current.fbs
        /\ \A r \in presQ' : r \in presQ \/ (r.shown = shown /\ r.fb \in current.fbs)
    BY <2>1, <2>2, MovedFeedback
  <2>5. current.fbs \subseteq OnScreen /\ OnScreen \subseteq Commits /\ drawn \subseteq drawn'
    BY <2>1, CurrentOnScreen
  <2>6. \A r \in presQ' : r.shown => r.fb \in drawn'
    BY <2>1, <2>4, <2>5 DEF Inv, PresentedWillBeDrawn
  <2>7. Sound(queue, current, applied, fb, target, sent, fence \cup failed, forced, unseen)'
    BY <1>1, <2>1, <2>3
  <2>8. Shown
    BY <1>1, <2>1, <2>3 DEF Shown, Advances
  <2>9. (Waiters /\ PresentedWillBeDrawn)'
    BY <1>1, <2>6 DEF Inv, Waiters, PresentedWillBeDrawn
  <2>10. FeedbackIsTrue'
    <3>1. Fbs(queue)' = Fbs(queue) /\ current'.fbs = {}
      BY <1>1, <2>1, <2>3 DEF Fbs, Held
    <3>. QED  BY <1>1, <2>4, <2>5, <3>1 DEF Inv, FeedbackIsTrue
  <2>11. TypeOK'
    <3>1. TypeOK
      BY DEF Inv
    <3>2. current.content \in 0..MaxCommits /\ 0 \in 0..MaxCommits
      BY DEF Current
    <3>3. /\ drawn' \subseteq Commits /\ scanout' \in 0..MaxCommits
          /\ forced' \subseteq Commits /\ unseen' \subseteq Commits
      BY <1>1, <2>1, <2>5, <3>1, <3>2 DEF TypeOK
    <3>. QED  BY <1>1, <2>1, <2>3, <2>4, <3>3, FrameTypes
  <2>. QED  BY <2>7, <2>8, <2>9, <2>10, <2>11 DEF Inv
<1>3. CASE ~Visible
  <2>1. scanout' = 0 /\ UNCHANGED <<presQ, current, drawn>>
    BY <1>3 DEF Render
  <2>2. Sound(queue, current, applied, fb, target, sent, fence \cup failed, forced, unseen)' /\ Shown
    BY <1>1, <2>1, SameLocks, QuietSteps
  <2>3. (Waiters /\ PresentedWillBeDrawn /\ FeedbackIsTrue)'
    BY <1>1, <2>1 DEF Inv, Waiters, PresentedWillBeDrawn, FeedbackIsTrue, Fbs, Held
  <2>4. TypeOK'
    <3>1. /\ drawn \subseteq Commits /\ forced \subseteq Commits /\ unseen \subseteq Commits
          /\ 0 \in 0..MaxCommits
      BY DEF Inv, TypeOK
    <3>. QED  BY <1>1, <2>1, <3>1, FrameTypes
  <2>. QED  BY <2>2, <2>3, <2>4 DEF Inv
<1>. QED  BY <1>2, <1>3

LEMMA RoleUnmapsKeeps == Inv /\ RoleUnmaps => Inv' /\ Shown
<1> SUFFICES ASSUME Inv, RoleUnmaps PROVE Inv' /\ Shown
  OBVIOUS
<1> USE InvTypes
<1>1. /\ mapped' = FALSE /\ fb' = DiscardFeedbacks(fb, Commits) /\ presQ' = {}
      /\ pending' = [pending EXCEPT !.fb = FALSE, !.attach = IF @ = "no" THEN "no" ELSE "null"]
      /\ current' = Silent /\ frameDue' = TRUE /\ scanout' = 0
      /\ UNCHANGED <<surface, sent, fifo, queue, applied, fence, target, flip, tearing, hidden,
                     failed, forced, drawn, unseen>>
  BY DEF RoleUnmaps, DiscardAll, clientVars, Silent
<1>2. pending' \in PendingState /\ ~pending'.fb
  BY <1>1 DEF PendingState
<1>3. /\ fb' \in [Commits -> Answers]
      /\ \A i \in Commits : fb'[i] = IF fb[i] = "open" THEN "discarded" ELSE fb[i]
  BY <1>1, AnsweredOnce DEF DiscardFeedbacks, Answers
<1>4. /\ Silent \in Current /\ Silent.id = current.id
      /\ Sound(queue, Silent, applied, fb', target, sent, fence \cup failed, forced, unseen)
  BY <1>3, SilentSound
<1>5. Sound(queue, current, applied, fb, target, sent, fence \cup failed, forced, unseen)'
  BY <1>1, <1>4
<1>6. Shown
  BY <1>1, <1>4 DEF Shown, Advances
<1>7. (Waiters /\ PresentedWillBeDrawn)'
  BY <1>1, <1>2 DEF Inv, Waiters, PresentedWillBeDrawn
<1>8. FeedbackIsTrue'
  BY <1>1, <1>3 DEF Inv, FeedbackIsTrue
<1>9. TypeOK'
  <2>1. TypeOK
    BY DEF Inv
  <2>2. scanout' \in 0..MaxCommits /\ presQ' \subseteq [fb: Commits, shown: BOOLEAN]
    BY <1>1
  <2>. QED  BY <1>1, <1>2, <1>3, <1>4, <2>1, <2>2 DEF TypeOK, Current, Answers
<1>. QED  BY <1>5, <1>6, <1>7, <1>8, <1>9 DEF Inv

-----------------------------------------------------------------------------
(* Steps of the monitor that try the queue                                 *)

\* The queue is tried after locks came off, on a current state with less to
\* tell and feedbacks some of which were answered.
LEMMA LoosenedRuns ==
    ASSUME Inv, NEW q, Loosened(queue, q), NEW cur \in Current,
           cur.id = current.id, cur.content = current.content, cur.fbs \subseteq current.fbs,
           NEW f \in [Commits -> Answers], \A i \in Commits : fb[i] # "none" => f[i] # "none",
           NEW fo, LocksHold(q, applied, target, fence \cup failed, fo),
           NEW uns, BarrierHolds(q, cur, applied, uns)
    PROVE  /\ Sound(q, cur, applied, f, target, sent, fence \cup failed, fo, uns)
           /\ Ids(q) = Ids(queue) /\ Fbs(q) = Fbs(queue)
<1> USE InvTypes
<1>1. Sound(queue, current, applied, fb, target, sent, fence \cup failed, forced, unseen)
  BY DEF Inv
<1>2. /\ Processable(q, cur, sent) /\ applied \subseteq 1..cur.id
      /\ HeldIsKnown(q, cur, applied, fb)
      /\ Ids(q) = Ids(queue) /\ Fbs(q) = Fbs(queue)
  BY <1>1, LoosenedSound
<1>3. HeldIsKnown(q, cur, applied, f)
  <2>1. q \in Seq(QueuedState)
    BY DEF Loosened
  <2>. QED  BY <1>2, <2>1, QueueIds DEF HeldIsKnown
<1>. QED  BY <1>2, <1>3 DEF Sound

LEMMA BoundaryKeeps ==
    ASSUME Inv, NEW q, NEW cur, NEW f \in [Commits -> Answers],
           UNCHANGED <<surface, sent, fifo, pending, fence, hidden, failed>>,
           cur.id = current.id, Ids(q) = Ids(queue),
           Ran(q, cur, f, sent, fence \cup failed, forced', unseen'),
           \A i \in Commits :
              /\ fb[i] # "none" => f[i] # "none"
              /\ f[i] = "open" => \/ pending.fb /\ i = sent + 1
                                  \/ i \in Fbs(q) \cup cur.fbs
                                  \/ i \in {r.fb : r \in presQ'}
              /\ f[i] = "presented" => i \in drawn',
           presQ' \subseteq [fb: Commits, shown: BOOLEAN],
           \A r \in presQ' : r.shown => r.fb \in drawn',
           drawn' \subseteq Commits, forced' \subseteq 1..sent, unseen' \subseteq unseen,
           flip' \in BOOLEAN, tearing' \in BOOLEAN, scanout' \in 0..MaxCommits
    PROVE  Inv' /\ Shown
<1> USE InvTypes
<1>1. \A i \in Commits :
          /\ f[i] = "open" => \/ pending'.fb /\ i = sent' + 1
                              \/ i \in Fbs(q) \cup cur.fbs
                              \/ i \in {r.fb : r \in presQ'}
          /\ f[i] = "presented" => i \in drawn'
  OBVIOUS
<1>2. Ran(q, cur, f, sent', fence' \cup failed', forced', unseen')
  OBVIOUS
<1>3. /\ Sound(queue, current, applied, fb, target, sent, fence \cup failed, forced, unseen)'
      /\ queue' \in Seq(QueuedState) /\ current' \in Current /\ applied' \subseteq Commits
      /\ fb' \in [Commits -> Answers] /\ target' \in [Commits -> Targets]
      /\ mapped' \in BOOLEAN /\ frameDue' \in BOOLEAN
      /\ \A i \in Commits : f[i] # "none" => fb'[i] # "none"
      /\ FeedbackIsTrue' /\ Shown
  BY <1>1, <1>2, RanKeeps
<1>4. TypeOK'
  <2>1. forced' \subseteq Commits /\ unseen' \subseteq Commits
    BY DEF Inv, TypeOK, Commits
  <2>. QED  BY <1>3, <2>1, FrameTypes
<1>5. Waiters'
  BY DEF Inv, Waiters
<1>6. PresentedWillBeDrawn'
  <2>1. sent < MaxCommits => sent + 1 \in Commits
    BY DEF Commits
  <2>. QED  BY <1>3, <2>1 DEF Inv, PresentedWillBeDrawn
<1>. QED  BY <1>3, <1>4, <1>5, <1>6 DEF Inv

\* The FIFO lock off the first state that has it: nothing else waits less.
LEMMA FifoLoosens ==
    ASSUME Inv
    PROVE  /\ Loosened(queue, UnlockFirst(queue, {"fifo"}))
           /\ LocksHold(UnlockFirst(queue, {"fifo"}), applied, target, fence \cup failed, forced)
<1> DEFINE q == UnlockFirst(queue, {"fifo"})
<1> USE InvTypes, SameLocks
<1>1. /\ Loosened(queue, q)
      /\ \A k \in 1..Len(queue), l \in Reasons :
            l \in q[k].lock <=> l \in queue[k].lock /\ (IsFirst(queue, k, {"fifo"}) => l \notin {"fifo"})
  BY UnlockFirstLoosens
<1> HIDE DEF q
<1>2. /\ Len(q) = Len(queue)
      /\ \A k \in 1..Len(queue) : q[k].id = queue[k].id
  BY <1>1 DEF Loosened
<1>3. \A k \in 1..Len(queue) : /\ "fence" \in q[k].lock <=> "fence" \in queue[k].lock
                               /\ "timer" \in q[k].lock <=> "timer" \in queue[k].lock
  BY <1>1 DEF Reasons
<1>4. LocksHold(q, applied, target, fence \cup failed, forced)
  BY <1>2, <1>3 DEF LocksHold
<1>. QED  BY <1>1, <1>4 DEF q

LEMMA NobodyUnseen ==
    ASSUME NEW q, NEW cur, NEW ap
    PROVE  BarrierHolds(q, cur, ap, {})
BY DEF BarrierHolds

LEMMA SameBufferFrameKeeps ==
    Inv /\ (\E tear \in BOOLEAN : SameBufferFrame(tear)) => Inv' /\ Shown
<1> SUFFICES ASSUME Inv, NEW tear \in BOOLEAN, SameBufferFrame(tear) PROVE Inv' /\ Shown
  OBVIOUS
<1> USE InvTypes
<1>1. /\ tearing' = tear /\ presQ' = Moved(current, TRUE) /\ drawn' = drawn \cup OnScreen
      /\ UNCHANGED <<surface, sent, fifo, pending, fence, flip, hidden, scanout, failed, forced>>
  BY DEF SameBufferFrame, clientVars
<1>2. /\ Silent \in Current /\ Silent.id = current.id /\ Silent.content = current.content
      /\ Silent.fbs = {}
      /\ Sound(queue, Silent, applied, fb, target, sent, fence \cup failed, forced, unseen)
  BY SilentSound
<1>3. /\ presQ' \subseteq [fb: Commits, shown: BOOLEAN]
      /\ {r.fb : r \in presQ'} = {r.fb : r \in presQ} \cup current.fbs
      /\ \A r \in presQ' : r \in presQ \/ r.fb \in current.fbs
  BY <1>1, MovedFeedback
<1>4. current.fbs \subseteq OnScreen /\ OnScreen \subseteq Commits
  BY CurrentOnScreen
<1>5. \A r \in presQ' : r.shown => r.fb \in drawn'
  BY <1>1, <1>3, <1>4 DEF Inv, PresentedWillBeDrawn
<1>6. drawn \subseteq Commits /\ unseen \subseteq Commits /\ scanout \in 0..MaxCommits
  BY DEF Inv, TypeOK
<1>7. drawn' \subseteq Commits /\ scanout' \in 0..MaxCommits /\ forced' \subseteq 1..sent
  BY <1>1, <1>4, <1>6 DEF Inv, Waiters
<1>8. \A i \in Commits :
          /\ fb[i] = "open" => \/ pending.fb /\ i = sent + 1
                               \/ i \in Fbs(queue)
                               \/ i \in {r.fb : r \in presQ'}
          /\ fb[i] = "presented" => i \in drawn'
  BY <1>1, <1>3 DEF Inv, FeedbackIsTrue
<1>9. CASE fifo /\ ~tear
  <2> DEFINE q == UnlockFirst(queue, {"fifo"})
             due == FALSE
  <2>1. Becomes(TryProcess(q, Silent, fb), target, due, sent) /\ unseen' = {}
    BY <1>9 DEF SameBufferFrame, Silent
  <2>2. Loosened(queue, q) /\ LocksHold(q, applied, target, fence \cup failed, forced)
    BY FifoLoosens
  <2> HIDE DEF q, due
  <2>3. /\ Sound(q, Silent, applied, fb, target, sent, fence \cup failed, forced, {})
        /\ Ids(q) = Ids(queue) /\ Fbs(q) = Fbs(queue)
    BY <1>2, <2>2, NobodyUnseen, LoosenedRuns
  <2>4. Ran(q, Silent, fb, sent, fence \cup failed, forced, {})
    BY <2>1, <2>3, TryProcessRuns
  <2>. QED  BY <1>1, <1>2, <1>3, <1>5, <1>7, <1>8, <2>1, <2>3, <2>4, BoundaryKeeps
<1>10. CASE ~(fifo /\ ~tear)
  <2>1. /\ current' = Silent /\ frameDue' = FALSE
        /\ UNCHANGED <<queue, applied, fb, mapped, target, unseen>>
    BY <1>10 DEF SameBufferFrame, Silent
  <2>2. Sound(queue, current, applied, fb, target, sent, fence \cup failed, forced, unseen)'
    BY <1>1, <1>2, <2>1
  <2>3. Shown
    BY <1>1, <1>2, <2>1 DEF Shown, Advances
  <2>4. (Waiters /\ PresentedWillBeDrawn)'
    BY <1>1, <1>5, <2>1 DEF Inv, Waiters, PresentedWillBeDrawn
  <2>5. FeedbackIsTrue'
    <3>1. Fbs(queue)' = Fbs(queue)
      BY <2>1 DEF Fbs, Held
    <3>. QED  BY <1>1, <1>8, <2>1, <3>1 DEF FeedbackIsTrue
  <2>6. TypeOK'
    <3>1. forced \subseteq Commits
      BY DEF Inv, TypeOK
    <3>. QED  BY <1>1, <1>2, <1>3, <1>6, <1>7, <2>1, <3>1, FrameTypes
  <2>. QED  BY <2>2, <2>3, <2>4, <2>5, <2>6 DEF Inv
<1>. QED  BY <1>9, <1>10

LEMMA NothingLoosens == \A q \in Seq(QueuedState) : Loosened(q, q)
BY DEF Loosened

LEMMA LoosensTwice ==
    ASSUME NEW q, NEW r, NEW s, Loosened(q, r), Loosened(r, s)
    PROVE  Loosened(q, s)
BY DEF Loosened

\* The targets within reach: their locks come off, and nothing waits that long.
LEMMA DueLoosens ==
    ASSUME Inv, NEW q, Loosened(queue, q),
           LocksHold(q, applied, target, fence \cup failed, forced)
    PROVE  /\ Loosened(queue, ReleaseDueStates(q))
           /\ LocksHold(ReleaseDueStates(q), applied, target, fence \cup failed, forced)
           /\ \A cur, uns : BarrierHolds(q, cur, applied, uns)
                              => BarrierHolds(ReleaseDueStates(q), cur, applied, uns)
<1> DEFINE r == ReleaseDueStates(q)
<1> USE InvTypes
<1>1. q \in Seq(QueuedState)
  BY DEF Loosened
<1>2. /\ Loosened(q, r)
      /\ \A k \in 1..Len(q), l \in Reasons :
            l \in r[k].lock <=> l \in q[k].lock /\ (target[q[k].id] \in {"near", "past"} => l # "timer")
  BY <1>1, ReleaseLoosens
<1> HIDE DEF r
<1>3. /\ Len(r) = Len(q)
      /\ \A k \in 1..Len(q) : r[k].id = q[k].id
  BY <1>2 DEF Loosened
<1>4. \A k \in 1..Len(q) : /\ "fence" \in r[k].lock <=> "fence" \in q[k].lock
                           /\ "fifo" \in r[k].lock <=> "fifo" \in q[k].lock
                           /\ "timer" \notin r[k].lock
                                => "timer" \notin q[k].lock \/ target[q[k].id] # "far"
  BY <1>2 DEF Reasons
<1>5. LocksHold(r, applied, target, fence \cup failed, forced)
  BY <1>3, <1>4 DEF LocksHold
<1>6. \A cur, uns : BarrierHolds(q, cur, applied, uns) => BarrierHolds(r, cur, applied, uns)
  BY <1>3, <1>4 DEF BarrierHolds
<1>. QED  BY <1>2, <1>5, <1>6, LoosensTwice DEF r

LEMMA PresentKeeps == Inv /\ Present => Inv' /\ Shown
<1> SUFFICES ASSUME Inv, Present PROVE Inv' /\ Shown
  OBVIOUS
<1> USE InvTypes
<1> DEFINE f == OnPresented
           cur == IF FifoPresented THEN [current EXCEPT !.barrier = FALSE] ELSE current
           first == IF FifoPresented THEN UnlockFirst(queue, {"fifo"}) ELSE queue
           q == ReleaseDueStates(first)
           uns == IF FifoPresented THEN {} ELSE unseen
<1>1. /\ flip' = FALSE /\ presQ' = {} /\ unseen' = uns
      /\ Becomes(IF q # queue \/ FifoPresented THEN TryProcess(q, cur, f) ELSE Unprocessed(queue, f),
                 target, frameDue, sent)
      /\ UNCHANGED <<surface, sent, fifo, pending, fence, tearing, hidden, scanout, failed, forced,
                     drawn>>
  BY DEF Present, clientVars
<1>2. /\ f \in [Commits -> Answers]
      /\ \A i \in Commits :
            /\ fb[i] # "none" => f[i] # "none"
            /\ f[i] = "open" => fb[i] = "open" /\ i \notin {r.fb : r \in presQ}
            /\ f[i] = "presented" => fb[i] = "presented" \/ i \in {r.fb : r \in {x \in presQ : x.shown}}
  <2> DEFINE S == {r.fb : r \in {x \in presQ : x.shown}}
             T == {r.fb : r \in presQ}
             g == Answered(fb, S, "presented")
  <2> HIDE DEF S, T
  <2>1. /\ g \in [Commits -> Answers]
        /\ \A i \in Commits : g[i] = IF i \in S /\ fb[i] = "open" THEN "presented" ELSE fb[i]
    BY AnsweredOnce DEF Answers
  <2> HIDE DEF g
  <2>2. /\ Answered(g, T, "discarded") \in [Commits -> Answers]
        /\ \A i \in Commits :
              Answered(g, T, "discarded")[i] = IF i \in T /\ g[i] = "open" THEN "discarded" ELSE g[i]
    BY <2>1, AnsweredOnce DEF Answers
  <2>3. f = Answered(g, T, "discarded")
    BY DEF OnPresented, g, S, T
  <2> HIDE DEF f
  <2>4. \A i \in Commits :
            /\ fb[i] # "none" => f[i] # "none"
            /\ f[i] = "open" => fb[i] = "open" /\ i \notin T
            /\ f[i] = "presented" => fb[i] = "presented" \/ i \in S
    BY <2>1, <2>2, <2>3
  <2>. QED  BY <2>2, <2>3, <2>4 DEF S, T
<1> HIDE DEF f
<1>3. /\ cur \in Current /\ cur.id = current.id /\ cur.content = current.content
      /\ cur.fbs = current.fbs
  BY DEF Current
<1>4. /\ Loosened(queue, first)
      /\ LocksHold(first, applied, target, fence \cup failed, forced)
      /\ BarrierHolds(first, cur, applied, uns)
  BY FifoLoosens, NothingLoosens, SameLocks, NobodyUnseen
<1> HIDE DEF first, cur
<1>5. /\ Loosened(queue, q)
      /\ LocksHold(q, applied, target, fence \cup failed, forced)
      /\ BarrierHolds(q, cur, applied, uns)
  BY <1>4, DueLoosens
<1>6. uns \subseteq unseen
  OBVIOUS
<1> HIDE DEF q, uns
<1>7. /\ Sound(q, cur, applied, f, target, sent, fence \cup failed, forced, uns)
      /\ Ids(q) = Ids(queue) /\ Fbs(q) = Fbs(queue)
  BY <1>2, <1>3, <1>5, LoosenedRuns
<1>8. Ran(q, cur, f, sent, fence \cup failed, forced, uns)
  <2>1. CASE q # queue \/ FifoPresented
    <3>1. Becomes(TryProcess(q, cur, f), target, frameDue, sent)
      BY <1>1, <2>1
    <3>. QED  BY <1>2, <1>7, <3>1, TryProcessRuns
  <2>2. CASE ~(q # queue \/ FifoPresented)
    <3>1. Becomes(Unprocessed(queue, f), target, frameDue, sent) /\ q = queue /\ cur = current
      BY <1>1, <2>2 DEF cur
    <3>. QED  BY <1>2, <1>7, <3>1, UnprocessedRuns
  <2>. QED  BY <2>1, <2>2
<1>9. \A i \in Commits :
          /\ f[i] = "open" => (pending.fb /\ i = sent + 1) \/ i \in Fbs(q) \cup cur.fbs
          /\ f[i] = "presented" => i \in drawn'
  BY <1>1, <1>2, <1>3, <1>7 DEF Inv, FeedbackIsTrue, PresentedWillBeDrawn
<1>10. /\ drawn' \subseteq Commits /\ forced' \subseteq 1..sent /\ tearing' \in BOOLEAN
       /\ scanout' \in 0..MaxCommits
  BY <1>1 DEF Inv, TypeOK, Waiters
<1>11. /\ UNCHANGED <<surface, sent, fifo, pending, fence, hidden, failed>>
       /\ flip' \in BOOLEAN /\ presQ' \subseteq [fb: Commits, shown: BOOLEAN]
       /\ \A r \in presQ' : r.shown => r.fb \in drawn'
       /\ Ran(q, cur, f, sent, fence \cup failed, forced', unseen')
       /\ unseen' \subseteq unseen
  BY <1>1, <1>6, <1>8
<1>12. \A i \in Commits :
          /\ fb[i] # "none" => f[i] # "none"
          /\ f[i] = "open" => \/ pending.fb /\ i = sent + 1
                              \/ i \in Fbs(q) \cup cur.fbs
                              \/ i \in {r.fb : r \in presQ'}
          /\ f[i] = "presented" => i \in drawn'
  BY <1>2, <1>9
<1>13. cur.id = current.id /\ Ids(q) = Ids(queue) /\ f \in [Commits -> Answers]
  BY <1>2, <1>3, <1>7
<1>. QED  BY <1>10, <1>11, <1>12, <1>13, BoundaryKeeps

\* What the ticker forces is the first state that waits for anything.
Forced == {s.id : s \in {t \in Held(queue) : /\ t.lock # {}
                             /\ \A u \in Held(queue) : u.lock # {} => t.id <= u.id}}

LEMMA ForcedIsFirst ==
    ASSUME Inv
    PROVE  /\ Forced \subseteq 1..sent
           /\ \A k \in 1..Len(queue) : IsFirst(queue, k, Reasons) => queue[k].id \in Forced
<1> USE InvTypes
<1>1. /\ InOrder(queue, current.id, sent)
      /\ \A k \in 1..Len(queue) : queue[k].id \in Nat /\ queue[k].lock \subseteq Reasons
      /\ Len(queue) \in Nat /\ DOMAIN queue = 1..Len(queue)
  BY QueueIds DEF Processable
<1>2. Held(queue) = {queue[k] : k \in 1..Len(queue)}
  BY <1>1 DEF Held
<1>3. \A s \in Held(queue) : s.id \in 1..sent
  <2>1. \A k \in 1..Len(queue) : queue[k].id \in 1..sent
    BY <1>1 DEF InOrder
  <2>. QED  BY <1>2, <2>1
<1>4. ASSUME NEW k \in 1..Len(queue), IsFirst(queue, k, Reasons)
      PROVE  queue[k].id \in Forced
  <2>1. queue[k].lock # {} /\ queue[k] \in Held(queue)
    BY <1>2, <1>4 DEF IsFirst
  <2>2. \A j \in 1..(k - 1) : queue[j].lock = {}
    <3> TAKE j \in 1..(k - 1)
    <3>1. j \in 1..Len(queue)
      BY <1>1
    <3>. QED  BY <1>1, <1>4, <3>1 DEF IsFirst
  <2>3. ASSUME NEW j \in 1..Len(queue), queue[j].lock # {}
        PROVE  queue[k].id <= queue[j].id
    <3>1. ~(j \in 1..(k - 1))
      BY <2>2, <2>3
    <3>2. j = k \/ k \in 1..(j - 1)
      BY <3>1
    <3>3. k \in 1..(j - 1) => queue[k].id < queue[j].id
      BY <1>1 DEF InOrder
    <3>. QED  BY <1>1, <3>2, <3>3
  <2>4. \A u \in Held(queue) : u.lock # {} => queue[k].id <= u.id
    BY <1>2, <2>3
  <2>. QED  BY <2>1, <2>4 DEF Forced
<1>5. Forced \subseteq 1..sent
  BY <1>3 DEF Forced
<1>. QED  BY <1>4, <1>5

LEMMA ForcedLoosens ==
    ASSUME Inv
    PROVE  /\ Loosened(queue, UnlockFirst(queue, Reasons))
           /\ LocksHold(UnlockFirst(queue, Reasons), applied, target, fence \cup failed,
                        forced \cup Forced)
<1> DEFINE q == UnlockFirst(queue, Reasons)
<1> USE InvTypes, SameLocks
<1>1. /\ Loosened(queue, q)
      /\ \A k \in 1..Len(queue), l \in Reasons :
            l \in q[k].lock <=> l \in queue[k].lock /\ (IsFirst(queue, k, Reasons) => l \notin Reasons)
  BY UnlockFirstLoosens
<1> HIDE DEF q
<1>2. /\ Len(q) = Len(queue)
      /\ \A k \in 1..Len(queue) : q[k].id = queue[k].id
  BY <1>1 DEF Loosened
<1>3. \A k \in 1..Len(queue) : q[k].id \notin Forced =>
          /\ "fence" \in q[k].lock <=> "fence" \in queue[k].lock
          /\ "timer" \in q[k].lock <=> "timer" \in queue[k].lock
  <2>1. \A k \in 1..Len(queue) : q[k].id \notin Forced => ~IsFirst(queue, k, Reasons)
    BY <1>2, ForcedIsFirst
  <2>. QED  BY <1>1, <2>1 DEF Reasons
<1>4. LocksHold(q, applied, target, fence \cup failed, forced \cup Forced)
  BY <1>2, <1>3 DEF LocksHold
<1>. QED  BY <1>1, <1>4 DEF q

LEMMA UnfocusedTickKeeps == Inv /\ UnfocusedTick => Inv' /\ Shown
<1> SUFFICES ASSUME Inv, UnfocusedTick PROVE Inv' /\ Shown
  OBVIOUS
<1> USE InvTypes
<1> DEFINE q == UnlockFirst(queue, Reasons)
           w == fence \cup failed
<1>1. PICK p \in TryProcess(q, current, fb) :
          /\ Becomes({[p EXCEPT !.current.fbs = {}]}, target, frameDue, sent)
          /\ presQ' = Moved(p.current, FALSE)
  BY DEF UnfocusedTick
<1>2. /\ forced' = forced \cup Forced /\ unseen' = {}
      /\ UNCHANGED <<surface, sent, fifo, pending, fence, flip, tearing, hidden, scanout, failed,
                     drawn>>
  BY DEF UnfocusedTick, clientVars, Forced
<1>3. /\ Loosened(queue, q)
      /\ LocksHold(q, applied, target, w, forced')
  BY <1>2, ForcedLoosens
<1>4. PICK n \in 0..Len(q) : StopsAfter(q, current.barrier, n) /\ p = Applying(q, current, fb, n)
  BY <1>1 DEF TryProcess
<1> HIDE DEF q
<1>5. /\ Sound(q, current, applied, fb, target, sent, w, forced', {})
      /\ Ids(q) = Ids(queue) /\ Fbs(q) = Fbs(queue)
  BY <1>3, NobodyUnseen, LoosenedRuns
<1>6. Processable(q, current, sent) /\ q \in Seq(QueuedState)
  BY <1>5 DEF Sound, Processable
<1>7. Processed(q, current, fb, n, p)
  BY <1>4, <1>6, ApplyingProcesses
<1>8. Sound(p.queue, p.current, p.applied, p.fb, KeepTimers(target, p.queue, sent), sent, w,
            forced', {})
  BY <1>4, <1>5, <1>7, ProcessedIsSound
<1> DEFINE c == [p.current EXCEPT !.fbs = {}]
<1>9. /\ p.current \in Current /\ p.fb \in [Commits -> Answers] /\ p.mapped \in BOOLEAN
      /\ p.queue \in Seq(QueuedState)
      /\ \A i \in Commits : p.fb[i] = fb[i] \/ (fb[i] = "open" /\ p.fb[i] = "discarded")
      /\ p = [queue |-> p.queue, current |-> p.current, applied |-> p.applied, fb |-> p.fb,
              mapped |-> p.mapped]
  BY <1>7 DEF Processed
<1>10. /\ queue' = p.queue /\ current' = c /\ applied' = p.applied
       /\ fb' = p.fb /\ mapped' = p.mapped /\ target' = KeepTimers(target, p.queue, sent)
       /\ frameDue' \in BOOLEAN
  <2>1. PICK r \in {[p EXCEPT !.current.fbs = {}]} :
           /\ queue' = r.queue /\ current' = r.current /\ applied' = r.applied
           /\ fb' = r.fb /\ mapped' = r.mapped /\ target' = KeepTimers(target, r.queue, sent)
           /\ frameDue' \in BOOLEAN
    BY <1>1 DEF Becomes
  <2>2. r = [p EXCEPT !.current = c]
    BY <2>1
  <2> HIDE DEF c
  <2>3. /\ r.queue = p.queue /\ r.current = c /\ r.applied = p.applied /\ r.fb = p.fb
        /\ r.mapped = p.mapped
    BY <1>9, <2>2
  <2>. QED  BY <2>1, <2>3
<1>11. /\ c \in Current /\ c.id = p.current.id /\ c.content = p.current.content /\ c.fbs = {}
  BY <1>9 DEF Current
<1> HIDE DEF c
<1>12. Sound(queue, current, applied, fb, target, sent, fence \cup failed, forced, unseen)'
  <2>1. Processable(p.queue, c, sent)
    <3>1. Processable(p.queue, p.current, sent)
      BY <1>8 DEF Sound
    <3>. QED  BY <1>11, <3>1 DEF Processable
  <2>2. HeldIsKnown(p.queue, c, p.applied, p.fb)
    <3>1. HeldIsKnown(p.queue, p.current, p.applied, p.fb)
      BY <1>8 DEF Sound
    <3>. QED  BY <1>11, <3>1 DEF HeldIsKnown
  <2>3. LocksHold(p.queue, p.applied, KeepTimers(target, p.queue, sent), w, forced')
        /\ p.applied \subseteq 1..c.id
    BY <1>8, <1>11 DEF Sound
  <2>. QED  BY <1>2, <1>10, <2>1, <2>2, <2>3, NobodyUnseen DEF Sound
<1>13. Shown
  <2>1. InOrder(p.queue, p.current.id, sent)
    BY <1>8 DEF Sound, Processable
  <2>2. Advances(Ids(q), current.id, Ids(p.queue), p.current.id)
    BY <1>6, <1>7, <2>1, ProcessedAdvances
  <2>. QED  BY <1>2, <1>5, <1>10, <1>11, <2>2 DEF Shown, Advances
<1>14. /\ presQ' \subseteq [fb: Commits, shown: BOOLEAN]
       /\ {r.fb : r \in presQ'} = {r.fb : r \in presQ} \cup p.current.fbs
       /\ \A r \in presQ' : r \in presQ \/ ~r.shown
  <2> DEFINE shown == FALSE
  <2>1. shown \in BOOLEAN /\ presQ' = Moved(p.current, shown) /\ ~shown
    BY <1>1
  <2> HIDE DEF shown
  <2>. QED  BY <1>9, <2>1, MovedFeedback
<1>15. FeedbackIsTrue'
  <2> SUFFICES ASSUME NEW i \in Commits
               PROVE  /\ p.fb[i] = "open" =>
                            \/ pending.fb /\ i = sent + 1
                            \/ i \in Fbs(p.queue) \cup {r.fb : r \in presQ'}
                      /\ p.fb[i] = "presented" => i \in drawn
    BY <1>2, <1>10, <1>11 DEF FeedbackIsTrue
  <2>1. p.fb[i] = "open" /\ i \in Fbs(q) \cup current.fbs => i \in Fbs(p.queue) \cup p.current.fbs
    BY <1>6, <1>7, ProcessedKeepsFeedback
  <2>. QED  BY <1>5, <1>9, <1>14, <2>1 DEF Inv, FeedbackIsTrue
<1>16. forced' \subseteq 1..sent
  BY <1>2, ForcedIsFirst DEF Inv, Waiters
<1>17. Waiters'
  BY <1>2, <1>16 DEF Inv, Waiters
<1>18. PresentedWillBeDrawn'
  <2>1. sent < MaxCommits => sent + 1 \in Commits
    BY DEF Commits
  <2>. QED  BY <1>2, <1>9, <1>10, <1>14, <2>1 DEF Inv, PresentedWillBeDrawn
<1>19. TypeOK'
  <2>1. applied' \subseteq Commits
    BY <1>8, <1>9, <1>10, SurfaceAssumption DEF Sound, Processable, Current, Commits
  <2>2. target' \in [Commits -> Targets]
    BY <1>10, TimersKept
  <2>3. /\ forced' \subseteq Commits /\ unseen' \subseteq Commits /\ drawn' \subseteq Commits
        /\ flip' \in BOOLEAN /\ tearing' \in BOOLEAN /\ scanout' \in 0..MaxCommits
    BY <1>2, <1>16 DEF Inv, TypeOK, Commits
  <2>. QED  BY <1>2, <1>9, <1>10, <1>11, <1>14, <2>1, <2>2, <2>3, FrameTypes
<1>. QED  BY <1>12, <1>13, <1>15, <1>17, <1>18, <1>19 DEF Inv

-----------------------------------------------------------------------------
(* The theorems                                                            *)

LEMMA NextKeeps == Inv /\ Next => Inv' /\ Shown /\ sent' \in {sent, sent + 1}
<1> SUFFICES ASSUME Inv, Next PROVE Inv' /\ Shown /\ sent' \in {sent, sent + 1}
  OBVIOUS
<1>1. CASE Request
  <2>1. CASE \/ \E kind \in {"null", "buffer"} : Attach(kind)
             \/ \E n \in Scales : SetScale(n)
             \/ SetBarrier
    BY <2>1, NotesKeep DEF Attach, SetScale, SetBarrier, OnlyPending
  <2>2. CASE WaitBarrier
    BY <2>2, WaitBarrierKeeps DEF WaitBarrier, OnlyPending
  <2>3. CASE SetTimestamp
    BY <2>3, SetTimestampKeeps DEF SetTimestamp, OnlyPending
  <2>4. CASE RequestFeedback
    BY <2>4, RequestFeedbackKeeps DEF RequestFeedback, OnlyPending
  <2>5. CASE CommitNull
    BY <2>5, CommitNullKeeps DEF CommitNull
  <2>6. CASE \E fenced \in BOOLEAN : Commit(fenced)
    BY <2>6, CommitKeeps DEF Commit
  <2>7. CASE CommitRejected
    BY <2>7, CommitRejectedKeeps DEF CommitRejected
  <2>8. CASE DestroySurface
    BY <2>8, DestroyKeeps DEF DestroySurface
  <2>9. CASE ToggleFifo
    BY <2>9, ToggleFifoKeeps DEF ToggleFifo
  <2>. QED  BY <1>1, <2>1, <2>2, <2>3, <2>4, <2>5, <2>6, <2>7, <2>8, <2>9 DEF Request
<1>2. CASE Frame
  <2>1. CASE \E how \in {"composed", "covered", "scanout"}, tear \in BOOLEAN : Render(how, tear)
    BY <2>1, RenderKeeps DEF Render, clientVars
  <2>2. CASE \E tear \in BOOLEAN : SameBufferFrame(tear)
    BY <2>2, SameBufferFrameKeeps DEF SameBufferFrame, clientVars
  <2>. QED  BY <1>2, <2>1, <2>2 DEF Frame
<1>3. CASE Present
  BY <1>3, PresentKeeps DEF Present, clientVars
<1>4. CASE \E i \in Commits : FenceSignals(i)
  BY <1>4, FenceSignalsKeeps DEF FenceSignals, clientVars
<1>5. CASE \E i \in Commits : FenceFails(i)
  BY <1>5, FenceFailsKeeps DEF FenceFails, clientVars
<1>6. CASE \E i \in Commits : TimePasses(i)
  BY <1>6, TimePassesKeeps DEF TimePasses, clientVars
<1>7. CASE \E i \in Commits : TimerFires(i)
  BY <1>7, TimerFiresKeeps DEF TimerFires, clientVars
<1>8. CASE Replug
  BY <1>8, ReplugKeeps DEF Replug, clientVars
<1>9. CASE UnfocusedTick
  BY <1>9, UnfocusedTickKeeps DEF UnfocusedTick, clientVars
<1>10. CASE RoleUnmaps
  BY <1>10, RoleUnmapsKeeps DEF RoleUnmaps, clientVars
<1>11. CASE User
  BY <1>11, UserKeeps DEF User, clientVars
<1>. QED  BY <1>1, <1>2, <1>3, <1>4, <1>5, <1>6, <1>7, <1>8, <1>9, <1>10, <1>11 DEF Next

LEMMA StutterKeeps == Inv /\ UNCHANGED vars => Inv'
<1> SUFFICES ASSUME Inv, UNCHANGED vars PROVE Inv'
  OBVIOUS
<1> USE DEF vars
<1>1. TypeOK'
  BY DEF Inv, TypeOK
<1>2. Sound(queue, current, applied, fb, target, sent, fence \cup failed, forced, unseen)'
  BY DEF Inv
<1>3. (Waiters /\ PresentedWillBeDrawn)'
  BY DEF Inv, Waiters, PresentedWillBeDrawn
<1>4. FeedbackIsTrue'
  BY DEF Inv, FeedbackIsTrue, Fbs, Held
<1>. QED  BY <1>1, <1>2, <1>3, <1>4 DEF Inv

\* The inductive invariant holds in every reachable state: queue, current
\* state and history fit together whatever callback ran last.
THEOREM SurfaceInvariance == Spec => []Inv
<1>1. Init => Inv
  BY InitInv
<1>2. Inv /\ [Next]_vars => Inv'
  BY NextKeeps, StutterKeeps
<1>. QED  BY <1>1, <1>2, PTL DEF Spec

\* Every variable keeps its type: in particular the queue only ever holds
\* states of commits, under locks that have a reason (CSurfaceStateQueue).
THEOREM TypeCorrect == Spec => []TypeOK
<1>1. Inv => TypeOK
  BY DEF Inv
<1>. QED  BY <1>1, SurfaceInvariance, PTL

\* No commit becomes current before its fence has signalled and its target
\* is within reach, unless the ticker of hidden windows forced it
\* (CSurfaceStateQueue::tryProcess under locks of all three reasons).
THEOREM AppliedReady == Spec => []AppliedIsReady
<1>1. Inv => AppliedIsReady
  BY DEF Inv, Sound, LocksHold, Ready, AppliedIsReady
<1>. QED  BY <1>1, SurfaceInvariance, PTL

\* No two FIFO commits go into one frame: a commit that waits for a barrier
\* is not current before a frame boundary (CFifoResource, unlockFirst).
THEOREM FifoWaits == Spec => []FifoWaitsForFrame
<1>1. Inv => FifoWaitsForFrame
  BY DEF Inv, Sound, BarrierHolds, FifoWaitsForFrame
<1>. QED  BY <1>1, SurfaceInvariance, PTL

\* No presentation feedback is forgotten, and none says "presented" of
\* content no frame contained (CPresentationFeedback).
THEOREM FeedbackTrue == Spec => []FeedbackIsTrue
<1>1. Inv => FeedbackIsTrue
  BY DEF Inv
<1>. QED  BY <1>1, SurfaceInvariance, PTL

\* The queue implements CommitStream: whatever fences, timers, barriers,
\* presents, unmaps and null commits do to it, a client sees its commits
\* become current in the order it sent them, and none comes back.
THEOREM InOrderStream == Spec => AppliedInOrder
<1>1. Init => Stream!Init
  <2> SUFFICES ASSUME Init PROVE sent = 0 /\ Ids(queue) = {} /\ current.id = 0
    BY DEF Stream!Init
  <2>. QED  BY NothingQueued DEF Init
<1>2. Inv /\ [Next]_vars => [Stream!Next]_(Stream!svars)
  <2>1. CASE Inv /\ Next
    <3>1. Shown /\ sent' \in {sent, sent + 1}
      BY <2>1, NextKeeps
    <3>2. Stream!Next
      BY <3>1 DEF Shown, Advances, Stream!Next, Stream!Advance
    <3>. QED  BY <3>2
  <2>2. CASE UNCHANGED vars
    BY <2>2 DEF vars, Stream!svars, Ids, Held
  <2>. QED  BY <2>1, <2>2
<1>. QED  BY <1>1, <1>2, SurfaceInvariance, PTL DEF Spec, AppliedInOrder, Stream!Spec

=============================================================================
