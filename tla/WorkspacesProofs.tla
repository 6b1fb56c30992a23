--------------------------- MODULE WorkspacesProofs ---------------------------
(***************************************************************************)
(* The invariants of Workspaces, and the return of what a monitor leaves   *)
(* behind, for every set of outputs, every rule and every number of        *)
(* workspaces.                                                             *)
(*                                                                         *)
(* A handler folds an operator over a list.  The induction each fold needs *)
(* is made once, as the least number at which a set of numbers ends, and   *)
(* gives the chain of desks the fold goes through; what a chain preserves  *)
(* is proved from what one call preserves.                                 *)
(***************************************************************************)
EXTENDS Workspaces, SequenceTheorems, FiniteSetTheorems, WellFoundedInduction, TLAPS

-----------------------------------------------------------------------------
(* Induction, and folds over a list *)

LEMMA LeastNat ==
    ASSUME NEW I \in SUBSET Nat, I # {}
    PROVE  \E i \in I : \A j \in I : i <= j
  <1>. DEFINE R == OpToRel(<, Nat)
  <1>1. IsWellFoundedOn(R, Nat)
    BY NatLessThanWellFounded
  <1>. HIDE DEF R
  <1>2. PICK i \in I : \A j \in I : ~ (<<j, i>> \in R)
    BY <1>1, WFMin
  <1>3. \A j \in I : j < i => <<j, i>> \in R
    BY DEF R, OpToRel
  <1>4. \A j \in I : ~ (j < i)
    BY <1>2, <1>3, Zenon
  <1>5. \A j \in I : i \in Nat /\ j \in Nat
    OBVIOUS
  <1>6. \A j \in I : i <= j
    BY <1>4, <1>5, SMT
  <1>. QED BY <1>6, Zenon

LEMMA Induction ==
    ASSUME NEW n \in Nat, NEW S, 0 \in S, \A k \in 1..n : k - 1 \in S => k \in S
    PROVE  \A k \in 0..n : k \in S
  <1>. DEFINE I == {k \in 0..n : k \notin S}
  <1>. SUFFICES ASSUME I # {} PROVE FALSE
    OBVIOUS
  <1>1. I \in SUBSET Nat
    OBVIOUS
  <1>2. PICK i \in I : \A j \in I : i <= j
    BY <1>1, LeastNat
  <1>3. i \in 1..n /\ i - 1 \in 0..n /\ ~ (i <= i - 1)
    BY <1>2
  <1>4. i - 1 \in S
    BY <1>2, <1>3
  <1>. QED BY <1>2, <1>3, <1>4

LEMMA MaxOfInterval ==
    ASSUME NEW k \in Nat, NEW s \in SUBSET (1..k), k \in s
    PROVE  Max(s) = k
  <1>. DEFINE P(x) == x \in s /\ \A y \in s : x >= y
  <1>0. \A y \in s : y \in Nat /\ k >= y
    OBVIOUS
  <1>1. P(k)
    BY <1>0
  <1>3. ASSUME NEW x, P(x) PROVE x = k
    <2>1. x \in Nat /\ k >= x /\ x >= k
      BY <1>0, <1>3
    <2>. QED BY <2>1
  <1>2. Max(s) = CHOOSE x : P(x)
    BY DEF Max
  <1>. HIDE DEF P
  <1>. QED BY <1>1, <1>2, <1>3

\* The prefixes of a list, as the fold meets them.
LEMMA InitialInterval ==
    ASSUME NEW n \in Nat, NEW k \in 1..n
    PROVE  /\ 1..k \in SUBSET (1..n) /\ 1..k # {} /\ Max(1..k) = k
           /\ (1..k) \ {k} = 1..(k - 1) /\ k - 1 \in 0..n
  <1>1. /\ k \in Nat /\ k - 1 \in 0..n /\ k \in 1..k
        /\ \A i \in 1..k : i \in 1..n
        /\ \A i : i \in (1..k) \ {k} <=> i \in 1..(k - 1)
    OBVIOUS
  <1>2. 1..k \in SUBSET (1..k) /\ 1..k # {} /\ 1..k \in SUBSET (1..n)
    BY <1>1, Zenon
  <1>3. Max(1..k) = k
    BY <1>1, <1>2, MaxOfInterval
  <1>4. (1..k) \ {k} = 1..(k - 1)
    BY <1>1, Zenon
  <1>. QED BY <1>1, <1>2, <1>3, <1>4

\* F maps a desk of D and an element of W to a desk of D; the list has
\* elements of W.
Foldable(D, W, F, d, n, l) ==
    /\ \A e \in D, w \in W : F[<<e, w>>] \in D
    /\ d \in D /\ n \in Nat /\ \A k \in 1..n : l[k] \in W

\* The recursion by which FoldLeft is defined.
IsFold(f, D, F, d, n, l) ==
    /\ f \in [SUBSET (1..n) -> D]
    /\ \A s \in SUBSET (1..n) :
          /\ f[s] = IF s = {} THEN d ELSE F[<<f[s \ {Max(s)}], l[Max(s)]>>]
          /\ s = {} \/ Max(s) \in s

\* It has a solution.
LEMMA FoldExists ==
    ASSUME NEW D, NEW W, NEW F, NEW d, NEW n, NEW l, Foldable(D, W, F, d, n, l)
    PROVE  \E f : IsFold(f, D, F, d, n, l)
  <1>. /\ \A e \in D, w \in W : F[<<e, w>>] \in D
       /\ d \in D /\ n \in Nat /\ \A k \in 1..n : l[k] \in W
    BY DEF Foldable
  <1>. DEFINE Body(f, s) == IF s = {} THEN d ELSE F[<<f[s \ {Max(s)}], l[Max(s)]>>]
              Is(f, m) == /\ f \in [SUBSET (1..m) -> D]
                          /\ \A s \in SUBSET (1..m) :
                                f[s] = Body(f, s) /\ (s = {} \/ Max(s) \in s)
              S == {m \in 0..n : \E f : Is(f, m)}
  <1>1. 0 \in S
    <2>. DEFINE f == [s \in SUBSET (1..0) |-> d]
    <2>1. 1..0 = {}
      OBVIOUS
    <2>2. \A s \in SUBSET (1..0) : s = {}
      BY <2>1
    <2>3. Is(f, 0)
      BY <2>2
    <2>. HIDE DEF Is, f
    <2>. QED BY <2>3
  <1>2. ASSUME NEW m \in 1..n, m - 1 \in S PROVE m \in S
    <2>1. PICK g : Is(g, m - 1)
      BY <1>2
    <2>. DEFINE f == [s \in SUBSET (1..m) |-> IF m \in s THEN F[<<g[s \ {m}], l[m]>>] ELSE g[s]]
    <2>2. ASSUME NEW s \in SUBSET (1..m) PROVE f[s] = Body(f, s) /\ f[s] \in D /\ (s = {} \/ Max(s) \in s)
      <3>1. CASE m \in s
        <4>1. Max(s) = m /\ s # {}
          BY <3>1, MaxOfInterval
        <4>2. f[s \ {m}] = g[s \ {m}]
          OBVIOUS
        <4>3. s \ {m} \in SUBSET (1..(m - 1))
          OBVIOUS
        <4>4. g[s \ {m}] \in D /\ l[m] \in W
          BY <2>1, <4>3
        <4>. QED BY <3>1, <4>1, <4>2, <4>4
      <3>2. CASE m \notin s
        <4>1. s \in SUBSET (1..(m - 1))
          BY <3>2
        <4>2. /\ f[s] = g[s] /\ g[s] = Body(g, s) /\ g[s] \in D
              /\ s = {} \/ Max(s) \in s
          BY <2>1, <3>2, <4>1
        <4>3. f[s \ {Max(s)}] = g[s \ {Max(s)}]
          BY <3>2
        <4>. QED BY <4>2, <4>3
      <3>. QED BY <3>1, <3>2
    <2>3. Is(f, m)
      <3>. HIDE DEF Body
      <3>. QED BY <2>2
    <2>. HIDE DEF Is, f
    <2>. QED BY <2>3
  <1>3. n \in S
    <2>. HIDE DEF S
    <2>. QED BY <1>1, <1>2, Induction
  <1>. QED BY <1>3 DEF IsFold

\* it satisfies the recursion of F as long as its values are in D.
Follows(it, D, W, F, d, n, l) ==
    /\ it[{}] = d
    /\ \A s \in SUBSET (1..n) :
          /\ s # {} /\ it[s \ {Max(s)}] \in D /\ l[Max(s)] \in W
          => it[s] = F[<<it[s \ {Max(s)}], l[Max(s)]>>]

\* The desks a fold goes through.
LEMMA FoldChain ==
    ASSUME NEW D, NEW W, NEW F, NEW d, NEW n, NEW l, Foldable(D, W, F, d, n, l),
           NEW it, Follows(it, D, W, F, d, n, l)
    PROVE  \E c \in [0..n -> D] :
              /\ c[0] = d /\ it[1..n] = c[n]
              /\ \A k \in 1..n : c[k] = F[<<c[k - 1], l[k]>>]
  <1>. DEFINE c == [k \in 0..n |-> it[1..k]]
              Good == {k \in 0..n : c[k] \in D}
  <1>1. /\ \A e \in D, w \in W : F[<<e, w>>] \in D
        /\ d \in D /\ n \in Nat /\ \A k \in 1..n : l[k] \in W
    BY DEF Foldable
  <1>2. c[0] = d /\ c[n] = it[1..n] /\ DOMAIN c = 0..n
    <2>1. 1..0 = {} /\ 0 \in 0..n /\ n \in 0..n
      BY <1>1
    <2>. QED BY <2>1 DEF Follows
  <1>3. ASSUME NEW k \in 1..n, c[k - 1] \in D
        PROVE  c[k] = F[<<c[k - 1], l[k]>>] /\ c[k] \in D /\ k \in 0..n
    <2>1. /\ 1..k \in SUBSET (1..n) /\ 1..k # {} /\ Max(1..k) = k
          /\ (1..k) \ {k} = 1..(k - 1) /\ k - 1 \in 0..n
      BY <1>1, InitialInterval
    <2>2. k \in 0..n /\ l[k] \in W
      BY <1>1
    <2>3. c[k] = it[1..k] /\ c[k - 1] = it[1..(k - 1)]
      BY <2>1, <2>2
    <2>. HIDE DEF c
    <2>4. it[1..k] = F[<<it[1..(k - 1)], l[k]>>]
      BY <1>3, <2>1, <2>2, <2>3 DEF Follows
    <2>. QED BY <1>1, <1>3, <2>2, <2>3, <2>4
  <1>. HIDE DEF c
  <1>4. \A k \in 0..n : k \in Good
    <2>1. 0 \in Good
      BY <1>1, <1>2
    <2>2. ASSUME NEW k \in 1..n, k - 1 \in Good PROVE k \in Good
      BY <1>3, <2>2
    <2>. HIDE DEF Good
    <2>. QED BY <1>1, <2>1, <2>2, Induction
  <1>5. \A k \in 1..n : k - 1 \in 0..n
    BY <1>1
  <1>6. c \in [0..n -> D]
    BY <1>2, <1>4 DEF c
  <1>. QED BY <1>2, <1>3, <1>4, <1>5, <1>6

Sieve(e, w, S) == IF w \in S THEN Append(e, w) ELSE e

\* The lists, and below the desks, that each fold goes through.
\* Among.
AmongStays(D, W, S) == \A e \in D, w \in W : Sieve(e, w, S) \in D

LEMMA AmongFolds ==
    ASSUME NEW D, NEW d \in D, NEW W, NEW l \in Seq(W), NEW S,
           d = <<>>,
           AmongStays(D, W, S)
    PROVE  \E c \in [0..Len(l) -> D] :
              /\ c[0] = d /\ Among(l, S) = c[Len(l)]
              /\ \A k \in 1..Len(l) : c[k] = Sieve(c[k - 1], l[k], S)
  <1>. DEFINE n == Len(l)
              F == [p \in D \X W |-> Sieve(p[1], p[2], S)]
              Eq(f) == f = [s \in SUBSET (1..n) |->
                               IF s = {} THEN d ELSE Sieve(f[s \ {Max(s)}], l[Max(s)], S)]
              it == CHOOSE f : Eq(f)
  <1>1. n \in Nat /\ DOMAIN l = 1..n /\ \A k \in 1..n : l[k] \in W
    BY LenProperties, ElementOfSeq
  <1>2. Among(l, S) = it[1..n]
    BY <1>1 DEF Among, Sieve, FoldLeft, MapThenFoldSet
  <1>. HIDE DEF n
  <1>3. \A e \in D, w \in W : F[<<e, w>>] = Sieve(e, w, S)
    OBVIOUS
  <1>. HIDE DEF F
  <1>4. Foldable(D, W, F, d, n, l)
    BY <1>1, <1>3 DEF Foldable, AmongStays
  <1>5. PICK f : IsFold(f, D, F, d, n, l)
    BY <1>4, FoldExists
  <1>6. ASSUME NEW s \in SUBSET (1..n)
        PROVE  f[s] = IF s = {} THEN d ELSE Sieve(f[s \ {Max(s)}], l[Max(s)], S)
    <2>1. s # {} => Max(s) \in 1..n
      BY <1>5 DEF IsFold
    <2>2. s # {} => f[s \ {Max(s)}] \in D /\ l[Max(s)] \in W
      BY <1>1, <1>5, <2>1 DEF IsFold
    <2>. QED BY <1>3, <1>5, <2>2 DEF IsFold
  <1>7. Eq(f)
    BY <1>5, <1>6 DEF IsFold
  <1>8. Eq(it)
    <2>. HIDE DEF Eq
    <2>. QED BY <1>7
  <1>. HIDE DEF it
  <1>9. Follows(it, D, W, F, d, n, l)
    BY <1>1, <1>3, <1>8 DEF Follows
  <1>10. PICK c \in [0..n -> D] :
            /\ c[0] = d /\ it[1..n] = c[n]
            /\ \A k \in 1..n : c[k] = F[<<c[k - 1], l[k]>>]
    BY <1>4, <1>9, FoldChain
  <1>11. ASSUME NEW k \in 1..n PROVE c[k] = Sieve(c[k - 1], l[k], S)
    <2>1. c[k - 1] \in D /\ l[k] \in W
      BY <1>1, <1>10
    <2>. QED BY <1>3, <1>10, <2>1
  <1>. QED BY <1>2, <1>10, <1>11 DEF n

\* TakeBack.
ReclaimAll(d, l, m, r) == FoldLeft(LAMBDA e, w : Reclaim(e, w, m, r), d, l)
ReclaimStays(D, W, m, r) == \A e \in D, w \in W : Reclaim(e, w, m, r) \in D

LEMMA ReclaimFolds ==
    ASSUME NEW D, NEW d \in D, NEW W, NEW l \in Seq(W), NEW m, NEW r,
           ReclaimStays(D, W, m, r)
    PROVE  \E c \in [0..Len(l) -> D] :
              /\ c[0] = d /\ ReclaimAll(d, l, m, r) = c[Len(l)]
              /\ \A k \in 1..Len(l) : c[k] = Reclaim(c[k - 1], l[k], m, r)
  <1>. DEFINE n == Len(l)
              F == [p \in D \X W |-> Reclaim(p[1], p[2], m, r)]
              Eq(f) == f = [s \in SUBSET (1..n) |->
                               IF s = {} THEN d ELSE Reclaim(f[s \ {Max(s)}], l[Max(s)], m, r)]
              it == CHOOSE f : Eq(f)
  <1>1. n \in Nat /\ DOMAIN l = 1..n /\ \A k \in 1..n : l[k] \in W
    BY LenProperties, ElementOfSeq
  <1>2. ReclaimAll(d, l, m, r) = it[1..n]
    BY <1>1 DEF ReclaimAll, FoldLeft, MapThenFoldSet
  <1>. HIDE DEF n
  <1>3. \A e \in D, w \in W : F[<<e, w>>] = Reclaim(e, w, m, r)
    OBVIOUS
  <1>. HIDE DEF F
  <1>4. Foldable(D, W, F, d, n, l)
    BY <1>1, <1>3 DEF Foldable, ReclaimStays
  <1>5. PICK f : IsFold(f, D, F, d, n, l)
    BY <1>4, FoldExists
  <1>6. ASSUME NEW s \in SUBSET (1..n)
        PROVE  f[s] = IF s = {} THEN d ELSE Reclaim(f[s \ {Max(s)}], l[Max(s)], m, r)
    <2>1. s # {} => Max(s) \in 1..n
      BY <1>5 DEF IsFold
    <2>2. s # {} => f[s \ {Max(s)}] \in D /\ l[Max(s)] \in W
      BY <1>1, <1>5, <2>1 DEF IsFold
    <2>. QED BY <1>3, <1>5, <2>2 DEF IsFold
  <1>7. Eq(f)
    BY <1>5, <1>6 DEF IsFold
  <1>8. Eq(it)
    <2>. HIDE DEF Eq
    <2>. QED BY <1>7
  <1>. HIDE DEF it
  <1>9. Follows(it, D, W, F, d, n, l)
    BY <1>1, <1>3, <1>8 DEF Follows
  <1>10. PICK c \in [0..n -> D] :
            /\ c[0] = d /\ it[1..n] = c[n]
            /\ \A k \in 1..n : c[k] = F[<<c[k - 1], l[k]>>]
    BY <1>4, <1>9, FoldChain
  <1>11. ASSUME NEW k \in 1..n PROVE c[k] = Reclaim(c[k - 1], l[k], m, r)
    <2>1. c[k - 1] \in D /\ l[k] \in W
      BY <1>1, <1>10
    <2>. QED BY <1>3, <1>10, <2>1
  <1>. QED BY <1>2, <1>10, <1>11 DEF n

\* Evacuate.
MoveAll(d, l, m) == FoldLeft(LAMBDA e, w : MoveWorkspaceToMonitor(e, w, m), d, l)
MoveStays(D, W, m) == \A e \in D, w \in W : MoveWorkspaceToMonitor(e, w, m) \in D

LEMMA MoveFolds ==
    ASSUME NEW D, NEW d \in D, NEW W, NEW l \in Seq(W), NEW m,
           MoveStays(D, W, m)
    PROVE  \E c \in [0..Len(l) -> D] :
              /\ c[0] = d /\ MoveAll(d, l, m) = c[Len(l)]
              /\ \A k \in 1..Len(l) : c[k] = MoveWorkspaceToMonitor(c[k - 1], l[k], m)
  <1>. DEFINE n == Len(l)
              F == [p \in D \X W |-> MoveWorkspaceToMonitor(p[1], p[2], m)]
              Eq(f) == f = [s \in SUBSET (1..n) |->
                               IF s = {} THEN d ELSE MoveWorkspaceToMonitor(f[s \ {Max(s)}], l[Max(s)], m)]
              it == CHOOSE f : Eq(f)
  <1>1. n \in Nat /\ DOMAIN l = 1..n /\ \A k \in 1..n : l[k] \in W
    BY LenProperties, ElementOfSeq
  <1>2. MoveAll(d, l, m) = it[1..n]
    BY <1>1 DEF MoveAll, FoldLeft, MapThenFoldSet
  <1>. HIDE DEF n
  <1>3. \A e \in D, w \in W : F[<<e, w>>] = MoveWorkspaceToMonitor(e, w, m)
    OBVIOUS
  <1>. HIDE DEF F
  <1>4. Foldable(D, W, F, d, n, l)
    BY <1>1, <1>3 DEF Foldable, MoveStays
  <1>5. PICK f : IsFold(f, D, F, d, n, l)
    BY <1>4, FoldExists
  <1>6. ASSUME NEW s \in SUBSET (1..n)
        PROVE  f[s] = IF s = {} THEN d ELSE MoveWorkspaceToMonitor(f[s \ {Max(s)}], l[Max(s)], m)
    <2>1. s # {} => Max(s) \in 1..n
      BY <1>5 DEF IsFold
    <2>2. s # {} => f[s \ {Max(s)}] \in D /\ l[Max(s)] \in W
      BY <1>1, <1>5, <2>1 DEF IsFold
    <2>. QED BY <1>3, <1>5, <2>2 DEF IsFold
  <1>7. Eq(f)
    BY <1>5, <1>6 DEF IsFold
  <1>8. Eq(it)
    <2>. HIDE DEF Eq
    <2>. QED BY <1>7
  <1>. HIDE DEF it
  <1>9. Follows(it, D, W, F, d, n, l)
    BY <1>1, <1>3, <1>8 DEF Follows
  <1>10. PICK c \in [0..n -> D] :
            /\ c[0] = d /\ it[1..n] = c[n]
            /\ \A k \in 1..n : c[k] = F[<<c[k - 1], l[k]>>]
    BY <1>4, <1>9, FoldChain
  <1>11. ASSUME NEW k \in 1..n PROVE c[k] = MoveWorkspaceToMonitor(c[k - 1], l[k], m)
    <2>1. c[k - 1] \in D /\ l[k] \in W
      BY <1>1, <1>10
    <2>. QED BY <1>3, <1>10, <2>1
  <1>. QED BY <1>2, <1>10, <1>11 DEF n

\* EnsurePersistent.
BringAll(d, l) == FoldLeft(Bring, d, l)
BringStays(D, W) == \A e \in D, w \in W : Bring(e, w) \in D

LEMMA BringFolds ==
    ASSUME NEW D, NEW d \in D, NEW W, NEW l \in Seq(W),
           BringStays(D, W)
    PROVE  \E c \in [0..Len(l) -> D] :
              /\ c[0] = d /\ BringAll(d, l) = c[Len(l)]
              /\ \A k \in 1..Len(l) : c[k] = Bring(c[k - 1], l[k])
  <1>. DEFINE n == Len(l)
              F == [p \in D \X W |-> Bring(p[1], p[2])]
              Eq(f) == f = [s \in SUBSET (1..n) |->
                               IF s = {} THEN d ELSE Bring(f[s \ {Max(s)}], l[Max(s)])]
              it == CHOOSE f : Eq(f)
  <1>1. n \in Nat /\ DOMAIN l = 1..n /\ \A k \in 1..n : l[k] \in W
    BY LenProperties, ElementOfSeq
  <1>2. BringAll(d, l) = it[1..n]
    BY <1>1 DEF BringAll, FoldLeft, MapThenFoldSet
  <1>. HIDE DEF n
  <1>3. \A e \in D, w \in W : F[<<e, w>>] = Bring(e, w)
    OBVIOUS
  <1>. HIDE DEF F
  <1>4. Foldable(D, W, F, d, n, l)
    BY <1>1, <1>3 DEF Foldable, BringStays
  <1>5. PICK f : IsFold(f, D, F, d, n, l)
    BY <1>4, FoldExists
  <1>6. ASSUME NEW s \in SUBSET (1..n)
        PROVE  f[s] = IF s = {} THEN d ELSE Bring(f[s \ {Max(s)}], l[Max(s)])
    <2>1. s # {} => Max(s) \in 1..n
      BY <1>5 DEF IsFold
    <2>2. s # {} => f[s \ {Max(s)}] \in D /\ l[Max(s)] \in W
      BY <1>1, <1>5, <2>1 DEF IsFold
    <2>. QED BY <1>3, <1>5, <2>2 DEF IsFold
  <1>7. Eq(f)
    BY <1>5, <1>6 DEF IsFold
  <1>8. Eq(it)
    <2>. HIDE DEF Eq
    <2>. QED BY <1>7
  <1>. HIDE DEF it
  <1>9. Follows(it, D, W, F, d, n, l)
    BY <1>1, <1>3, <1>8 DEF Follows
  <1>10. PICK c \in [0..n -> D] :
            /\ c[0] = d /\ it[1..n] = c[n]
            /\ \A k \in 1..n : c[k] = F[<<c[k - 1], l[k]>>]
    BY <1>4, <1>9, FoldChain
  <1>11. ASSUME NEW k \in 1..n PROVE c[k] = Bring(c[k - 1], l[k])
    <2>1. c[k - 1] \in D /\ l[k] \in W
      BY <1>1, <1>10
    <2>. QED BY <1>3, <1>10, <2>1
  <1>. QED BY <1>2, <1>10, <1>11 DEF n

\* EnsureAssigned.
AssignAll(d, l) == FoldLeft(Assign, d, l)
AssignStays(D, W) == \A e \in D, w \in W : Assign(e, w) \in D

LEMMA AssignFolds ==
    ASSUME NEW D, NEW d \in D, NEW W, NEW l \in Seq(W),
           AssignStays(D, W)
    PROVE  \E c \in [0..Len(l) -> D] :
              /\ c[0] = d /\ AssignAll(d, l) = c[Len(l)]
              /\ \A k \in 1..Len(l) : c[k] = Assign(c[k - 1], l[k])
  <1>. DEFINE n == Len(l)
              F == [p \in D \X W |-> Assign(p[1], p[2])]
              Eq(f) == f = [s \in SUBSET (1..n) |->
                               IF s = {} THEN d ELSE Assign(f[s \ {Max(s)}], l[Max(s)])]
              it == CHOOSE f : Eq(f)
  <1>1. n \in Nat /\ DOMAIN l = 1..n /\ \A k \in 1..n : l[k] \in W
    BY LenProperties, ElementOfSeq
  <1>2. AssignAll(d, l) = it[1..n]
    BY <1>1 DEF AssignAll, FoldLeft, MapThenFoldSet
  <1>. HIDE DEF n
  <1>3. \A e \in D, w \in W : F[<<e, w>>] = Assign(e, w)
    OBVIOUS
  <1>. HIDE DEF F
  <1>4. Foldable(D, W, F, d, n, l)
    BY <1>1, <1>3 DEF Foldable, AssignStays
  <1>5. PICK f : IsFold(f, D, F, d, n, l)
    BY <1>4, FoldExists
  <1>6. ASSUME NEW s \in SUBSET (1..n)
        PROVE  f[s] = IF s = {} THEN d ELSE Assign(f[s \ {Max(s)}], l[Max(s)])
    <2>1. s # {} => Max(s) \in 1..n
      BY <1>5 DEF IsFold
    <2>2. s # {} => f[s \ {Max(s)}] \in D /\ l[Max(s)] \in W
      BY <1>1, <1>5, <2>1 DEF IsFold
    <2>. QED BY <1>3, <1>5, <2>2 DEF IsFold
  <1>7. Eq(f)
    BY <1>5, <1>6 DEF IsFold
  <1>8. Eq(it)
    <2>. HIDE DEF Eq
    <2>. QED BY <1>7
  <1>. HIDE DEF it
  <1>9. Follows(it, D, W, F, d, n, l)
    BY <1>1, <1>3, <1>8 DEF Follows
  <1>10. PICK c \in [0..n -> D] :
            /\ c[0] = d /\ it[1..n] = c[n]
            /\ \A k \in 1..n : c[k] = F[<<c[k - 1], l[k]>>]
    BY <1>4, <1>9, FoldChain
  <1>11. ASSUME NEW k \in 1..n PROVE c[k] = Assign(c[k - 1], l[k])
    <2>1. c[k - 1] \in D /\ l[k] \in W
      BY <1>1, <1>10
    <2>. QED BY <1>3, <1>10, <2>1
  <1>. QED BY <1>2, <1>10, <1>11 DEF n

\* RunLater.
CallAll(d, l) == FoldLeft(Call, d, l)
CallStays(D, W) == \A e \in D, w \in W : Call(e, w) \in D

LEMMA CallFolds ==
    ASSUME NEW D, NEW d \in D, NEW W, NEW l \in Seq(W),
           CallStays(D, W)
    PROVE  \E c \in [0..Len(l) -> D] :
              /\ c[0] = d /\ CallAll(d, l) = c[Len(l)]
              /\ \A k \in 1..Len(l) : c[k] = Call(c[k - 1], l[k])
  <1>. DEFINE n == Len(l)
              F == [p \in D \X W |-> Call(p[1], p[2])]
              Eq(f) == f = [s \in SUBSET (1..n) |->
                               IF s = {} THEN d ELSE Call(f[s \ {Max(s)}], l[Max(s)])]
              it == CHOOSE f : Eq(f)
  <1>1. n \in Nat /\ DOMAIN l = 1..n /\ \A k \in 1..n : l[k] \in W
    BY LenProperties, ElementOfSeq
  <1>2. CallAll(d, l) = it[1..n]
    BY <1>1 DEF CallAll, FoldLeft, MapThenFoldSet
  <1>. HIDE DEF n
  <1>3. \A e \in D, w \in W : F[<<e, w>>] = Call(e, w)
    OBVIOUS
  <1>. HIDE DEF F
  <1>4. Foldable(D, W, F, d, n, l)
    BY <1>1, <1>3 DEF Foldable, CallStays
  <1>5. PICK f : IsFold(f, D, F, d, n, l)
    BY <1>4, FoldExists
  <1>6. ASSUME NEW s \in SUBSET (1..n)
        PROVE  f[s] = IF s = {} THEN d ELSE Call(f[s \ {Max(s)}], l[Max(s)])
    <2>1. s # {} => Max(s) \in 1..n
      BY <1>5 DEF IsFold
    <2>2. s # {} => f[s \ {Max(s)}] \in D /\ l[Max(s)] \in W
      BY <1>1, <1>5, <2>1 DEF IsFold
    <2>. QED BY <1>3, <1>5, <2>2 DEF IsFold
  <1>7. Eq(f)
    BY <1>5, <1>6 DEF IsFold
  <1>8. Eq(it)
    <2>. HIDE DEF Eq
    <2>. QED BY <1>7
  <1>. HIDE DEF it
  <1>9. Follows(it, D, W, F, d, n, l)
    BY <1>1, <1>3, <1>8 DEF Follows
  <1>10. PICK c \in [0..n -> D] :
            /\ c[0] = d /\ it[1..n] = c[n]
            /\ \A k \in 1..n : c[k] = F[<<c[k - 1], l[k]>>]
    BY <1>4, <1>9, FoldChain
  <1>11. ASSUME NEW k \in 1..n PROVE c[k] = Call(c[k - 1], l[k])
    <2>1. c[k - 1] \in D /\ l[k] \in W
      BY <1>1, <1>10
    <2>. QED BY <1>3, <1>10, <2>1
  <1>. QED BY <1>2, <1>10, <1>11 DEF n

-----------------------------------------------------------------------------
(* Lists *)

\* What a list holds, in the terms the provers use.
LEMMA InRange ==
    ASSUME NEW W, NEW l \in Seq(W)
    PROVE  /\ Range(l) \subseteq W /\ Len(l) \in Nat
           /\ \A w : w \in Range(l) <=> \E k \in 1..Len(l) : l[k] = w
           /\ \A k \in 1..Len(l) : l[k] \in Range(l) /\ l[k] \in W
  BY LenProperties, ElementOfSeq DEF Range

LEMMA RangeAppend ==
    ASSUME NEW W, NEW l \in Seq(W), NEW x \in W
    PROVE  /\ Append(l, x) \in Seq(W) /\ Append(l, x) # <<>>
           /\ Range(Append(l, x)) = Range(l) \cup {x}
           /\ IsInjective(l) /\ x \notin Range(l) => IsInjective(Append(l, x))
  <1>. DEFINE n == Len(l)
              a == Append(l, x)
  <1>1. /\ n \in Nat /\ DOMAIN l = 1..n /\ a \in Seq(W) /\ Len(a) = n + 1
        /\ DOMAIN a = 1..(n + 1) /\ a[n + 1] = x /\ \A k \in 1..n : a[k] = l[k]
    BY LenProperties, AppendProperties
  <1>. HIDE DEF n, a
  <1>2. a # <<>>
    <2>1. Len(<<>>) = 0
      BY EmptySeq
    <2>. QED BY <1>1, <2>1
  <1>3. Range(a) = Range(l) \cup {x}
    <2>1. \A w : w \in Range(a) => w \in Range(l) \cup {x}
      BY <1>1 DEF Range
    <2>2. \A w \in Range(l) \cup {x} : w \in Range(a)
      BY <1>1 DEF Range
    <2>. QED BY <2>1, <2>2, Zenon
  <1>4. ASSUME IsInjective(l), x \notin Range(l) PROVE IsInjective(a)
    <2>1. \A k \in 1..n : l[k] # x
      BY <1>1, <1>4 DEF Range
    <2>. QED BY <1>1, <1>4, <2>1 DEF IsInjective
  <1>. QED BY <1>1, <1>2, <1>3, <1>4 DEF a

\* Among keeps what is in the set, and no list becomes one with repetitions.
LEMMA AmongIs ==
    ASSUME NEW W, NEW l \in Seq(W), NEW S
    PROVE  /\ Among(l, S) \in Seq(W)
           /\ Range(Among(l, S)) = Range(l) \cap S
           /\ IsInjective(l) => IsInjective(Among(l, S))
  <1>. DEFINE n == Len(l)
              Upto(k) == {l[j] : j \in 1..k} \cap S
  <1>1. n \in Nat /\ DOMAIN l = 1..n /\ \A k \in 1..n : l[k] \in W
    BY LenProperties, ElementOfSeq
  <1>2. PICK c \in [0..n -> Seq(W)] :
              /\ c[0] = <<>> /\ Among(l, S) = c[n]
              /\ \A k \in 1..n :
                    c[k] = Sieve(c[k - 1], l[k], S)
    <2>1. <<>> \in Seq(W)
      BY EmptySeq
    <2>. DEFINE nil == <<>>
                D == Seq(W)
    <2>2. nil \in D /\ nil = <<>> /\ AmongStays(D, W, S)
      BY <2>1, AppendProperties DEF Sieve, AmongStays
    <2>. HIDE DEF nil, D
    <2>3. \E c \in [0..Len(l) -> D] :
              /\ c[0] = nil /\ Among(l, S) = c[Len(l)]
              /\ \A k \in 1..Len(l) : c[k] = Sieve(c[k - 1], l[k], S)
      <3>. HIDE DEF n, Upto
      <3>. QED BY <2>2, AmongFolds
    <2>. QED BY <2>3 DEF nil, D
  <1>. DEFINE Good == {k \in 0..n : /\ Range(c[k]) = Upto(k)
                                    /\ IsInjective(l) => IsInjective(c[k])}
  <1>3. 0 \in Good
    <2>1. Range(<<>>) = {} /\ IsInjective(<<>>)
      BY DEF Range, IsInjective
    <2>2. Upto(0) = {} /\ 0 \in 0..n
      BY <1>1
    <2>. HIDE DEF Upto
    <2>. QED BY <1>2, <2>1, <2>2
  <1>4. ASSUME NEW k \in 1..n, k - 1 \in Good PROVE k \in Good
    <2>1. k - 1 \in 0..n /\ k \in 0..n /\ c[k - 1] \in Seq(W) /\ l[k] \in W
      BY <1>1, <1>2
    <2>2. /\ Range(c[k - 1]) = Upto(k - 1)
          /\ IsInjective(l) => IsInjective(c[k - 1])
      BY <1>4
    <2>3. Upto(k) = Upto(k - 1) \cup ({l[k]} \cap S)
      <3>1. \A j : j \in 1..k <=> j \in 1..(k - 1) \/ j = k
        BY <1>1
      <3>. QED BY <3>1, Zenon
    <2>4. IsInjective(l) => l[k] \notin Upto(k - 1)
      BY <1>1 DEF IsInjective
    <2>. HIDE DEF Upto
    <2>5. CASE l[k] \in S
      <3>1. c[k] = Append(c[k - 1], l[k])
        BY <1>2, <2>5 DEF Sieve
      <3>2. /\ Range(c[k]) = Range(c[k - 1]) \cup {l[k]}
            /\ IsInjective(c[k - 1]) /\ l[k] \notin Range(c[k - 1]) => IsInjective(c[k])
        BY <2>1, <3>1, RangeAppend
      <3>3. Range(c[k]) = Upto(k)
        BY <2>2, <2>3, <2>5, <3>2
      <3>4. IsInjective(l) => IsInjective(c[k])
        BY <2>2, <2>4, <3>2
      <3>. QED BY <2>1, <3>3, <3>4
    <2>6. CASE l[k] \notin S
      <3>1. c[k] = c[k - 1] /\ Upto(k) = Upto(k - 1)
        BY <1>2, <2>3, <2>6 DEF Sieve
      <3>. QED BY <2>1, <2>2, <3>1
    <2>. QED BY <2>5, <2>6
  <1>. HIDE DEF Good
  <1>5. \A k \in 0..n : k \in Good
    BY <1>1, <1>3, <1>4, Induction
  <1>6. Upto(n) = Range(l) \cap S
    BY <1>1 DEF Range
  <1>7. n \in Good
    BY <1>1, <1>5
  <1>. QED BY <1>2, <1>6, <1>7 DEF Good

\* The first element of a list that is not empty is in it.
LEMMA HeadInRange ==
    ASSUME NEW W, NEW l \in Seq(W), l # <<>>
    PROVE  Head(l) \in Range(l)
  <1>1. Len(l) \in Nat \ {0} /\ DOMAIN l = 1..Len(l)
    BY LenProperties, EmptySeq
  <1>2. Head(l) = l[1] /\ 1 \in DOMAIN l
    BY <1>1
  <1>. QED BY <1>2 DEF Range

-----------------------------------------------------------------------------
(* What is proved of a desk *)

\* The ids are not used up by what any list of workspaces holds: some number
\* without a rule is left.
EnoughIds == \A list \in Seq(Ws) : \E i \in Ids \ Range(list) : Rule[i] = None

\* EnoughIds is what ids without an end give: the rules of a configuration, and
\* the workspaces that exist, use up only so many of them.
LEMMA EndlessIdsAreEnough ==
    ASSUME Ids = Nat \ {0}, NEW last \in Nat, \A i \in Ids : Rule[i] # None => i <= last
    PROVE  EnoughIds
  <1>1. SUFFICES ASSUME NEW list \in Seq(Ws), (last + 1)..(last + Len(list) + 1) \subseteq Range(list)
                 PROVE  FALSE
    <2>1. ASSUME NEW list \in Seq(Ws),
                 NEW i \in (last + 1)..(last + Len(list) + 1), i \notin Range(list)
          PROVE  i \in Ids \ Range(list) /\ Rule[i] = None
      BY <2>1, LenProperties
    <2>. QED BY <2>1 DEF EnoughIds
  <1>. DEFINE n == Len(list)
              R == Range(list)
              N == (last + 1)..(last + n + 1)
  <1>2. n \in Nat /\ list \in Surjection(1..n, R)
    <2>1. n \in Nat /\ DOMAIN list = 1..n /\ list \in [1..n -> Ws]
      BY LenProperties
    <2>2. list = [k \in 1..n |-> list[k]] /\ R = {list[k] : k \in 1..n}
      BY <2>1 DEF Range
    <2>. HIDE DEF R, n
    <2>3. list \in [1..n -> R]
      BY <2>2
    <2>. QED BY <2>1, <2>2, <2>3 DEF Surjection
  <1>. HIDE DEF n, R
  <1>3. /\ IsFiniteSet(1..n) /\ Cardinality(1..n) = n
        /\ IsFiniteSet(N) /\ Cardinality(N) = n + 1
    BY <1>2, FS_Interval
  <1>. HIDE DEF N
  <1>4. IsFiniteSet(R) /\ Cardinality(R) <= n /\ Cardinality(R) \in Nat
    BY <1>2, <1>3, FS_Surjection, FS_CardinalityType
  <1>5. N \in SUBSET R
    BY <1>1 DEF N, n, R
  <1>6. Cardinality(N) <= Cardinality(R)
    BY <1>4, <1>5, FS_Subset
  <1>. QED BY <1>2, <1>3, <1>4, <1>6

\* A desk of the right type; the windows are on workspaces that exist, and
\* what is persistent has a persistent rule.
Sound(d) ==
    /\ d \in Desks /\ IsInjective(d.monitors) /\ IsInjective(d.list)
    /\ d.windows \subseteq Range(d.list)
    /\ d.persistent \subseteq Range(Persistent)

\* m shows w.
SeenAt(d, w, m) == d.active[m] = w \/ d.special[m] = w

\* VisibleIsShown without the focus, for the monitors E: in the middle of a
\* handler these are not yet, or not any more, the enabled ones.
Shows(d, E) ==
    /\ E \subseteq Mons
    /\ \A m \in E : Exists(d, d.active[m]) /\ d.owner[d.active[m]] = m
    /\ \A m \in Mons : d.special[m] # None =>
                          m \in E /\ Exists(d, Special) /\ d.owner[Special] = m
    /\ \A m \in Mons \ E : d.active[m] = None
    /\ \A w \in Ws : w \in d.visible <=> d.owner[w] \in E /\ SeenAt(d, w, d.owner[w])

\* What no handler changes that only rearranges the screens.
Outline(d, e) ==
    /\ e.monitors = d.monitors /\ e.windows = d.windows /\ e.seen = d.seen
    /\ e.wanted = d.wanted /\ e.later = d.later

\* The workspaces whose tags are followed: those with windows that no rule made
\* some monitor's default.
Tracked(d) == d.windows \ Range(Default)

\* The same tags are there.
Tags(d, e) == \A v \in Tracked(d) : e.last[v] = d.last[v]

\* The tags for the monitors that are not of E are still there.
Keeps(d, e, E) ==
    \A v \in Tracked(d) : d.last[v] \notin E \cup {None} => e.last[v] = d.last[v]

\* What most of them leave alone.
Frame(d, e) == Outline(d, e) /\ Tags(d, e)

LEMMA FrameKeeps ==
    ASSUME NEW d, NEW e, NEW E, Frame(d, e)
    PROVE  Outline(d, e) /\ Keeps(d, e, E)
  BY DEF Frame, Tags, Keeps

\* What keeps a workspace alive.
Kept(d) == d.windows \cup d.persistent \cup Range(d.active) \cup Range(d.special)

LEMMA ConstantTypes ==
    /\ None \notin Mons /\ None \notin Ws /\ Special \notin Ids /\ Special \in Ws
    /\ Ids \subseteq Ws /\ Ids \subseteq Nat /\ Fallback \in Mons /\ Fallback \notin Real
    /\ \A w \in Ids : Rule[w] \in Real \cup {None}
    /\ \A m \in Real : Default[m] \in Ids \cup {None}
    /\ Range(Persistent) \subseteq Ids /\ Real \subseteq Mons
  <1>1. Range(Persistent) \subseteq {w \in Ids : Rule[w] # None}
    BY WorkspacesAssumption, InRange
  <1>. QED BY <1>1, WorkspacesAssumption DEF Mons, Ws

\* Prune drops workspaces nothing refers to and changes nothing else.
LEMMA PruneFields ==
    ASSUME NEW d \in Desks, d.windows \subseteq Range(d.list)
    PROVE  /\ Prune(d) \in Desks /\ Frame(d, Prune(d))
           /\ Prune(d).active = d.active /\ Prune(d).special = d.special
           /\ Prune(d).focus = d.focus /\ Prune(d).persistent = d.persistent
           /\ Range(Prune(d).list) = Range(d.list) \cap Kept(d)
           /\ IsInjective(d.list) => IsInjective(Prune(d).list)
           /\ \A w \in Ws : Prune(d).owner[w] = IF Exists(Prune(d), w) THEN d.owner[w] ELSE None
           /\ \A w \in Ws : w \in Prune(d).visible <=> w \in d.visible /\ Exists(Prune(d), w)
  <1>. DEFINE K == Kept(d)
              l == Among(d.list, K)
              o == [w \in Ws |-> IF ~ (Exists(d, w) /\ w \in K) THEN None ELSE d.owner[w]]
              s == [w \in Ws |-> IF ~ (Exists(d, w) /\ w \in K) THEN None ELSE d.last[w]]
              v == {w \in d.visible : ~ ~ (Exists(d, w) /\ w \in K)}
  <1>1. Prune(d) = [d EXCEPT !.list = l, !.owner = o, !.last = s, !.visible = v]
    BY DEF Prune, Kept
  <1>2. /\ l \in Seq(Ws) /\ Range(l) = Range(d.list) \cap K
        /\ IsInjective(d.list) => IsInjective(l)
    BY AmongIs DEF Desks
  <1>3. /\ o \in [Ws -> Mons \cup {None}] /\ s \in [Ws -> Mons \cup {None}]
        /\ v \in SUBSET Ws
    BY DEF Desks
  <1>4. \A w \in Ws : /\ o[w] = IF w \in Range(l) THEN d.owner[w] ELSE None
                      /\ w \in v <=> w \in d.visible /\ w \in Range(l)
    BY <1>2 DEF Exists
  <1>7. \A w \in Tracked(d) : s[w] = d.last[w]
    BY DEF Tracked, Exists, Kept, Desks
  <1>. HIDE DEF K, l, o, s, v
  <1>5. Prune(d) \in Desks
    BY <1>1, <1>2, <1>3 DEF Desks
  <1>6. /\ Prune(d).list = l /\ Prune(d).owner = o /\ Prune(d).visible = v
        /\ Prune(d).active = d.active /\ Prune(d).special = d.special
        /\ Prune(d).focus = d.focus /\ Prune(d).persistent = d.persistent
        /\ Frame(d, Prune(d))
    BY <1>1, <1>7 DEF Desks, Frame, Outline, Tags, Tracked
  <1>. QED BY <1>2, <1>4, <1>5, <1>6 DEF K, Exists

\* Who shows a workspace owns it, is one of E, and the workspace exists.
LEMMA SeenIsOwned ==
    ASSUME NEW d \in Desks, NEW E, Shows(d, E), NEW m \in Mons, NEW w \in Ws,
           SeenAt(d, w, m)
    PROVE  m \in E /\ Exists(d, w) /\ d.owner[w] = m /\ w \in d.visible
  <1>. w # None /\ (d.special[m] = w => w = Special)
    BY ConstantTypes DEF Desks
  <1>. QED BY DEF Shows, SeenAt

LEMMA PruneKeeps ==
    ASSUME NEW d, NEW E, Sound(d), Shows(d, E)
    PROVE  Sound(Prune(d)) /\ Shows(Prune(d), E)
  <1>. DEFINE p == Prune(d)
  <1>0. d \in Desks /\ d.windows \subseteq Range(d.list)
    BY DEF Sound
  <1>1. /\ p \in Desks /\ Frame(d, p)
        /\ p.active = d.active /\ p.special = d.special
        /\ p.focus = d.focus /\ p.persistent = d.persistent
        /\ Range(p.list) = Range(d.list) \cap Kept(d)
        /\ IsInjective(d.list) => IsInjective(p.list)
        /\ \A w \in Ws : p.owner[w] = IF Exists(p, w) THEN d.owner[w] ELSE None
        /\ \A w \in Ws : w \in p.visible <=> w \in d.visible /\ Exists(p, w)
    BY <1>0, PruneFields
  <1>. HIDE DEF p
  <1>2. Sound(p)
    BY <1>1 DEF Sound, Kept, Frame, Outline
  <1>3. ASSUME NEW m \in Mons, NEW w \in Ws, SeenAt(d, w, m) PROVE Exists(p, w)
    <2>1. Exists(d, w)
      BY <1>0, <1>3, SeenIsOwned
    <2>2. w \in Range(d.active) \cup Range(d.special)
      BY <1>0, <1>3 DEF SeenAt, Range, Desks
    <2>. QED BY <1>1, <2>1, <2>2 DEF Exists, Kept
  <1>4. ASSUME NEW m \in E PROVE Exists(p, p.active[m]) /\ p.owner[p.active[m]] = m
    <2>1. /\ m \in Mons /\ d.active[m] \in Ws /\ SeenAt(d, d.active[m], m)
          /\ d.owner[d.active[m]] = m
      BY <1>0, <1>4, InRange DEF Shows, SeenAt, Exists, Desks
    <2>. QED BY <1>1, <1>3, <2>1
  <1>5. ASSUME NEW m \in Mons, p.special[m] # None
        PROVE  m \in E /\ Exists(p, Special) /\ p.owner[Special] = m
    <2>1. Special \in Ws /\ SeenAt(d, Special, m) /\ d.owner[Special] = m /\ m \in E
      BY <1>0, <1>1, <1>5, ConstantTypes DEF SeenAt, Desks, Shows
    <2>. QED BY <1>1, <1>3, <2>1
  <1>6. ASSUME NEW w \in Ws
        PROVE  w \in p.visible <=> p.owner[w] \in E /\ SeenAt(p, w, p.owner[w])
    <2>1. d.owner[w] \in E /\ SeenAt(d, w, d.owner[w]) => Exists(p, w)
      BY <1>3 DEF Shows
    <2>2. None \notin E
      BY ConstantTypes DEF Shows
    <2>. QED BY <1>1, <2>1, <2>2 DEF Shows, SeenAt
  <1>. QED BY <1>1, <1>2, <1>4, <1>5, <1>6 DEF Shows, p

LEMMA NewFields ==
    ASSUME NEW d \in Desks, NEW w \in Ws, NEW m \in Mons
    PROVE  /\ New(d, w, m) \in Desks /\ Frame(d, New(d, w, m))
           /\ New(d, w, m).list = Append(d.list, w)
           /\ New(d, w, m).owner = [d.owner EXCEPT ![w] = m]
           /\ New(d, w, m).active = d.active /\ New(d, w, m).special = d.special
           /\ New(d, w, m).visible = d.visible /\ New(d, w, m).focus = d.focus
           /\ New(d, w, m).persistent = d.persistent \cup ({w} \cap Range(Persistent))
  <1>. DEFINE l == Append(d.list, w)
              o == [d.owner EXCEPT ![w] = m]
              p == d.persistent \cup ({w} \cap Range(Persistent))
  <1>1. l \in Seq(Ws) /\ o \in [Ws -> Mons \cup {None}]
    BY RangeAppend DEF Desks
  <1>2. p \in SUBSET Ids
    BY ConstantTypes DEF Desks
  <1>3. New(d, w, m) = [d EXCEPT !.list = l, !.owner = o, !.persistent = p]
    BY DEF New, Desks
  <1>. HIDE DEF l, o, p
  <1>4. New(d, w, m) \in Desks
    BY <1>1, <1>2, <1>3 DEF Desks
  <1>5. /\ New(d, w, m).list = l /\ New(d, w, m).owner = o
        /\ New(d, w, m).persistent = p
        /\ New(d, w, m).active = d.active /\ New(d, w, m).special = d.special
        /\ New(d, w, m).visible = d.visible /\ New(d, w, m).focus = d.focus
        /\ Frame(d, New(d, w, m))
    BY <1>3 DEF Desks, Frame, Outline, Tags, Tracked
  <1>. QED BY <1>4, <1>5 DEF l, o, p

\* A new workspace is not seen anywhere.
LEMMA NewKeeps ==
    ASSUME NEW d, NEW E, Sound(d), Shows(d, E), NEW w \in Ws, ~ Exists(d, w),
           NEW m \in Mons
    PROVE  /\ Sound(New(d, w, m)) /\ Shows(New(d, w, m), E) /\ Frame(d, New(d, w, m))
           /\ Range(New(d, w, m).list) = Range(d.list) \cup {w}
           /\ New(d, w, m).owner = [d.owner EXCEPT ![w] = m]
           /\ New(d, w, m).focus = d.focus
           /\ New(d, w, m).active = d.active /\ New(d, w, m).special = d.special
  <1>. DEFINE p == New(d, w, m)
  <1>0. d \in Desks /\ d.list \in Seq(Ws)
    BY DEF Sound, Desks
  <1>1. /\ p \in Desks /\ Frame(d, p) /\ p.list = Append(d.list, w)
        /\ p.owner = [d.owner EXCEPT ![w] = m]
        /\ p.active = d.active /\ p.special = d.special
        /\ p.visible = d.visible /\ p.focus = d.focus
        /\ p.persistent = d.persistent \cup ({w} \cap Range(Persistent))
    BY <1>0, NewFields
  <1>. HIDE DEF p
  <1>2. Range(p.list) = Range(d.list) \cup {w} /\ IsInjective(p.list)
    BY <1>0, <1>1, RangeAppend DEF Sound, Exists
  <1>3. Sound(p)
    BY <1>1, <1>2 DEF Sound, Frame, Outline
  <1>4. ASSUME NEW n \in Mons PROVE ~ SeenAt(d, w, n)
    BY <1>0, SeenIsOwned
  <1>5. d.owner \in [Ws -> Mons \cup {None}]
    BY <1>0 DEF Desks
  <1>6. Shows(p, E)
    <2>1. ASSUME NEW n \in E PROVE Exists(p, p.active[n]) /\ p.owner[p.active[n]] = n
      <3>1. /\ n \in Mons /\ d.active[n] \in Ws /\ d.owner[d.active[n]] = n
            /\ Exists(d, d.active[n])
        BY <1>0, <2>1, InRange DEF Shows, Exists
      <3>2. d.active[n] # w
        BY <1>4, <3>1 DEF SeenAt
      <3>. QED BY <1>1, <1>2, <1>5, <3>1, <3>2 DEF Exists
    <2>2. ASSUME NEW n \in Mons, p.special[n] # None
          PROVE  n \in E /\ Exists(p, Special) /\ p.owner[Special] = n
      BY <1>1, <1>2, <1>5, <2>2 DEF Shows, Exists
    <2>3. ASSUME NEW v \in Ws
          PROVE  v \in p.visible <=> p.owner[v] \in E /\ SeenAt(p, v, p.owner[v])
      BY <1>1, <1>4, <1>5, ConstantTypes DEF Shows, SeenAt
    <2>. QED BY <1>1, <2>1, <2>2, <2>3 DEF Shows
  <1>. QED BY <1>1, <1>2, <1>3, <1>6 DEF p

LEMMA ChangeFields ==
    ASSUME NEW d \in Desks, NEW m \in Mons, NEW w \in Ids
    PROVE  /\ ChangeWorkspace(d, m, w) \in Desks /\ Frame(d, ChangeWorkspace(d, m, w))
           /\ ChangeWorkspace(d, m, w).list = d.list
           /\ ChangeWorkspace(d, m, w).owner = d.owner
           /\ ChangeWorkspace(d, m, w).active = [d.active EXCEPT ![m] = w]
           /\ ChangeWorkspace(d, m, w).special = d.special
           /\ ChangeWorkspace(d, m, w).focus = d.focus
           /\ ChangeWorkspace(d, m, w).persistent = d.persistent
           /\ w # d.active[m] =>
                ChangeWorkspace(d, m, w).visible = (d.visible \ {d.active[m]}) \cup {w}
  <1>. DEFINE c == ChangeWorkspace(d, m, w)
              a == [d.active EXCEPT ![m] = w]
              v == (d.visible \ {d.active[m]}) \cup {w}
  <1>1. a \in [Mons -> Ids \cup {None}] /\ v \in SUBSET Ws
    BY ConstantTypes DEF Desks
  <1>2. CASE w = d.active[m]
    <2>1. c = d /\ a = d.active
      BY <1>2 DEF ChangeWorkspace, Desks
    <2>. QED BY <1>2, <2>1 DEF Frame, Outline, Tags, Tracked
  <1>3. CASE w # d.active[m]
    <2>1. c = [d EXCEPT !.active = a, !.visible = v]
      BY <1>3 DEF ChangeWorkspace, Desks
    <2>. HIDE DEF a, v
    <2>2. c \in Desks
      BY <1>1, <2>1 DEF Desks
    <2>3. /\ c.active = a /\ c.visible = v /\ Frame(d, c)
          /\ c.list = d.list /\ c.owner = d.owner /\ c.special = d.special
          /\ c.focus = d.focus /\ c.persistent = d.persistent
      BY <2>1 DEF Desks, Frame, Outline, Tags, Tracked
    <2>. QED BY <2>2, <2>3 DEF a, v
  <1>. QED BY <1>2, <1>3

\* A monitor may show any of its own workspaces.
LEMMA ChangeKeeps ==
    ASSUME NEW d, NEW E, Sound(d), Shows(d, E), NEW m \in E, NEW w \in Ids,
           Exists(d, w), d.owner[w] = m
    PROVE  /\ Sound(ChangeWorkspace(d, m, w)) /\ Shows(ChangeWorkspace(d, m, w), E)
           /\ Frame(d, ChangeWorkspace(d, m, w))
           /\ ChangeWorkspace(d, m, w).list = d.list
           /\ ChangeWorkspace(d, m, w).owner = d.owner
           /\ ChangeWorkspace(d, m, w).focus = d.focus
           /\ ChangeWorkspace(d, m, w).special = d.special
           /\ ChangeWorkspace(d, m, w).active = [d.active EXCEPT ![m] = w]
  <1>. DEFINE p == ChangeWorkspace(d, m, w)
  <1>0. d \in Desks /\ m \in Mons /\ w \in Ws /\ w # Special
    BY ConstantTypes DEF Sound, Shows
  <1>1. /\ p \in Desks /\ Frame(d, p) /\ p.list = d.list /\ p.owner = d.owner
        /\ p.active = [d.active EXCEPT ![m] = w] /\ p.special = d.special
        /\ p.focus = d.focus /\ p.persistent = d.persistent
        /\ w # d.active[m] => p.visible = (d.visible \ {d.active[m]}) \cup {w}
    BY <1>0, ChangeFields
  <1>2. w = d.active[m] => p = d
    BY DEF ChangeWorkspace
  <1>. HIDE DEF p
  <1>3. Sound(p)
    BY <1>1 DEF Sound, Frame, Outline
  <1>4. d.active \in [Mons -> Ids \cup {None}] /\ d.special \in [Mons -> {Special, None}]
        /\ d.owner \in [Ws -> Mons \cup {None}]
    BY <1>0 DEF Desks
  <1>5. Shows(p, E)
    <2>1. CASE w = d.active[m]
      BY <1>2, <2>1
    <2>2. CASE w # d.active[m]
      <3>1. ASSUME NEW n \in E PROVE Exists(p, p.active[n]) /\ p.owner[p.active[n]] = n
        BY <1>0, <1>1, <1>4 DEF Shows, Exists
      <3>2. ASSUME NEW n \in Mons, p.special[n] # None
            PROVE  n \in E /\ Exists(p, Special) /\ p.owner[Special] = n
        BY <1>1, <3>2 DEF Shows, Exists
      <3>3. ASSUME NEW n \in Mons \ E PROVE p.active[n] = None
        BY <1>1, <1>4 DEF Shows
      <3>4. ASSUME NEW v \in Ws
            PROVE  v \in p.visible <=> p.owner[v] \in E /\ SeenAt(p, v, p.owner[v])
        <4>1. d.active[m] \in Ids /\ d.owner[d.active[m]] = m
          BY <1>0, <1>4, InRange, ConstantTypes DEF Shows, Exists, Desks
        <4>2. CASE v = w
          BY <1>0, <1>1, <1>4, <2>2, <4>2 DEF SeenAt
        <4>3. CASE v = d.active[m]
          BY <1>0, <1>1, <1>4, <2>2, <4>1, <4>3, ConstantTypes DEF SeenAt
        <4>4. CASE v # w /\ v # d.active[m]
          BY <1>0, <1>1, <1>4, <2>2, <4>4 DEF SeenAt, Shows
        <4>. QED BY <4>2, <4>3, <4>4
      <3>. QED BY <1>1, <3>1, <3>2, <3>3, <3>4 DEF Shows
    <2>. QED BY <2>1, <2>2
  <1>. QED BY <1>1, <1>3, <1>5 DEF p

\* Of a list that is longer, the owners of what is there do not change; what is
\* new was made on m, and no rule wants it elsewhere.
Gains(d, e, m) ==
    /\ Range(d.list) \subseteq Range(e.list)
    /\ \A x \in Range(e.list) \ Range(d.list) :
          x \in Ids /\ e.owner[x] = m /\ (Rule[x] \in Enabled(d) => Rule[x] = m)

\* A non-empty set of ids has a lowest one.
LEMMA LowestIs ==
    ASSUME NEW S \in SUBSET Ids, S # {}
    PROVE  Lowest(S) \in S
  <1>1. \E i \in S : \A j \in S : i <= j
    BY LeastNat, ConstantTypes
  <1>. QED BY <1>1 DEF Lowest

\* Plug shows another workspace on m, one of its own or a new one.
LEMMA PlugKeeps ==
    ASSUME EnoughIds, NEW d, NEW E, Sound(d), Shows(d, E), NEW m \in E,
           NEW w \in Ids, Exists(d, w)
    PROVE  LET e == Plug(d, m, w)
           IN  /\ Sound(e) /\ Shows(e, E) /\ Frame(d, e) /\ Gains(d, e, m)
               /\ \A v \in Range(d.list) : e.owner[v] = d.owner[v]
               /\ e.focus = d.focus /\ e.special = d.special
               /\ e.active[m] # w
               /\ \A n \in Mons \ {m} : e.active[n] = d.active[n]
  <1>. DEFINE mine == {v \in Ids \ {w} : d.owner[v] = m}
              rest == Among(d.list, mine)
              frees == {i \in Ids : ~ Exists(d, i) /\ (Rule[i] \in Enabled(d) => Rule[i] = m)}
              free == Lowest(frees)
              e == Plug(d, m, w)
  <1>0. d \in Desks /\ d.list \in Seq(Ws) /\ m \in Mons /\ d.active \in [Mons -> Ids \cup {None}]
        /\ d.owner \in [Ws -> Mons \cup {None}] /\ Ids \subseteq Ws
    BY ConstantTypes DEF Sound, Desks, Shows
  <1>1. CASE rest # <<>>
    <2>1. rest \in Seq(Ws) /\ Range(rest) = Range(d.list) \cap mine
      BY <1>0, AmongIs
    <2>. DEFINE y == Head(rest)
    <2>. HIDE DEF rest
    <2>2. y \in Range(d.list) /\ y \in mine
      BY <1>1, <2>1, HeadInRange
    <2>. HIDE DEF y
    <2>3. y \in Ids /\ y # w /\ Exists(d, y) /\ d.owner[y] = m
      BY <2>2 DEF Exists
    <2>4. e = ChangeWorkspace(d, m, y)
      BY <1>1 DEF Plug, rest, y
    <2>5. /\ Sound(e) /\ Shows(e, E) /\ Frame(d, e) /\ e.list = d.list
          /\ e.owner = d.owner /\ e.focus = d.focus /\ e.special = d.special
          /\ e.active = [d.active EXCEPT ![m] = y]
      BY <2>3, <2>4, ChangeKeeps
    <2>. QED BY <1>0, <2>3, <2>5 DEF Gains
  <1>2. CASE rest = <<>>
    <2>1. PICK i \in Ids \ Range(d.list) : Rule[i] = None
      BY <1>0 DEF EnoughIds
    <2>2. None \notin Enabled(d)
      BY <1>0, InRange, ConstantTypes DEF Enabled, Desks
    <2>3. i \in frees
      BY <2>1, <2>2 DEF Exists
    <2>4. free \in frees
      BY <2>3, LowestIs
    <2>. HIDE DEF free
    <2>5. free \in Ids /\ ~ Exists(d, free) /\ (Rule[free] \in Enabled(d) => Rule[free] = m)
          /\ free # w
      BY <2>4
    <2>. DEFINE made == New(d, free, m)
    <2>6. e = ChangeWorkspace(made, m, free)
      BY <1>2, <2>5 DEF Plug, Create, free
    <2>7. /\ Sound(made) /\ Shows(made, E) /\ Frame(d, made)
          /\ Range(made.list) = Range(d.list) \cup {free}
          /\ made.owner = [d.owner EXCEPT ![free] = m]
          /\ made.focus = d.focus /\ made.active = d.active /\ made.special = d.special
      <3>1. free \in Ws /\ ~ Exists(d, free) /\ m \in Mons
        BY <1>0, <2>5
      <3>. QED BY <3>1, NewKeeps
    <2>. HIDE DEF made
    <2>8. Exists(made, free) /\ made.owner[free] = m
      BY <1>0, <2>5, <2>7 DEF Exists
    <2>. HIDE DEF e
    <2>9. /\ Sound(e) /\ Shows(e, E) /\ Frame(made, e) /\ e.list = made.list
          /\ e.owner = made.owner /\ e.focus = made.focus /\ e.special = made.special
          /\ e.active = [made.active EXCEPT ![m] = free]
      <3>1. free \in Ids /\ Sound(made) /\ Shows(made, E)
        BY <2>5, <2>7
      <3>2. /\ Sound(ChangeWorkspace(made, m, free))
            /\ Shows(ChangeWorkspace(made, m, free), E)
            /\ Frame(made, ChangeWorkspace(made, m, free))
            /\ ChangeWorkspace(made, m, free).list = made.list
            /\ ChangeWorkspace(made, m, free).owner = made.owner
            /\ ChangeWorkspace(made, m, free).focus = made.focus
            /\ ChangeWorkspace(made, m, free).special = made.special
            /\ ChangeWorkspace(made, m, free).active = [made.active EXCEPT ![m] = free]
        BY <2>8, <3>1, ChangeKeeps
      <3>. QED BY <2>6, <3>2
    <2>10. Gains(d, e, m) /\ \A v \in Range(d.list) : e.owner[v] = d.owner[v]
      BY <1>0, <2>5, <2>7, <2>9, InRange DEF Gains, Exists
    <2>11. Frame(d, e) /\ e.active[m] # w
           /\ \A n \in Mons \ {m} : e.active[n] = d.active[n]
      BY <1>0, <2>5, <2>7, <2>9 DEF Frame, Outline, Tags, Tracked
    <2>. QED BY <2>7, <2>9, <2>10, <2>11 DEF e
  <1>. QED BY <1>1, <1>2

LEMMA ShowSpecialFields ==
    ASSUME NEW d \in Desks, NEW m \in Mons, d.special[m] # Special
    PROVE  LET e == ShowSpecial(d, m, Special)
           IN  /\ e \in Desks /\ Frame(d, e) /\ e.list = d.list
               /\ e.active = d.active /\ e.focus = d.focus
               /\ e.persistent = d.persistent
               /\ e.owner = [d.owner EXCEPT ![Special] = m]
               /\ \A n \in Mons : e.special[n] = IF n = m THEN Special
                                                 ELSE IF n = d.owner[Special] THEN None
                                                 ELSE d.special[n]
               /\ e.visible = d.visible \cup {Special}
  <1>. DEFINE e == ShowSpecial(d, m, Special)
              s == [n \in Mons |-> IF n = m THEN Special
                                   ELSE IF n = d.owner[Special] /\ d.special[n] = Special
                                   THEN None ELSE d.special[n]]
              v == (d.visible \ {d.special[m]}) \cup {Special}
              o == [d.owner EXCEPT ![Special] = m]
  <1>1. /\ s \in [Mons -> {Special, None}] /\ v \in SUBSET Ws
        /\ o \in [Ws -> Mons \cup {None}]
    BY ConstantTypes DEF Desks
  <1>2. /\ v = d.visible \cup {Special}
        /\ \A n \in Mons : s[n] = IF n = m THEN Special
                                  ELSE IF n = d.owner[Special] THEN None ELSE d.special[n]
    BY ConstantTypes DEF Desks
  <1>3. e = [d EXCEPT !.special = s, !.visible = v, !.owner = o]
    BY DEF ShowSpecial, Desks
  <1>. HIDE DEF s, v, o
  <1>4. e \in Desks
    BY <1>1, <1>3 DEF Desks
  <1>5. /\ e.special = s /\ e.visible = v /\ e.owner = o /\ Frame(d, e)
        /\ e.list = d.list /\ e.active = d.active /\ e.focus = d.focus
        /\ e.persistent = d.persistent
    BY <1>3 DEF Desks, Frame, Outline, Tags, Tracked
  <1>. QED BY <1>2, <1>4, <1>5 DEF o

\* The special workspace goes to the monitor that shows it, and no other does.
LEMMA ShowSpecialKeeps ==
    ASSUME NEW d, NEW E, Sound(d), Shows(d, E), NEW m \in E, Exists(d, Special)
    PROVE  LET e == ShowSpecial(d, m, Special)
           IN  /\ Sound(e) /\ Shows(e, E) /\ Frame(d, e) /\ e.list = d.list
               /\ e.focus = d.focus /\ e.owner = [d.owner EXCEPT ![Special] = m]
  <1>. DEFINE e == ShowSpecial(d, m, Special)
  <1>0. /\ d \in Desks /\ m \in Mons /\ d.owner \in [Ws -> Mons \cup {None}]
        /\ d.special \in [Mons -> {Special, None}]
        /\ d.active \in [Mons -> Ids \cup {None}]
    BY DEF Sound, Shows, Desks
  <1>1. CASE d.special[m] = Special
    <2>1. e = d /\ d.owner[Special] = m
      BY <1>0, <1>1, ConstantTypes DEF ShowSpecial, Shows
    <2>2. d.owner = [d.owner EXCEPT ![Special] = m]
      BY <1>0, <2>1
    <2>. QED BY <2>1, <2>2 DEF Frame, Outline, Tags, Tracked
  <1>2. CASE d.special[m] # Special
    <2>1. /\ e \in Desks /\ Frame(d, e) /\ e.list = d.list
          /\ e.active = d.active /\ e.focus = d.focus
          /\ e.persistent = d.persistent
          /\ e.owner = [d.owner EXCEPT ![Special] = m]
          /\ \A n \in Mons : e.special[n] = IF n = m THEN Special
                                            ELSE IF n = d.owner[Special] THEN None
                                            ELSE d.special[n]
          /\ e.visible = d.visible \cup {Special}
      BY <1>0, <1>2, ShowSpecialFields
    <2>. HIDE DEF e
    <2>2. Sound(e)
      BY <2>1 DEF Sound, Frame, Outline
    <2>3. ASSUME NEW n \in E PROVE Exists(e, e.active[n]) /\ e.owner[e.active[n]] = n
      <3>1. /\ n \in Mons /\ d.active[n] \in Ws /\ d.active[n] # Special
            /\ d.owner[d.active[n]] = n /\ Exists(d, d.active[n])
        BY <1>0, <2>3, InRange, ConstantTypes DEF Shows, Exists, Desks
      <3>. QED BY <1>0, <2>1, <3>1 DEF Exists
    <2>4. ASSUME NEW n \in Mons, e.special[n] # None
          PROVE  n \in E /\ Exists(e, Special) /\ e.owner[Special] = n
      <3>1. n = m
        BY <1>0, <2>1, <2>4 DEF Shows
      <3>. QED BY <1>0, <2>1, <3>1, ConstantTypes DEF Exists
    <2>5. ASSUME NEW v \in Ws
          PROVE  v \in e.visible <=> e.owner[v] \in E /\ SeenAt(e, v, e.owner[v])
      <3>1. CASE v = Special
        BY <1>0, <2>1, <3>1, ConstantTypes DEF SeenAt
      <3>2. CASE v # Special
        <4>1. /\ e.owner[v] = d.owner[v] /\ (v \in e.visible <=> v \in d.visible)
              /\ v # None
          BY <1>0, <2>1, <3>2, ConstantTypes
        <4>2. \A n \in Mons : d.special[n] # v /\ e.special[n] # v
          BY <1>0, <2>1, <3>2, <4>1
        <4>. QED BY <2>1, <4>1, <4>2 DEF SeenAt, Shows
      <3>. QED BY <3>1, <3>2
    <2>6. Shows(e, E)
      BY <2>1, <2>3, <2>4, <2>5 DEF Shows
    <2>. QED BY <2>1, <2>2, <2>6 DEF e
  <1>. QED BY <1>1, <1>2

\* Its monitor changes, which nobody shows it on.
LEMMA OwnerFields ==
    ASSUME NEW d \in Desks, NEW m \in Mons, NEW w \in Ws
    PROVE  LET e == [d EXCEPT !.owner[w] = m]
           IN  /\ e \in Desks /\ Frame(d, e) /\ e.list = d.list
               /\ e.active = d.active /\ e.special = d.special
               /\ e.focus = d.focus /\ e.visible = d.visible
               /\ e.persistent = d.persistent
               /\ e.owner = [d.owner EXCEPT ![w] = m]
  <1>. DEFINE e == [d EXCEPT !.owner[w] = m]
              o == [d.owner EXCEPT ![w] = m]
  <1>1. o \in [Ws -> Mons \cup {None}] /\ e = [d EXCEPT !.owner = o]
    BY DEF Desks
  <1>. HIDE DEF o
  <1>2. e \in Desks
    BY <1>1 DEF Desks
  <1>3. /\ e.owner = o /\ Frame(d, e)
        /\ e.list = d.list /\ e.active = d.active /\ e.focus = d.focus
        /\ e.special = d.special /\ e.visible = d.visible
        /\ e.persistent = d.persistent
    BY <1>1 DEF Desks, Frame, Outline, Tags, Tracked
  <1>. QED BY <1>2, <1>3 DEF o

LEMMA OwnerKeeps ==
    ASSUME NEW d, NEW E, Sound(d), Shows(d, E), NEW m \in Mons, NEW w \in Ws,
           \A n \in Mons : ~ SeenAt(d, w, n)
    PROVE  LET e == [d EXCEPT !.owner[w] = m]
           IN  /\ Sound(e) /\ Shows(e, E) /\ Frame(d, e) /\ e.list = d.list
               /\ e.active = d.active /\ e.focus = d.focus
               /\ e.owner = [d.owner EXCEPT ![w] = m]
  <1>. DEFINE e == [d EXCEPT !.owner[w] = m]
  <1>0. /\ d \in Desks /\ d.owner \in [Ws -> Mons \cup {None}]
        /\ d.special \in [Mons -> {Special, None}]
    BY DEF Sound, Desks
  <1>1. /\ e \in Desks /\ Frame(d, e) /\ e.list = d.list
        /\ e.active = d.active /\ e.special = d.special
        /\ e.focus = d.focus /\ e.visible = d.visible
        /\ e.persistent = d.persistent
        /\ e.owner = [d.owner EXCEPT ![w] = m]
    BY <1>0, OwnerFields
  <1>. HIDE DEF e
  <1>2. Sound(e)
    BY <1>1 DEF Sound, Frame, Outline
  <1>3. ASSUME NEW n \in E PROVE Exists(e, e.active[n]) /\ e.owner[e.active[n]] = n
    <2>1. n \in Mons /\ d.active[n] # w
      BY <1>3 DEF Shows, SeenAt
    <2>2. d.active[n] \in Ws
      BY <1>0, <1>3, InRange DEF Shows, Exists, Desks
    <2>. QED BY <1>0, <1>1, <2>1, <2>2 DEF Shows, Exists
  <1>4. ASSUME NEW n \in Mons, e.special[n] # None
        PROVE  n \in E /\ Exists(e, Special) /\ e.owner[Special] = n
    BY <1>0, <1>1, <1>4, ConstantTypes DEF Shows, Exists, SeenAt
  <1>5. ASSUME NEW v \in Ws
        PROVE  v \in e.visible <=> e.owner[v] \in E /\ SeenAt(e, v, e.owner[v])
    BY <1>0, <1>1, ConstantTypes DEF Shows, SeenAt
  <1>6. Shows(e, E)
    BY <1>1, <1>3, <1>4, <1>5 DEF Shows
  <1>. QED BY <1>1, <1>2, <1>6 DEF e

LEMMA FocusKeeps ==
    ASSUME NEW d, NEW E, Sound(d), Shows(d, E), NEW m \in Mons \cup {None}
    PROVE  LET e == [d EXCEPT !.focus = m]
           IN  /\ Sound(e) /\ Shows(e, E) /\ Frame(d, e) /\ e.list = d.list
               /\ e.owner = d.owner /\ e.active = d.active /\ e.focus = m
  <1>. DEFINE e == [d EXCEPT !.focus = m]
  <1>1. d \in Desks
    BY DEF Sound
  <1>2. e \in Desks
    BY <1>1 DEF Desks
  <1>3. /\ e.owner = d.owner /\ Frame(d, e) /\ e.list = d.list /\ e.active = d.active
        /\ e.focus = m /\ e.special = d.special /\ e.visible = d.visible
        /\ e.persistent = d.persistent
    BY <1>1 DEF Desks, Frame, Outline, Tags, Tracked
  <1>. HIDE DEF e
  <1>4. Sound(e) /\ Shows(e, E)
    BY <1>2, <1>3 DEF Sound, Shows, Frame, Outline, Exists, SeenAt
  <1>. QED BY <1>3, <1>4 DEF e

LEMMA StayKeeps ==
    ASSUME NEW d, NEW E, Sound(d), Shows(d, E), NEW m \in E, NEW w \in Ids,
           Exists(d, w), d.owner[w] = m, d.active[m] # w
    PROVE  LET e == StayActive(d, w, m)
           IN  /\ Sound(e) /\ Shows(e, E) /\ Frame(d, e) /\ e.list = d.list
               /\ e.owner = d.owner /\ e.focus = m
  <1>. DEFINE c == ChangeWorkspace(d, m, w)
              e == StayActive(d, w, m)
  <1>1. /\ Sound(c) /\ Shows(c, E) /\ Frame(d, c) /\ c.list = d.list
        /\ c.owner = d.owner
    <2>. HIDE DEF c, e
    <2>2. /\ Sound(ChangeWorkspace(d, m, w)) /\ Shows(ChangeWorkspace(d, m, w), E)
          /\ Frame(d, ChangeWorkspace(d, m, w))
          /\ ChangeWorkspace(d, m, w).list = d.list
          /\ ChangeWorkspace(d, m, w).owner = d.owner
          /\ ChangeWorkspace(d, m, w).focus = d.focus
          /\ ChangeWorkspace(d, m, w).special = d.special
          /\ ChangeWorkspace(d, m, w).active = [d.active EXCEPT ![m] = w]
      BY ChangeKeeps, SMT
    <2>. QED BY <2>2 DEF c
  <1>2. e = [c EXCEPT !.focus = m]
    <2>1. d \in Desks
      BY DEF Sound
    <2>. QED BY <2>1 DEF StayActive, ChangeWorkspace, Desks
  <1>. HIDE DEF c, e
  <1>3. m \in Mons \cup {None}
    BY DEF Shows
  <1>4. /\ Sound(e) /\ Shows(e, E) /\ Frame(c, e) /\ e.list = c.list
        /\ e.owner = c.owner /\ e.focus = m
    BY <1>1, <1>2, <1>3, FocusKeeps
  <1>5. Frame(d, e)
    BY <1>1, <1>4 DEF Frame, Outline, Tags, Tracked
  <1>. QED BY <1>1, <1>4, <1>5 DEF e

\* What a move within the monitors E does.
Moves(d, e, w, m, E) ==
    /\ Sound(e) /\ Shows(e, E) /\ Frame(d, e) /\ Gains(d, e, d.owner[w])
    /\ e.owner[w] = m
    /\ \A v \in Range(d.list) \ {w} : e.owner[v] = d.owner[v]
    /\ e.focus \in {d.focus, m}
    /\ d.owner[w] \in E \/ Range(e.list) = Range(d.list)
    /\ d.owner[w] = m => e = d

\* The first part of a move: the gap is plugged and the monitor changes.
Shown(d, w) == d.owner[w] # None /\ d.active[d.owner[w]] = w
There(d, w, m) ==
    [(IF Shown(d, w) THEN Plug(d, d.owner[w], w) ELSE d) EXCEPT !.owner[w] = m]

\* A workspace that is shown leaves a gap, which is plugged; m, which may not
\* be one of E, does not show it yet.
LEMMA ThereKeeps ==
    ASSUME EnoughIds, NEW d, NEW E, Sound(d), Shows(d, E), NEW m \in Mons, NEW w \in Ws,
           d.owner[w] # m,
           ~ (w = Special /\ d.owner[w] # None /\ d.special[d.owner[w]] = w)
    PROVE  LET e == There(d, w, m)
           IN  /\ Sound(e) /\ Shows(e, E) /\ Frame(d, e) /\ Gains(d, e, d.owner[w])
               /\ e.owner[w] = m
               /\ \A v \in Range(d.list) \ {w} : e.owner[v] = d.owner[v]
               /\ e.focus = d.focus /\ e.active[m] # w
               /\ d.owner[w] \in E \/ Range(e.list) = Range(d.list)
               /\ Shown(d, w) => w \in Ids /\ Exists(e, w)
               /\ MoveWorkspaceToMonitor(d, w, m) =
                     IF Shown(d, w) /\ d.focus = d.owner[w] THEN StayActive(e, w, m) ELSE e
  <1>. DEFINE old == d.owner[w]
              shown == old # None /\ d.active[old] = w
              left == IF shown THEN Plug(d, old, w) ELSE d
              there == [left EXCEPT !.owner[w] = m]
  <1>0. /\ d \in Desks /\ d.owner \in [Ws -> Mons \cup {None}] /\ m \in Mons
        /\ m # None /\ E \subseteq Mons /\ Range(d.list) \subseteq Ws
        /\ d.active \in [Mons -> Ids \cup {None}] /\ Ids \subseteq Ws
        /\ d.special \in [Mons -> {Special, None}]
    BY ConstantTypes, InRange DEF Sound, Shows, Desks
  <1>1. /\ MoveWorkspaceToMonitor(d, w, m) =
              IF shown /\ d.focus = old THEN StayActive(there, w, m) ELSE there
        /\ There(d, w, m) = there /\ (Shown(d, w) <=> shown)
    BY <1>0 DEF MoveWorkspaceToMonitor, There, Shown
  <1>2. /\ Sound(left) /\ Shows(left, E) /\ Frame(d, left) /\ Gains(d, left, old)
        /\ \A v \in Range(d.list) : left.owner[v] = d.owner[v]
        /\ left.focus = d.focus /\ (\A n \in Mons : ~ SeenAt(left, w, n))
        /\ old \in E \/ Range(left.list) = Range(d.list)
        /\ shown => w \in Ids /\ Exists(d, w)
    <2>1. \A n \in Mons : SeenAt(d, w, n) => n = old /\ n \in E /\ Exists(d, w) /\ n # None
      BY <1>0, SeenIsOwned, ConstantTypes
    <2>2. CASE shown
      <3>1. old \in Mons /\ SeenAt(d, w, old)
        BY <1>0, <2>2 DEF SeenAt
      <3>2. old \in E /\ Exists(d, w) /\ w \in Ids /\ w # Special /\ w # None
        BY <1>0, <2>1, <2>2, <3>1, ConstantTypes
      <3>3. /\ Sound(left) /\ Shows(left, E) /\ Frame(d, left) /\ Gains(d, left, old)
            /\ \A v \in Range(d.list) : left.owner[v] = d.owner[v]
            /\ left.focus = d.focus /\ left.special = d.special
            /\ left.active[old] # w
            /\ \A n \in Mons \ {old} : left.active[n] = d.active[n]
        BY <2>2, <3>2, PlugKeeps
      <3>. HIDE DEF left
      <3>4. ASSUME NEW n \in Mons PROVE ~ SeenAt(left, w, n)
        BY <1>0, <2>1, <3>2, <3>3 DEF SeenAt
      <3>. QED BY <2>2, <3>2, <3>3, <3>4
    <2>3. CASE ~ shown
      <3>1. left = d
        BY <2>3
      <3>2. ASSUME NEW n \in Mons PROVE ~ SeenAt(d, w, n)
        BY <1>0, <2>1, <2>3, ConstantTypes DEF SeenAt
      <3>. QED BY <2>3, <3>1, <3>2 DEF Frame, Outline, Tags, Tracked, Gains
    <2>. QED BY <2>2, <2>3
  <1>3. ~ shown => left = d
    OBVIOUS
  <1>. HIDE DEF left
  <1>4. /\ Sound(there) /\ Shows(there, E) /\ Frame(left, there)
        /\ there.list = left.list
        /\ there.active = left.active /\ there.focus = left.focus
        /\ there.owner = [left.owner EXCEPT ![w] = m]
    <2>1. /\ Sound(left) /\ Shows(left, E) /\ m \in Mons /\ w \in Ws
          /\ \A n \in Mons : ~ SeenAt(left, w, n)
      BY <1>0, <1>2
    <2>. QED BY <2>1, OwnerKeeps
  <1>. HIDE DEF there
  <1>5. left.owner \in [Ws -> Mons \cup {None}] /\ Range(left.list) \subseteq Ws
    BY <1>2, InRange DEF Sound, Desks
  <1>6. Gains(d, there, old)
    <2>1. shown => w \in Range(d.list)
      BY <1>2 DEF Exists
    <2>2. ASSUME NEW x \in Range(there.list) \ Range(d.list)
          PROVE  x \in Ids /\ there.owner[x] = old /\ (Rule[x] \in Enabled(d) => Rule[x] = old)
      <3>1. x \in Range(left.list) /\ x # w /\ x \in Ws
        BY <1>3, <1>4, <1>5, <2>1, <2>2
      <3>2. x \in Ids /\ left.owner[x] = old /\ (Rule[x] \in Enabled(d) => Rule[x] = old)
        BY <1>2, <2>2, <3>1 DEF Gains
      <3>. QED BY <1>4, <1>5, <3>1, <3>2
    <2>. QED BY <1>2, <1>4, <2>2 DEF Gains
  <1>7. there.owner[w] = m /\ \A v \in Range(d.list) \ {w} : there.owner[v] = d.owner[v]
    BY <1>0, <1>2, <1>4, <1>5
  <1>8. there.active[m] # w /\ (shown => Exists(there, w))
    BY <1>0, <1>2, <1>4 DEF Exists, Gains, SeenAt
  <1>9. Frame(d, there)
    BY <1>2, <1>4 DEF Frame, Outline, Tags, Tracked
  <1>. QED BY <1>1, <1>2, <1>4, <1>6, <1>7, <1>8, <1>9

LEMMA MoveKeeps ==
    ASSUME EnoughIds, NEW d, NEW E, Sound(d), Shows(d, E), NEW m \in E, NEW w \in Ws
    PROVE  Moves(d, MoveWorkspaceToMonitor(d, w, m), w, m, E)
  <1>. DEFINE e == MoveWorkspaceToMonitor(d, w, m)
              old == d.owner[w]
  <1>0. /\ d \in Desks /\ d.owner \in [Ws -> Mons \cup {None}] /\ m \in Mons
        /\ m # None /\ E \subseteq Mons /\ Range(d.list) \subseteq Ws
        /\ d.special \in [Mons -> {Special, None}]
    BY ConstantTypes, InRange DEF Sound, Shows, Desks
  <1>1. CASE old = m
    <2>1. e = d
      BY <1>1 DEF MoveWorkspaceToMonitor
    <2>. QED BY <1>1, <2>1 DEF Moves, Frame, Outline, Tags, Tracked, Gains
  <1>2. CASE old # m /\ w = Special /\ old # None /\ d.special[old] = w
    <2>1. e = ShowSpecial(d, m, Special)
      BY <1>0, <1>2 DEF MoveWorkspaceToMonitor
    <2>2. Exists(d, Special) /\ old \in E
      BY <1>0, <1>2, ConstantTypes DEF Shows
    <2>3. /\ Sound(e) /\ Shows(e, E) /\ Frame(d, e) /\ e.list = d.list
          /\ e.focus = d.focus /\ e.owner = [d.owner EXCEPT ![Special] = m]
      BY <2>1, <2>2, ShowSpecialKeeps
    <2>. QED BY <1>0, <1>2, <2>2, <2>3 DEF Moves, Gains
  <1>3. CASE old # m /\ ~ (w = Special /\ old # None /\ d.special[old] = w)
    <2>. DEFINE there == There(d, w, m)
    <2>1. /\ Sound(there) /\ Shows(there, E) /\ Frame(d, there) /\ Gains(d, there, old)
          /\ there.owner[w] = m
          /\ \A v \in Range(d.list) \ {w} : there.owner[v] = d.owner[v]
          /\ there.focus = d.focus /\ there.active[m] # w
          /\ old \in E \/ Range(there.list) = Range(d.list)
          /\ Shown(d, w) => w \in Ids /\ Exists(there, w)
          /\ e = IF Shown(d, w) /\ d.focus = old THEN StayActive(there, w, m) ELSE there
      BY <1>0, <1>3, ThereKeeps
    <2>. HIDE DEF there, e
    <2>2. CASE e = there
      BY <1>3, <2>1, <2>2 DEF Moves, e
    <2>3. CASE Shown(d, w) /\ e = StayActive(there, w, m)
      <3>1. /\ Sound(there) /\ Shows(there, E) /\ w \in Ids /\ Exists(there, w)
            /\ there.owner[w] = m /\ there.active[m] # w
        BY <2>1, <2>3
      <3>2. /\ Sound(e) /\ Shows(e, E) /\ Frame(there, e) /\ e.list = there.list
            /\ e.owner = there.owner /\ e.focus = m
        BY <2>3, <3>1, StayKeeps
      <3>3. Gains(d, e, old)
        BY <2>1, <3>2 DEF Gains
      <3>4. Moves(d, e, w, m, E)
        BY <1>3, <2>1, <3>2, <3>3 DEF Moves, Frame, Outline, Tags, Tracked
      <3>. QED BY <3>4 DEF e
    <2>. QED BY <2>1, <2>2, <2>3
  <1>. QED BY <1>1, <1>2, <1>3

-----------------------------------------------------------------------------
(* Handlers that rearrange the screens *)

\* What the calls of a handler keep, one after the other: a workspace is on a
\* monitor of E, or it was there before and is where it was.
Steady(d, e, E) ==
    /\ Sound(e) /\ Shows(e, E) /\ Outline(d, e) /\ Keeps(d, e, E)
    /\ e.focus \in E \cup {d.focus}
    /\ \A v \in Range(e.list) :
          e.owner[v] \in E \/ (v \in Range(d.list) /\ e.owner[v] = d.owner[v])

LEMMA SteadyStart ==
    ASSUME NEW d, NEW E, Sound(d), Shows(d, E)
    PROVE  Steady(d, d, E)
  BY DEF Steady, Outline, Keeps

LEMMA SteadyThen ==
    ASSUME NEW c, NEW d, NEW e, NEW E, Steady(c, d, E), Steady(d, e, E)
    PROVE  /\ Steady(c, e, E)
           /\ \A v \in Range(e.list) :
                 v \in Range(d.list) /\ d.owner[v] \in E => e.owner[v] \in E
  BY DEF Steady, Outline, Keeps, Tracked

LEMMA MoveSteady ==
    ASSUME EnoughIds, NEW d, NEW E, Sound(d), Shows(d, E), NEW m \in E, NEW w \in Ws
    PROVE  /\ Steady(d, MoveWorkspaceToMonitor(d, w, m), E)
           /\ MoveWorkspaceToMonitor(d, w, m).owner[w] = m
  <1>. DEFINE e == MoveWorkspaceToMonitor(d, w, m)
  <1>1. Moves(d, e, w, m, E)
    BY MoveKeeps
  <1>. HIDE DEF e
  <1>2. ASSUME NEW v \in Range(e.list)
        PROVE  e.owner[v] \in E \/ (v \in Range(d.list) /\ e.owner[v] = d.owner[v])
    BY <1>1 DEF Moves, Gains
  <1>. QED BY <1>1, <1>2, FrameKeeps DEF Moves, Steady, e

LEMMA PruneSteady ==
    ASSUME NEW d, NEW E, Sound(d), Shows(d, E)
    PROVE  /\ Steady(d, Prune(d), E)
           /\ Range(Prune(d).list) \subseteq Range(d.list)
           /\ \A v \in Range(Prune(d).list) : Prune(d).owner[v] = d.owner[v]
           /\ \A v \in Ws \ Range(Prune(d).list) : Prune(d).owner[v] = None
           /\ Prune(d).focus = d.focus
           /\ Range(Prune(d).list) \subseteq Kept(d)
  <1>. DEFINE p == Prune(d)
  <1>0. d \in Desks /\ d.windows \subseteq Range(d.list)
    BY DEF Sound
  <1>1. /\ Frame(d, p) /\ p.focus = d.focus
        /\ Range(p.list) = Range(d.list) \cap Kept(d)
        /\ \A w \in Ws : p.owner[w] = IF Exists(p, w) THEN d.owner[w] ELSE None
    BY <1>0, PruneFields
  <1>2. Sound(p) /\ Shows(p, E)
    BY PruneKeeps
  <1>. HIDE DEF p
  <1>3. Range(p.list) \subseteq Ws
    BY <1>2, InRange DEF Sound, Desks
  <1>4. \A v \in Range(p.list) : v \in Range(d.list) /\ p.owner[v] = d.owner[v]
    BY <1>1, <1>3 DEF Exists
  <1>. QED BY <1>1, <1>2, <1>4, FrameKeeps DEF Steady, p, Exists

\* The tag that is dropped is one for a monitor of E.
LEMMA UntaggedSteady ==
    ASSUME NEW d, NEW E, Sound(d), Shows(d, E), NEW w \in Ws, NEW m \in E
    PROVE  /\ Steady(d, Untagged(d, w, m), E)
           /\ Untagged(d, w, m).owner = d.owner /\ Untagged(d, w, m).list = d.list
           /\ \A v \in Tracked(d) \ {w} : Untagged(d, w, m).last[v] = d.last[v]
  <1>. DEFINE e == Untagged(d, w, m)
              s == [d.last EXCEPT ![w] = IF @ = m THEN None ELSE @]
  <1>1. d \in Desks
    BY DEF Sound
  <1>2. s \in [Ws -> Mons \cup {None}] /\ e = [d EXCEPT !.last = s]
    BY <1>1 DEF Desks, Untagged
  <1>6. \A v \in Tracked(d) : v # w \/ d.last[v] \notin E => s[v] = d.last[v]
    BY <1>1 DEF Tracked, Desks
  <1>. HIDE DEF s
  <1>3. e \in Desks
    BY <1>1, <1>2 DEF Desks
  <1>4. /\ e.owner = d.owner /\ Outline(d, e) /\ e.last = s
        /\ e.list = d.list /\ e.active = d.active
        /\ e.focus = d.focus /\ e.special = d.special /\ e.visible = d.visible
        /\ e.persistent = d.persistent
    BY <1>1, <1>2 DEF Desks, Frame, Outline
  <1>. HIDE DEF e
  <1>5. Sound(e) /\ Shows(e, E)
    BY <1>3, <1>4 DEF Sound, Shows, Frame, Outline, Exists, SeenAt
  <1>. QED BY <1>4, <1>5, <1>6 DEF Steady, Keeps, e

LEMMA ReclaimSteady ==
    ASSUME EnoughIds, NEW d, NEW E, Sound(d), Shows(d, E), Enabled(d) \subseteq E,
           NEW m \in E, NEW w \in Ws, NEW r
    PROVE  /\ Steady(d, Reclaim(d, w, m, r), E)
           /\ r => Reclaim(d, w, m, r).owner[w] \in E
  <1>. DEFINE e == MoveWorkspaceToMonitor(d, w, m)
              u == Untagged(e, w, m)
              f == Reclaim(d, w, m, r)
  <1>1. CASE f = u
    <2>1. Steady(d, e, E) /\ e.owner[w] = m
      BY MoveSteady
    <2>. HIDE DEF e
    <2>2. Sound(e) /\ Shows(e, E)
      BY <2>1 DEF Steady
    <2>3. Steady(e, u, E) /\ u.owner = e.owner
      BY <2>2, UntaggedSteady
    <2>. HIDE DEF u, f
    <2>4. Steady(d, u, E)
      BY <2>1, <2>3, SteadyThen
    <2>5. f.owner[w] \in E
      BY <1>1, <2>1, <2>3
    <2>. QED BY <1>1, <2>4, <2>5 DEF f
  <1>2. CASE f = d /\ ~ (Orphaned(d, w) /\ r)
    <2>1. r => d.owner[w] \in E
      BY <1>2 DEF Orphaned
    <2>. QED BY <1>2, <2>1, SteadyStart
  <1>3. f = u \/ (f = d /\ ~ (Orphaned(d, w) /\ r))
    BY DEF Reclaim
  <1>. QED BY <1>1, <1>2, <1>3

\* A workspace with the tag of m comes to m, and one that is on m stays there;
\* the tags of the others are still there.
LEMMA ReclaimReturns ==
    ASSUME EnoughIds, NEW d, NEW E, Sound(d), Shows(d, E), Enabled(d) \subseteq E,
           NEW m \in E, NEW w \in Ws, NEW r
    PROVE  LET f == Reclaim(d, w, m, r)
           IN  /\ d.last[w] = m => f.owner[w] = m
               /\ \A v \in Range(d.list) : d.owner[v] = m => f.owner[v] = m
               /\ \A v \in Tracked(d) \ {w} : f.last[v] = d.last[v]
  <1>. DEFINE e == MoveWorkspaceToMonitor(d, w, m)
              u == Untagged(e, w, m)
              f == Reclaim(d, w, m, r)
  <1>1. f = u \/ (f = d /\ d.last[w] # m)
    BY DEF Reclaim
  <1>2. Moves(d, e, w, m, E)
    BY MoveKeeps
  <1>. HIDE DEF e
  <1>3. Sound(e) /\ Shows(e, E) /\ Tracked(e) = Tracked(d)
    BY <1>2 DEF Moves, Frame, Outline, Tracked
  <1>4. u.owner = e.owner /\ \A v \in Tracked(e) \ {w} : u.last[v] = e.last[v]
    BY <1>3, UntaggedSteady
  <1>. HIDE DEF u, f
  <1>5. CASE f = u
    <2>1. /\ e.owner[w] = m
          /\ \A v \in Range(d.list) : d.owner[v] = m => e.owner[v] = m
          /\ \A v \in Tracked(d) : e.last[v] = d.last[v]
      BY <1>2 DEF Moves, Frame, Tags
    <2>. QED BY <1>3, <1>4, <1>5, <2>1 DEF f
  <1>6. CASE f = d /\ d.last[w] # m
    BY <1>6 DEF f
  <1>. QED BY <1>1, <1>5, <1>6

\* TakeBack leaves no orphan if it takes them.
LEMMA TakeBackSteady ==
    ASSUME EnoughIds, NEW d, NEW E, Sound(d), Shows(d, E), Enabled(d) \subseteq E,
           NEW m \in E
    PROVE  LET t == TakeBack(d, m)
           IN  /\ Steady(d, t, E)
               /\ Cardinality(Enabled(d) \ {Fallback, m}) <= 1 =>
                     \A v \in Range(t.list) : t.owner[v] \in E
               /\ \A v \in Tracked(d) : d.last[v] = m => t.owner[v] = m
  <1>. DEFINE r == Cardinality(Enabled(d) \ {Fallback, m}) <= 1
              D == {e \in Desks : Steady(d, e, E)}
              l == d.list
              n == Len(l)
              f == ReclaimAll(d, l, m, r)
              t == TakeBack(d, m)
  <1>1. t = Prune(f)
    BY DEF TakeBack, ReclaimAll, FoldLeft, MapThenFoldSet
  <1>. HIDE DEF r, f
  <1>2. d \in D /\ l \in Seq(Ws) /\ n \in Nat /\ \A k \in 1..n : l[k] \in Ws
    <2>1. Steady(d, d, E) /\ d \in Desks /\ l \in Seq(Ws)
      BY SteadyStart DEF Sound, Desks
    <2>. QED BY <2>1, InRange
  <1>3. ASSUME NEW e \in D, NEW w \in Ws
        PROVE  /\ Reclaim(e, w, m, r) \in D /\ Steady(e, Reclaim(e, w, m, r), E)
               /\ r => Reclaim(e, w, m, r).owner[w] \in E
               /\ e.last[w] = m => Reclaim(e, w, m, r).owner[w] = m
               /\ \A v \in Range(e.list) :
                     e.owner[v] = m => Reclaim(e, w, m, r).owner[v] = m
               /\ \A v \in Tracked(e) \ {w} : Reclaim(e, w, m, r).last[v] = e.last[v]
    <2>1. Sound(e) /\ Shows(e, E) /\ Steady(d, e, E) /\ Enabled(e) \subseteq E
      BY DEF Steady, Outline, Enabled
    <2>2. /\ Steady(e, Reclaim(e, w, m, r), E)
          /\ r => Reclaim(e, w, m, r).owner[w] \in E
      BY <2>1, ReclaimSteady
    <2>3. Steady(d, Reclaim(e, w, m, r), E)
      BY <2>1, <2>2, SteadyThen
    <2>4. /\ e.last[w] = m => Reclaim(e, w, m, r).owner[w] = m
          /\ \A v \in Range(e.list) :
                e.owner[v] = m => Reclaim(e, w, m, r).owner[v] = m
          /\ \A v \in Tracked(e) \ {w} : Reclaim(e, w, m, r).last[v] = e.last[v]
      BY <2>1, ReclaimReturns
    <2>. QED BY <2>2, <2>3, <2>4 DEF Steady, Sound
  <1>4. ReclaimStays(D, Ws, m, r)
    BY <1>3 DEF ReclaimStays
  <1>. HIDE DEF D
  <1>5. PICK c \in [0..n -> D] :
            /\ c[0] = d /\ f = c[n]
            /\ \A k \in 1..n : c[k] = Reclaim(c[k - 1], l[k], m, r)
    <2>. HIDE DEF l
    <2>. QED BY <1>2, <1>4, ReclaimFolds DEF f
  <1>. DEFINE Done(k) == \A j \in 1..k : r /\ l[j] \in Range(c[k].list) => c[k].owner[l[j]] \in E
              Good == {k \in 0..n : Done(k)}
  <1>6. ASSUME NEW k \in 1..n, k - 1 \in Good PROVE k \in Good
    <2>1. k - 1 \in 0..n /\ k \in 0..n /\ l[k] \in Ws /\ c[k - 1] \in D
      BY <1>2, <1>5
    <2>2. /\ Steady(c[k - 1], c[k], E) /\ (r => c[k].owner[l[k]] \in E)
      BY <1>3, <1>5, <2>1
    <2>3. \A j \in 1..k : j \in 1..(k - 1) \/ j = k
      BY <1>2
    <2>. HIDE DEF l, n
    <2>4. Done(k - 1)
      BY <1>6
    <2>5. Done(k)
      BY <2>2, <2>3, <2>4 DEF Steady
    <2>. QED BY <2>1, <2>5
  <1>7. 0 \in Good
    BY <1>2
  <1>8. Done(n)
    <2>. HIDE DEF Good
    <2>1. \A k \in 0..n : k \in Good
      BY <1>2, <1>6, <1>7, Induction
    <2>2. n \in Good
      BY <1>2, <2>1
    <2>. QED BY <2>2 DEF Good
  <1>9. Steady(d, f, E)
    BY <1>2, <1>5 DEF D
  <1>14. \A v \in Tracked(d) : d.last[v] = m => f.owner[v] = m
    <2>. DEFINE Late(v, k) == c[k].last[v] = m /\ \A j \in 1..k : l[j] # v
                Back(k) == \A v \in Tracked(d) : d.last[v] = m => c[k].owner[v] = m \/ Late(v, k)
                Fair == {k \in 0..n : Back(k)}
    <2>1. ASSUME NEW k \in 1..n, k - 1 \in Fair PROVE k \in Fair
      <3>1. k - 1 \in 0..n /\ k \in 0..n /\ l[k] \in Ws /\ c[k - 1] \in D
        BY <1>2, <1>5
      <3>2. /\ c[k - 1].last[l[k]] = m => c[k].owner[l[k]] = m
            /\ \A v \in Range(c[k - 1].list) : c[k - 1].owner[v] = m => c[k].owner[v] = m
            /\ \A v \in Tracked(c[k - 1]) \ {l[k]} : c[k].last[v] = c[k - 1].last[v]
        BY <1>3, <1>5, <3>1
      <3>3. /\ Tracked(c[k - 1]) = Tracked(d)
            /\ Tracked(d) \subseteq Range(c[k - 1].list)
        BY <3>1 DEF D, Steady, Sound, Outline, Tracked
      <3>4. \A j \in 1..k : j \in 1..(k - 1) \/ j = k
        BY <1>2
      <3>. HIDE DEF l, n
      <3>5. ASSUME NEW v \in Tracked(d), d.last[v] = m, c[k].owner[v] # m
            PROVE  Late(v, k)
        <4>1. Late(v, k - 1)
          BY <2>1, <3>2, <3>3, <3>5
        <4>2. l[k] # v
          BY <3>2, <3>5, <4>1
        <4>. QED BY <3>2, <3>3, <3>4, <4>1, <4>2
      <3>. HIDE DEF Late
      <3>. QED BY <3>1, <3>5
    <2>2. 0 \in Fair
      BY <1>2, <1>5
    <2>3. Back(n)
      <3>. HIDE DEF Fair
      <3>1. \A k \in 0..n : k \in Fair
        BY <1>2, <2>1, <2>2, Induction
      <3>2. n \in Fair
        BY <1>2, <3>1
      <3>. QED BY <3>2 DEF Fair
    <2>4. \A v \in Tracked(d) : \E j \in 1..n : l[j] = v
      <3>1. Tracked(d) \subseteq Range(l)
        BY DEF Tracked, Sound
      <3>. QED BY <1>2, <3>1, InRange
    <2>. QED BY <1>5, <2>3, <2>4
  <1>10. r => \A v \in Range(f.list) : f.owner[v] \in E
    <2>1. \A v \in Range(l) : \E j \in 1..n : l[j] = v
      BY <1>2, InRange
    <2>. QED BY <1>5, <1>8, <1>9, <2>1 DEF Steady
  <1>11. Sound(f) /\ Shows(f, E)
    BY <1>9 DEF Steady
  <1>12. /\ Steady(f, Prune(f), E)
         /\ Range(Prune(f).list) \subseteq Range(f.list)
         /\ \A v \in Range(Prune(f).list) : Prune(f).owner[v] = f.owner[v]
    BY <1>11, PruneSteady
  <1>13. Steady(d, Prune(f), E)
    BY <1>9, <1>12, SteadyThen
  <1>15. Tracked(d) \subseteq Range(Prune(f).list)
    BY <1>13 DEF Steady, Sound, Outline, Tracked
  <1>. QED BY <1>1, <1>10, <1>12, <1>13, <1>14, <1>15 DEF r

\* The last part of SetupDefaultWS: m shows its first workspace.
Adopt(d, m, w) == [d EXCEPT !.active[m] = w, !.visible = @ \cup {w}, !.last[w] = None]

LEMMA AdoptFields ==
    ASSUME NEW d \in Desks, NEW m \in Mons, NEW w \in Ids, w \notin Tracked(d)
    PROVE  LET e == Adopt(d, m, w)
           IN  /\ e \in Desks /\ Frame(d, e) /\ e.list = d.list /\ e.owner = d.owner
               /\ e.special = d.special /\ e.focus = d.focus
               /\ e.persistent = d.persistent
               /\ e.active = [d.active EXCEPT ![m] = w]
               /\ e.visible = d.visible \cup {w}
  <1>. DEFINE e == Adopt(d, m, w)
              a == [d.active EXCEPT ![m] = w]
              s == [d.last EXCEPT ![w] = None]
              v == d.visible \cup {w}
  <1>1. /\ a \in [Mons -> Ids \cup {None}] /\ v \in SUBSET Ws
        /\ s \in [Ws -> Mons \cup {None}]
    BY ConstantTypes DEF Desks
  <1>2. e = [d EXCEPT !.active = a, !.visible = v, !.last = s]
    BY DEF Adopt, Desks
  <1>5. \A x \in Tracked(d) : s[x] = d.last[x]
    BY DEF Tracked, Desks
  <1>. HIDE DEF a, v, s
  <1>3. e \in Desks
    BY <1>1, <1>2 DEF Desks
  <1>4. /\ e.active = a /\ e.visible = v /\ Frame(d, e) /\ e.list = d.list
        /\ e.owner = d.owner /\ e.special = d.special /\ e.focus = d.focus
        /\ e.persistent = d.persistent
    BY <1>2, <1>5 DEF Desks, Frame, Outline, Tags, Tracked
  <1>. QED BY <1>3, <1>4 DEF a, v

LEMMA AdoptKeeps ==
    ASSUME NEW d, NEW E, Sound(d), Shows(d, E), NEW m \in Mons, m \notin E, NEW w \in Ids,
           Exists(d, w), d.owner[w] = m, w \notin Tracked(d)
    PROVE  LET e == Adopt(d, m, w)
           IN  /\ Sound(e) /\ Shows(e, E \cup {m}) /\ Frame(d, e) /\ e.list = d.list
               /\ e.owner = d.owner /\ e.focus = d.focus
  <1>. DEFINE e == Adopt(d, m, w)
  <1>0. /\ d \in Desks /\ w \in Ws /\ w # Special /\ m # None /\ w # None
        /\ d.active \in [Mons -> Ids \cup {None}] /\ E \subseteq Mons
        /\ d.special \in [Mons -> {Special, None}]
    BY ConstantTypes DEF Sound, Desks, Shows
  <1>1. /\ e \in Desks /\ Frame(d, e) /\ e.list = d.list /\ e.owner = d.owner
        /\ e.special = d.special /\ e.focus = d.focus
        /\ e.persistent = d.persistent
        /\ e.active = [d.active EXCEPT ![m] = w]
        /\ e.visible = d.visible \cup {w}
    BY <1>0, AdoptFields
  <1>. HIDE DEF e
  <1>2. Sound(e)
    BY <1>1 DEF Sound, Frame, Outline
  <1>3. d.active[m] = None /\ d.special[m] = None
    BY <1>0 DEF Shows
  <1>4. ASSUME NEW n \in E \cup {m} PROVE Exists(e, e.active[n]) /\ e.owner[e.active[n]] = n
    BY <1>0, <1>1 DEF Shows, Exists
  <1>5. ASSUME NEW n \in Mons, e.special[n] # None
        PROVE  n \in E \cup {m} /\ Exists(e, Special) /\ e.owner[Special] = n
    BY <1>1, <1>5 DEF Shows, Exists
  <1>6. ASSUME NEW v \in Ws
        PROVE  v \in e.visible <=> e.owner[v] \in E \cup {m} /\ SeenAt(e, v, e.owner[v])
    <2>1. v # None
      BY ConstantTypes
    <2>2. CASE v = w
      BY <1>0, <1>1, <2>2 DEF SeenAt
    <2>3. CASE v # w
      BY <1>0, <1>1, <1>3, <2>1, <2>3 DEF SeenAt, Shows
    <2>. QED BY <2>2, <2>3
  <1>7. Shows(e, E \cup {m})
    BY <1>0, <1>1, <1>4, <1>5, <1>6 DEF Shows
  <1>. QED BY <1>1, <1>2, <1>7 DEF e

\* setupDefaultWS gives a monitor that shows nothing its first workspace.
LEMMA SetupKeeps ==
    ASSUME EnoughIds, NEW d, NEW E, Sound(d), Shows(d, E), NEW m \in Mons, m \notin E
    PROVE  /\ Steady(d, SetupDefaultWS(d, m), E \cup {m})
           /\ Frame(d, SetupDefaultWS(d, m))
  <1>. DEFINE rule == IF m \in Real THEN Default[m] ELSE None
              S == {i \in Ids : ~ Exists(d, i) /\ Rule[i] \in {None, m}}
              w == IF rule # None THEN rule ELSE Lowest(S)
              there == IF Exists(d, w) THEN MoveWorkspaceToMonitor(d, w, m)
                       ELSE New(d, w, m)
              e == SetupDefaultWS(d, m)
              E1 == E \cup {m}
  <1>1. e = Adopt(there, m, w)
    BY DEF SetupDefaultWS, Adopt
  <1>2. w \in Ids /\ w \notin Tracked(d)
    <2>1. rule \in Ids \cup {None} /\ (rule # None => rule \in Range(Default))
      BY ConstantTypes, WorkspacesAssumption DEF Range
    <2>2. PICK i \in Ids \ Range(d.list) : Rule[i] = None
      BY DEF EnoughIds, Sound, Desks
    <2>3. Lowest(S) \in S
      BY <2>2, LowestIs DEF Exists
    <2>4. w \in Ids /\ (w \in Range(Default) \/ w \notin Range(d.list))
      BY <2>1, <2>3 DEF Exists
    <2>. QED BY <2>4 DEF Tracked, Sound
  <1>. HIDE DEF w, rule, S
  <1>0. /\ d \in Desks /\ w \in Ws /\ w # Special /\ m # None /\ E \subseteq Mons
        /\ d.owner \in [Ws -> Mons \cup {None}]
    BY <1>2, ConstantTypes DEF Sound, Shows, Desks
  <1>3. ASSUME NEW t, Sound(t), Shows(t, E), Frame(d, t), Exists(t, w), t.owner[w] = m,
               t.focus = d.focus,
               \A v \in Range(t.list) : \/ v = w \/ t.owner[v] \in E1
                                        \/ v \in Range(d.list) /\ t.owner[v] = d.owner[v]
        PROVE  Steady(d, Adopt(t, m, w), E1) /\ Frame(d, Adopt(t, m, w))
    <2>. DEFINE a == Adopt(t, m, w)
    <2>1. /\ Sound(a) /\ Shows(a, E1) /\ Frame(t, a) /\ a.list = t.list
          /\ a.owner = t.owner /\ a.focus = t.focus
      <3>1. w \notin Tracked(t)
        BY <1>2, <1>3 DEF Tracked, Frame, Outline
      <3>. QED BY <1>2, <1>3, <3>1, AdoptKeeps
    <2>. HIDE DEF a
    <2>2. \A v \in Range(a.list) :
             a.owner[v] \in E1 \/ (v \in Range(d.list) /\ a.owner[v] = d.owner[v])
      BY <1>3, <2>1
    <2>3. Frame(d, a)
      BY <1>3, <2>1 DEF Frame, Outline, Tags, Tracked
    <2>4. Steady(d, a, E1)
      BY <1>3, <2>1, <2>2, <2>3, FrameKeeps DEF Steady
    <2>. QED BY <2>3, <2>4 DEF a
  <1>4. CASE ~ Exists(d, w)
    <2>1. /\ Sound(New(d, w, m)) /\ Shows(New(d, w, m), E) /\ Frame(d, New(d, w, m))
          /\ Range(New(d, w, m).list) = Range(d.list) \cup {w}
          /\ New(d, w, m).owner = [d.owner EXCEPT ![w] = m]
          /\ New(d, w, m).focus = d.focus
          /\ New(d, w, m).active = d.active /\ New(d, w, m).special = d.special
      <3>. HIDE DEF there, e, E1
      <3>. QED BY <1>0, <1>4, NewKeeps
    <2>2. there = New(d, w, m)
      BY <1>4
    <2>. HIDE DEF there
    <2>3. Range(d.list) \subseteq Ws
      BY <1>0, InRange DEF Desks
    <2>4. /\ Exists(there, w) /\ there.owner[w] = m
          /\ \A v \in Range(there.list) :
                v = w \/ (v \in Range(d.list) /\ there.owner[v] = d.owner[v])
      BY <1>0, <2>1, <2>2, <2>3 DEF Exists
    <2>. QED BY <1>1, <1>3, <2>1, <2>2, <2>4
  <1>5. CASE Exists(d, w) /\ d.owner[w] = m
    <2>1. there = d
      BY <1>5 DEF MoveWorkspaceToMonitor
    <2>2. Frame(d, d)
      BY DEF Frame, Outline, Tags, Tracked
    <2>. HIDE DEF there
    <2>. QED BY <1>1, <1>3, <1>5, <2>1, <2>2
  <1>6. CASE Exists(d, w) /\ d.owner[w] # m
    <2>. DEFINE t == There(d, w, m)
    <2>1. /\ Sound(t) /\ Shows(t, E) /\ Frame(d, t) /\ Gains(d, t, d.owner[w])
          /\ t.owner[w] = m
          /\ \A v \in Range(d.list) \ {w} : t.owner[v] = d.owner[v]
          /\ t.focus = d.focus
          /\ d.owner[w] \in E \/ Range(t.list) = Range(d.list)
          /\ MoveWorkspaceToMonitor(d, w, m) =
                IF Shown(d, w) /\ d.focus = d.owner[w] THEN StayActive(t, w, m) ELSE t
      BY <1>0, <1>6, ThereKeeps
    <2>2. there = IF Shown(d, w) /\ d.focus = d.owner[w] THEN StayActive(t, w, m) ELSE t
      BY <1>6, <2>1
    <2>. HIDE DEF t, there
    <2>3. Exists(t, w)
      BY <1>6, <2>1 DEF Exists, Gains
    <2>4. \A v \in Range(t.list) : \/ v = w \/ t.owner[v] \in E1
                                   \/ v \in Range(d.list) /\ t.owner[v] = d.owner[v]
      BY <2>1 DEF Gains
    <2>5. Steady(d, Adopt(t, m, w), E1) /\ Frame(d, Adopt(t, m, w))
      BY <1>3, <2>1, <2>3, <2>4
    <2>6. CASE there = t
      BY <1>1, <2>5, <2>6
    <2>7. CASE there = StayActive(t, w, m)
      <3>. DEFINE a == Adopt(t, m, w)
      <3>1. t \in Desks /\ t.active[m] = None /\ None \notin t.visible
        BY <2>1, ConstantTypes DEF Sound, Shows, Desks
      <3>2. e = [a EXCEPT !.focus = m]
        <4>. DEFINE A == [t.active EXCEPT ![m] = w]
                    L == [t.last EXCEPT ![w] = None]
                    V == t.visible \cup {w}
                    f == StayActive(t, w, m)
        <4>1. a = [t EXCEPT !.active = A, !.visible = V, !.last = L]
          BY <3>1 DEF Adopt, Desks
        <4>2. (t.visible \ {t.active[m]}) \cup {w} = V
          BY <3>1
        <4>3. f = [t EXCEPT !.active = A, !.focus = m, !.visible = V]
          BY <3>1, <4>2 DEF StayActive, Desks
        <4>4. f.active = A /\ f.visible = V /\ f.last = t.last
          BY <3>1, <4>3 DEF Desks
        <4>5. [A EXCEPT ![m] = w] = A /\ V \cup {w} = V
          BY <3>1 DEF Desks
        <4>6. Adopt(f, m, w) = [f EXCEPT !.active = [f.active EXCEPT ![m] = w],
                                         !.visible = f.visible \cup {w},
                                         !.last = [f.last EXCEPT ![w] = None]]
          BY DEF Adopt
        <4>7. Adopt(f, m, w) = [f EXCEPT !.active = A, !.visible = V, !.last = L]
          BY <4>4, <4>5, <4>6
        <4>8. e = Adopt(f, m, w)
          BY <1>1, <2>7
        <4>. HIDE DEF A, V, L, a, e, f
        <4>9. e = [[t EXCEPT !.active = A, !.focus = m, !.visible = V]
                      EXCEPT !.active = A, !.visible = V, !.last = L]
          BY <4>3, <4>7, <4>8
        <4>10. e = [[t EXCEPT !.active = A, !.visible = V, !.last = L] EXCEPT !.focus = m]
          BY <3>1, <4>9 DEF Desks
        <4>. QED BY <4>1, <4>10
      <3>3. Sound(a) /\ Shows(a, E1) /\ m \in Mons \cup {None}
        BY <2>5 DEF Steady
      <3>. HIDE DEF a, e
      <3>4. /\ Sound(e) /\ Shows(e, E1) /\ Frame(a, e) /\ e.list = a.list
            /\ e.owner = a.owner /\ e.focus = m
        BY <3>2, <3>3, FocusKeeps
      <3>5. Steady(a, e, E1)
        BY <3>4, FrameKeeps DEF Steady
      <3>6. Steady(d, e, E1) /\ Frame(d, e)
        BY <2>5, <3>4, <3>5, SteadyThen DEF a, Frame, Outline, Tags, Tracked
      <3>. QED BY <3>6 DEF e
    <2>. QED BY <2>2, <2>6, <2>7
  <1>. QED BY <1>4, <1>5, <1>6

LEMMA ChangeSteady ==
    ASSUME NEW d, NEW E, Sound(d), Shows(d, E), NEW m \in E, NEW w \in Ids,
           Exists(d, w), d.owner[w] = m
    PROVE  Steady(d, ChangeWorkspace(d, m, w), E)
  <1>. DEFINE c == ChangeWorkspace(d, m, w)
  <1>1. /\ Sound(c) /\ Shows(c, E) /\ Frame(d, c) /\ c.list = d.list
        /\ c.owner = d.owner /\ c.focus = d.focus /\ c.special = d.special
        /\ c.active = [d.active EXCEPT ![m] = w]
    BY ChangeKeeps, SMT
  <1>. HIDE DEF c
  <1>. QED BY <1>1, FrameKeeps DEF Steady, c

\* A workspace is brought to m and shown there.
LEMMA FetchSteady ==
    ASSUME EnoughIds, NEW d, NEW E, Sound(d), Shows(d, E), NEW m \in E, NEW w \in Ids,
           Exists(d, w)
    PROVE  Steady(d, Prune(ChangeWorkspace(MoveWorkspaceToMonitor(d, w, m), m, w)), E)
  <1>. DEFINE a == MoveWorkspaceToMonitor(d, w, m)
              b == ChangeWorkspace(a, m, w)
  <1>1. w \in Ws
    BY ConstantTypes
  <1>2. Steady(d, a, E) /\ Moves(d, a, w, m, E)
    BY <1>1, MoveSteady, MoveKeeps
  <1>. HIDE DEF a
  <1>3. Sound(a) /\ Shows(a, E) /\ Exists(a, w) /\ a.owner[w] = m
    BY <1>2 DEF Moves, Gains, Exists
  <1>4. Steady(a, b, E)
    BY <1>3, ChangeSteady
  <1>. HIDE DEF b
  <1>5. Steady(d, b, E) /\ Sound(b) /\ Shows(b, E)
    BY <1>2, <1>4, SteadyThen DEF Steady
  <1>6. Steady(b, Prune(b), E)
    BY <1>5, PruneSteady
  <1>7. Steady(d, Prune(b), E)
    BY <1>5, <1>6, SteadyThen
  <1>. QED BY <1>7 DEF a, b

LEMMA ShowSeenSteady ==
    ASSUME EnoughIds, NEW d, NEW E, Sound(d), Shows(d, E), NEW m \in E
    PROVE  Steady(d, ShowSeen(d, m), E)
  <1>1. d.seen[m] \in Ids \cup {None}
    BY DEF Sound, Desks, Shows
  <1>. QED BY <1>1, SteadyStart, FetchSteady DEF ShowSeen

\* What is on m stays there.
LEMMA ShowSeenStays ==
    ASSUME EnoughIds, NEW d, NEW E, Sound(d), Shows(d, E), NEW m \in E
    PROVE  \A v \in Tracked(d) : d.owner[v] = m => ShowSeen(d, m).owner[v] = m
  <1>. DEFINE w == d.seen[m]
              a == MoveWorkspaceToMonitor(d, w, m)
              b == ChangeWorkspace(a, m, w)
              p == Prune(b)
  <1>1. w \in Ids \cup {None} /\ Ids \subseteq Ws /\ m \in Mons
    BY ConstantTypes DEF Sound, Desks, Shows
  <1>2. CASE ~ (w # None /\ Exists(d, w))
    BY <1>2 DEF ShowSeen
  <1>3. CASE w # None /\ Exists(d, w)
    <2>1. ShowSeen(d, m) = p /\ w \in Ids /\ w \in Ws
      BY <1>1, <1>3 DEF ShowSeen
    <2>. HIDE DEF w
    <2>2. Moves(d, a, w, m, E)
      BY <2>1, MoveKeeps
    <2>. HIDE DEF a
    <2>3. /\ Sound(a) /\ Shows(a, E) /\ Exists(a, w) /\ a.owner[w] = m /\ Outline(d, a)
          /\ \A v \in Range(d.list) : d.owner[v] = m => a.owner[v] = m
      BY <1>3, <2>2 DEF Moves, Gains, Exists, Frame
    <2>4. Sound(b) /\ Shows(b, E) /\ Frame(a, b) /\ b.owner = a.owner
      <3>. DEFINE x == ChangeWorkspace(a, m, w)
      <3>1. /\ Sound(x) /\ Shows(x, E) /\ Frame(a, x)
            /\ x.list = a.list /\ x.owner = a.owner
            /\ x.focus = a.focus /\ x.special = a.special
            /\ x.active = [a.active EXCEPT ![m] = w]
        <4>. HIDE DEF b
        <4>. QED BY <2>1, <2>3, ChangeKeeps
      <3>. HIDE DEF x
      <3>2. b = x
        BY DEF x, b
      <3>. HIDE DEF b
      <3>. QED BY <3>1, <3>2
    <2>. HIDE DEF b
    <2>5. Sound(p) /\ Outline(b, p) /\ \A v \in Range(p.list) : p.owner[v] = b.owner[v]
      BY <2>4, PruneSteady DEF Steady
    <2>. HIDE DEF p
    <2>6. Tracked(d) \subseteq Range(d.list) /\ Tracked(d) \subseteq Range(p.list)
      BY <2>3, <2>4, <2>5 DEF Tracked, Sound, Outline, Frame
    <2>. QED BY <2>1, <2>3, <2>4, <2>5, <2>6
  <1>. QED BY <1>2, <1>3

-----------------------------------------------------------------------------
(* Monitors that come *)

Deferred == {"fallback", "ensure", "start"}

\* Both have the same screens.
Alike(d, e) ==
    /\ e.list = d.list /\ e.owner = d.owner /\ e.visible = d.visible
    /\ e.active = d.active /\ e.special = d.special
    /\ e.windows = d.windows /\ e.persistent = d.persistent

LEMMA AlikeKeeps ==
    ASSUME NEW d, NEW E, Sound(d), Shows(d, E), NEW e \in Desks, Alike(d, e),
           IsInjective(e.monitors)
    PROVE  Sound(e) /\ Shows(e, E)
  BY DEF Sound, Shows, Alike, Exists, SeenAt

LEMMA LaterType ==
    ASSUME NEW d \in Desks, NEW f \in Deferred
    PROVE  /\ Append(d.later, f) \in Seq(Deferred)
           /\ Range(Append(d.later, f)) = Range(d.later) \cup {f}
  <1>1. d.later \in Seq(Deferred)
    BY DEF Desks, Deferred
  <1>. QED BY <1>1, RangeAppend

\* A change of what is wanted is queued.
LEMMA FallbackKeeps ==
    ASSUME NEW d, NEW E, Sound(d), Shows(d, E), NEW on \in BOOLEAN
    PROVE  LET e == SetFallbackActive(d, on)
           IN  /\ Sound(e) /\ Shows(e, E) /\ Alike(d, e)
               /\ e.monitors = d.monitors /\ e.focus = d.focus /\ e.last = d.last
               /\ Range(d.later) \subseteq Range(e.later)
               /\ e.wanted = on
               /\ d.wanted # on => "fallback" \in Range(e.later)
  <1>. DEFINE e == SetFallbackActive(d, on)
              q == IF "fallback" \in Range(d.later) THEN d.later
                   ELSE Append(d.later, "fallback")
  <1>0. d \in Desks
    BY DEF Sound
  <1>1. CASE d.wanted = on
    <2>1. e = d
      BY <1>1 DEF SetFallbackActive
    <2>. QED BY <1>1, <2>1 DEF Alike
  <1>2. CASE d.wanted # on
    <2>1. q \in Seq(Deferred) /\ Range(d.later) \subseteq Range(q) /\ "fallback" \in Range(q)
      BY <1>0, LaterType DEF Deferred, Desks
    <2>2. e = [d EXCEPT !.wanted = on, !.later = q]
      BY <1>2 DEF SetFallbackActive
    <2>. HIDE DEF q
    <2>3. e \in Desks
      BY <1>0, <2>1, <2>2 DEF Desks, Deferred
    <2>4. /\ e.wanted = on /\ e.later = q /\ Alike(d, e) /\ e.monitors = d.monitors
          /\ e.focus = d.focus /\ e.last = d.last
      BY <1>0, <2>2 DEF Desks, Alike
    <2>. HIDE DEF e
    <2>5. Sound(e) /\ Shows(e, E)
      BY <2>3, <2>4, AlikeKeeps DEF Sound
    <2>. QED BY <2>1, <2>4, <2>5 DEF e
  <1>. QED BY <1>1, <1>2

\* The focused monitor is an enabled one, if any is.
Focused(d) == IF d.monitors = <<>> THEN d.focus = None ELSE d.focus \in Enabled(d)

\* While a monitor is there, only a persistent workspace is on none.
Loose(d) ==
    d.monitors # <<>> =>
        \A v \in Range(d.list) : d.owner[v] \in Enabled(d) \/ v \in Range(Persistent)

LEMMA RegisterKeeps ==
    ASSUME NEW d, NEW E, Sound(d), Shows(d, E), NEW m \in Mons, m \notin Enabled(d),
           NEW focus \in Mons
    PROVE  LET e == Register(d, m, focus)
           IN  /\ Sound(e) /\ Shows(e, E) /\ Alike(d, e)
               /\ Enabled(e) = Enabled(d) \cup {m} /\ e.monitors # <<>>
               /\ e.focus = focus /\ Range(e.later) = Range(d.later) \cup {"ensure"}
               /\ e.wanted = d.wanted /\ e.last = d.last
  <1>. DEFINE e == Register(d, m, focus)
              q == Append(d.later, "ensure")
              n == Append(d.monitors, m)
  <1>0. d \in Desks /\ IsInjective(d.monitors) /\ d.monitors \in Seq(Mons)
    BY DEF Sound, Desks
  <1>1. q \in Seq(Deferred) /\ Range(q) = Range(d.later) \cup {"ensure"}
    BY <1>0, LaterType DEF Deferred
  <1>2. n \in Seq(Mons) /\ Range(n) = Enabled(d) \cup {m} /\ n # <<>> /\ IsInjective(n)
    BY <1>0, RangeAppend DEF Enabled
  <1>3. e = [d EXCEPT !.focus = focus, !.later = q, !.monitors = n]
    BY DEF Register
  <1>. HIDE DEF q, n
  <1>4. e \in Desks
    BY <1>0, <1>1, <1>2, <1>3 DEF Desks, Deferred
  <1>5. /\ e.focus = focus /\ e.later = q /\ e.monitors = n /\ Alike(d, e)
        /\ e.wanted = d.wanted /\ e.last = d.last
    BY <1>0, <1>3 DEF Desks, Alike
  <1>. HIDE DEF e
  <1>6. Sound(e) /\ Shows(e, E)
    BY <1>2, <1>4, <1>5, AlikeKeeps
  <1>. QED BY <1>1, <1>2, <1>5, <1>6 DEF e, Enabled

\* What OnConnect leaves: what waits for m is on m, what waits for others waits.
Connected(d, e, m) ==
    /\ Sound(e) /\ Shows(e, Enabled(e))
    /\ Enabled(e) = Enabled(d) \cup {m} /\ e.monitors # <<>> /\ e.focus \in Enabled(e)
    /\ Range(d.later) \cup {"ensure"} \subseteq Range(e.later)
    /\ Loose(e)
    /\ IF m = Fallback THEN e.wanted = d.wanted
       ELSE ~ e.wanted /\ (d.wanted => "fallback" \in Range(e.later))
    /\ e.windows = d.windows /\ Keeps(d, e, Enabled(d) \cup {m})
    /\ \A v \in Tracked(d) : d.last[v] = m => e.owner[v] = m

LEMMA ConnectKeeps ==
    ASSUME EnoughIds, NEW d, Sound(d), Shows(d, Enabled(d)), Focused(d), Loose(d),
           NEW m \in Mons, m \notin Enabled(d)
    PROVE  Connected(d, OnConnect(d, m), m)
  <1>. DEFINE E == Enabled(d) \cup {m}
              start == SetupDefaultWS(d, m)
              back == TakeBack(start, m)
              x == IF back.focus = None THEN m ELSE back.focus
              focused == [back EXCEPT !.focus = x]
              shown == ShowSeen(focused, m)
              y == IF focused.focus \notin Enabled(d) THEN m ELSE shown.focus
              up == Register(shown, m, y)
              e == OnConnect(d, m)
              no == FALSE
  <1>1. e = IF m = Fallback THEN up ELSE SetFallbackActive(up, no)
    BY DEF OnConnect
  <1>. HIDE DEF start, no
  <1>2. /\ Steady(d, start, E) /\ Sound(start) /\ Shows(start, E)
        /\ Enabled(start) = Enabled(d) /\ Enabled(start) \subseteq E
        /\ Frame(d, start)
    <2>1. Steady(d, start, E) /\ Frame(d, start)
      BY SetupKeeps DEF start
    <2>. QED BY <2>1 DEF Steady, Outline, Enabled
  <1>3. /\ Steady(start, back, E)
        /\ Cardinality(Enabled(start) \ {Fallback, m}) <= 1 =>
              \A v \in Range(back.list) : back.owner[v] \in E
        /\ \A v \in Tracked(start) : start.last[v] = m => back.owner[v] = m
    BY <1>2, TakeBackSteady
  <1>. HIDE DEF back
  <1>4. Steady(d, back, E) /\ Sound(back) /\ Shows(back, E)
    BY <1>2, <1>3, SteadyThen DEF Steady
  <1>5. x \in E /\ x \in Mons \cup {None} /\ E \subseteq Mons
    <2>1. d.focus \in E \cup {None}
      BY DEF Focused
    <2>2. E \subseteq Mons
      BY <1>2 DEF Shows
    <2>. QED BY <1>4, <2>1, <2>2 DEF Steady
  <1>. HIDE DEF x
  <1>6. /\ Sound(focused) /\ Shows(focused, E) /\ Frame(back, focused)
        /\ focused.list = back.list /\ focused.owner = back.owner /\ focused.focus = x
    BY <1>4, <1>5, FocusKeeps
  <1>. HIDE DEF focused
  <1>7. Steady(back, focused, E)
    BY <1>5, <1>6, FrameKeeps DEF Steady
  <1>8. Steady(focused, shown, E)
    BY <1>6, ShowSeenSteady
  <1>. HIDE DEF shown
  <1>9. Steady(back, shown, E) /\ Steady(d, shown, E)
    BY <1>4, <1>7, <1>8, SteadyThen
  <1>10. /\ Sound(shown) /\ Shows(shown, E) /\ Enabled(shown) = Enabled(d)
         /\ shown.later = d.later /\ shown.wanted = d.wanted
    BY <1>9 DEF Steady, Outline, Enabled
  <1>11. y \in E
    BY <1>5, <1>6, <1>8 DEF Steady
  <1>. HIDE DEF y
  <1>12. \A v \in Range(shown.list) : shown.owner[v] \in E \/ v \in Range(Persistent)
    <2>1. CASE d.monitors = <<>>
      <3>1. Enabled(start) \ {Fallback, m} = {}
        BY <1>2, <2>1 DEF Enabled, Range
      <3>2. Cardinality(Enabled(start) \ {Fallback, m}) <= 1
        BY <3>1, FS_EmptySet
      <3>. QED BY <1>3, <1>9, <3>2 DEF Steady
    <2>2. CASE d.monitors # <<>>
      BY <1>9, <2>2 DEF Steady, Loose
    <2>. QED BY <2>1, <2>2
  <1>20. /\ shown.windows = d.windows /\ Keeps(d, shown, E)
         /\ \A v \in Tracked(d) : d.last[v] = m => shown.owner[v] = m
    <2>1. \A v \in Tracked(focused) : focused.owner[v] = m => shown.owner[v] = m
      BY <1>6, ShowSeenStays DEF shown
    <2>2. Tracked(start) = Tracked(d) /\ Tracked(focused) = Tracked(d)
      BY <1>2, <1>3, <1>6 DEF Tracked, Steady, Frame, Outline
    <2>3. \A v \in Tracked(d) : d.last[v] = m => shown.owner[v] = m
      BY <1>2, <1>3, <1>6, <2>1, <2>2 DEF Frame, Tags
    <2>. QED BY <1>9, <2>3 DEF Steady, Outline
  <1>13. /\ Sound(up) /\ Shows(up, E) /\ Alike(shown, up)
         /\ Enabled(up) = E /\ up.monitors # <<>>
         /\ up.focus = y /\ Range(up.later) = Range(d.later) \cup {"ensure"}
         /\ up.wanted = d.wanted /\ up.last = shown.last
    <2>1. Sound(shown) /\ Shows(shown, E) /\ m \notin Enabled(shown) /\ y \in Mons
      BY <1>5, <1>10, <1>11
    <2>2. /\ Sound(up) /\ Shows(up, E) /\ Alike(shown, up)
          /\ Enabled(up) = Enabled(shown) \cup {m} /\ up.monitors # <<>>
          /\ up.focus = y /\ Range(up.later) = Range(shown.later) \cup {"ensure"}
          /\ up.wanted = shown.wanted /\ up.last = shown.last
      <3>. HIDE DEF E
      <3>. QED BY <2>1, RegisterKeeps
    <2>. HIDE DEF up
    <2>. QED BY <1>10, <2>2
  <1>. HIDE DEF up
  <1>14. Loose(up)
    BY <1>12, <1>13 DEF Loose, Alike
  <1>21. /\ up.windows = d.windows /\ Keeps(d, up, E)
         /\ \A v \in Tracked(d) : d.last[v] = m => up.owner[v] = m
    BY <1>13, <1>20 DEF Alike, Keeps
  <1>15. CASE m = Fallback
    BY <1>1, <1>11, <1>13, <1>14, <1>15, <1>21 DEF Connected
  <1>16. CASE m # Fallback
    <2>1. e = SetFallbackActive(up, no) /\ no \in BOOLEAN
      BY <1>1, <1>16 DEF no
    <2>2. /\ Sound(e) /\ Shows(e, E) /\ Alike(up, e)
          /\ e.monitors = up.monitors /\ e.focus = up.focus /\ e.last = up.last
          /\ Range(up.later) \subseteq Range(e.later)
          /\ e.wanted = no
          /\ up.wanted # no => "fallback" \in Range(e.later)
      BY <1>13, <2>1, FallbackKeeps
    <2>. HIDE DEF e
    <2>3. Enabled(e) = E /\ Loose(e)
      BY <1>13, <1>14, <2>2 DEF Enabled, Loose, Alike
    <2>5. /\ e.windows = d.windows /\ Keeps(d, e, E)
          /\ \A v \in Tracked(d) : d.last[v] = m => e.owner[v] = m
      BY <1>21, <2>2 DEF Alike, Keeps
    <2>4. Connected(d, e, m)
      BY <1>11, <1>13, <1>16, <2>2, <2>3, <2>5 DEF Connected, no
    <2>. QED BY <2>4 DEF e
  <1>. QED BY <1>15, <1>16

-----------------------------------------------------------------------------
(* Monitors that go *)

\* NoneStranded, with S for the calls that are still to come.
Stranded(d, S) ==
    d.monitors # <<>> =>
        \A v \in Range(d.list) :
            \/ d.owner[v] \in Enabled(d)
            \/ v \in Range(Persistent) /\ (Rule[v] \in Enabled(d) => "ensure" \in S)

LEMMA ReleaseFields ==
    ASSUME NEW d \in Desks, NEW m \in Mons, NEW backup \in Mons \cup {None}
    PROVE  LET e == Release(d, m, backup)
           IN  /\ e \in Desks /\ Frame(d, e) /\ e.list = d.list /\ e.owner = d.owner
               /\ e.persistent = d.persistent
               /\ e.active = [d.active EXCEPT ![m] = None]
               /\ e.special = [d.special EXCEPT ![m] = None]
               /\ e.focus = IF d.focus = m \/ backup = None THEN backup ELSE d.focus
               /\ e.visible = d.visible \ {d.active[m], d.special[m]}
  <1>. DEFINE e == Release(d, m, backup)
              a == [d.active EXCEPT ![m] = None]
              s == [d.special EXCEPT ![m] = None]
              v == d.visible \ {d.active[m], d.special[m]}
              f == IF d.focus = m \/ backup = None THEN backup ELSE d.focus
  <1>1. /\ a \in [Mons -> Ids \cup {None}] /\ v \in SUBSET Ws
        /\ s \in [Mons -> {Special, None}] /\ f \in Mons \cup {None}
    BY DEF Desks
  <1>2. e = [d EXCEPT !.visible = v, !.active = a, !.special = s, !.focus = f]
    BY DEF Release, Desks
  <1>. HIDE DEF a, v, s, f
  <1>3. e \in Desks
    BY <1>1, <1>2 DEF Desks
  <1>4. /\ e.active = a /\ e.special = s /\ e.visible = v /\ e.focus = f
        /\ Frame(d, e) /\ e.list = d.list
        /\ e.owner = d.owner /\ e.persistent = d.persistent
    BY <1>2 DEF Desks, Frame, Outline, Tags, Tracked
  <1>. QED BY <1>3, <1>4 DEF a, v, s, f

\* The monitor that goes shows nothing any more.
LEMMA ReleaseKeeps ==
    ASSUME NEW d, NEW E, Sound(d), Shows(d, E), NEW m \in Mons,
           NEW backup \in Mons \cup {None}
    PROVE  LET e == Release(d, m, backup)
           IN  /\ Sound(e) /\ Shows(e, E \ {m}) /\ Frame(d, e) /\ e.list = d.list
               /\ e.owner = d.owner
               /\ d.focus = m \/ backup = None => e.focus = backup
               /\ d.focus # m /\ backup # None => e.focus = d.focus
  <1>. DEFINE e == Release(d, m, backup)
  <1>0. /\ d \in Desks /\ m # None /\ E \subseteq Mons
        /\ d.active \in [Mons -> Ids \cup {None}]
        /\ d.special \in [Mons -> {Special, None}]
    BY ConstantTypes DEF Sound, Desks, Shows
  <1>1. /\ e \in Desks /\ Frame(d, e) /\ e.list = d.list /\ e.owner = d.owner
        /\ e.persistent = d.persistent
        /\ e.active = [d.active EXCEPT ![m] = None]
        /\ e.special = [d.special EXCEPT ![m] = None]
        /\ e.focus = IF d.focus = m \/ backup = None THEN backup ELSE d.focus
        /\ e.visible = d.visible \ {d.active[m], d.special[m]}
    BY <1>0, ReleaseFields
  <1>. HIDE DEF e
  <1>2. Sound(e)
    BY <1>1 DEF Sound, Frame, Outline
  <1>3. ASSUME NEW n \in E \ {m} PROVE Exists(e, e.active[n]) /\ e.owner[e.active[n]] = n
    BY <1>0, <1>1 DEF Shows, Exists
  <1>4. ASSUME NEW n \in Mons, e.special[n] # None
        PROVE  n \in E \ {m} /\ Exists(e, Special) /\ e.owner[Special] = n
    BY <1>0, <1>1, <1>4 DEF Shows, Exists
  <1>5. ASSUME NEW n \in Mons \ (E \ {m}) PROVE e.active[n] = None
    BY <1>0, <1>1 DEF Shows
  <1>6. ASSUME NEW v \in Ws
        PROVE  v \in e.visible <=> e.owner[v] \in E \ {m} /\ SeenAt(e, v, e.owner[v])
    <2>1. SeenAt(d, v, m) => d.owner[v] = m
      BY <1>0, SeenIsOwned
    <2>2. v \in d.visible <=> d.owner[v] \in E /\ SeenAt(d, v, d.owner[v])
      BY DEF Shows
    <2>3. v # None
      BY ConstantTypes
    <2>4. CASE d.owner[v] = m
      BY <1>1, <2>2, <2>4 DEF SeenAt
    <2>5. CASE d.owner[v] # m
      <3>1. v \in e.visible <=> v \in d.visible
        BY <1>1, <2>1, <2>5 DEF SeenAt
      <3>2. d.owner[v] \in E => (SeenAt(e, v, d.owner[v]) <=> SeenAt(d, v, d.owner[v]))
        BY <1>0, <1>1, <2>5 DEF SeenAt
      <3>. QED BY <1>1, <2>2, <2>5, <3>1, <3>2
    <2>. QED BY <2>4, <2>5
  <1>7. Shows(e, E \ {m})
    BY <1>0, <1>3, <1>4, <1>5, <1>6 DEF Shows
  <1>. QED BY <1>1, <1>2, <1>7 DEF e

\* What a workspace that leaves finds on its way, and what fills its gaps.
Leaves(t, e, lv, m, backup, E) ==
    /\ Sound(e) /\ Shows(e, E) /\ Frame(t, e) /\ e.focus \in {t.focus, backup}
    /\ Range(t.list) \subseteq Range(e.list)
    /\ \A v \in Range(t.list) : IF v \in lv THEN e.owner[v] \in {m, None, backup}
                                ELSE e.owner[v] = t.owner[v]
    /\ \A x \in Range(e.list) \ Range(t.list) :
          x \in Ids /\ e.owner[x] = m /\ (Rule[x] \in Enabled(t) => Rule[x] = m)

LEMMA LeavesThen ==
    ASSUME EnoughIds, NEW t, NEW e, NEW lv, NEW m, NEW backup, NEW E,
           Leaves(t, e, lv, m, backup, E), lv \subseteq Range(t.list), lv \subseteq Ws,
           NEW w \in lv, backup = None \/ backup \in E
    PROVE  LET f == MoveWorkspaceToMonitor(e, w, backup)
           IN  /\ Leaves(t, f, lv, m, backup, E)
               /\ backup # None => /\ f.owner[w] = backup
                                   /\ \A v \in lv \ {w} : f.owner[v] = e.owner[v]
  <1>. DEFINE f == MoveWorkspaceToMonitor(e, w, backup)
  <1>1. CASE backup = None
    <2>1. f = e
      BY <1>1 DEF MoveWorkspaceToMonitor
    <2>. QED BY <1>1, <2>1
  <1>2. CASE backup # None
    <2>1. Moves(e, f, w, backup, E)
      BY <1>2, MoveKeeps DEF Leaves
    <2>. HIDE DEF f
    <2>2. CASE e.owner[w] = backup
      BY <1>2, <2>1, <2>2 DEF Moves, f
    <2>3. CASE e.owner[w] # backup
      <3>1. e.owner[w] \in {m, None} /\ None \notin E /\ w \in Range(t.list)
        BY <2>3, ConstantTypes DEF Leaves, Shows
      <3>2. Range(e.list) \subseteq Range(f.list) /\ Range(t.list) \subseteq Range(e.list)
        BY <2>1 DEF Moves, Gains, Leaves
      <3>3. ASSUME NEW x \in Range(f.list) \ Range(t.list)
            PROVE  x \in Ids /\ f.owner[x] = m /\ (Rule[x] \in Enabled(t) => Rule[x] = m)
        <4>1. CASE x \in Range(e.list)
          BY <2>1, <3>1, <3>3, <4>1 DEF Moves, Leaves
        <4>2. CASE x \notin Range(e.list)
          <5>1. e.owner[w] = m
            BY <2>1, <3>1, <4>2 DEF Moves
          <5>2. Enabled(e) = Enabled(t)
            BY DEF Leaves, Frame, Outline, Enabled
          <5>. QED BY <2>1, <4>2, <5>1, <5>2 DEF Moves, Gains
        <4>. QED BY <4>1, <4>2
      <3>4. ASSUME NEW v \in Range(t.list)
            PROVE  IF v \in lv THEN f.owner[v] \in {m, None, backup}
                   ELSE f.owner[v] = t.owner[v]
        BY <2>1, <3>2 DEF Moves, Leaves
      <3>5. Leaves(t, f, lv, m, backup, E)
        <4>1. /\ Sound(f) /\ Shows(f, E) /\ Frame(t, f) /\ f.focus \in {t.focus, backup}
          BY <2>1 DEF Moves, Leaves, Frame, Outline, Tags, Tracked
        <4>. QED BY <3>2, <3>3, <3>4, <4>1 DEF Leaves
      <3>6. f.owner[w] = backup /\ \A v \in lv \ {w} : f.owner[v] = e.owner[v]
        BY <2>1, <3>2 DEF Moves
      <3>. QED BY <3>5, <3>6 DEF f
    <2>. QED BY <2>2, <2>3
  <1>. QED BY <1>1, <1>2

\* All that leave are on the backup in the end, if there is one.
LEMMA MoveAllLeaves ==
    ASSUME EnoughIds, NEW t, NEW E, Sound(t), Shows(t, E), NEW m \in Mons, NEW backup,
           backup = None \/ backup \in E, NEW l \in Seq(Ws),
           Range(l) \subseteq Range(t.list),
           \A w \in Range(l) : t.owner[w] \in {m, None}
    PROVE  LET f == MoveAll(t, l, backup)
           IN  /\ Leaves(t, f, Range(l), m, backup, E)
               /\ backup # None => \A w \in Range(l) : f.owner[w] = backup
  <1>. DEFINE n == Len(l)
              lv == Range(l)
              D == {e \in Desks : Leaves(t, e, lv, m, backup, E)}
              f == MoveAll(t, l, backup)
  <1>1. /\ n \in Nat /\ lv \subseteq Ws /\ \A k \in 1..n : l[k] \in lv
        /\ l \in Seq(lv) /\ \A w \in lv : \E k \in 1..n : l[k] = w
    BY InRange, LenProperties
  <1>2. t \in D
    BY DEF Leaves, Frame, Outline, Tags, Tracked, Sound
  <1>3. ASSUME NEW e \in D, NEW w \in lv
        PROVE  /\ MoveWorkspaceToMonitor(e, w, backup) \in D
               /\ backup # None =>
                     /\ MoveWorkspaceToMonitor(e, w, backup).owner[w] = backup
                     /\ \A v \in lv \ {w} :
                           MoveWorkspaceToMonitor(e, w, backup).owner[v] = e.owner[v]
    <2>1. Leaves(t, e, lv, m, backup, E)
      OBVIOUS
    <2>. HIDE DEF lv, D
    <2>2. lv \subseteq Range(t.list)
      BY DEF lv
    <2>3. /\ Leaves(t, MoveWorkspaceToMonitor(e, w, backup), lv, m, backup, E)
          /\ backup # None =>
                     /\ MoveWorkspaceToMonitor(e, w, backup).owner[w] = backup
                     /\ \A v \in lv \ {w} :
                           MoveWorkspaceToMonitor(e, w, backup).owner[v] = e.owner[v]
      BY <1>1, <2>1, <2>2, LeavesThen
    <2>4. MoveWorkspaceToMonitor(e, w, backup) \in Desks
      BY <2>3 DEF Leaves, Sound
    <2>. QED BY <2>3, <2>4 DEF D
  <1>. HIDE DEF lv, D
  <1>4. MoveStays(D, lv, backup)
    BY <1>3 DEF MoveStays
  <1>5. PICK c \in [0..n -> D] :
            /\ c[0] = t /\ f = c[n]
            /\ \A k \in 1..n : c[k] = MoveWorkspaceToMonitor(c[k - 1], l[k], backup)
    BY <1>1, <1>2, <1>4, MoveFolds
  <1>. DEFINE Done(k) == backup # None => \A j \in 1..k : c[k].owner[l[j]] = backup
              Good == {k \in 0..n : Done(k)}
  <1>. HIDE DEF f, n
  <1>6. ASSUME NEW k \in 1..n, k - 1 \in Good PROVE k \in Good
    <2>1. k - 1 \in 0..n /\ k \in 0..n /\ l[k] \in lv /\ c[k - 1] \in D
      BY <1>1, <1>5
    <2>2. backup # None => /\ c[k].owner[l[k]] = backup
                           /\ \A v \in lv \ {l[k]} : c[k].owner[v] = c[k - 1].owner[v]
      BY <1>3, <1>5, <2>1
    <2>3. \A j \in 1..k : l[j] \in lv /\ (j \in 1..(k - 1) \/ j = k)
      BY <1>1
    <2>4. Done(k - 1)
      BY <1>6
    <2>5. Done(k)
      BY <2>2, <2>3, <2>4
    <2>. QED BY <2>1, <2>5
  <1>7. 0 \in Good
    BY <1>1
  <1>8. Done(n)
    <2>. HIDE DEF Good
    <2>1. \A k \in 0..n : k \in Good
      BY <1>1, <1>6, <1>7, Induction
    <2>2. n \in Good
      BY <1>1, <2>1
    <2>. QED BY <2>2 DEF Good
  <1>9. Leaves(t, f, lv, m, backup, E)
    BY <1>1, <1>5 DEF D
  <1>10. backup # None => \A w \in lv : f.owner[w] = backup
    BY <1>1, <1>5, <1>8
  <1>. QED BY <1>9, <1>10 DEF lv, f

\* The tags, and what m showed.
Tagged(d, leaving, m) ==
    [Tag(d, leaving, m) EXCEPT !.seen[m] = IF d.active[m] = None THEN @ ELSE d.active[m]]

LEMMA TaggedKeeps ==
    ASSUME NEW d, NEW E, Sound(d), Shows(d, E), NEW m \in Mons, NEW leaving
    PROVE  LET e == Tagged(d, leaving, m)
           IN  /\ Sound(e) /\ Shows(e, E) /\ Alike(d, e) /\ e.monitors = d.monitors
               /\ e.focus = d.focus /\ e.later = d.later /\ e.wanted = d.wanted
               /\ \A w \in Ws : /\ d.last[w] # None => e.last[w] = d.last[w]
                                /\ d.last[w] = None /\ w \in Range(leaving) => e.last[w] = m
  <1>. DEFINE e == Tagged(d, leaving, m)
              l == [w \in Ws |-> IF w \in Range(leaving) /\ d.last[w] = None
                                 THEN m ELSE d.last[w]]
              s == [d.seen EXCEPT ![m] = IF d.active[m] = None THEN @ ELSE d.active[m]]
  <1>0. d \in Desks
    BY DEF Sound
  <1>1. l \in [Ws -> Mons \cup {None}] /\ s \in [Mons -> Ids \cup {None}]
    BY <1>0 DEF Desks
  <1>2. e = [d EXCEPT !.last = l, !.seen = s]
    BY <1>0 DEF Tagged, Tag, Desks
  <1>6. \A w \in Ws : /\ d.last[w] # None => l[w] = d.last[w]
                      /\ d.last[w] = None /\ w \in Range(leaving) => l[w] = m
    OBVIOUS
  <1>. HIDE DEF l, s
  <1>3. e \in Desks
    BY <1>0, <1>1, <1>2 DEF Desks
  <1>4. /\ Alike(d, e) /\ e.monitors = d.monitors /\ e.last = l
        /\ e.focus = d.focus /\ e.later = d.later /\ e.wanted = d.wanted
    BY <1>0, <1>2 DEF Desks, Alike
  <1>. HIDE DEF e
  <1>5. Sound(e) /\ Shows(e, E)
    BY <1>3, <1>4, AlikeKeeps DEF Sound
  <1>. QED BY <1>4, <1>5, <1>6 DEF e

LEMMA MonitorsKeeps ==
    ASSUME NEW d, NEW E, Sound(d), Shows(d, E), NEW others \in Seq(Mons),
           IsInjective(others)
    PROVE  LET e == [d EXCEPT !.monitors = others]
           IN  /\ Sound(e) /\ Shows(e, E) /\ Alike(d, e) /\ e.monitors = others
               /\ e.focus = d.focus /\ e.later = d.later /\ e.wanted = d.wanted
               /\ e.last = d.last
  <1>. DEFINE e == [d EXCEPT !.monitors = others]
  <1>0. d \in Desks
    BY DEF Sound
  <1>1. e \in Desks
    BY <1>0 DEF Desks
  <1>2. /\ Alike(d, e) /\ e.monitors = others
        /\ e.focus = d.focus /\ e.later = d.later /\ e.wanted = d.wanted
        /\ e.last = d.last
    BY <1>0 DEF Desks, Alike
  <1>. HIDE DEF e
  <1>3. Sound(e) /\ Shows(e, E)
    BY <1>1, <1>2, AlikeKeeps
  <1>. QED BY <1>2, <1>3 DEF e

\* The tags that are there when m goes stay, and what it owns without one gets its
\* tag.
Parting(d, e, m) ==
    /\ e.windows = d.windows /\ Keeps(d, e, Enabled(d))
    /\ m \in Enabled(d) =>
          \A v \in Tracked(d) : d.owner[v] = m /\ d.last[v] = None => e.last[v] = m

\* What Evacuate leaves: of what it could not move, only what is persistent
\* survives, and that has no rule for a monitor that is left.
Evacuated(d, e, m, S) ==
    /\ Sound(e) /\ Shows(e, Enabled(e)) /\ Enabled(e) = Enabled(d) \ {m}
    /\ Focused(e) /\ e.later = d.later /\ e.wanted = d.wanted
    /\ Stranded(e, S) /\ Parting(d, e, m)

LEMMA EvacuateKeeps ==
    ASSUME EnoughIds, NEW d, Sound(d), Shows(d, Enabled(d)), Focused(d),
           NEW S, Stranded(d, S), NEW m \in Enabled(d)
    PROVE  Evacuated(d, Evacuate(d, m), m, S)
  <1>. DEFINE E == Enabled(d)
              E1 == E \ {m}
              leaving == Among(d.list, {w \in Ws : d.owner[w] \in {m, None}})
              others == Among(d.monitors, Mons \ {m})
              backup == IF others = <<>> THEN None ELSE Head(others)
              t == Tagged(d, leaving, m)
              moved == MoveAll(t, leaving, backup)
              freed == Release(moved, m, backup)
              p == Prune(freed)
              e == Evacuate(d, m)
  <1>0. /\ d \in Desks /\ d.list \in Seq(Ws) /\ d.monitors \in Seq(Mons) /\ E \subseteq Mons
        /\ m \in Mons /\ Range(d.list) \subseteq Ws /\ None \notin E
        /\ IsInjective(d.monitors)
    <2>1. d \in Desks /\ E \subseteq Mons /\ d.list \in Seq(Ws) /\ d.monitors \in Seq(Mons)
          /\ IsInjective(d.monitors)
      BY DEF Sound, Shows, Desks
    <2>. QED BY <2>1, InRange, ConstantTypes
  <1>1. e = [p EXCEPT !.monitors = others]
    BY DEF Evacuate, Tagged, MoveAll, FoldLeft, MapThenFoldSet
  <1>2. /\ leaving \in Seq(Ws)
        /\ Range(leaving) = {w \in Range(d.list) : d.owner[w] \in {m, None}}
    BY <1>0, AmongIs
  <1>3. others \in Seq(Mons) /\ Range(others) = E1 /\ IsInjective(others)
    <2>1. /\ others \in Seq(Mons) /\ Range(others) = Range(d.monitors) \cap (Mons \ {m})
          /\ IsInjective(others)
      BY <1>0, AmongIs
    <2>. QED BY <1>0, <2>1 DEF Enabled
  <1>. HIDE DEF leaving, others
  <1>4. IF others = <<>> THEN backup = None /\ E1 = {} ELSE backup \in E1 /\ E1 # {}
    <2>1. CASE others = <<>>
      <3>1. Range(others) = {}
        BY <2>1 DEF Range
      <3>. QED BY <1>3, <2>1, <3>1
    <2>2. CASE others # <<>>
      BY <1>3, <2>2, HeadInRange
    <2>. QED BY <2>1, <2>2
  <1>. HIDE DEF backup
  <1>5. /\ Sound(t) /\ Shows(t, E) /\ Alike(d, t) /\ t.monitors = d.monitors
        /\ t.focus = d.focus /\ t.later = d.later /\ t.wanted = d.wanted
        /\ \A w \in Ws : /\ d.last[w] # None => t.last[w] = d.last[w]
                         /\ d.last[w] = None /\ w \in Range(leaving) => t.last[w] = m
    <2>. HIDE DEF E
    <2>1. Sound(d) /\ Shows(d, E)
      BY DEF E
    <2>. QED BY <1>0, <2>1, TaggedKeeps
  <1>. HIDE DEF t
  <1>6. /\ Leaves(t, moved, Range(leaving), m, backup, E)
        /\ backup # None => \A w \in Range(leaving) : moved.owner[w] = backup
    <2>1. /\ backup = None \/ backup \in E
          /\ Range(leaving) \subseteq Range(t.list)
          /\ \A w \in Range(leaving) : t.owner[w] \in {m, None}
      BY <1>2, <1>4, <1>5 DEF Alike
    <2>2. Sound(t) /\ Shows(t, E) /\ m \in Mons /\ leaving \in Seq(Ws)
      BY <1>0, <1>2, <1>5
    <2>. HIDE DEF E
    <2>. QED BY <2>1, <2>2, MoveAllLeaves
  <1>. HIDE DEF moved
  <1>7. Sound(moved) /\ Shows(moved, E) /\ backup \in Mons \cup {None}
    BY <1>0, <1>4, <1>6 DEF Leaves
  <1>8. /\ Sound(freed) /\ Shows(freed, E1) /\ Frame(moved, freed)
        /\ freed.list = moved.list /\ freed.owner = moved.owner
        /\ freed.focus = IF moved.focus = m \/ backup = None THEN backup ELSE moved.focus
    <2>. HIDE DEF e, p, E
    <2>0. Sound(moved) /\ Shows(moved, E) /\ m \in Mons /\ backup \in Mons \cup {None}
      BY <1>0, <1>7
    <2>1. /\ Sound(freed) /\ Shows(freed, E \ {m}) /\ Frame(moved, freed)
          /\ freed.list = moved.list /\ freed.owner = moved.owner
          /\ moved.focus = m \/ backup = None => freed.focus = backup
          /\ moved.focus # m /\ backup # None => freed.focus = moved.focus
      BY <2>0, ReleaseKeeps
    <2>. QED BY <2>1
  <1>. HIDE DEF freed
  <1>9. /\ Steady(freed, p, E1) /\ p.focus = freed.focus
        /\ Range(p.list) \subseteq Range(freed.list)
        /\ \A v \in Range(p.list) : p.owner[v] = freed.owner[v]
        /\ Range(p.list) \subseteq Kept(freed)
    BY <1>8, PruneSteady
  <1>. HIDE DEF p
  <1>10. /\ Sound(e) /\ Shows(e, E1) /\ Alike(p, e) /\ e.monitors = others
         /\ e.focus = p.focus /\ e.later = p.later /\ e.wanted = p.wanted
         /\ e.last = p.last
    <2>1. Sound(p) /\ Shows(p, E1)
      BY <1>9 DEF Steady
    <2>. QED BY <1>1, <1>3, <2>1, MonitorsKeeps
  <1>. HIDE DEF e
  <1>11. Enabled(e) = E1 /\ e.later = d.later /\ e.wanted = d.wanted
    BY <1>3, <1>5, <1>6, <1>8, <1>9, <1>10 DEF Enabled, Steady, Frame, Outline, Tags, Tracked, Leaves
  <1>12. Focused(e)
    <2>1. d.focus \in E
      <3>1. d.monitors # <<>>
        BY DEF Enabled, Range
      <3>. QED BY <3>1 DEF Focused
    <2>2. e.focus = IF moved.focus = m \/ backup = None THEN backup ELSE moved.focus
      BY <1>8, <1>9, <1>10
    <2>3. moved.focus \in {d.focus, backup}
      BY <1>5, <1>6 DEF Leaves
    <2>4. CASE others = <<>>
      BY <1>4, <1>10, <2>2, <2>4 DEF Focused
    <2>5. CASE others # <<>>
      BY <1>0, <1>4, <1>10, <1>11, <2>1, <2>2, <2>3, <2>5 DEF Focused
    <2>. QED BY <2>4, <2>5
  <1>13. Stranded(e, S)
    <2>. SUFFICES ASSUME others # <<>>, NEW v \in Range(e.list), e.owner[v] \notin E1
                  PROVE  /\ v \in Range(Persistent)
                         /\ Rule[v] \in E1 => "ensure" \in S
      BY <1>10, <1>11 DEF Stranded
    <2>1. /\ v \in Range(moved.list) /\ e.owner[v] = moved.owner[v] /\ v \in Kept(freed)
          /\ moved.owner[v] \notin E1
      BY <1>8, <1>9, <1>10 DEF Alike
    <2>2. backup \in E1 /\ backup # None
      BY <1>0, <1>4
    <2>3. CASE v \in Range(d.list)
      <3>1. v \notin Range(leaving)
        BY <1>6, <2>1, <2>2
      <3>2. moved.owner[v] = d.owner[v]
        BY <1>5, <1>6, <2>3, <3>1 DEF Leaves, Alike
      <3>3. d.owner[v] # m /\ d.owner[v] \notin E
        BY <1>2, <2>1, <2>3, <3>1, <3>2
      <3>4. d.monitors # <<>>
        BY DEF Enabled, Range
      <3>. QED BY <2>3, <3>3, <3>4 DEF Stranded
    <2>4. CASE v \notin Range(d.list)
      <3>1. v \in Ids /\ moved.owner[v] = m /\ (Rule[v] \in E => Rule[v] = m)
        <4>1. Enabled(t) = E /\ v \notin Range(t.list)
          BY <1>5, <2>4 DEF Enabled, Alike
        <4>. QED BY <1>6, <2>1, <4>1 DEF Leaves
      <3>2. v \in Ws /\ v # None
        BY <3>1, ConstantTypes
      <3>3. ASSUME NEW n \in Mons PROVE ~ SeenAt(freed, v, n)
        <4>1. SeenAt(freed, v, n) => n \in E1 /\ freed.owner[v] = n
          BY <1>8, <3>2, SeenIsOwned DEF Sound
        <4>. QED BY <1>8, <3>1, <4>1
      <3>4. v \notin Range(freed.active) \cup Range(freed.special)
        <4>1. freed.active \in [Mons -> Ids \cup {None}]
              /\ freed.special \in [Mons -> {Special, None}]
          BY <1>8 DEF Sound, Desks
        <4>. QED BY <3>3, <4>1 DEF SeenAt, Range
      <3>5. v \notin freed.windows
        BY <1>5, <1>6, <1>8, <2>4 DEF Frame, Outline, Leaves, Alike, Sound
      <3>6. v \in Range(Persistent)
        BY <1>8, <2>1, <3>4, <3>5 DEF Kept, Sound
      <3>. QED BY <3>1, <3>6
    <2>. QED BY <2>3, <2>4
  <1>14. Parting(d, e, m)
    <2>1. /\ t.windows = d.windows /\ moved.windows = d.windows
          /\ freed.windows = d.windows /\ p.windows = d.windows /\ e.windows = d.windows
      BY <1>5, <1>6, <1>8, <1>9, <1>10 DEF Alike, Leaves, Frame, Steady, Outline
    <2>2. \A v \in Tracked(d) : moved.last[v] = t.last[v] /\ freed.last[v] = moved.last[v]
      BY <1>6, <1>8, <2>1 DEF Leaves, Frame, Tags, Tracked
    <2>3. \A v \in Tracked(d) : freed.last[v] \notin E1 \cup {None} => p.last[v] = freed.last[v]
      BY <1>9, <2>1 DEF Steady, Keeps, Tracked
    <2>4. \A v \in Tracked(d) : t.last[v] \notin E1 \cup {None} => e.last[v] = t.last[v]
      BY <1>10, <2>2, <2>3
    <2>5. Tracked(d) \subseteq Range(d.list) /\ Tracked(d) \subseteq Ws
      BY <1>0 DEF Sound, Tracked
    <2>6. Keeps(d, e, E)
      BY <1>5, <2>4, <2>5 DEF Keeps
    <2>7. \A v \in Tracked(d) : d.owner[v] = m /\ d.last[v] = None => e.last[v] = m
      <3>1. m # None /\ m \notin E1
        BY <1>0
      <3>. QED BY <1>2, <1>5, <2>4, <2>5, <3>1
    <2>. QED BY <2>1, <2>6, <2>7 DEF Parting
  <1>. QED BY <1>10, <1>11, <1>12, <1>13, <1>14 DEF Evacuated, e

\* What OnDisconnect leaves.
Disconnected(d, e, m, S) ==
    /\ Sound(e) /\ Shows(e, Enabled(e)) /\ Enabled(e) = Enabled(d) \ {m}
    /\ Focused(e) /\ Range(d.later) \subseteq Range(e.later)
    /\ Stranded(e, S) /\ Parting(d, e, m)
    /\ IF m # Fallback /\ e.monitors = <<>>
       THEN e.wanted /\ (~ d.wanted => "fallback" \in Range(e.later))
       ELSE e.wanted = d.wanted

LEMMA DisconnectKeeps ==
    ASSUME EnoughIds, NEW d, Sound(d), Shows(d, Enabled(d)), Focused(d),
           NEW S, Stranded(d, S), NEW m \in Mons
    PROVE  Disconnected(d, OnDisconnect(d, m), m, S)
  <1>. DEFINE down == IF m \in Enabled(d) THEN Evacuate(d, m) ELSE d
              yes == TRUE
              e == OnDisconnect(d, m)
  <1>1. Evacuated(d, down, m, S)
    <2>1. CASE m \in Enabled(d)
      BY <2>1, EvacuateKeeps
    <2>2. CASE m \notin Enabled(d)
      <3>1. Enabled(d) \ {m} = Enabled(d)
        BY <2>2
      <3>2. Parting(d, d, m)
        BY <2>2 DEF Parting, Keeps
      <3>. QED BY <2>2, <3>1, <3>2 DEF Evacuated
    <2>. QED BY <2>1, <2>2
  <1>2. e = IF m # Fallback /\ down.monitors = <<>> THEN SetFallbackActive(down, yes)
            ELSE down
    BY DEF OnDisconnect
  <1>. HIDE DEF down, yes
  <1>3. CASE ~ (m # Fallback /\ down.monitors = <<>>)
    BY <1>1, <1>2, <1>3 DEF Disconnected, Evacuated
  <1>4. CASE m # Fallback /\ down.monitors = <<>>
    <2>1. e = SetFallbackActive(down, yes) /\ yes \in BOOLEAN /\ yes
      BY <1>2, <1>4 DEF yes
    <2>. HIDE DEF e
    <2>2. Sound(down) /\ Shows(down, Enabled(down))
      BY <1>1 DEF Evacuated
    <2>3. /\ Sound(e) /\ Shows(e, Enabled(down)) /\ Alike(down, e)
          /\ e.monitors = down.monitors /\ e.focus = down.focus /\ e.last = down.last
          /\ Range(down.later) \subseteq Range(e.later)
          /\ e.wanted = yes
          /\ down.wanted # yes => "fallback" \in Range(e.later)
      BY <2>1, <2>2, FallbackKeeps
    <2>4. Enabled(e) = Enabled(down) /\ Focused(e) /\ Stranded(e, S)
      BY <1>1, <2>3 DEF Evacuated, Enabled, Focused, Stranded, Alike
    <2>5. e.wanted /\ (~ d.wanted => "fallback" \in Range(e.later))
      <3>1. d.wanted \in BOOLEAN /\ down.wanted = d.wanted
        BY <1>1 DEF Sound, Desks, Evacuated
      <3>. QED BY <2>1, <2>3, <3>1
    <2>7. Parting(d, e, m)
      BY <1>1, <2>3 DEF Evacuated, Parting, Alike, Keeps
    <2>6. Disconnected(d, e, m, S)
      BY <1>1, <1>4, <2>3, <2>4, <2>5, <2>7 DEF Disconnected, Evacuated
    <2>. QED BY <2>6 DEF e
  <1>. QED BY <1>3, <1>4

LEMMA ForgetKeeps ==
    ASSUME NEW d, NEW E, Sound(d), Shows(d, E), NEW m \in Mons, m \notin E
    PROVE  LET e == Forget(d, m)
           IN  /\ Sound(e) /\ Shows(e, E) /\ Frame(d, e) /\ e.list = d.list
               /\ e.focus = d.focus
               /\ \A w \in Ws : e.owner[w] = IF d.owner[w] = m THEN None ELSE d.owner[w]
  <1>. DEFINE e == Forget(d, m)
              o == [w \in Ws |-> IF d.owner[w] = m THEN None ELSE d.owner[w]]
  <1>0. d \in Desks /\ E \subseteq Mons /\ None \notin Mons
    BY ConstantTypes DEF Sound, Shows
  <1>1. o \in [Ws -> Mons \cup {None}] /\ e = [d EXCEPT !.owner = o]
    BY <1>0 DEF Desks, Forget
  <1>2. \A w \in Ws : o[w] = IF d.owner[w] = m THEN None ELSE d.owner[w]
    OBVIOUS
  <1>. HIDE DEF o
  <1>3. e \in Desks
    BY <1>0, <1>1 DEF Desks
  <1>4. /\ e.owner = o /\ Frame(d, e) /\ e.list = d.list /\ e.active = d.active
        /\ e.focus = d.focus /\ e.special = d.special /\ e.visible = d.visible
        /\ e.persistent = d.persistent
    BY <1>0, <1>1 DEF Desks, Frame, Outline, Tags, Tracked
  <1>. HIDE DEF e
  <1>5. Sound(e)
    BY <1>3, <1>4 DEF Sound, Frame, Outline
  <1>6. Range(d.list) \subseteq Ws
    BY <1>0, InRange DEF Desks
  <1>7. Shows(e, E)
    <2>1. ASSUME NEW n \in E PROVE Exists(e, e.active[n]) /\ e.owner[e.active[n]] = n
      BY <1>2, <1>4, <1>6 DEF Shows, Exists
    <2>2. ASSUME NEW n \in Mons, e.special[n] # None
          PROVE  n \in E /\ Exists(e, Special) /\ e.owner[Special] = n
      BY <1>2, <1>4, <1>6, <2>2 DEF Shows, Exists
    <2>3. ASSUME NEW v \in Ws
          PROVE  v \in e.visible <=> e.owner[v] \in E /\ SeenAt(e, v, e.owner[v])
      BY <1>0, <1>2, <1>4 DEF Shows, SeenAt
    <2>. QED BY <1>0, <1>4, <2>1, <2>2, <2>3 DEF Shows
  <1>. QED BY <1>2, <1>4, <1>5, <1>7 DEF e

-----------------------------------------------------------------------------
(* Deferred calls *)

\* Bring takes a workspace, which it may have to create, to the monitor its
\* rule names.
LEMMA BringSteady ==
    ASSUME EnoughIds, NEW d, NEW E, Sound(d), Shows(d, E), Enabled(d) = E,
           NEW w \in Ids, Rule[w] \in E
    PROVE  Steady(d, Bring(d, w), E)
  <1>. DEFINE m == Rule[w]
              a == IF Exists(d, w) THEN d ELSE Create(d, w, m)
  <1>1. Bring(d, w) = MoveWorkspaceToMonitor(a, w, m)
    BY DEF Bring
  <1>2. m \in E /\ m \in Mons /\ w \in Ws
    BY ConstantTypes DEF Shows
  <1>3. Steady(d, a, E)
    <2>1. CASE Exists(d, w)
      BY <2>1, SteadyStart
    <2>2. CASE ~ Exists(d, w)
      <3>1. a = New(d, w, m)
        BY <1>2, <2>2 DEF Create
      <3>2. /\ Sound(New(d, w, m)) /\ Shows(New(d, w, m), E) /\ Frame(d, New(d, w, m))
            /\ Range(New(d, w, m).list) = Range(d.list) \cup {w}
            /\ New(d, w, m).owner = [d.owner EXCEPT ![w] = m]
            /\ New(d, w, m).focus = d.focus
            /\ New(d, w, m).active = d.active /\ New(d, w, m).special = d.special
        <4>. HIDE DEF a, m
        <4>. QED BY <1>2, <2>2, NewKeeps
      <3>. HIDE DEF a, m
      <3>3. Range(d.list) \subseteq Ws /\ d.owner \in [Ws -> Mons \cup {None}]
        BY InRange DEF Sound, Desks
      <3>4. \A v \in Range(a.list) :
               a.owner[v] \in E \/ (v \in Range(d.list) /\ a.owner[v] = d.owner[v])
        BY <1>2, <3>1, <3>2, <3>3
      <3>. QED BY <3>1, <3>2, <3>4, FrameKeeps DEF Steady
    <2>. QED BY <2>1, <2>2
  <1>. HIDE DEF a, m
  <1>4. Steady(a, MoveWorkspaceToMonitor(a, w, m), E)
    <2>1. Sound(a) /\ Shows(a, E)
      BY <1>3 DEF Steady
    <2>. QED BY <1>2, <2>1, MoveSteady
  <1>. QED BY <1>1, <1>3, <1>4, SteadyThen

LEMMA PersistentKeeps ==
    ASSUME NEW d, NEW E, Sound(d), Shows(d, E), NEW P \in SUBSET Range(Persistent)
    PROVE  LET e == [d EXCEPT !.persistent = P]
           IN  Steady(d, e, E)
  <1>. DEFINE e == [d EXCEPT !.persistent = P]
  <1>0. d \in Desks /\ P \in SUBSET Ids
    BY ConstantTypes DEF Sound
  <1>1. e \in Desks
    BY <1>0 DEF Desks
  <1>2. /\ e.owner = d.owner /\ Frame(d, e) /\ e.list = d.list /\ e.active = d.active
        /\ e.focus = d.focus /\ e.special = d.special /\ e.visible = d.visible
        /\ e.persistent = P
    BY <1>0 DEF Desks, Frame, Outline, Tags, Tracked
  <1>. HIDE DEF e
  <1>3. Sound(e) /\ Shows(e, E)
    BY <1>1, <1>2 DEF Sound, Shows, Frame, Outline, Exists, SeenAt
  <1>. QED BY <1>2, <1>3, FrameKeeps DEF Steady, e

LEMMA EnsurePersistentSteady ==
    ASSUME EnoughIds, NEW d, Sound(d), Shows(d, Enabled(d))
    PROVE  Steady(d, EnsurePersistent(d), Enabled(d))
  <1>. DEFINE E == Enabled(d)
              W == {w \in Ids : Rule[w] \in E}
              l == Among(Persistent, W)
              n == Len(l)
              D == {e \in Desks : Steady(d, e, E)}
              f == BringAll(d, l)
              g == [f EXCEPT !.persistent = Range(l)]
  <1>1. EnsurePersistent(d) = IF d.focus = None THEN d ELSE Prune(g)
    BY DEF EnsurePersistent, BringAll, FoldLeft, MapThenFoldSet
  <1>2. l \in Seq(W) /\ Range(l) \subseteq Range(Persistent)
    <2>1. Persistent \in Seq(Ids)
      BY WorkspacesAssumption, SeqMonotonic
    <2>2. l \in Seq(Ids) /\ Range(l) = Range(Persistent) \cap W
      BY <2>1, AmongIs
    <2>. HIDE DEF l
    <2>3. \A k \in 1..Len(l) : l[k] \in W
      BY <2>2, InRange
    <2>. HIDE DEF W
    <2>4. Len(l) \in Nat /\ l = [k \in 1..Len(l) |-> l[k]]
      BY <2>2, LenProperties
    <2>5. l \in Seq(W)
      BY <2>3, <2>4
    <2>. QED BY <2>2, <2>5
  <1>. HIDE DEF l
  <1>3. d \in D
    BY SteadyStart DEF Sound
  <1>4. ASSUME NEW e \in D, NEW w \in W PROVE Bring(e, w) \in D
    <2>1. Sound(e) /\ Shows(e, E) /\ Steady(d, e, E) /\ Enabled(e) = E
      BY DEF Steady, Outline, Enabled
    <2>2. Steady(e, Bring(e, w), E)
      <3>1. w \in Ids /\ Rule[w] \in E
        OBVIOUS
      <3>. HIDE DEF E
      <3>. QED BY <2>1, <3>1, BringSteady
    <2>3. Steady(d, Bring(e, w), E)
      BY <2>1, <2>2, SteadyThen
    <2>. QED BY <2>3 DEF Steady, Sound
  <1>5. BringStays(D, W)
    <2>. HIDE DEF D, W
    <2>. QED BY <1>4 DEF BringStays
  <1>6. f \in D
    <2>. HIDE DEF D, W
    <2>1. PICK c \in [0..n -> D] :
            /\ c[0] = d /\ f = c[n]
            /\ \A k \in 1..n : c[k] = Bring(c[k - 1], l[k])
      BY <1>2, <1>3, <1>5, BringFolds
    <2>2. n \in 0..n
      BY <1>2, InRange
    <2>. QED BY <2>1, <2>2
  <1>. HIDE DEF f
  <1>7. Steady(d, f, E) /\ Sound(f) /\ Shows(f, E)
    BY <1>6 DEF Steady
  <1>8. Steady(f, g, E)
    BY <1>2, <1>7, PersistentKeeps
  <1>. HIDE DEF g
  <1>9. Steady(d, g, E) /\ Sound(g) /\ Shows(g, E)
    BY <1>7, <1>8, SteadyThen DEF Steady
  <1>10. Steady(g, Prune(g), E)
    BY <1>9, PruneSteady
  <1>11. Steady(d, Prune(g), E)
    BY <1>9, <1>10, SteadyThen
  <1>. QED BY <1>1, <1>11, SteadyStart

\* EnsureAssigned takes every workspace to where its rule wants it.
LEMMA EnsureAssignedSteady ==
    ASSUME EnoughIds, NEW d, Sound(d), Shows(d, Enabled(d))
    PROVE  LET t == EnsureAssigned(d)
           IN  /\ Steady(d, t, Enabled(d))
               /\ \A v \in Range(t.list) :
                     v \in Ids /\ Rule[v] \in Enabled(d) => t.owner[v] \in Enabled(d)
  <1>. DEFINE E == Enabled(d)
              Bound(w) == w \in Ids /\ Rule[w] \in E
              D == {e \in Desks : Steady(d, e, E)}
              l == d.list
              n == Len(l)
              f == AssignAll(d, l)
              t == EnsureAssigned(d)
  <1>1. t = Prune(f)
    BY DEF EnsureAssigned, AssignAll, FoldLeft, MapThenFoldSet
  <1>. HIDE DEF f
  <1>2. d \in D /\ l \in Seq(Ws) /\ n \in Nat /\ \A k \in 1..n : l[k] \in Ws
    <2>1. Steady(d, d, E) /\ d \in Desks /\ l \in Seq(Ws)
      BY SteadyStart DEF Sound, Desks
    <2>. QED BY <2>1, InRange
  <1>3. ASSUME NEW e \in D, NEW w \in Ws
        PROVE  /\ Assign(e, w) \in D /\ Steady(e, Assign(e, w), E)
               /\ Bound(w) => Assign(e, w).owner[w] \in E
    <2>1. Sound(e) /\ Shows(e, E) /\ Steady(d, e, E) /\ Enabled(e) = E
      BY DEF Steady, Outline, Enabled
    <2>. DEFINE m == Rule[w]
    <2>2. CASE Bound(w)
      <3>1. Assign(e, w) = MoveWorkspaceToMonitor(e, w, m) /\ m \in E
        BY <2>1, <2>2 DEF Assign
      <3>. HIDE DEF E, m
      <3>2. /\ Steady(e, MoveWorkspaceToMonitor(e, w, m), E)
            /\ MoveWorkspaceToMonitor(e, w, m).owner[w] = m
        BY <2>1, <3>1, MoveSteady
      <3>3. Steady(d, Assign(e, w), E)
        BY <2>1, <3>1, <3>2, SteadyThen
      <3>4. Assign(e, w) \in Desks
        BY <3>3 DEF Steady, Sound
      <3>. QED BY <3>1, <3>2, <3>3, <3>4
    <2>3. CASE ~ Bound(w)
      <3>1. Assign(e, w) = e
        BY <2>1, <2>3 DEF Assign
      <3>. QED BY <2>1, <2>3, <3>1, SteadyStart
    <2>. QED BY <2>2, <2>3
  <1>4. AssignStays(D, Ws)
    BY <1>3 DEF AssignStays
  <1>. HIDE DEF D, Bound
  <1>5. PICK c \in [0..n -> D] :
            /\ c[0] = d /\ f = c[n]
            /\ \A k \in 1..n : c[k] = Assign(c[k - 1], l[k])
    <2>. HIDE DEF l
    <2>. QED BY <1>2, <1>4, AssignFolds DEF f
  <1>. DEFINE Done(k) == \A j \in 1..k : Bound(l[j]) /\ l[j] \in Range(c[k].list)
                                            => c[k].owner[l[j]] \in E
              Good == {k \in 0..n : Done(k)}
  <1>6. ASSUME NEW k \in 1..n, k - 1 \in Good PROVE k \in Good
    <2>1. k - 1 \in 0..n /\ k \in 0..n /\ l[k] \in Ws /\ c[k - 1] \in D
      BY <1>2, <1>5
    <2>2. /\ Steady(c[k - 1], c[k], E) /\ (Bound(l[k]) => c[k].owner[l[k]] \in E)
      BY <1>3, <1>5, <2>1
    <2>3. \A j \in 1..k : j \in 1..(k - 1) \/ j = k
      BY <1>2
    <2>. HIDE DEF l, n, E
    <2>4. Done(k - 1)
      BY <1>6
    <2>5. Done(k)
      BY <2>2, <2>3, <2>4 DEF Steady
    <2>. QED BY <2>1, <2>5
  <1>7. 0 \in Good
    BY <1>2
  <1>8. Done(n)
    <2>. HIDE DEF Good
    <2>1. \A k \in 0..n : k \in Good
      BY <1>2, <1>6, <1>7, Induction
    <2>2. n \in Good
      BY <1>2, <2>1
    <2>. QED BY <2>2 DEF Good
  <1>9. Steady(d, f, E)
    BY <1>2, <1>5 DEF D
  <1>10. \A v \in Range(f.list) : Bound(v) => f.owner[v] \in E
    <2>1. \A v \in Range(l) : \E j \in 1..n : l[j] = v
      BY <1>2, InRange
    <2>. QED BY <1>5, <1>8, <1>9, <2>1 DEF Steady
  <1>11. Sound(f) /\ Shows(f, E)
    BY <1>9 DEF Steady
  <1>12. /\ Steady(f, Prune(f), E)
         /\ Range(Prune(f).list) \subseteq Range(f.list)
         /\ \A v \in Range(Prune(f).list) : Prune(f).owner[v] = f.owner[v]
    BY <1>11, PruneSteady
  <1>13. Steady(d, Prune(f), E)
    BY <1>9, <1>12, SteadyThen
  <1>. QED BY <1>1, <1>10, <1>12, <1>13 DEF Bound

-----------------------------------------------------------------------------
(* What holds between any two calls *)

\* What is proved of a desk, with S for the calls that are still to come: the
\* screens are in order, no workspace is stranded, FALLBACK is wanted only where
\* no other monitor is, and one that is not wanted any more is about to go.
Fine(d, S) ==
    /\ Sound(d) /\ Shows(d, Enabled(d)) /\ Focused(d) /\ Stranded(d, S)
    /\ d.wanted => Enabled(d) \subseteq {Fallback}
    /\ Fallback \in Enabled(d) /\ ~ d.wanted => "fallback" \in S

LEMMA FineIsLoose ==
    ASSUME NEW d, NEW S, Fine(d, S)
    PROVE  /\ Sound(d) /\ Shows(d, Enabled(d)) /\ Focused(d) /\ Loose(d) /\ Stranded(d, S)
           /\ d \in Desks /\ Enabled(d) \subseteq Mons
  BY DEF Fine, Loose, Stranded, Sound, Shows

\* More calls that are to come do no harm.
LEMMA FineMore ==
    ASSUME NEW d, NEW S, NEW T, Fine(d, S), S \subseteq T
    PROVE  Fine(d, T)
  BY DEF Fine, Stranded

LEMMA NothingEnabled ==
    ASSUME NEW d \in Desks
    PROVE  d.monitors = <<>> <=> Enabled(d) = {}
  <1>1. d.monitors \in Seq(Mons)
    BY DEF Desks
  <1>2. d.monitors = <<>> => Enabled(d) = {}
    <2>. DEFINE l == d.monitors
    <2>1. ASSUME Len(l) = 0, NEW m \in Range(l) PROVE FALSE
      <3>1. \E k \in 1..Len(l) : l[k] = m
        BY <1>1, InRange
      <3>. QED BY <2>1, <3>1
    <2>2. l = <<>> => Len(l) = 0
      BY EmptySeq
    <2>. QED BY <2>1, <2>2 DEF Enabled
  <1>3. d.monitors # <<>> => Head(d.monitors) \in Enabled(d)
    BY <1>1, HeadInRange DEF Enabled
  <1>. QED BY <1>2, <1>3

\* A handler that is steady leaves a desk as fine as it was.
LEMMA SteadyFine ==
    ASSUME NEW d, NEW S, Fine(d, S), NEW e, Steady(d, e, Enabled(d))
    PROVE  Fine(e, S) /\ Enabled(e) = Enabled(d) /\ e.later = d.later
  <1>1. /\ e.monitors = d.monitors /\ Enabled(e) = Enabled(d) /\ e.later = d.later
        /\ e.wanted = d.wanted
    BY DEF Steady, Outline, Enabled
  <1>2. Focused(e)
    <2>1. d.monitors = <<>> => Enabled(d) = {}
      BY FineIsLoose, NothingEnabled
    <2>2. e.focus \in Enabled(d) \cup {d.focus}
      BY DEF Steady
    <2>. QED BY <1>1, <2>1, <2>2 DEF Focused, Fine
  <1>3. Stranded(e, S)
    BY <1>1 DEF Stranded, Fine, Steady
  <1>. QED BY <1>1, <1>2, <1>3 DEF Fine, Steady

\* A monitor comes.  FALLBACK comes only when it is wanted.
LEMMA ConnectFine ==
    ASSUME EnoughIds, NEW d, NEW T, Fine(d, T), NEW m \in Mons, m \notin Enabled(d),
           m = Fallback => d.wanted,
           NEW S, m # Fallback => T \subseteq S \cup Range(d.later)
    PROVE  LET e == OnConnect(d, m)
           IN  /\ Fine(e, S \cup Range(e.later)) /\ Enabled(e) = Enabled(d) \cup {m}
               /\ Range(d.later) \subseteq Range(e.later)
  <1>. DEFINE e == OnConnect(d, m)
  <1>1. Connected(d, e, m)
    BY FineIsLoose, ConnectKeeps
  <1>. HIDE DEF e
  <1>2. Focused(e) /\ Stranded(e, S \cup Range(e.later))
    BY <1>1 DEF Connected, Focused, Loose, Stranded
  <1>3. /\ e.wanted => Enabled(e) \subseteq {Fallback}
        /\ Fallback \in Enabled(e) /\ ~ e.wanted => "fallback" \in S \cup Range(e.later)
    <2>1. CASE m = Fallback
      BY <1>1, <2>1 DEF Connected, Fine
    <2>2. CASE m # Fallback
      BY <1>1, <2>2 DEF Connected, Fine
    <2>. QED BY <2>1, <2>2
  <1>. QED BY <1>1, <1>2, <1>3 DEF Connected, Fine, e

\* A monitor goes.  FALLBACK goes only when it is not wanted.
LEMMA DisconnectFine ==
    ASSUME EnoughIds, NEW d, NEW T, Fine(d, T), NEW m \in Mons,
           m = Fallback => ~ d.wanted,
           NEW S, "ensure" \in T => "ensure" \in S \cup Range(d.later),
           m # Fallback => T \subseteq S \cup Range(d.later)
    PROVE  LET e == OnDisconnect(d, m)
           IN  /\ Fine(e, S \cup Range(e.later)) /\ Enabled(e) = Enabled(d) \ {m}
               /\ Range(d.later) \subseteq Range(e.later)
  <1>. DEFINE e == OnDisconnect(d, m)
  <1>1. Disconnected(d, e, m, T)
    BY FineIsLoose, DisconnectKeeps
  <1>. HIDE DEF e
  <1>2. Stranded(e, S \cup Range(e.later))
    BY <1>1 DEF Disconnected, Stranded
  <1>3. e.monitors = <<>> => Enabled(e) = {}
    BY <1>1, NothingEnabled DEF Disconnected, Sound
  <1>4. /\ e.wanted => Enabled(e) \subseteq {Fallback}
        /\ Fallback \in Enabled(e) /\ ~ e.wanted => "fallback" \in S \cup Range(e.later)
    <2>1. CASE m = Fallback
      BY <1>1, <2>1 DEF Disconnected, Fine
    <2>2. CASE m # Fallback /\ e.monitors = <<>>
      BY <1>3, <2>2
    <2>3. CASE m # Fallback /\ e.monitors # <<>>
      BY <1>1, <2>3 DEF Disconnected, Fine
    <2>. QED BY <2>1, <2>2, <2>3
  <1>. QED BY <1>1, <1>2, <1>4 DEF Disconnected, Fine, e

\* The object of a monitor that is not enabled may go.
LEMMA ForgetFine ==
    ASSUME NEW d, NEW S, Fine(d, S), NEW m \in Mons, m \notin Enabled(d)
    PROVE  LET e == Forget(d, m)
           IN  Fine(e, S) /\ Enabled(e) = Enabled(d) /\ e.later = d.later
  <1>. DEFINE e == Forget(d, m)
  <1>1. Sound(d) /\ Shows(d, Enabled(d))
    BY DEF Fine
  <1>2. /\ Sound(e) /\ Shows(e, Enabled(d)) /\ Frame(d, e) /\ e.list = d.list
        /\ e.focus = d.focus
        /\ \A w \in Ws : e.owner[w] = IF d.owner[w] = m THEN None ELSE d.owner[w]
    <2>. DEFINE E == Enabled(d)
    <2>. HIDE DEF E
    <2>1. Shows(d, E) /\ m \notin E
      BY <1>1 DEF E
    <2>2. /\ Sound(e) /\ Shows(e, E) /\ Frame(d, e) /\ e.list = d.list
          /\ e.focus = d.focus
          /\ \A w \in Ws : e.owner[w] = IF d.owner[w] = m THEN None ELSE d.owner[w]
      BY <1>1, <2>1, ForgetKeeps
    <2>. QED BY <2>2 DEF E
  <1>. HIDE DEF e
  <1>3. Range(d.list) \subseteq Ws
    BY <1>1, InRange DEF Sound, Desks
  <1>4. Enabled(e) = Enabled(d) /\ e.later = d.later /\ e.monitors = d.monitors
        /\ e.wanted = d.wanted
    BY <1>2 DEF Frame, Outline, Enabled
  <1>5. Stranded(e, S)
    BY <1>2, <1>3, <1>4 DEF Fine, Stranded
  <1>. QED BY <1>2, <1>4, <1>5 DEF Fine, Focused, e

\* A monitor goes, and its object with it.
LEMMA GoneFine ==
    ASSUME EnoughIds, NEW d, NEW T, Fine(d, T), NEW m \in Mons,
           m = Fallback => ~ d.wanted,
           NEW S, "ensure" \in T => "ensure" \in S \cup Range(d.later),
           m # Fallback => T \subseteq S \cup Range(d.later)
    PROVE  LET e == Forget(OnDisconnect(d, m), m)
           IN  /\ Fine(e, S \cup Range(e.later)) /\ Enabled(e) = Enabled(d) \ {m}
               /\ Range(d.later) \subseteq Range(e.later)
  <1>. DEFINE c == OnDisconnect(d, m)
              e == Forget(c, m)
              R == S \cup Range(c.later)
  <1>1. /\ Fine(c, S \cup Range(c.later)) /\ Enabled(c) = Enabled(d) \ {m}
        /\ Range(d.later) \subseteq Range(c.later)
    BY DisconnectFine
  <1>2. Fine(c, R) /\ m \notin Enabled(c)
    BY <1>1
  <1>. HIDE DEF c, R
  <1>3. Fine(e, R) /\ Enabled(e) = Enabled(c) /\ e.later = c.later
    BY <1>2, ForgetFine
  <1>. QED BY <1>1, <1>3 DEF c, e, R

\* setFallbackActive, where FALLBACK is wanted only if no other monitor is there.
LEMMA WantFine ==
    ASSUME NEW d, NEW S, Fine(d, S \cup Range(d.later)), NEW on \in BOOLEAN,
           on => Enabled(d) \subseteq {Fallback}
    PROVE  LET e == SetFallbackActive(d, on)
           IN  /\ Fine(e, S \cup Range(e.later)) /\ Enabled(e) = Enabled(d)
               /\ Range(d.later) \subseteq Range(e.later)
               /\ e.last = d.last /\ e.windows = d.windows
  <1>. DEFINE e == SetFallbackActive(d, on)
  <1>1. Sound(d) /\ Shows(d, Enabled(d))
    BY DEF Fine
  <1>2. /\ Sound(e) /\ Shows(e, Enabled(d)) /\ Alike(d, e)
        /\ e.monitors = d.monitors /\ e.focus = d.focus /\ e.last = d.last
        /\ Range(d.later) \subseteq Range(e.later)
        /\ e.wanted = on
        /\ d.wanted # on => "fallback" \in Range(e.later)
    BY <1>1, FallbackKeeps
  <1>. HIDE DEF e
  <1>3. Enabled(e) = Enabled(d) /\ Focused(e) /\ Stranded(e, S \cup Range(e.later))
    BY <1>2 DEF Enabled, Focused, Stranded, Fine, Alike
  <1>4. d.wanted \in BOOLEAN
    BY <1>1 DEF Sound, Desks
  <1>5. /\ e.wanted => Enabled(e) \subseteq {Fallback}
        /\ Fallback \in Enabled(e) /\ ~ e.wanted => "fallback" \in S \cup Range(e.later)
    BY <1>2, <1>3, <1>4 DEF Fine
  <1>. QED BY <1>2, <1>3, <1>5 DEF Fine, Alike, e

\* After "ensure" no workspace whose own monitor is there is stranded.
LEMMA EnsureFine ==
    ASSUME EnoughIds, NEW d, NEW T, Fine(d, T), NEW S, T \ {"ensure"} \subseteq S
    PROVE  LET e == EnsureAssigned(EnsurePersistent(d))
           IN  Fine(e, S) /\ Enabled(e) = Enabled(d) /\ e.later = d.later
  <1>. DEFINE c == EnsurePersistent(d)
              e == EnsureAssigned(c)
  <1>1. Steady(d, c, Enabled(d))
    BY EnsurePersistentSteady DEF Fine
  <1>. HIDE DEF c
  <1>2. Fine(c, T) /\ Enabled(c) = Enabled(d) /\ c.later = d.later
    BY <1>1, SteadyFine
  <1>3. /\ Steady(c, e, Enabled(c))
        /\ \A v \in Range(e.list) :
              v \in Ids /\ Rule[v] \in Enabled(c) => e.owner[v] \in Enabled(c)
    BY <1>2, EnsureAssignedSteady DEF Fine
  <1>. HIDE DEF e
  <1>4. Fine(e, T) /\ Enabled(e) = Enabled(c) /\ e.later = c.later
    BY <1>2, <1>3, SteadyFine
  <1>5. Stranded(e, S)
    BY <1>3, <1>4, ConstantTypes DEF Fine, Stranded
  <1>6. Fallback \in Enabled(e) /\ ~ e.wanted => "fallback" \in S
    BY <1>4 DEF Fine
  <1>7. Fine(e, S)
    BY <1>4, <1>5, <1>6 DEF Fine
  <1>. QED BY <1>2, <1>4, <1>7 DEF c, e

\* FALLBACK comes or goes, as it is wanted.
LEMMA UpdateFine ==
    ASSUME EnoughIds, NEW d, NEW T, Fine(d, T), NEW S, T \ {"fallback"} \subseteq S
    PROVE  LET e == UpdateFallback(d)
           IN  /\ Fine(e, S \cup Range(e.later))
               /\ Enabled(e) \subseteq Enabled(d) \cup {Fallback}
               /\ Range(d.later) \subseteq Range(e.later)
  <1>. DEFINE e == UpdateFallback(d)
              m == Fallback
  <1>0. m \in Mons /\ d.wanted \in BOOLEAN
    BY ConstantTypes DEF Fine, Sound, Desks
  <1>1. CASE d.wanted = (m \in Enabled(d))
    <2>1. e = d
      BY <1>1 DEF UpdateFallback
    <2>2. Fine(d, S \cup Range(d.later))
      BY <1>1 DEF Fine, Stranded
    <2>. QED BY <2>1, <2>2
  <1>2. CASE d.wanted /\ m \notin Enabled(d)
    <2>. DEFINE c == OnConnect(d, m)
    <2>1. e = c
      BY <1>2 DEF UpdateFallback
    <2>2. /\ m \in Mons /\ m \notin Enabled(d) /\ (m = Fallback => d.wanted)
          /\ m # Fallback => T \subseteq S \cup Range(d.later)
      BY <1>0, <1>2
    <2>. HIDE DEF e, m
    <2>3. /\ Fine(c, S \cup Range(c.later)) /\ Enabled(c) = Enabled(d) \cup {m}
          /\ Range(d.later) \subseteq Range(c.later)
      BY <2>2, ConnectFine
    <2>. QED BY <2>1, <2>3 DEF e, m
  <1>3. CASE ~ d.wanted /\ m \in Enabled(d)
    <2>. DEFINE c == Forget(OnDisconnect(d, m), m)
    <2>1. e = c
      BY <1>3 DEF UpdateFallback
    <2>2. /\ m \in Mons /\ (m = Fallback => ~ d.wanted)
          /\ "ensure" \in T => "ensure" \in S \cup Range(d.later)
          /\ m # Fallback => T \subseteq S \cup Range(d.later)
      BY <1>0, <1>3
    <2>. HIDE DEF e, m
    <2>3. /\ Fine(c, S \cup Range(c.later)) /\ Enabled(c) = Enabled(d) \ {m}
          /\ Range(d.later) \subseteq Range(c.later)
      BY <2>2, GoneFine
    <2>. QED BY <2>1, <2>3 DEF e, m
  <1>. QED BY <1>0, <1>1, <1>2, <1>3

\* What was still to come for a call is to come after it, but for the call.
LEMMA CallKeeps ==
    ASSUME EnoughIds, NEW d, NEW S, NEW f \in Deferred,
           Fine(d, S \cup {f} \cup Range(d.later))
    PROVE  LET e == Call(d, f)
           IN  /\ Fine(e, S \cup Range(e.later))
               /\ Enabled(e) \subseteq Enabled(d) \cup {Fallback}
  <1>. DEFINE e == Call(d, f)
              T == S \cup {f} \cup Range(d.later)
              R == S \cup Range(d.later)
  <1>1. CASE f = "ensure"
    <2>. DEFINE c == EnsureAssigned(EnsurePersistent(d))
    <2>1. e = c
      BY <1>1 DEF Call
    <2>2. Fine(d, T) /\ T \ {"ensure"} \subseteq R
      BY <1>1
    <2>. HIDE DEF e, T, R
    <2>3. Fine(c, R) /\ Enabled(c) = Enabled(d) /\ c.later = d.later
      BY <2>2, EnsureFine
    <2>. QED BY <2>1, <2>3 DEF e, R
  <1>2. CASE f = "fallback"
    <2>. DEFINE c == UpdateFallback(d)
    <2>1. e = c
      BY <1>2 DEF Call
    <2>2. Fine(d, T) /\ T \ {"fallback"} \subseteq R
      BY <1>2
    <2>. HIDE DEF e, T, R
    <2>3. /\ Fine(c, R \cup Range(c.later))
          /\ Enabled(c) \subseteq Enabled(d) \cup {Fallback}
          /\ Range(d.later) \subseteq Range(c.later)
      BY <2>2, UpdateFine
    <2>4. R \cup Range(c.later) = S \cup Range(c.later)
      BY <2>3 DEF R
    <2>. QED BY <2>1, <2>3, <2>4 DEF e
  <1>3. CASE f = "start"
    <2>. DEFINE no == FALSE
                c == SetFallbackActive(d, no)
    <2>1. e = c
      BY <1>3 DEF Call
    <2>2. Fine(d, R)
      BY <1>3 DEF Fine, Stranded
    <2>3. no \in BOOLEAN /\ ~ no
      OBVIOUS
    <2>. HIDE DEF e, no
    <2>4. /\ Fine(c, S \cup Range(c.later)) /\ Enabled(c) = Enabled(d)
          /\ Range(d.later) \subseteq Range(c.later)
      BY <2>2, <2>3, WantFine DEF R
    <2>. QED BY <2>1, <2>4 DEF e
  <1>. QED BY <1>1, <1>2, <1>3 DEF Deferred

\* No monitor comes but FALLBACK, and the tags for those that are away stay, of
\* the workspaces that keep their windows.
Awaits(d, e) ==
    /\ Enabled(e) \subseteq Enabled(d) \cup {Fallback}
    /\ \A v \in Tracked(d) \cap e.windows :
          d.last[v] \in Real \ Enabled(d) => e.last[v] = d.last[v]

LEMMA AwaitsThen ==
    ASSUME NEW c, NEW d, NEW e, Awaits(c, d), Awaits(d, e), e.windows \subseteq d.windows
    PROVE  Awaits(c, e)
  BY ConstantTypes DEF Awaits, Tracked

LEMMA SteadyAwaits ==
    ASSUME NEW d, NEW e, Steady(d, e, Enabled(d))
    PROVE  Awaits(d, e) /\ e.windows = d.windows
  BY ConstantTypes DEF Steady, Outline, Keeps, Awaits, Tracked, Enabled

\* A monitor goes, and its object with it or not.
LEMMA GoneParting ==
    ASSUME EnoughIds, NEW d, NEW T, Fine(d, T), NEW m \in Mons
    PROVE  /\ Parting(d, OnDisconnect(d, m), m)
           /\ Parting(d, Forget(OnDisconnect(d, m), m), m)
  <1>. DEFINE c == OnDisconnect(d, m)
              e == Forget(c, m)
  <1>1. Disconnected(d, c, m, T)
    BY FineIsLoose, DisconnectKeeps
  <1>. HIDE DEF c
  <1>2. Sound(c) /\ Shows(c, Enabled(c)) /\ m \notin Enabled(c) /\ Parting(d, c, m)
    BY <1>1 DEF Disconnected
  <1>3. Frame(c, e)
    <2>. DEFINE E == Enabled(c)
    <2>. HIDE DEF E
    <2>1. Shows(c, E) /\ m \notin E
      BY <1>2 DEF E
    <2>2. /\ Sound(e) /\ Shows(e, E) /\ Frame(c, e) /\ e.list = c.list
          /\ e.focus = c.focus
          /\ \A w \in Ws : e.owner[w] = IF c.owner[w] = m THEN None ELSE c.owner[w]
      BY <1>2, <2>1, ForgetKeeps
    <2>. QED BY <2>2
  <1>. HIDE DEF e
  <1>4. Parting(d, e, m)
    <2>1. e.windows = d.windows /\ Tracked(c) = Tracked(d)
      BY <1>2, <1>3 DEF Frame, Outline, Parting, Tracked
    <2>2. \A v \in Tracked(d) : e.last[v] = c.last[v]
      BY <1>3, <2>1 DEF Frame, Tags
    <2>. QED BY <1>2, <2>1, <2>2 DEF Parting, Keeps
  <1>. QED BY <1>2, <1>4 DEF c, e

LEMMA CallAwaits ==
    ASSUME EnoughIds, NEW d, NEW T, Fine(d, T), NEW f \in Deferred
    PROVE  Awaits(d, Call(d, f)) /\ Call(d, f).windows = d.windows
  <1>. DEFINE e == Call(d, f)
  <1>0. Sound(d) /\ Shows(d, Enabled(d)) /\ d.wanted \in BOOLEAN
    BY DEF Fine, Sound, Desks
  <1>1. CASE f = "ensure"
    <2>. DEFINE c == EnsurePersistent(d)
                g == EnsureAssigned(c)
                E == Enabled(d)
    <2>1. e = g
      BY <1>1 DEF Call
    <2>2. Steady(d, c, E)
      BY <1>0, EnsurePersistentSteady
    <2>. HIDE DEF c
    <2>3. Sound(c) /\ Shows(c, Enabled(c)) /\ Enabled(c) = E
      BY <2>2 DEF Steady, Outline, Enabled
    <2>4. Steady(c, g, E)
      BY <2>3, EnsureAssignedSteady
    <2>. HIDE DEF g, E
    <2>5. Steady(d, g, E)
      BY <2>2, <2>4, SteadyThen
    <2>6. Awaits(d, g) /\ g.windows = d.windows
      BY <2>5, SteadyAwaits DEF E
    <2>. QED BY <2>1, <2>6
  <1>2. CASE f = "fallback"
    <2>. DEFINE m == Fallback
                up == OnConnect(d, m)
                down == Forget(OnDisconnect(d, m), m)
    <2>1. e = UpdateFallback(d) /\ m \in Mons /\ m \notin Real /\ None \notin Mons
      BY <1>2, ConstantTypes DEF Call
    <2>2. CASE d.wanted = (m \in Enabled(d))
      <3>1. e = d
        BY <2>1, <2>2 DEF UpdateFallback
      <3>. QED BY <3>1 DEF Awaits
    <2>3. CASE d.wanted /\ m \notin Enabled(d)
      <3>1. e = up
        BY <2>1, <2>3 DEF UpdateFallback
      <3>. HIDE DEF e, m
      <3>2. Connected(d, up, m)
        BY <2>1, <2>3, FineIsLoose, ConnectKeeps
      <3>. HIDE DEF up
      <3>3. Awaits(d, up) /\ up.windows = d.windows
        BY <2>1, <3>2, ConstantTypes DEF Connected, Awaits, Keeps, Tracked, m
      <3>. QED BY <3>1, <3>3 DEF e
    <2>4. CASE ~ d.wanted /\ m \in Enabled(d)
      <3>1. e = down
        BY <2>1, <2>4 DEF UpdateFallback
      <3>2. m = Fallback => ~ d.wanted
        BY <2>4
      <3>. HIDE DEF e, m
      <3>3. Parting(d, down, m)
        BY <2>1, GoneParting
      <3>4. Enabled(down) = Enabled(d) \ {m}
        <4>. DEFINE S == T
        <4>1. /\ "ensure" \in T => "ensure" \in S \cup Range(d.later)
              /\ m # Fallback => T \subseteq S \cup Range(d.later)
          OBVIOUS
        <4>. HIDE DEF S
        <4>2. /\ Fine(down, S \cup Range(down.later)) /\ Enabled(down) = Enabled(d) \ {m}
              /\ Range(d.later) \subseteq Range(down.later)
          BY <2>1, <3>2, <4>1, GoneFine
        <4>. QED BY <4>2
      <3>. HIDE DEF down
      <3>5. Awaits(d, down) /\ down.windows = d.windows
        BY <3>3, <3>4, ConstantTypes DEF Parting, Awaits, Keeps, Tracked
      <3>. QED BY <3>1, <3>5 DEF e
    <2>. QED BY <1>0, <2>2, <2>3, <2>4
  <1>3. CASE f = "start"
    <2>. DEFINE no == FALSE
                c == SetFallbackActive(d, no)
    <2>1. e = c /\ no \in BOOLEAN
      BY <1>3 DEF Call
    <2>. HIDE DEF e, no
    <2>2. /\ Sound(c) /\ Shows(c, Enabled(d)) /\ Alike(d, c)
          /\ c.monitors = d.monitors /\ c.focus = d.focus /\ c.last = d.last
          /\ Range(d.later) \subseteq Range(c.later)
          /\ c.wanted = no
          /\ d.wanted # no => "fallback" \in Range(c.later)
      BY <1>0, <2>1, FallbackKeeps
    <2>. HIDE DEF c
    <2>3. Awaits(d, c) /\ c.windows = d.windows
      BY <2>2 DEF Awaits, Alike, Enabled
    <2>. QED BY <2>1, <2>3 DEF e
  <1>. QED BY <1>1, <1>2, <1>3 DEF Deferred

\* A change of the queue alone.
LEMMA QueueFine ==
    ASSUME NEW d, NEW T, Fine(d, T), NEW q \in Seq(Deferred), NEW S, T \subseteq S
    PROVE  LET e == [d EXCEPT !.later = q]
           IN  /\ Fine(e, S) /\ Enabled(e) = Enabled(d) /\ e.later = q
               /\ Awaits(d, e) /\ e.windows = d.windows
  <1>. DEFINE e == [d EXCEPT !.later = q]
  <1>0. d \in Desks /\ Sound(d) /\ Shows(d, Enabled(d))
    BY DEF Fine, Sound
  <1>1. e \in Desks
    BY <1>0 DEF Desks, Deferred
  <1>2. /\ Alike(d, e) /\ e.monitors = d.monitors /\ e.focus = d.focus
        /\ e.wanted = d.wanted /\ e.later = q /\ e.last = d.last
    BY <1>0 DEF Desks, Alike
  <1>. HIDE DEF e
  <1>3. Sound(e) /\ Shows(e, Enabled(d))
    BY <1>0, <1>1, <1>2, AlikeKeeps DEF Sound
  <1>4. Enabled(e) = Enabled(d) /\ Focused(e) /\ Stranded(e, S)
    BY <1>2 DEF Fine, Enabled, Focused, Stranded, Alike
  <1>5. Awaits(d, e) /\ e.windows = d.windows
    BY <1>2, <1>4 DEF Awaits, Alike
  <1>. QED BY <1>2, <1>3, <1>4, <1>5 DEF Fine, e

\* All that was queued has run; of the calls that were to come, those it queued
\* are left.
LEMMA RunKeeps ==
    ASSUME EnoughIds, NEW d, Fine(d, Range(d.later))
    PROVE  LET e == FoldLeft(Call, [d EXCEPT !.later = <<>>], d.later)
           IN  /\ Fine(e, Range(e.later)) /\ Enabled(e) \subseteq Enabled(d) \cup {Fallback}
               /\ Awaits(d, e) /\ e.windows = d.windows
  <1>. DEFINE l == d.later
              n == Len(l)
              none == <<>>
              start == [d EXCEPT !.later = none]
              e == CallAll(start, l)
              K == Enabled(d) \cup {Fallback}
              D == {c \in Desks : /\ Fine(c, Deferred) /\ Enabled(c) \subseteq K
                                  /\ Awaits(d, c) /\ c.windows = d.windows}
  <1>1. /\ l \in Seq(Deferred) /\ n \in Nat /\ Range(l) \subseteq Deferred
        /\ \A k \in 1..n : l[k] \in Deferred
        /\ \A w : w \in Range(l) <=> \E k \in 1..n : l[k] = w
    <2>1. l \in Seq(Deferred)
      BY DEF Fine, Sound, Desks, Deferred
    <2>. HIDE DEF l
    <2>. QED BY <2>1, InRange
  <1>2. none \in Seq(Deferred) /\ Range(none) = {}
    <2>1. none \in Seq(Deferred) /\ Len(none) = 0
      BY EmptySeq
    <2>. HIDE DEF none
    <2>2. ASSUME NEW w \in Range(none) PROVE FALSE
      <3>1. \E k \in 1..Len(none) : none[k] = w
        BY <2>1, InRange
      <3>. QED BY <2>1, <3>1
    <2>. QED BY <2>1, <2>2
  <1>. HIDE DEF none
  <1>3. /\ Fine(start, Range(l)) /\ Enabled(start) = Enabled(d) /\ start.later = none
        /\ Awaits(d, start) /\ start.windows = d.windows
    BY <1>2, QueueFine
  <1>. HIDE DEF start, l
  <1>4. start \in D
    <2>1. Fine(start, Deferred) /\ start \in Desks
      BY <1>1, <1>3, FineMore, FineIsLoose
    <2>. QED BY <1>3, <2>1
  <1>5. CallStays(D, Deferred)
    <2>1. ASSUME NEW c \in D, NEW f \in Deferred PROVE Call(c, f) \in D
      <3>. DEFINE S == Deferred
                  g == Call(c, f)
      <3>1. /\ c.later \in Seq(Deferred) /\ Fine(c, Deferred) /\ Enabled(c) \subseteq K
            /\ Awaits(d, c) /\ c.windows = d.windows
        BY DEF Desks, Deferred
      <3>2. S \cup {f} \cup Range(c.later) = Deferred
        BY <3>1, InRange
      <3>3. Fine(c, S \cup {f} \cup Range(c.later))
        BY <3>1, <3>2
      <3>. HIDE DEF S, g
      <3>4. Fine(g, S \cup Range(g.later)) /\ Enabled(g) \subseteq Enabled(c) \cup {Fallback}
        BY <3>3, CallKeeps DEF g
      <3>5. g \in Desks /\ g.later \in Seq(Deferred)
        BY <3>4 DEF Fine, Sound, Desks, Deferred
      <3>6. S \cup Range(g.later) \subseteq Deferred
        BY <3>5, InRange DEF S
      <3>7. Fine(g, Deferred)
        BY <3>4, <3>6, FineMore
      <3>8. Awaits(c, g) /\ g.windows = c.windows
        BY <3>1, CallAwaits DEF g
      <3>9. Awaits(d, g)
        BY <3>1, <3>8, AwaitsThen
      <3>. QED BY <3>1, <3>4, <3>5, <3>7, <3>8, <3>9 DEF g
    <2>. HIDE DEF D
    <2>. QED BY <2>1 DEF CallStays
  <1>6. PICK c \in [0..n -> D] :
            /\ c[0] = start /\ e = c[n]
            /\ \A k \in 1..n : c[k] = Call(c[k - 1], l[k])
    <2>. HIDE DEF D
    <2>. QED BY <1>1, <1>4, <1>5, CallFolds
  <1>. DEFINE Rest(k) == {l[j] : j \in (k + 1)..n}
              Good == {k \in 0..n : Fine(c[k], Rest(k) \cup Range(c[k].later))}
  <1>7. 0 \in Good
    <2>1. Rest(0) \cup Range(none) = Range(l) /\ 0 \in 0..n
      BY <1>1, <1>2
    <2>. HIDE DEF Rest, n
    <2>2. Fine(c[0], Rest(0) \cup Range(c[0].later))
      BY <1>3, <1>6, <2>1
    <2>. QED BY <2>1, <2>2
  <1>8. ASSUME NEW k \in 1..n, k - 1 \in Good PROVE k \in Good
    <2>. DEFINE f == l[k]
                S == Rest(k)
                b == c[k - 1]
    <2>1. k - 1 \in 0..n /\ k \in 0..n /\ f \in Deferred /\ c[k] = Call(b, f)
      BY <1>1, <1>6
    <2>2. Rest(k - 1) = S \cup {f}
      BY <1>1
    <2>. HIDE DEF Rest, n, f, S
    <2>3. Fine(b, S \cup {f} \cup Range(b.later))
      BY <1>8, <2>2
    <2>. HIDE DEF b
    <2>4. Fine(Call(b, f), S \cup Range(Call(b, f).later))
      BY <2>1, <2>3, CallKeeps
    <2>5. Fine(c[k], Rest(k) \cup Range(c[k].later))
      BY <2>1, <2>4 DEF S
    <2>. QED BY <2>1, <2>5
  <1>9. n \in Good
    <2>. HIDE DEF Good
    <2>1. \A k \in 0..n : k \in Good
      BY <1>1, <1>7, <1>8, Induction
    <2>. QED BY <1>1, <2>1
  <1>10. Rest(n) = {}
    BY <1>1
  <1>. HIDE DEF Rest
  <1>11. Fine(e, Range(e.later))
    <2>1. Fine(c[n], Rest(n) \cup Range(c[n].later))
      BY <1>9
    <2>. QED BY <1>6, <1>10, <2>1
  <1>12. Enabled(e) \subseteq K /\ Awaits(d, e) /\ e.windows = d.windows
    <2>1. e \in D
      <3>. HIDE DEF D, e
      <3>. QED BY <1>1, <1>6
    <2>. QED BY <2>1
  <1>13. e = FoldLeft(Call, [d EXCEPT !.later = <<>>], d.later)
    BY DEF CallAll, FoldLeft, MapThenFoldSet, start, none, l
  <1>. HIDE DEF e
  <1>. QED BY <1>11, <1>12, <1>13

-----------------------------------------------------------------------------
(* The user and the windows *)

\* A new workspace is on the monitor its rule names or on the one asked for.
LEMMA CreateSteady ==
    ASSUME NEW d, Sound(d), Shows(d, Enabled(d)), NEW w \in Ws, ~ Exists(d, w),
           NEW m \in Enabled(d)
    PROVE  LET e == Create(d, w, m)
           IN  Steady(d, e, Enabled(d)) /\ Exists(e, w) /\ e.owner[w] \in Enabled(d)
  <1>. DEFINE E == Enabled(d)
              n == IF w \in Ids /\ Rule[w] \in Enabled(d) THEN Rule[w] ELSE m
              e == New(d, w, n)
  <1>1. n \in E /\ n \in Mons
    BY DEF Shows
  <1>2. Create(d, w, m) = e
    BY DEF Create
  <1>. HIDE DEF E, n
  <1>3. /\ Sound(e) /\ Shows(e, E) /\ Frame(d, e)
        /\ Range(e.list) = Range(d.list) \cup {w}
        /\ e.owner = [d.owner EXCEPT ![w] = n]
        /\ e.focus = d.focus
        /\ e.active = d.active /\ e.special = d.special
    <2>1. Shows(d, E)
      BY DEF E
    <2>. QED BY <1>1, <2>1, NewKeeps
  <1>. HIDE DEF e
  <1>4. Range(d.list) \subseteq Ws /\ d.owner \in [Ws -> Mons \cup {None}]
    BY InRange DEF Sound, Desks
  <1>5. \A v \in Range(e.list) :
           e.owner[v] \in E \/ (v \in Range(d.list) /\ e.owner[v] = d.owner[v])
    BY <1>1, <1>3, <1>4
  <1>. QED BY <1>1, <1>2, <1>3, <1>4, <1>5, FrameKeeps DEF Steady, Exists, E

LEMMA FocusSteady ==
    ASSUME NEW d, NEW E, Sound(d), Shows(d, E), NEW m \in E
    PROVE  LET e == [d EXCEPT !.focus = m]
           IN  Steady(d, e, E) /\ e.list = d.list /\ e.owner = d.owner
  <1>. DEFINE e == [d EXCEPT !.focus = m]
  <1>1. m \in Mons \cup {None}
    BY DEF Shows
  <1>2. /\ Sound(e) /\ Shows(e, E) /\ Frame(d, e) /\ e.list = d.list
        /\ e.owner = d.owner /\ e.active = d.active /\ e.focus = m
    BY <1>1, FocusKeeps
  <1>. HIDE DEF e
  <1>. QED BY <1>2, FrameKeeps DEF Steady, e

LEMMA SwapFields ==
    ASSUME NEW d \in Desks, NEW a \in Mons, NEW b \in Mons,
           d.active[a] \in Ids, d.active[b] \in Ids, d.active[a] # d.active[b], a # b
    PROVE  LET e == SwapActiveWorkspaces(d, a, b)
           IN  /\ e \in Desks /\ Frame(d, e) /\ e.list = d.list /\ e.focus = d.focus
               /\ e.special = d.special /\ e.visible = d.visible
               /\ e.persistent = d.persistent
               /\ \A w \in Ws : /\ w = d.active[a] => e.owner[w] = b
                                /\ w = d.active[b] => e.owner[w] = a
                                /\ w \notin {d.active[a], d.active[b]} =>
                                      e.owner[w] = d.owner[w]
               /\ \A m \in Mons : /\ m = a => e.active[m] = d.active[b]
                                  /\ m = b => e.active[m] = d.active[a]
                                  /\ m \notin {a, b} => e.active[m] = d.active[m]
  <1>. DEFINE e == SwapActiveWorkspaces(d, a, b)
              o == [d.owner EXCEPT ![d.active[a]] = b, ![d.active[b]] = a]
              t == [d.active EXCEPT ![a] = d.active[b], ![b] = d.active[a]]
  <1>1. d.owner \in [Ws -> Mons \cup {None}] /\ d.active \in [Mons -> Ids \cup {None}]
    BY DEF Desks
  <1>2. o \in [Ws -> Mons \cup {None}] /\ t \in [Mons -> Ids \cup {None}]
    BY <1>1
  <1>3. e = [d EXCEPT !.owner = o, !.active = t]
    BY DEF SwapActiveWorkspaces, Desks
  <1>4. /\ \A w \in Ws : /\ w = d.active[a] => o[w] = b
                         /\ w = d.active[b] => o[w] = a
                         /\ w \notin {d.active[a], d.active[b]} => o[w] = d.owner[w]
        /\ \A m \in Mons : /\ m = a => t[m] = d.active[b]
                           /\ m = b => t[m] = d.active[a]
                           /\ m \notin {a, b} => t[m] = d.active[m]
    BY <1>1, ConstantTypes
  <1>. HIDE DEF o, t
  <1>5. e \in Desks
    BY <1>2, <1>3 DEF Desks
  <1>6. /\ e.owner = o /\ e.active = t /\ Frame(d, e) /\ e.list = d.list
        /\ e.focus = d.focus /\ e.special = d.special /\ e.visible = d.visible
        /\ e.persistent = d.persistent
    BY <1>3 DEF Desks, Frame, Outline, Tags, Tracked
  <1>. QED BY <1>4, <1>5, <1>6

\* Two monitors exchange what they show.
LEMMA SwapSteady ==
    ASSUME NEW d, NEW E, Sound(d), Shows(d, E), NEW a \in E, NEW b \in E, a # b
    PROVE  Steady(d, SwapActiveWorkspaces(d, a, b), E)
  <1>. DEFINE e == SwapActiveWorkspaces(d, a, b)
              x == d.active[a]
              y == d.active[b]
  <1>0. /\ d \in Desks /\ a \in Mons /\ b \in Mons /\ E \subseteq Mons /\ None \notin Ws
        /\ Range(d.list) \subseteq Ws /\ Special \notin Ids /\ Ids \subseteq Ws
        /\ Special \in Ws /\ d.active \in [Mons -> Ids \cup {None}]
        /\ d.special \in [Mons -> {Special, None}]
    BY ConstantTypes, InRange DEF Sound, Desks, Shows
  <1>1. /\ x \in Ids /\ y \in Ids /\ Exists(d, x) /\ Exists(d, y)
        /\ d.owner[x] = a /\ d.owner[y] = b
    BY <1>0 DEF Shows, Exists
  <1>2. x # y
    BY <1>1
  <1>3. /\ e \in Desks /\ Frame(d, e) /\ e.list = d.list /\ e.focus = d.focus
        /\ e.special = d.special /\ e.visible = d.visible
        /\ e.persistent = d.persistent
        /\ \A w \in Ws : /\ w = d.active[a] => e.owner[w] = b
                         /\ w = d.active[b] => e.owner[w] = a
                         /\ w \notin {d.active[a], d.active[b]} =>
                               e.owner[w] = d.owner[w]
        /\ \A m \in Mons : /\ m = a => e.active[m] = d.active[b]
                           /\ m = b => e.active[m] = d.active[a]
                           /\ m \notin {a, b} => e.active[m] = d.active[m]
    BY <1>0, <1>1, <1>2, SwapFields
  <1>. HIDE DEF e
  <1>4. Sound(e)
    BY <1>3 DEF Sound, Frame, Outline
  <1>5. ASSUME NEW m \in E PROVE Exists(e, e.active[m]) /\ e.owner[e.active[m]] = m
    <2>1. /\ m \in Mons /\ d.active[m] \in Ws /\ Exists(d, d.active[m])
          /\ d.owner[d.active[m]] = m
      BY <1>0 DEF Shows, Exists
    <2>2. CASE m \in {a, b}
      BY <1>0, <1>1, <1>3, <2>2 DEF Exists
    <2>3. CASE m \notin {a, b}
      BY <1>1, <1>3, <2>1, <2>3 DEF Exists
    <2>. QED BY <2>2, <2>3
  <1>6. ASSUME NEW m \in Mons, e.special[m] # None
        PROVE  m \in E /\ Exists(e, Special) /\ e.owner[Special] = m
    BY <1>0, <1>1, <1>3, <1>6 DEF Shows, Exists
  <1>7. ASSUME NEW w \in Ws
        PROVE  w \in e.visible <=> e.owner[w] \in E /\ SeenAt(e, w, e.owner[w])
    <2>1. CASE w \in {x, y}
      BY <1>0, <1>1, <1>3, <2>1 DEF Shows, SeenAt
    <2>2. CASE w \notin {x, y}
      BY <1>0, <1>3, <2>2 DEF Shows, SeenAt
    <2>. QED BY <2>1, <2>2
  <1>8. \A m \in Mons \ E : e.active[m] = None
    BY <1>3 DEF Shows
  <1>9. Shows(e, E)
    BY <1>0, <1>5, <1>6, <1>7, <1>8 DEF Shows
  <1>10. \A v \in Range(e.list) :
            e.owner[v] \in E \/ (v \in Range(d.list) /\ e.owner[v] = d.owner[v])
    BY <1>0, <1>3
  <1>. QED BY <1>3, <1>4, <1>9, <1>10, FrameKeeps DEF Steady, e

LEMMA HideSpecialSteady ==
    ASSUME NEW d, NEW E, Sound(d), Shows(d, E), NEW m \in E
    PROVE  Steady(d, HideSpecial(d, m), E)
  <1>. DEFINE e == HideSpecial(d, m)
              s == [d.special EXCEPT ![m] = None]
              v == d.visible \ {d.special[m]}
  <1>0. /\ d \in Desks /\ m \in Mons /\ Special \notin Ids /\ None \notin Ws
        /\ d.special \in [Mons -> {Special, None}] /\ Special \in Ws
        /\ d.active \in [Mons -> Ids \cup {None}] /\ Ids \subseteq Ws
    BY ConstantTypes DEF Sound, Desks, Shows
  <1>1. /\ s \in [Mons -> {Special, None}] /\ v \in SUBSET Ws
        /\ \A n \in Mons : s[n] = IF n = m THEN None ELSE d.special[n]
    BY <1>0 DEF Desks
  <1>2. e = [d EXCEPT !.special = s, !.visible = v]
    BY <1>0 DEF HideSpecial, Desks
  <1>3. \A w \in Ws : w \in v <=> w \in d.visible /\ w # d.special[m]
    BY <1>0 DEF Desks
  <1>. HIDE DEF s, v
  <1>4. e \in Desks
    BY <1>0, <1>1, <1>2 DEF Desks
  <1>5. /\ e.special = s /\ e.visible = v /\ Frame(d, e) /\ e.list = d.list
        /\ e.owner = d.owner /\ e.active = d.active /\ e.focus = d.focus
        /\ e.persistent = d.persistent
    BY <1>0, <1>2 DEF Desks, Frame, Outline, Tags, Tracked
  <1>. HIDE DEF e
  <1>6. Sound(e)
    BY <1>4, <1>5 DEF Sound, Frame, Outline
  <1>7. ASSUME NEW n \in Mons, e.special[n] # None
        PROVE  n \in E /\ Exists(e, Special) /\ e.owner[Special] = n
    BY <1>1, <1>5, <1>7 DEF Shows, Exists
  <1>8. ASSUME NEW w \in Ws
        PROVE  w \in e.visible <=> e.owner[w] \in E /\ SeenAt(e, w, e.owner[w])
    <2>1. CASE w = Special
      <3>1. d.special[m] = Special => d.owner[Special] = m
        BY <1>0 DEF Shows
      <3>. QED BY <1>0, <1>1, <1>3, <1>5, <2>1, <3>1 DEF Shows, SeenAt
    <2>2. CASE w # Special
      BY <1>0, <1>1, <1>3, <1>5, <2>2 DEF Shows, SeenAt
    <2>. QED BY <2>1, <2>2
  <1>9. Shows(e, E)
    BY <1>5, <1>7, <1>8 DEF Shows, Exists
  <1>. QED BY <1>5, <1>6, <1>9, FrameKeeps DEF Steady, e

LEMMA ShowSpecialSteady ==
    ASSUME NEW d, NEW E, Sound(d), Shows(d, E), NEW m \in E, Exists(d, Special)
    PROVE  Steady(d, ShowSpecial(d, m, Special), E)
  <1>. DEFINE e == ShowSpecial(d, m, Special)
  <1>1. /\ Sound(e) /\ Shows(e, E) /\ Frame(d, e) /\ e.list = d.list
        /\ e.focus = d.focus /\ e.owner = [d.owner EXCEPT ![Special] = m]
    BY ShowSpecialKeeps
  <1>. HIDE DEF e
  <1>2. Range(d.list) \subseteq Ws /\ d.owner \in [Ws -> Mons \cup {None}]
    BY InRange DEF Sound, Desks
  <1>3. \A v \in Range(e.list) :
           e.owner[v] \in E \/ (v \in Range(d.list) /\ e.owner[v] = d.owner[v])
    BY <1>1, <1>2
  <1>. QED BY <1>1, <1>3, FrameKeeps DEF Steady, e

\* Windows open and close on workspaces that exist.
LEMMA WindowsFine ==
    ASSUME NEW d, NEW S, Fine(d, S), NEW X \in SUBSET Range(d.list)
    PROVE  LET e == [d EXCEPT !.windows = X]
           IN  Fine(e, S) /\ Enabled(e) = Enabled(d) /\ e.later = d.later /\ Awaits(d, e)
  <1>. DEFINE e == [d EXCEPT !.windows = X]
  <1>0. d \in Desks /\ Range(d.list) \subseteq Ws
    BY InRange DEF Fine, Sound, Desks
  <1>1. e \in Desks
    BY <1>0 DEF Desks
  <1>2. /\ e.owner = d.owner /\ e.list = d.list /\ e.active = d.active
        /\ e.focus = d.focus /\ e.special = d.special /\ e.visible = d.visible
        /\ e.persistent = d.persistent /\ e.windows = X /\ e.monitors = d.monitors
        /\ e.wanted = d.wanted /\ e.later = d.later /\ e.last = d.last
    BY <1>0 DEF Desks
  <1>. HIDE DEF e
  <1>3. Sound(e) /\ Shows(e, Enabled(d)) /\ Enabled(e) = Enabled(d)
    BY <1>1, <1>2 DEF Fine, Sound, Shows, Exists, SeenAt, Enabled
  <1>4. Focused(e) /\ Stranded(e, S)
    BY <1>2, <1>3 DEF Fine, Focused, Stranded
  <1>5. Awaits(d, e)
    BY <1>2, <1>3 DEF Awaits
  <1>. QED BY <1>2, <1>3, <1>4, <1>5 DEF Fine, e

\* A request that rearranges the screens and drops what is not needed any more.
LEMMA RequestFine ==
    ASSUME NEW d, NEW S, Fine(d, S), NEW e, Steady(d, e, Enabled(d))
    PROVE  /\ Fine(Prune(e), S) /\ Enabled(Prune(e)) = Enabled(d)
           /\ Prune(e).later = d.later /\ Awaits(d, Prune(e))
           /\ Prune(e).windows = d.windows
  <1>. DEFINE p == Prune(e)
              E == Enabled(d)
  <1>1. Steady(e, p, E)
    BY PruneSteady DEF Steady
  <1>. HIDE DEF p
  <1>2. Steady(d, p, E)
    BY <1>1, SteadyThen
  <1>. QED BY <1>2, SteadyFine, SteadyAwaits DEF p

-----------------------------------------------------------------------------
(* The steps *)

\* The desk between two callbacks: what is queued is what is to come.
DeskInv == Fine(desk, Range(desk.later))

\* A workspace that a monitor's going away displaced has windows, the monitor is
\* still away, and the tag is there.
Awaited ==
    \A w \in Ws \ Range(Default) :
        home[w] # None => /\ home[w] \in Real \ Enabled(desk)
                          /\ w \in desk.windows /\ desk.last[w] = home[w]

Inv ==
    /\ DeskInv /\ Awaited
    /\ known \subseteq Real /\ Enabled(desk) \subseteq known \cup {Fallback}
    /\ timer \in BOOLEAN /\ started \in BOOLEAN
    /\ home \in [Ws -> Mons \cup {None}]
    /\ count \in [outputs : 0 .. MaxOutputs, requests : 0 .. MaxRequests]

\* A desk as fine as it was, on which what is awaited still is.
Undisturbed(d, e) ==
    Fine(e, Range(e.later)) /\ Awaits(d, e)

\* Where no monitor but FALLBACK comes, what is awaited still is, as long as it
\* keeps its windows.
LEMMA AwaitedStays ==
    ASSUME Awaited, Awaits(desk, desk'),
           \A w \in Ws : home'[w] # None => home'[w] = home[w],
           desk'.windows = desk.windows \/ \A w \in Ws : home'[w] # None => w \in desk'.windows
    PROVE  Awaited'
  <1>. SUFFICES ASSUME NEW w \in Ws \ Range(Default), home'[w] # None
                PROVE  /\ home'[w] \in Real \ Enabled(desk') /\ w \in desk'.windows
                       /\ desk'.last[w] = home'[w]
    BY DEF Awaited, Enabled
  <1>1. /\ home'[w] = home[w] /\ w \in desk'.windows /\ home[w] \in Real \ Enabled(desk)
        /\ w \in desk.windows /\ desk.last[w] = home[w]
    BY DEF Awaited
  <1>2. home[w] \notin Enabled(desk')
    BY <1>1, ConstantTypes DEF Awaits
  <1>. QED BY <1>1, <1>2 DEF Awaits, Tracked

LEMMA FocusIsEnabled ==
    ASSUME DeskInv
    PROVE  desk.focus # None => desk.focus \in Enabled(desk)
  BY DEF DeskInv, Fine, Focused

LEMMA SwitchKeeps ==
    ASSUME EnoughIds, DeskInv, NEW w \in UserIds, Switch(w)
    PROVE  Undisturbed(desk, desk')
  <1>. DEFINE d == desk
              E == Enabled(desk)
              S == Range(desk.later)
              cur == desk.focus
              made == IF Exists(desk, w) THEN desk ELSE Create(desk, w, cur)
              at == made.owner[w]
              adopted == IF at \in Enabled(made) THEN made
                         ELSE MoveWorkspaceToMonitor(made, w, cur)
              m == adopted.owner[w]
              placed == [adopted EXCEPT !.focus = m]
              shown == ChangeWorkspace(placed, m, w)
  <1>1. cur # None /\ desk' = Prune(shown)
    BY DEF Switch
  <1>2. /\ cur \in E /\ w \in Ids /\ w \in Ws /\ Sound(d) /\ Shows(d, E)
    BY <1>1, FocusIsEnabled, WorkspacesAssumption, ConstantTypes DEF DeskInv, Fine
  <1>3. Steady(d, made, E) /\ Exists(made, w)
    <2>1. CASE Exists(desk, w)
      BY <1>2, <2>1, SteadyStart
    <2>2. CASE ~ Exists(desk, w)
      <3>. DEFINE c == Create(desk, w, cur)
      <3>1. Steady(d, c, E) /\ Exists(c, w) /\ c.owner[w] \in E
        <4>. HIDE DEF c, cur
        <4>. QED BY <1>2, <2>2, CreateSteady DEF c
      <3>. QED BY <2>2, <3>1
    <2>. QED BY <2>1, <2>2
  <1>. HIDE DEF made, cur
  <1>4. Sound(made) /\ Shows(made, E) /\ Enabled(made) = E
    BY <1>3 DEF Steady, Outline, Enabled
  <1>5. Steady(made, adopted, E) /\ Exists(adopted, w) /\ m \in E
    <2>1. CASE at \in E
      BY <1>3, <1>4, <2>1, SteadyStart
    <2>2. CASE at \notin E
      <3>. DEFINE a == MoveWorkspaceToMonitor(made, w, cur)
      <3>1. adopted = a
        BY <1>4, <2>2
      <3>2. Steady(made, a, E) /\ Moves(made, a, w, cur, E)
        BY <1>2, <1>4, MoveSteady, MoveKeeps
      <3>. QED BY <1>2, <1>3, <3>1, <3>2 DEF Moves, Gains, Exists
    <2>. QED BY <2>1, <2>2
  <1>. HIDE DEF adopted, at
  <1>6. Sound(adopted) /\ Shows(adopted, E)
    BY <1>5 DEF Steady
  <1>7. Steady(adopted, placed, E) /\ placed.list = adopted.list /\ placed.owner = adopted.owner
    BY <1>5, <1>6, FocusSteady
  <1>8. Exists(placed, w) /\ placed.owner[w] = m /\ Sound(placed) /\ Shows(placed, E)
    BY <1>5, <1>7 DEF Exists, Steady
  <1>. HIDE DEF placed, m
  <1>9. Steady(placed, shown, E)
    BY <1>2, <1>5, <1>8, ChangeSteady
  <1>. HIDE DEF shown
  <1>10. Steady(d, shown, E)
    BY <1>3, <1>5, <1>7, <1>9, SteadyThen
  <1>. HIDE DEF S
  <1>11. Fine(d, S)
    BY DEF DeskInv, S
  <1>12. /\ Fine(Prune(shown), S) /\ Enabled(Prune(shown)) = E /\ Prune(shown).later = d.later
         /\ Awaits(d, Prune(shown))
    BY <1>10, <1>11, RequestFine
  <1>. QED BY <1>1, <1>12 DEF Undisturbed, S

LEMMA FetchHereKeeps ==
    ASSUME EnoughIds, DeskInv, NEW w \in Ids, FetchHere(w)
    PROVE  Undisturbed(desk, desk')
  <1>. DEFINE d == desk
              E == Enabled(desk)
              S == Range(desk.later)
              cur == desk.focus
              from == desk.owner[w]
              swapped == SwapActiveWorkspaces(d, from, cur)
              fetched == Prune(ChangeWorkspace(MoveWorkspaceToMonitor(d, w, cur), cur, w))
  <1>1. /\ cur # None /\ Exists(d, w) /\ from \notin {None, cur}
        /\ desk' = IF d.active[from] = w THEN swapped ELSE fetched
    BY DEF FetchHere
  <1>2. /\ cur \in E /\ w \in Ws /\ Sound(d) /\ Shows(d, E) /\ Fine(d, S) /\ w # None
        /\ d.owner \in [Ws -> Mons \cup {None}]
    BY <1>1, FocusIsEnabled, ConstantTypes DEF DeskInv, Fine, Sound, Desks
  <1>3. CASE d.active[from] = w
    <2>1. from \in E
      BY <1>1, <1>2, <1>3 DEF Shows
    <2>. HIDE DEF E, cur, from
    <2>2. Steady(d, swapped, E)
      BY <1>1, <1>2, <2>1, SwapSteady
    <2>. HIDE DEF swapped, S
    <2>3. /\ Fine(swapped, S) /\ Enabled(swapped) = Enabled(d) /\ swapped.later = d.later
          /\ Awaits(d, swapped)
      BY <1>2, <2>2, SteadyFine, SteadyAwaits DEF E
    <2>. QED BY <1>1, <1>3, <2>3 DEF Undisturbed, S
  <1>4. CASE d.active[from] # w
    <2>. HIDE DEF E, cur, from
    <2>1. Steady(d, fetched, E)
      BY <1>1, <1>2, FetchSteady
    <2>. HIDE DEF fetched, S
    <2>2. /\ Fine(fetched, S) /\ Enabled(fetched) = Enabled(d) /\ fetched.later = d.later
          /\ Awaits(d, fetched)
      BY <1>2, <2>1, SteadyFine, SteadyAwaits DEF E
    <2>. QED BY <1>1, <1>4, <2>2 DEF Undisturbed, S
  <1>. QED BY <1>3, <1>4

LEMMA SendToKeeps ==
    ASSUME EnoughIds, DeskInv, NEW w \in Ws, NEW m \in Mons, SendTo(w, m)
    PROVE  Undisturbed(desk, desk')
  <1>. DEFINE d == desk
              E == Enabled(desk)
              S == Range(desk.later)
              moved == MoveWorkspaceToMonitor(d, w, m)
  <1>1. /\ m \in E /\ desk' = Prune(moved) /\ Fine(d, S) /\ Sound(d) /\ Shows(d, E)
    BY DEF SendTo, DeskInv, Fine
  <1>2. Steady(d, moved, E)
    <2>. HIDE DEF E
    <2>. QED BY <1>1, MoveSteady
  <1>. HIDE DEF moved, S
  <1>3. /\ Fine(Prune(moved), S) /\ Enabled(Prune(moved)) = E /\ Prune(moved).later = d.later
        /\ Awaits(d, Prune(moved))
    BY <1>1, <1>2, RequestFine
  <1>. QED BY <1>1, <1>3 DEF Undisturbed, S

LEMMA ToggleSpecialKeeps ==
    ASSUME EnoughIds, DeskInv, ToggleSpecial
    PROVE  Undisturbed(desk, desk')
  <1>. DEFINE d == desk
              E == Enabled(desk)
              S == Range(desk.later)
              cur == desk.focus
              made == IF Exists(d, Special) THEN d ELSE Create(d, Special, cur)
              hidden == HideSpecial(d, cur)
              shown == ShowSpecial(made, cur, Special)
              e == IF d.special[cur] = Special THEN hidden ELSE shown
  <1>1. cur # None /\ desk' = Prune(e)
    BY DEF ToggleSpecial
  <1>2. cur \in E /\ Special \in Ws /\ Fine(d, S) /\ Sound(d) /\ Shows(d, E)
    BY <1>1, FocusIsEnabled, ConstantTypes DEF DeskInv, Fine
  <1>3. Steady(d, made, E) /\ Exists(made, Special)
    <2>1. CASE Exists(d, Special)
      BY <1>2, <2>1, SteadyStart
    <2>2. CASE ~ Exists(d, Special)
      <3>. DEFINE c == Create(d, Special, cur)
      <3>1. Steady(d, c, E) /\ Exists(c, Special) /\ c.owner[Special] \in E
        <4>. HIDE DEF c, cur
        <4>. QED BY <1>2, <2>2, CreateSteady DEF c
      <3>. QED BY <2>2, <3>1
    <2>. QED BY <2>1, <2>2
  <1>. HIDE DEF made, cur
  <1>4. Steady(d, shown, E)
    <2>1. Sound(made) /\ Shows(made, E)
      BY <1>3 DEF Steady
    <2>2. Steady(made, shown, E)
      BY <1>2, <1>3, <2>1, ShowSpecialSteady
    <2>. QED BY <1>3, <2>2, SteadyThen
  <1>5. Steady(d, hidden, E)
    BY <1>2, HideSpecialSteady
  <1>. HIDE DEF shown, hidden
  <1>6. Steady(d, e, E)
    BY <1>4, <1>5
  <1>. HIDE DEF e, S
  <1>7. /\ Fine(Prune(e), S) /\ Enabled(Prune(e)) = E /\ Prune(e).later = d.later
        /\ Awaits(d, Prune(e))
    BY <1>2, <1>6, RequestFine
  <1>. QED BY <1>1, <1>7 DEF Undisturbed, S

LEMMA FocusMonitorKeeps ==
    ASSUME DeskInv, NEW m \in Mons, FocusMonitor(m)
    PROVE  Undisturbed(desk, desk')
  <1>. DEFINE d == desk
              E == Enabled(desk)
              S == Range(desk.later)
              e == [d EXCEPT !.focus = m]
  <1>1. m \in E /\ desk' = e /\ Fine(d, S) /\ Sound(d) /\ Shows(d, E)
    BY DEF FocusMonitor, DeskInv, Fine
  <1>2. Steady(d, e, E)
    <2>. HIDE DEF E
    <2>. QED BY <1>1, FocusSteady
  <1>. HIDE DEF e, S
  <1>3. /\ Fine(e, S) /\ Enabled(e) = E /\ e.later = d.later
        /\ Awaits(d, e)
    BY <1>1, <1>2, SteadyFine, SteadyAwaits
  <1>. QED BY <1>1, <1>3 DEF Undisturbed, S

LEMMA OpenWindowKeeps ==
    ASSUME DeskInv, NEW w \in Ws, OpenWindow(w)
    PROVE  Undisturbed(desk, desk')
  <1>. DEFINE d == desk
              S == Range(desk.later)
              X == d.windows \cup {w}
              e == [d EXCEPT !.windows = X]
  <1>1. X \subseteq Range(d.list) /\ desk' = e /\ Fine(d, S)
    BY DEF OpenWindow, DeskInv, Fine, Sound, Exists
  <1>. HIDE DEF X, S
  <1>2. /\ Fine(e, S) /\ Enabled(e) = Enabled(d) /\ e.later = d.later
        /\ Awaits(d, e)
    BY <1>1, WindowsFine
  <1>. QED BY <1>1, <1>2 DEF Undisturbed, S

LEMMA CloseWindowsKeeps ==
    ASSUME DeskInv, NEW w \in Ws, CloseWindows(w)
    PROVE  Undisturbed(desk, desk')
  <1>. DEFINE d == desk
              S == Range(desk.later)
              X == d.windows \ {w}
              e == [d EXCEPT !.windows = X]
  <1>1. X \subseteq Range(d.list) /\ desk' = Prune(e) /\ Fine(d, S)
    BY DEF CloseWindows, DeskInv, Fine, Sound
  <1>. HIDE DEF X, S
  <1>2. /\ Fine(e, S) /\ Enabled(e) = Enabled(d) /\ e.later = d.later
        /\ Awaits(d, e)
    BY <1>1, WindowsFine
  <1>. HIDE DEF e
  <1>3. Steady(e, e, Enabled(e))
    BY <1>2, SteadyStart DEF Fine
  <1>4. /\ Fine(Prune(e), S) /\ Enabled(Prune(e)) = Enabled(e) /\ Prune(e).later = e.later
        /\ Awaits(e, Prune(e)) /\ Prune(e).windows = e.windows
    BY <1>2, <1>3, RequestFine
  <1>5. Awaits(d, Prune(e))
    BY <1>2, <1>4, AwaitsThen
  <1>. QED BY <1>1, <1>2, <1>4, <1>5 DEF Undisturbed, S

LEMMA ConnectInv ==
    ASSUME EnoughIds, Inv, NEW m \in Real, m \notin Enabled(desk), Connect(m)
    PROVE  /\ Fine(desk', Range(desk'.later)) /\ Enabled(desk') = Enabled(desk) \cup {m}
           /\ home' \in [Ws -> Mons \cup {None}] /\ Awaited'
  <1>. DEFINE d == desk
              T == Range(desk.later)
              e == OnConnect(d, m)
  <1>1. /\ Fine(d, T) /\ m \in Mons /\ m # Fallback /\ desk' = e
        /\ T \subseteq T \cup Range(d.later)
    BY ConstantTypes DEF Inv, DeskInv, Connect
  <1>. HIDE DEF e
  <1>2. /\ Fine(e, T \cup Range(e.later)) /\ Enabled(e) = Enabled(d) \cup {m}
        /\ Range(d.later) \subseteq Range(e.later)
    <2>. HIDE DEF T
    <2>1. (m = Fallback => d.wanted) /\ (m # Fallback => T \subseteq T \cup Range(d.later))
      BY <1>1
    <2>. QED BY <1>1, <2>1, ConnectFine DEF e
  <1>3. T \cup Range(e.later) = Range(e.later)
    BY <1>2
  <1>4. home' \in [Ws -> Mons \cup {None}]
    BY DEF Connect, Inv
  <1>5. e.windows = d.windows /\ Keeps(d, e, Enabled(d) \cup {m})
    <2>1. Connected(d, e, m)
      <3>. HIDE DEF T
      <3>. QED BY <1>1, FineIsLoose, ConnectKeeps DEF e
    <2>. QED BY <2>1 DEF Connected
  <1>6. ASSUME NEW w \in Ws \ Range(Default), home'[w] # None
        PROVE  /\ home'[w] \in Real \ Enabled(e) /\ w \in e.windows
               /\ e.last[w] = home'[w]
    <2>1. home'[w] = home[w] /\ home[w] # m
      BY <1>6 DEF Connect
    <2>2. /\ home[w] \in Real \ Enabled(d) /\ w \in d.windows /\ d.last[w] = home[w]
      BY <1>6, <2>1 DEF Inv, Awaited
    <2>. QED BY <1>2, <1>5, <1>6, <2>1, <2>2 DEF Keeps, Tracked
  <1>7. Awaited'
    BY <1>1, <1>6 DEF Awaited, Enabled
  <1>. QED BY <1>1, <1>2, <1>3, <1>4, <1>7

\* Both of a monitor that is disabled and of one that is unplugged.
LEMMA DisconnectInv ==
    ASSUME EnoughIds, Inv, NEW m \in Real, NEW down,
           down \in {OnDisconnect(desk, m), Forget(OnDisconnect(desk, m), m)},
           Disconnect(m, down)
    PROVE  /\ Fine(desk', Range(desk'.later)) /\ Enabled(desk') = Enabled(desk) \ {m}
           /\ home' \in [Ws -> Mons \cup {None}] /\ Awaited'
  <1>. DEFINE d == desk
              T == Range(desk.later)
              c == OnDisconnect(d, m)
              e == Forget(c, m)
  <1>1. /\ Fine(d, T) /\ m \in Mons /\ desk' = down /\ down \in {c, e}
        /\ m = Fallback => ~ d.wanted
        /\ "ensure" \in T => "ensure" \in T \cup Range(d.later)
        /\ m # Fallback => T \subseteq T \cup Range(d.later)
    BY ConstantTypes DEF Inv, DeskInv, Disconnect
  <1>2. /\ Fine(c, T \cup Range(c.later)) /\ Enabled(c) = Enabled(d) \ {m}
        /\ Range(d.later) \subseteq Range(c.later)
    <2>. HIDE DEF T, d, c
    <2>. QED BY <1>1, DisconnectFine DEF c
  <1>3. /\ Fine(e, T \cup Range(e.later)) /\ Enabled(e) = Enabled(d) \ {m}
        /\ Range(d.later) \subseteq Range(e.later)
    <2>. HIDE DEF T, d, e
    <2>. QED BY <1>1, GoneFine DEF e, c
  <1>. HIDE DEF c, e
  <1>4. T \cup Range(c.later) = Range(c.later) /\ T \cup Range(e.later) = Range(e.later)
    BY <1>2, <1>3
  <1>5. home' \in [Ws -> Mons \cup {None}]
    BY <1>1 DEF Disconnect, Inv
  <1>8. Enabled(down) = Enabled(d) \ {m}
    BY <1>1, <1>2, <1>3
  <1>9. Parting(d, down, m)
    <2>1. Parting(d, c, m) /\ Parting(d, e, m)
      <3>. HIDE DEF T, d
      <3>. QED BY <1>1, GoneParting DEF c, e
    <2>. QED BY <1>1, <2>1
  <1>10. ASSUME NEW w \in Ws \ Range(Default), home'[w] # None
         PROVE  /\ home'[w] \in Real \ Enabled(down) /\ w \in down.windows
                /\ down.last[w] = home'[w]
    <2>1. CASE /\ w \in d.windows /\ m \in Enabled(d) /\ d.owner[w] = m /\ d.last[w] = None
      <3>1. home'[w] = m
        BY <2>1 DEF Disconnect
      <3>. QED BY <1>8, <1>9, <2>1, <3>1 DEF Parting, Tracked
    <2>2. CASE ~ (w \in d.windows /\ m \in Enabled(d) /\ d.owner[w] = m /\ d.last[w] = None)
      <3>1. home'[w] = home[w]
        BY <2>2 DEF Disconnect
      <3>2. home[w] \in Real \ Enabled(d) /\ w \in d.windows /\ d.last[w] = home[w]
        BY <1>10, <3>1 DEF Inv, Awaited
      <3>. QED BY <1>8, <1>9, <1>10, <3>1, <3>2 DEF Parting, Keeps, Tracked
    <2>. QED BY <2>1, <2>2
  <1>11. Awaited'
    BY <1>1, <1>10 DEF Awaited, Enabled
  <1>6. CASE down = c
    BY <1>1, <1>2, <1>4, <1>5, <1>6, <1>11
  <1>7. CASE down = e
    BY <1>1, <1>3, <1>4, <1>5, <1>7, <1>11
  <1>. QED BY <1>1, <1>6, <1>7

LEMMA OutputsInv ==
    ASSUME EnoughIds, Inv, Outputs
    PROVE  Inv'
  <1>1. PICK m \in Real : PlugIn(m) \/ Unplug(m) \/ Disable(m) \/ Enable(m)
    BY DEF Outputs
  <1>2. /\ m # Fallback /\ known \subseteq Real
        /\ Enabled(desk) \subseteq known \cup {Fallback}
        /\ timer' = timer /\ started' = started
    BY <1>1, ConstantTypes DEF Inv, PlugIn, Unplug, Disable, Enable
  <1>3. count' \in [outputs : 0 .. MaxOutputs, requests : 0 .. MaxRequests]
    BY WorkspacesAssumption DEF Inv, Outputs
  <1>4. /\ Fine(desk', Range(desk'.later)) /\ home' \in [Ws -> Mons \cup {None}]
        /\ Awaited' /\ known' \subseteq Real /\ Enabled(desk') \subseteq known' \cup {Fallback}
    <2>1. CASE PlugIn(m)
      <3>1. m \notin Enabled(desk) /\ Connect(m) /\ known' = known \cup {m}
        BY <1>2, <2>1 DEF PlugIn
      <3>. QED BY <1>2, <3>1, ConnectInv
    <2>2. CASE Enable(m)
      <3>1. m \notin Enabled(desk) /\ Connect(m) /\ known' = known /\ m \in known
        BY <2>2 DEF Enable
      <3>. QED BY <1>2, <3>1, ConnectInv
    <2>3. CASE Unplug(m)
      <3>. DEFINE down == Forget(OnDisconnect(desk, m), m)
      <3>1. /\ down \in {OnDisconnect(desk, m), Forget(OnDisconnect(desk, m), m)}
            /\ Disconnect(m, down) /\ known' = known \ {m}
        BY <2>3 DEF Unplug
      <3>. HIDE DEF down
      <3>. QED BY <1>2, <3>1, DisconnectInv
    <2>4. CASE Disable(m)
      <3>. DEFINE down == OnDisconnect(desk, m)
      <3>1. /\ down \in {OnDisconnect(desk, m), Forget(OnDisconnect(desk, m), m)}
            /\ Disconnect(m, down) /\ known' = known
        BY <2>4 DEF Disable
      <3>. HIDE DEF down
      <3>. QED BY <1>2, <3>1, DisconnectInv
    <2>. QED BY <1>1, <2>1, <2>2, <2>3, <2>4
  <1>. QED BY <1>2, <1>3, <1>4 DEF Inv, DeskInv, Enabled

LEMMA UserAwaits ==
    ASSUME EnoughIds, Inv, User
    PROVE  Undisturbed(desk, desk') /\ UserMoves /\ Awaits(desk, desk')
  <1>0. DeskInv
    BY DEF Inv
  <1>1. ASSUME NEW w \in UserIds, Switch(w) PROVE Undisturbed(desk, desk') /\ UserMoves
    BY <1>0, <1>1, SwitchKeeps DEF Switch
  <1>2. ASSUME NEW w \in Ids, FetchHere(w) PROVE Undisturbed(desk, desk') /\ UserMoves
    BY <1>0, <1>2, FetchHereKeeps DEF FetchHere
  <1>3. ASSUME NEW w \in Ws, NEW m \in Mons, SendTo(w, m)
        PROVE  Undisturbed(desk, desk') /\ UserMoves
    BY <1>0, <1>3, SendToKeeps DEF SendTo
  <1>4. ASSUME NEW m \in Mons, FocusMonitor(m) PROVE Undisturbed(desk, desk') /\ UserMoves
    BY <1>0, <1>4, FocusMonitorKeeps DEF FocusMonitor
  <1>5. ASSUME NEW w \in Ws, OpenWindow(w) PROVE Undisturbed(desk, desk') /\ UserMoves
    BY <1>0, <1>5, OpenWindowKeeps DEF OpenWindow
  <1>6. ASSUME NEW w \in Ws, CloseWindows(w) PROVE Undisturbed(desk, desk') /\ UserMoves
    BY <1>0, <1>6, CloseWindowsKeeps DEF CloseWindows
  <1>7. ASSUME ToggleSpecial PROVE Undisturbed(desk, desk') /\ UserMoves
    BY <1>0, <1>7, ToggleSpecialKeeps DEF ToggleSpecial
  <1>8. Undisturbed(desk, desk') /\ UserMoves
    BY <1>1, <1>2, <1>3, <1>4, <1>5, <1>6, <1>7 DEF User
  <1>. QED BY <1>8 DEF Undisturbed

LEMMA UserInv ==
    ASSUME EnoughIds, Inv, User
    PROVE  Inv'
  <1>2. Undisturbed(desk, desk') /\ UserMoves
    BY UserAwaits
  <1>3. home' \in [Ws -> Mons \cup {None}]
    BY <1>2 DEF UserMoves, Inv
  <1>4. count' \in [outputs : 0 .. MaxOutputs, requests : 0 .. MaxRequests]
    BY WorkspacesAssumption DEF Inv, User
  <1>5. Awaited'
    BY <1>2, AwaitedStays DEF Inv, UserMoves, Undisturbed
  <1>6. Enabled(desk') \subseteq known' \cup {Fallback}
    BY <1>2 DEF Inv, Undisturbed, Awaits, UserMoves
  <1>. QED BY <1>2, <1>3, <1>4, <1>5, <1>6 DEF Inv, DeskInv, Undisturbed, UserMoves, Enabled

LEMMA InitInv ==
    ASSUME Init
    PROVE  Inv
  <1>. DEFINE none == <<>>
              O == [w \in Ws |-> None]
              A == [m \in Mons |-> None]
              no == FALSE
              d == [monitors |-> none, list |-> none, windows |-> {}, persistent |-> {},
                    owner |-> O, last |-> O, visible |-> {}, focus |-> None,
                    wanted |-> no, later |-> none, active |-> A, special |-> A, seen |-> A]
  <1>1. desk = d /\ known = {} /\ timer = TRUE /\ started = FALSE
    BY DEF Init
  <1>2. /\ none \in Seq(Mons) /\ none \in Seq(Ws) /\ none \in Seq(Deferred)
        /\ Range(none) = {} /\ IsInjective(none)
    <2>1. none \in Seq(Mons) /\ none \in Seq(Ws) /\ none \in Seq(Deferred) /\ DOMAIN none = {}
      BY EmptySeq
    <2>. HIDE DEF none
    <2>. QED BY <2>1 DEF Range, IsInjective
  <1>3. /\ O \in [Ws -> Mons \cup {None}] /\ A \in [Mons -> Ids \cup {None}]
        /\ A \in [Mons -> {Special, None}] /\ \A m \in Mons : A[m] = None
        /\ \A w \in Ws : O[w] = None
    OBVIOUS
  <1>4. no \in BOOLEAN /\ ~ no
    OBVIOUS
  <1>. HIDE DEF O, A, no
  <1>5. d \in Desks
    <2>. HIDE DEF none
    <2>. QED BY <1>2, <1>3, <1>4 DEF Desks, Deferred
  <1>6. /\ d.monitors = none /\ d.list = none /\ d.windows = {} /\ d.persistent = {}
        /\ d.owner = O /\ d.visible = {} /\ d.focus = None /\ ~ d.wanted
        /\ d.active = A /\ d.special = A
    BY <1>4
  <1>. HIDE DEF d
  <1>7. Sound(d) /\ Enabled(d) = {}
    <2>. HIDE DEF none
    <2>. QED BY <1>2, <1>5, <1>6 DEF Sound, Enabled
  <1>8. Shows(d, {})
    BY <1>3, <1>6 DEF Shows
  <1>9. Fine(d, Range(d.later))
    BY <1>6, <1>7, <1>8 DEF Fine, Focused, Stranded
  <1>10. /\ timer \in BOOLEAN /\ started \in BOOLEAN /\ home \in [Ws -> Mons \cup {None}]
         /\ count \in [outputs : 0 .. MaxOutputs, requests : 0 .. MaxRequests]
    <2>1. MaxOutputs \in Nat /\ MaxRequests \in Nat
      BY WorkspacesAssumption
    <2>2. count = [outputs |-> 0, requests |-> 0] /\ home = [w \in Ws |-> None]
      BY DEF Init
    <2>3. 0 \in 0 .. MaxOutputs /\ 0 \in 0 .. MaxRequests
      BY <2>1
    <2>4. home \in [Ws -> Mons \cup {None}]
      BY <2>2
    <2>. QED BY <1>1, <2>2, <2>3, <2>4
  <1>11. Awaited
    BY DEF Init, Awaited
  <1>. QED BY <1>1, <1>7, <1>9, <1>10, <1>11 DEF Inv, DeskInv

LEMMA RunLaterInv ==
    ASSUME EnoughIds, Inv, RunLater
    PROVE  Inv'
  <1>. DEFINE e == FoldLeft(Call, [desk EXCEPT !.later = <<>>], desk.later)
  <1>1. Fine(desk, Range(desk.later)) /\ desk' = e
    BY DEF Inv, DeskInv, RunLater
  <1>. HIDE DEF e
  <1>2. /\ Fine(e, Range(e.later)) /\ Enabled(e) \subseteq Enabled(desk) \cup {Fallback}
        /\ Awaits(desk, e) /\ e.windows = desk.windows
    BY <1>1, RunKeeps DEF e
  <1>3. home' \in [Ws -> Mons \cup {None}]
    BY DEF RunLater, Inv
  <1>4. /\ known' = known /\ timer' = timer /\ started' = started /\ count' = count
    BY DEF RunLater
  <1>5. Awaited'
    BY <1>1, <1>2, AwaitedStays DEF Inv, RunLater
  <1>. QED BY <1>1, <1>2, <1>3, <1>4, <1>5 DEF Inv, DeskInv, Enabled

LEMMA FirstFrameInv ==
    ASSUME Inv, FirstFrame
    PROVE  Inv'
  <1>. DEFINE T == Range(desk.later)
              f == "start"
              q == Append(desk.later, f)
              e == [desk EXCEPT !.later = q]
  <1>1. Fine(desk, T) /\ desk' = e /\ f \in Deferred
    BY DEF Inv, DeskInv, FirstFrame, Deferred
  <1>. HIDE DEF f
  <1>2. q \in Seq(Deferred) /\ Range(q) = T \cup {f}
    BY <1>1, LaterType DEF Fine, Sound
  <1>3. T \subseteq Range(q)
    BY <1>2
  <1>. HIDE DEF q, T
  <1>4. /\ Fine(e, Range(q)) /\ Enabled(e) = Enabled(desk) /\ e.later = q
        /\ Awaits(desk, e) /\ e.windows = desk.windows
    BY <1>1, <1>2, <1>3, QueueFine
  <1>. HIDE DEF e
  <1>5. Awaited'
    BY <1>1, <1>4, AwaitedStays DEF Inv, FirstFrame
  <1>. QED BY <1>1, <1>4, <1>5 DEF Inv, DeskInv, FirstFrame, Enabled

LEMMA LaunchTimeoutInv ==
    ASSUME Inv, LaunchTimeout
    PROVE  Inv'
  <1>. DEFINE T == Range(desk.later)
              yes == TRUE
              c == SetFallbackActive(desk, yes)
  <1>1. Fine(desk, T \cup Range(desk.later))
    BY DEF Inv, DeskInv
  <1>2. CASE Enabled(desk) \subseteq {Fallback}
    <2>1. desk' = c /\ yes \in BOOLEAN /\ (yes => Enabled(desk) \subseteq {Fallback})
      BY <1>2 DEF LaunchTimeout
    <2>. HIDE DEF yes, T
    <2>2. /\ Fine(c, T \cup Range(c.later)) /\ Enabled(c) = Enabled(desk)
          /\ Range(desk.later) \subseteq Range(c.later)
          /\ c.last = desk.last /\ c.windows = desk.windows
      BY <1>1, <2>1, WantFine
    <2>. HIDE DEF c
    <2>3. Fine(c, Range(c.later))
      <3>1. T \cup Range(c.later) = Range(c.later)
        BY <2>2 DEF T
      <3>. QED BY <2>2, <3>1
    <2>4. Awaited'
      <3>1. Awaits(desk, desk') /\ desk'.windows = desk.windows
        BY <2>1, <2>2 DEF Awaits
      <3>. QED BY <3>1, AwaitedStays DEF Inv, LaunchTimeout
    <2>. QED BY <2>1, <2>2, <2>3, <2>4 DEF Inv, DeskInv, LaunchTimeout, Enabled
  <1>3. CASE ~ (Enabled(desk) \subseteq {Fallback})
    BY <1>3 DEF Inv, DeskInv, Awaited, LaunchTimeout, Enabled
  <1>. QED BY <1>2, <1>3

LEMMA NextInv ==
    ASSUME EnoughIds, Inv, [Next]_vars
    PROVE  Inv'
  <1>1. CASE RunLater
    BY <1>1, RunLaterInv
  <1>2. CASE FirstFrame
    BY <1>2, FirstFrameInv
  <1>3. CASE LaunchTimeout
    BY <1>3, LaunchTimeoutInv
  <1>4. CASE Outputs
    BY <1>4, OutputsInv
  <1>5. CASE User
    BY <1>5, UserInv
  <1>6. CASE UNCHANGED vars
    BY <1>6 DEF vars, Inv, DeskInv, Awaited, Enabled
  <1>. QED BY <1>1, <1>2, <1>3, <1>4, <1>5, <1>6 DEF Next

LEMMA Invariance ==
    ASSUME EnoughIds
    PROVE  Spec => []Inv
  <1>1. Init => Inv
    BY InitInv
  <1>2. Inv /\ [Next]_vars => Inv'
    BY NextInv
  <1>. QED BY <1>1, <1>2, PTL DEF Spec

-----------------------------------------------------------------------------
(* Results *)

\* A deferred call, a request or a change of an output never leaves the record of
\* the handlers ill-formed, an enabled monitor or a workspace listed twice, or a
\* monitor enabled that is not plugged in.
THEOREM TypeCorrect ==
    ASSUME EnoughIds
    PROVE  Spec => []TypeOK
  <1>1. Inv => TypeOK
    BY DEF Inv, DeskInv, Fine, Sound, TypeOK, Enabled
  <1>. QED BY <1>1, Invariance, PTL

\* What the monitors show exists and lies on them, the focus is on an enabled
\* monitor, and m_visible holds exactly the workspaces on screen, after whatever
\* monitors came and went, in any order, and whatever the user moved.
THEOREM ShownIsVisible ==
    ASSUME EnoughIds
    PROVE  Spec => []VisibleIsShown
  <1>1. ASSUME Inv PROVE VisibleIsShown
    <2>. DEFINE d == desk
                E == Enabled(desk)
    <2>1. /\ d \in Desks /\ Sound(d) /\ Shows(d, E) /\ Focused(d) /\ E \subseteq Mons
      BY <1>1, FineIsLoose DEF Inv, DeskInv
    <2>2. /\ d.active \in [Mons -> Ids \cup {None}]
          /\ d.special \in [Mons -> {Special, None}] /\ d.visible \subseteq Ws
          /\ d.owner \in [Ws -> Mons \cup {None}]
      BY <2>1 DEF Desks
    <2>3. ASSUME NEW m \in Mons
          PROVE  IF m \in E
                 THEN /\ Exists(d, d.active[m]) /\ d.owner[d.active[m]] = m
                      /\ d.special[m] # None => d.owner[Special] = m
                 ELSE d.active[m] = None /\ d.special[m] = None
      BY <2>1 DEF Shows
    <2>4. ASSUME NEW w \in d.visible
          PROVE  w \in (Range(d.active) \cup Range(d.special)) \ {None}
      <3>1. d.owner[w] \in Mons /\ SeenAt(d, w, d.owner[w]) /\ w # None
        <4>1. w \in Ws /\ w # None
          BY <2>2, ConstantTypes
        <4>. HIDE DEF d, E
        <4>2. d.owner[w] \in E /\ SeenAt(d, w, d.owner[w])
          BY <2>1, <4>1 DEF Shows
        <4>. QED BY <2>1, <4>1, <4>2
      <3>. QED BY <2>2, <3>1 DEF SeenAt, Range
    <2>5. ASSUME NEW w \in (Range(d.active) \cup Range(d.special)) \ {None}
          PROVE  w \in d.visible
      <3>1. PICK m \in Mons : SeenAt(d, w, m)
        BY <2>2 DEF SeenAt, Range
      <3>2. w \in Ws
        BY <2>2, <3>1, ConstantTypes DEF SeenAt
      <3>. HIDE DEF E
      <3>. QED BY <2>1, <3>1, <3>2, SeenIsOwned
    <2>6. d.visible = (Range(d.active) \cup Range(d.special)) \ {None}
      <3>. HIDE DEF d
      <3>. QED BY <2>4, <2>5
    <2>. QED BY <2>1, <2>3, <2>6 DEF VisibleIsShown, Focused
  <1>. QED BY <1>1, Invariance, PTL

\* No workspace lies on a monitor that is not there while another is, but for the
\* persistent ones that wait for a rule's monitor or for the call that brings them.
THEOREM NothingStranded ==
    ASSUME EnoughIds
    PROVE  Spec => []NoneStranded
  <1>1. Inv => NoneStranded
    BY DEF Inv, DeskInv, Fine, Stranded, NoneStranded
  <1>. QED BY <1>1, Invariance, PTL

\* FALLBACK is never left beside a real monitor once no call is pending.
THEOREM FallbackIsAlone ==
    ASSUME EnoughIds
    PROVE  Spec => []FallbackAlone
  <1>1. ASSUME Inv, desk.later = <<>>, Fallback \in Enabled(desk)
        PROVE  desk.monitors = <<Fallback>>
    <2>. DEFINE l == desk.monitors
                none == <<>>
                n == Len(l)
    <2>1. l \in Seq(Mons) /\ IsInjective(l) /\ Fine(desk, Range(desk.later))
      BY <1>1 DEF Inv, DeskInv, Fine, Sound, Desks
    <2>2. Range(none) = {} /\ desk.later = none
      BY <1>1 DEF Range
    <2>. HIDE DEF none
    <2>3. Range(l) = {Fallback}
      BY <1>1, <2>1, <2>2 DEF Fine, Enabled
    <2>. HIDE DEF l
    <2>4. /\ n \in Nat /\ DOMAIN l = 1..n /\ \A k \in 1..n : l[k] = Fallback
          /\ \E k \in 1..n : l[k] = Fallback
      BY <2>1, <2>3, InRange, LenProperties
    <2>5. \A j, k \in 1..n : l[j] = l[k] => j = k
      BY <2>1, <2>4 DEF IsInjective
    <2>6. n = 1
      <3>1. n > 1 => FALSE
        <4>1. n > 1 => 1 \in 1..n /\ 2 \in 1..n
          BY <2>4
        <4>. QED BY <2>4, <2>5, <4>1
      <3>. QED BY <2>4, <3>1
    <2>7. l = <<Fallback>>
      BY <2>1, <2>4, <2>6
    <2>. QED BY <2>7 DEF l
  <1>2. Inv => FallbackAlone
    BY <1>1 DEF FallbackAlone
  <1>. QED BY <1>2, Invariance, PTL

\* A workspace with windows comes back to the monitor whose going away displaced
\* it, through any number of other monitors that went and came, and of deferred
\* calls that moved it meanwhile.
THEOREM WorkspacesReturn ==
    ASSUME EnoughIds
    PROVE  Spec => ReturnsHome
  <1>1. ASSUME Inv, [Next]_vars, NEW m \in Enabled(desk') \ Enabled(desk),
               NEW w \in Ws \ Range(Default), home[w] = m
        PROVE  desk'.owner[w] = m
    <2>1. /\ m \in Real /\ m # Fallback /\ m \notin Enabled(desk) /\ w \in desk.windows
          /\ desk.last[w] = m /\ Fine(desk, Range(desk.later)) /\ m \in Mons
      <3>1. /\ desk.owner \in [Ws -> Mons \cup {None}] /\ Enabled(desk') \subseteq Mons
        BY <1>1, NextInv, FineIsLoose DEF Inv, DeskInv, Desks
      <3>2. m # None
        BY <3>1, ConstantTypes
      <3>. QED BY <1>1, <3>2, ConstantTypes DEF Inv, DeskInv, Awaited
    <2>2. ~ Awaits(desk, desk')
      BY <1>1, <2>1 DEF Awaits
    <2>3. Outputs
      <3>1. ASSUME RunLater PROVE FALSE
        <4>1. Awaits(desk, desk')
          BY <2>1, <3>1, RunKeeps DEF RunLater
        <4>. QED BY <2>2, <4>1
      <3>2. ASSUME User PROVE FALSE
        BY <1>1, <2>2, <3>2, UserAwaits
      <3>3. ASSUME FirstFrame \/ LaunchTimeout \/ UNCHANGED vars PROVE FALSE
        BY <1>1, <2>1, <3>3
           DEF FirstFrame, LaunchTimeout, SetFallbackActive, vars, Enabled, Fine, Sound, Desks
      <3>. QED BY <1>1, <3>1, <3>2, <3>3 DEF Next
    <2>4. PICK n \in Real : PlugIn(n) \/ Unplug(n) \/ Disable(n) \/ Enable(n)
      BY <2>3 DEF Outputs
    <2>5. m = n /\ Connect(n)
      <3>1. CASE Unplug(n) \/ Disable(n)
        <4>1. PICK down : /\ down \in {OnDisconnect(desk, n), Forget(OnDisconnect(desk, n), n)}
                          /\ Disconnect(n, down)
          BY <3>1 DEF Unplug, Disable
        <4>2. Enabled(desk') = Enabled(desk) \ {n}
          BY <1>1, <4>1, DisconnectInv
        <4>. QED BY <1>1, <4>2
      <3>2. CASE PlugIn(n) \/ Enable(n)
        <4>1. Connect(n) /\ n \notin Enabled(desk)
          BY <1>1, <3>2, ConstantTypes DEF PlugIn, Enable, Inv
        <4>2. Enabled(desk') = Enabled(desk) \cup {n}
          BY <1>1, <4>1, ConnectInv
        <4>. QED BY <1>1, <4>1, <4>2
      <3>. QED BY <2>4, <3>1, <3>2
    <2>. DEFINE e == OnConnect(desk, m)
    <2>6. desk' = e
      BY <2>5 DEF Connect
    <2>. HIDE DEF e
    <2>7. Connected(desk, e, m)
      BY <2>1, FineIsLoose, ConnectKeeps DEF e
    <2>. QED BY <1>1, <2>1, <2>6, <2>7 DEF Connected, Tracked
  <1>2. Inv /\ [Next]_vars =>
          [\A m \in Enabled(desk') \ Enabled(desk), w \in Ws \ Range(Default) :
              home[w] = m => desk'.owner[w] = m]_vars
    BY <1>1
  <1>. QED BY <1>2, Invariance, PTL DEF Spec, ReturnsHome

=============================================================================
