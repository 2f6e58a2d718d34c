---------------------------- MODULE IndexerProofs ----------------------------
(***************************************************************************)
(* Proofs about the event index: what it stores between two batches is     *)
(* what the branch of its checkpoint holds, and its derived tables are     *)
(* what a replay of the stored events gives.                               *)
(*                                                                         *)
(* The first half is about the operators of Indexer: the order of events   *)
(* and the folds over it (a fold that takes the last event last, shown by  *)
(* the well-foundedness of strict inclusion on the subsets of a finite     *)
(* set), branches and their prefixes, the events of a branch, and what     *)
(* sorting, and replaying the capacity and the settlement records, give.   *)
(* The second half is the inductive invariant IndexerInv and its steps.    *)
(***************************************************************************)
EXTENDS Indexer, FiniteSetTheorems, SequenceTheorems, TLAPS

----------------------------------------------------------------------------
(* The order in which events are taken up.                                 *)

\* Finitely many events, each of which has a place.
Dated(S) ==
    IsFiniteSet(S) /\ \A e \in S : Len(e.block) \in Nat /\ e.index \in Nat

\* Earlier is a strict order.
LEMMA EarlierIsAnOrder ==
    ASSUME NEW S, Dated(S), NEW a \in S, NEW b \in S, NEW c \in S
    PROVE  /\ ~Earlier(a, a)
           /\ Earlier(a, b) => ~Earlier(b, a)
           /\ Earlier(a, b) /\ Earlier(b, c) => Earlier(a, c)
<1>1. /\ Len(a.block) \in Nat /\ Len(b.block) \in Nat /\ Len(c.block) \in Nat
      /\ a.index \in Nat /\ b.index \in Nat /\ c.index \in Nat
  BY DEF Dated
<1> QED BY <1>1 DEF Earlier

\* Among subsets of a finite set one has no other of them inside it.
LEMMA LeastSubset ==
    ASSUME NEW S, IsFiniteSet(S), NEW B, B \subseteq SUBSET S, B # {}
    PROVE  \E T \in B : \A U \in B : U \subseteq T => U = T
<1> DEFINE R == StrictSubsetOrdering(S)
<1>1. IsWellFoundedOn(R, FiniteSubsetsOf(S)) /\ FiniteSubsetsOf(S) = SUBSET S
  BY FS_StrictSubsetOrderingWellFounded, FS_FiniteSubsetsOfFinite, Zenon
<1>2. IsWellFoundedOn(R, SUBSET S)
  BY <1>1, Zenon
<1> HIDE DEF R
<1>3. PICK T \in B : \A U \in B : ~(<<U, T>> \in R)
  BY <1>2, WFMin, Zenon
<1>4. ASSUME NEW U \in B, U \subseteq T, U # T PROVE <<U, T>> \in R
  <2>1. <<U, T>> \in (SUBSET S) \X (SUBSET S)
    OBVIOUS
  <2>2. <<U, T>>[1] = U /\ <<U, T>>[2] = T
    OBVIOUS
  <2> QED BY <1>4, <2>1, <2>2 DEF R, StrictSubsetOrdering
<1>5. \A U \in B : U \subseteq T => U = T
  BY <1>3, <1>4
<1> QED BY <1>5

\* What is left of the events without the last one.
Older(s) == s \ {Newest(s)}

\* No event is left that a set of events has a last one for.
LEMMA SomeNewest ==
    ASSUME NEW S, Dated(S), S # {}
    PROVE  \E e \in S : \A other \in S : ~Earlier(e, other)
<1> DEFINE B == {s \in SUBSET S : s # {} /\ ~ \E e \in s : \A other \in s : ~Earlier(e, other)}
<1>1. ASSUME NEW s \in B, \A U \in B : U \subseteq s => U = s PROVE FALSE
  <2>1. PICK x \in s : TRUE
    OBVIOUS
  <2> DEFINE r == s \ {x}
  <2>2. r \in SUBSET S /\ r # s /\ r \subseteq s /\ x \in S
    BY <2>1
  <2>3. r \notin B
    BY <1>1, <2>2
  <2>4. CASE r = {}
    <3>1. s = {x}
      BY <2>1, <2>4
    <3>2. ~Earlier(x, x)
      BY <2>2, EarlierIsAnOrder
    <3> QED BY <3>1, <3>2
  <2>5. CASE r # {}
    <3>1. PICK y \in r : \A other \in r : ~Earlier(y, other)
      BY <2>2, <2>3, <2>5
    <3>2. y \in S /\ y \in s /\ x \in s
      BY <2>1
    <3>3. CASE ~Earlier(y, x)
      <4>1. \A other \in s : ~Earlier(y, other)
        BY <3>1, <3>3
      <4> QED BY <3>2, <4>1
    <3>4. CASE Earlier(y, x)
      <4>1. ASSUME NEW other \in s PROVE ~Earlier(x, other)
        <5>1. other \in S /\ x \in S
          BY <2>2
        <5>2. Earlier(x, other) => Earlier(y, other)
          BY <3>2, <3>4, <5>1, EarlierIsAnOrder
        <5>3. other = x \/ other \in r
          OBVIOUS
        <5> QED BY <3>1, <5>1, <5>2, <5>3, EarlierIsAnOrder
      <4> QED BY <3>2, <4>1
    <3> QED BY <3>3, <3>4
  <2> QED BY <2>4, <2>5
<1>2. B = {}
  <2> SUFFICES ASSUME B # {} PROVE FALSE
    OBVIOUS
  <2>1. B \subseteq SUBSET S
    OBVIOUS
  <2> HIDE DEF B
  <2>2. PICK s \in B : \A U \in B : U \subseteq s => U = s
    BY <2>1, LeastSubset DEF Dated
  <2> QED BY <1>1, <2>2
<1> QED BY <1>2

\* A part of the events is dated as they are.
LEMMA PartDated ==
    ASSUME NEW S, Dated(S), NEW T \in SUBSET S
    PROVE  Dated(T)
BY FS_Subset DEF Dated

\* The last of the events is one of them, and without it there are fewer.
LEMMA NewestIn ==
    ASSUME NEW S, Dated(S), NEW s \in SUBSET S, s # {}
    PROVE  /\ Newest(s) \in s /\ \A other \in s : ~Earlier(Newest(s), other)
           /\ Older(s) \in SUBSET S /\ Older(s) # s /\ Older(s) \subseteq s
<1>1. \E e \in s : \A other \in s : ~Earlier(e, other)
  BY PartDated, SomeNewest
<1>2. Newest(s) \in s /\ \A other \in s : ~Earlier(Newest(s), other)
  BY <1>1 DEF Newest
<1> QED BY <1>2 DEF Older

\* An event that all the others are earlier than is the last.
LEMMA NewestOfMore ==
    ASSUME NEW S, NEW e, Dated(S \union {e}), \A f \in S : Earlier(f, e)
    PROVE  Newest(S \union {e}) = e /\ Older(S \union {e}) = S
<1> DEFINE T == S \union {e}
           x == Newest(T)
<1>1. x \in T /\ \A other \in T : ~Earlier(x, other)
  BY NewestIn
<1>2. x = e
  BY <1>1
<1>3. e \notin S
  BY EarlierIsAnOrder
<1> QED BY <1>2, <1>3 DEF Older

----------------------------------------------------------------------------
(* Folds over events.                                                      *)
(*                                                                         *)
(* What FoldInOrder returns is shown without induction over sets: of the   *)
(* subsets for which a statement fails one is least, and it holds there.   *)

\* The steps of the folds of the module: of the sequence of the events, of the capacity
\* consumed and of the settlement records.
Folded(kind, acc, e) ==
    CASE kind = "sorted"   -> Append(acc, e)
      [] kind = "epoch"    -> Projected(acc, e)
      [] kind = "live"     -> Settled(acc, e, FALSE)
      [] kind = "orphaned" -> Settled(acc, e, TRUE)

Kinds == {"sorted", "epoch", "live", "orphaned"}

\* f has the results for the subsets of T.
Results(f, kind, base, T) ==
    f = [s \in SUBSET T |-> IF s = {} THEN base
                            ELSE Folded(kind, f[Older(s)], Newest(s))]

\* The results for a set of events are determined,
LEMMA ResultsUnique ==
    ASSUME NEW kind, NEW base, NEW T, Dated(T), NEW f, NEW g,
           Results(f, kind, base, T), Results(g, kind, base, T)
    PROVE  f = g
<1> DEFINE B == {s \in SUBSET T : f[s] # g[s]}
<1>1. f = [s \in SUBSET T |-> f[s]] /\ g = [s \in SUBSET T |-> g[s]]
  BY DEF Results
<1>2. ASSUME NEW s \in B, \A U \in B : U \subseteq s => U = s PROVE FALSE
  <2>1. /\ f[s] = IF s = {} THEN base ELSE Folded(kind, f[Older(s)], Newest(s))
        /\ g[s] = IF s = {} THEN base ELSE Folded(kind, g[Older(s)], Newest(s))
    BY DEF Results
  <2>2. s # {}
    BY <2>1
  <2>3. Older(s) \in SUBSET T /\ Older(s) # s /\ Older(s) \subseteq s
    BY <2>2, NewestIn
  <2>4. Older(s) \notin B
    BY <1>2, <2>3
  <2>5. f[Older(s)] = g[Older(s)]
    BY <2>3, <2>4
  <2> QED BY <2>1, <2>5
<1>3. B = {}
  <2> SUFFICES ASSUME B # {} PROVE FALSE
    OBVIOUS
  <2>1. B \subseteq SUBSET T
    OBVIOUS
  <2> HIDE DEF B
  <2>2. PICK s \in B : \A U \in B : U \subseteq s => U = s
    BY <2>1, LeastSubset DEF Dated
  <2> QED BY <1>2, <2>2
<1> QED BY <1>1, <1>3

\* those of a part of it are among those of the whole,
LEMMA ResultsRestrict ==
    ASSUME NEW kind, NEW base, NEW T, Dated(T), NEW f, Results(f, kind, base, T),
           NEW U \in SUBSET T
    PROVE  Results([s \in SUBSET U |-> f[s]], kind, base, U)
<1> DEFINE g == [s \in SUBSET U |-> f[s]]
<1>1. ASSUME NEW s \in SUBSET U
      PROVE  g[s] = IF s = {} THEN base ELSE Folded(kind, g[Older(s)], Newest(s))
  <2>1. s \in SUBSET T
    OBVIOUS
  <2>2. f[s] = IF s = {} THEN base ELSE Folded(kind, f[Older(s)], Newest(s))
    BY <2>1 DEF Results
  <2>3. s # {} => Older(s) \in SUBSET U
    BY DEF Older
  <2> QED BY <2>2, <2>3
<1> QED BY <1>1 DEF Results

\* and there are such results.
LEMMA ResultsExist ==
    ASSUME NEW kind, NEW base, NEW S, Dated(S)
    PROVE  \E f : Results(f, kind, base, S)
<1> DEFINE B == {T \in SUBSET S : ~ \E f : Results(f, kind, base, T)}
           Of(T) == CHOOSE f : Results(f, kind, base, T)
<1>1. ASSUME NEW T \in B, \A U \in B : U \subseteq T => U = T PROVE FALSE
  <2> DEFINE F == [s \in SUBSET T |-> IF s = {} THEN base
                                      ELSE Folded(kind, Of(Older(s))[Older(s)], Newest(s))]
  <2>1. T \in SUBSET S /\ Dated(T)
    BY PartDated
  <2>2. ASSUME NEW U \in SUBSET T, U # T
        PROVE  Results(Of(U), kind, base, U) /\ Dated(U)
    <3>1. U \in SUBSET S /\ U \notin B
      BY <1>1, <2>1, <2>2
    <3>2. \E f : Results(f, kind, base, U)
      BY <3>1
    <3> QED BY <2>1, <3>2, PartDated
  <2> HIDE DEF Of
  <2>3. ASSUME NEW U \in SUBSET T, U # T PROVE F[U] = Of(U)[U]
    <3>1. Results(Of(U), kind, base, U) /\ Dated(U)
      BY <2>2, <2>3
    <3>2. CASE U = {}
      <4>1. Of(U)[U] = base
        BY <3>1, <3>2 DEF Results
      <4> QED BY <3>2, <4>1
    <3>3. CASE U # {}
      <4> DEFINE W == Older(U)
                 r == [s \in SUBSET W |-> Of(U)[s]]
      <4>1. W \in SUBSET U /\ W \in SUBSET T /\ W # T
        BY <2>1, <2>3, <3>3, NewestIn
      <4>2. Results(Of(W), kind, base, W) /\ Dated(W)
        BY <2>2, <4>1
      <4> HIDE DEF W
      <4>3. Results(r, kind, base, W)
        BY <3>1, <4>1, ResultsRestrict
      <4> HIDE DEF r
      <4>4. r = Of(W)
        BY <4>2, <4>3, ResultsUnique
      <4>5. Of(U)[W] = Of(W)[W]
        BY <4>4 DEF r
      <4>6. Of(U)[U] = Folded(kind, Of(U)[W], Newest(U))
        BY <3>1, <3>3 DEF Results, W
      <4>7. F[U] = Folded(kind, Of(W)[W], Newest(U))
        BY <3>3 DEF W
      <4> QED BY <4>5, <4>6, <4>7
    <3> QED BY <3>2, <3>3
  <2>4. ASSUME NEW s \in SUBSET T
        PROVE  F[s] = IF s = {} THEN base ELSE Folded(kind, F[Older(s)], Newest(s))
    <3>1. CASE s = {}
      BY <3>1
    <3>2. CASE s # {}
      <4>1. Older(s) \in SUBSET T /\ Older(s) # T
        BY <2>1, <3>2, NewestIn
      <4>2. F[Older(s)] = Of(Older(s))[Older(s)]
        BY <2>3, <4>1
      <4>3. F[s] = Folded(kind, Of(Older(s))[Older(s)], Newest(s))
        BY <3>2
      <4> HIDE DEF F
      <4> QED BY <3>2, <4>2, <4>3
    <3> QED BY <3>1, <3>2
  <2>5. F = [s \in SUBSET T |-> F[s]]
    OBVIOUS
  <2> HIDE DEF F
  <2>6. Results(F, kind, base, T)
    BY <2>4, <2>5 DEF Results
  <2> QED BY <2>6
<1>2. B = {}
  <2> SUFFICES ASSUME B # {} PROVE FALSE
    OBVIOUS
  <2>1. B \subseteq SUBSET S
    OBVIOUS
  <2> HIDE DEF B
  <2>2. PICK T \in B : \A U \in B : U \subseteq T => U = T
    BY <2>1, LeastSubset DEF Dated
  <2> QED BY <1>1, <2>2
<1> QED BY <1>2

\* The fold of one kind over a set of events.
Fold(kind, base, S) == (CHOOSE f : Results(f, kind, base, S))[S]

\* A fold takes the last event last.
LEMMA FoldStep ==
    ASSUME NEW kind, NEW base, NEW S, Dated(S)
    PROVE  /\ S = {} => Fold(kind, base, S) = base
           /\ S # {} => Fold(kind, base, S)
                          = Folded(kind, Fold(kind, base, Older(S)), Newest(S))
<1> DEFINE f == CHOOSE f : Results(f, kind, base, S)
           W == Older(S)
           g == CHOOSE g : Results(g, kind, base, W)
           r == [s \in SUBSET W |-> f[s]]
<1>1. Results(f, kind, base, S)
  BY ResultsExist
<1>2. Fold(kind, base, S) = f[S]
  BY DEF Fold
<1>3. Fold(kind, base, W) = g[W]
  BY DEF Fold
<1> HIDE DEF f
<1>4. S = {} => f[S] = base
  BY <1>1 DEF Results
<1>5. ASSUME S # {} PROVE f[S] = Folded(kind, g[W], Newest(S))
  <2>1. W \in SUBSET S /\ Dated(W)
    BY <1>5, NewestIn, PartDated
  <2>2. Results(g, kind, base, W)
    BY <2>1, ResultsExist
  <2> HIDE DEF g
  <2>3. f[S] = Folded(kind, f[W], Newest(S))
    BY <1>1, <1>5 DEF Results
  <2>4. Results(r, kind, base, W)
    BY <1>1, <2>1, ResultsRestrict
  <2> HIDE DEF W
  <2>5. r[W] = f[W]
    OBVIOUS
  <2> HIDE DEF r
  <2>6. r = g
    BY <2>1, <2>2, <2>4, ResultsUnique
  <2> QED BY <2>3, <2>5, <2>6
<1> QED BY <1>2, <1>3, <1>4, <1>5

\* The event that comes after all the others is folded in last.
LEMMA FoldMore ==
    ASSUME NEW kind, NEW base, NEW S, NEW e, Dated(S \union {e}),
           \A f \in S : Earlier(f, e)
    PROVE  Fold(kind, base, S \union {e}) = Folded(kind, Fold(kind, base, S), e)
<1>1. Newest(S \union {e}) = e /\ Older(S \union {e}) = S
  BY NewestOfMore
<1> QED BY <1>1, FoldStep

\* The three replays and the sorting are such folds.
LEMMA SortIsFold ==
    ASSUME NEW S, Dated(S)
    PROVE  InOrder(S) = Fold("sorted", <<>>, S)
<1> DEFINE f == CHOOSE f : Results(f, "sorted", <<>>, S)
           R(h) == h = [s \in SUBSET S |-> IF s = {} THEN <<>>
                                           ELSE Append(h[s \ {Newest(s)}], Newest(s))]
           g == CHOOSE h : R(h)
<1>1. InOrder(S) = g[S]
  BY DEF InOrder, FoldInOrder, MapThenFoldSet
<1>2. ASSUME NEW h PROVE R(h) <=> Results(h, "sorted", <<>>, S)
  BY DEF Results, Folded, Older
<1>3. Results(f, "sorted", <<>>, S)
  BY ResultsExist
<1>4. Fold("sorted", <<>>, S) = f[S]
  BY DEF Fold
<1> HIDE DEF f, R
<1>5. R(g)
  BY <1>2, <1>3
<1> HIDE DEF g
<1>6. f = g
  BY <1>2, <1>3, <1>5, ResultsUnique
<1> QED BY <1>1, <1>4, <1>6

LEMMA EpochIsFold ==
    ASSUME NEW S, Dated(S)
    PROVE  ReplayedEpoch(S) = Fold("epoch", None, S)
<1> DEFINE f == CHOOSE f : Results(f, "epoch", None, S)
           R(h) == h = [s \in SUBSET S |-> IF s = {} THEN None
                                           ELSE Projected(h[s \ {Newest(s)}], Newest(s))]
           g == CHOOSE h : R(h)
<1>1. ReplayedEpoch(S) = g[S]
  BY DEF ReplayedEpoch, FoldInOrder, MapThenFoldSet
<1>2. ASSUME NEW h PROVE R(h) <=> Results(h, "epoch", None, S)
  BY DEF Results, Folded, Older
<1>3. Results(f, "epoch", None, S)
  BY ResultsExist
<1>4. Fold("epoch", None, S) = f[S]
  BY DEF Fold
<1> HIDE DEF f, R
<1>5. R(g)
  BY <1>2, <1>3
<1> HIDE DEF g
<1>6. f = g
  BY <1>2, <1>3, <1>5, ResultsUnique
<1> QED BY <1>1, <1>4, <1>6

LEMMA SettlementsAreFold ==
    ASSUME NEW S, Dated(S), NEW records, NEW orphaned \in BOOLEAN
    PROVE  ReplayedSettlements(records, S, orphaned)
             = Fold(IF orphaned THEN "orphaned" ELSE "live", records, S)
<1> DEFINE k == IF orphaned THEN "orphaned" ELSE "live"
           f == CHOOSE f : Results(f, k, records, S)
           R(h) == h = [s \in SUBSET S |-> IF s = {} THEN records
                                           ELSE Settled(h[s \ {Newest(s)}], Newest(s), orphaned)]
           g == CHOOSE h : R(h)
<1>1. ReplayedSettlements(records, S, orphaned) = g[S]
  BY DEF ReplayedSettlements, FoldInOrder, MapThenFoldSet
<1>2. ASSUME NEW h PROVE R(h) <=> Results(h, k, records, S)
  <2>1. CASE orphaned = TRUE
    BY <2>1 DEF Results, Folded, Older
  <2>2. CASE orphaned = FALSE
    BY <2>2 DEF Results, Folded, Older
  <2> QED BY <2>1, <2>2
<1> HIDE DEF k
<1>3. Results(f, k, records, S)
  BY ResultsExist
<1>4. Fold(k, records, S) = f[S]
  BY DEF Fold
<1> HIDE DEF f, R
<1>5. R(g)
  BY <1>2, <1>3
<1> HIDE DEF g
<1>6. f = g
  BY <1>2, <1>3, <1>5, ResultsUnique
<1> QED BY <1>1, <1>4, <1>6 DEF k

----------------------------------------------------------------------------
(* Branches.                                                               *)

Branches == Seq(Blocks)

\* No transaction is in a branch twice.
Once(b) == \A i, j \in DOMAIN b : b[i].tx = b[j].tx /\ b[i].tx # None => i = j

\* A prefix is what the branch has up to its length.
LEMMA PrefixIs ==
    ASSUME NEW s \in Branches, NEW t \in Branches
    PROVE  IsPrefix(s, t) <=> Len(s) <= Len(t) /\ \A i \in 1 .. Len(s) : s[i] = t[i]
<1>1. Len(s) \in Nat /\ Len(t) \in Nat /\ DOMAIN s = 1 .. Len(s) /\ DOMAIN t = 1 .. Len(t)
  BY DEF Branches
<1>2. SubSeq(s, 1, Len(s)) = [i \in 1 .. Len(s) |-> s[i]]
  BY DEF Branches
<1>3. ASSUME Len(s) <= Len(t)
      PROVE  SubSeq(t, 1, Len(s)) = [i \in 1 .. Len(s) |-> t[i]]
  BY <1>1, <1>3 DEF Branches
<1> QED BY <1>1, <1>2, <1>3 DEF IsPrefix

LEMMA SameBranch ==
    ASSUME NEW s \in Branches, NEW t \in Branches, Len(s) = Len(t),
           \A i \in 1 .. Len(s) : s[i] = t[i]
    PROVE  s = t
BY SeqEqual DEF Branches

\* Prefixes of one branch are prefixes of each other.
LEMMA CommonBranch ==
    ASSUME NEW a \in Branches, NEW b \in Branches, NEW c \in Branches, IsPrefix(b, c)
    PROVE  /\ IsPrefix(a, b) => IsPrefix(a, c)
           /\ IsPrefix(a, c) /\ Len(a) <= Len(b) => IsPrefix(a, b)
           /\ IsPrefix(a, c) /\ Len(a) = Len(b) => a = b
<1>1. /\ Len(a) \in Nat /\ Len(b) \in Nat /\ Len(c) \in Nat
      /\ Len(b) <= Len(c) /\ \A i \in 1 .. Len(b) : b[i] = c[i]
  BY PrefixIs DEF Branches
<1>2. IsPrefix(a, b) <=> Len(a) <= Len(b) /\ \A i \in 1 .. Len(a) : a[i] = b[i]
  BY PrefixIs
<1>3. IsPrefix(a, c) <=> Len(a) <= Len(c) /\ \A i \in 1 .. Len(a) : a[i] = c[i]
  BY PrefixIs
<1>4. IsPrefix(a, c) /\ Len(a) = Len(b) => a = b
  BY <1>1, <1>3, SameBranch
<1>5. IsPrefix(a, b) => IsPrefix(a, c)
  BY <1>1, <1>2, <1>3
<1>6. IsPrefix(a, c) /\ Len(a) <= Len(b) => IsPrefix(a, b)
  BY <1>1, <1>2, <1>3
<1> QED BY <1>4, <1>5, <1>6

\* A branch is a prefix of itself, and the empty branch of every one.
LEMMA PrefixOfAny ==
    ASSUME NEW c \in Branches
    PROVE  <<>> \in Branches /\ IsPrefix(c, c) /\ IsPrefix(<<>>, c)
<1>1. <<>> \in Branches /\ Len(<<>>) = 0 /\ Len(c) \in Nat
  BY DEF Branches
<1> QED BY <1>1, PrefixIs

LEMMA PrefixOnce ==
    ASSUME NEW b \in Branches, NEW c \in Branches, IsPrefix(b, c), Once(c)
    PROVE  Once(b)
<1>1. /\ Len(b) \in Nat /\ Len(c) \in Nat
      /\ DOMAIN b = 1 .. Len(b) /\ DOMAIN c = 1 .. Len(c)
      /\ Len(b) <= Len(c) /\ \A i \in 1 .. Len(b) : b[i] = c[i]
  BY PrefixIs DEF Branches
<1> QED BY <1>1 DEF Once

\* A branch up to some block.
LEMMA Cut ==
    ASSUME NEW c \in Branches, NEW n \in 0 .. Len(c)
    PROVE  /\ SubSeq(c, 1, n) \in Branches /\ Len(SubSeq(c, 1, n)) = n
           /\ IsPrefix(SubSeq(c, 1, n), c)
<1>1. /\ SubSeq(c, 1, n) \in Branches /\ Len(SubSeq(c, 1, n)) = n
      /\ \A i \in 1 .. n : SubSeq(c, 1, n)[i] = c[i]
  BY DEF Branches
<1>2. Len(c) \in Nat /\ n <= Len(c)
  BY DEF Branches
<1> QED BY <1>1, <1>2, PrefixIs

LEMMA PrefixIsCut ==
    ASSUME NEW b \in Branches, NEW c \in Branches, IsPrefix(b, c)
    PROVE  Len(b) \in 0 .. Len(c) /\ b = SubSeq(c, 1, Len(b))
<1>1. Len(b) \in 0 .. Len(c)
  BY PrefixIs DEF Branches
<1>2. /\ SubSeq(c, 1, Len(b)) \in Branches /\ Len(SubSeq(c, 1, Len(b))) = Len(b)
      /\ IsPrefix(SubSeq(c, 1, Len(b)), c)
  BY <1>1, Cut
<1>3. SubSeq(c, 1, Len(b)) = b
  BY <1>2, CommonBranch
<1> QED BY <1>1, <1>3

\* What an appended block leaves of it.
LEMMA Grown ==
    ASSUME NEW c \in Branches, NEW x \in Blocks
    PROVE  /\ Append(c, x) \in Branches /\ Len(Append(c, x)) = Len(c) + 1
           /\ IsPrefix(c, Append(c, x))
           /\ Once(c) /\ (x.tx # None => \A i \in DOMAIN c : c[i].tx # x.tx)
                => Once(Append(c, x))
<1> DEFINE d == Append(c, x)
<1>1. /\ Len(c) \in Nat /\ d \in Branches /\ Len(d) = Len(c) + 1
      /\ \A i \in 1 .. Len(c) : d[i] = c[i]
      /\ d[Len(c) + 1] = x
      /\ DOMAIN c = 1 .. Len(c) /\ DOMAIN d = 1 .. Len(c) + 1
  BY DEF Branches
<1> HIDE DEF d
<1>2. IsPrefix(c, d)
  BY <1>1, PrefixIs
<1>3. ASSUME Once(c), x.tx # None => \A i \in DOMAIN c : c[i].tx # x.tx PROVE Once(d)
  <2> SUFFICES ASSUME NEW i \in DOMAIN d, NEW j \in DOMAIN d,
                      d[i].tx = d[j].tx, d[i].tx # None
               PROVE  i = j
    BY DEF Once
  <2>1. CASE i \in 1 .. Len(c) /\ j \in 1 .. Len(c)
    BY <1>1, <1>3, <2>1 DEF Once
  <2>2. CASE i = Len(c) + 1 /\ j \in 1 .. Len(c)
    BY <1>1, <1>3, <2>2
  <2>3. CASE i \in 1 .. Len(c) /\ j = Len(c) + 1
    BY <1>1, <1>3, <2>3
  <2>4. CASE i = Len(c) + 1 /\ j = Len(c) + 1
    BY <2>4
  <2> QED BY <1>1, <2>1, <2>2, <2>3, <2>4
<1> QED BY <1>1, <1>2, <1>3 DEF d

----------------------------------------------------------------------------
(* The events of a branch.                                                 *)

EventNames == {"CapacityEpochActivated", "FeesRouted", "TradeExecuted"}

EventRecords == [tx : Transactions, index : {0, 1}, name : EventNames,
                 block : Branches, consumed : Nat]

\* An event a block may have.
IsEvent(e) == e.block \in Branches /\ e.block # <<>> /\ e \in LogsAt(e.block)

LEMMA ConsumedIsNat ==
    ASSUME NEW b \in Branches
    PROVE  ConsumedAfter(b) \in Nat
<1> DEFINE S == {n \in DOMAIN b : b[n].tx \in Trades}
<1>1. S \in SUBSET (1 .. Len(b)) /\ Len(b) \in Nat
  BY DEF Branches
<1>2. IsFiniteSet(1 .. Len(b))
  BY <1>1, FS_Interval
<1>3. Cardinality(S) \in Nat
  BY <1>1, <1>2, FS_Subset, FS_CardinalityType
<1> QED BY <1>3 DEF ConsumedAfter

\* What the events of one block look like.
LEMMA EventsOfBlock ==
    ASSUME NEW b \in Branches, b # <<>>, NEW e \in LogsAt(b)
    PROVE  /\ e \in EventRecords /\ e.block = b /\ e = Event(b, e.index, e.name)
           /\ Len(b) \in Nat \ {0} /\ e.tx = b[Len(b)].tx /\ Len(b) \in DOMAIN b
           /\ \/ e.tx = Activation /\ e.index = 0 /\ e.name = "CapacityEpochActivated"
              \/ e.tx \in Trades /\ e.index = 0 /\ e.name = "FeesRouted"
              \/ e.tx \in Trades /\ e.index = 1 /\ e.name = "TradeExecuted"
<1>1. Len(b) \in Nat \ {0} /\ Len(b) \in DOMAIN b /\ b[Len(b)] \in Blocks
  BY DEF Branches
<1>2. ConsumedAfter(b) \in Nat
  BY ConsumedIsNat
<1>3. Activation \notin Trades /\ Last(b) = b[Len(b)]
  BY IndexerAssumption DEF Last
<1>4. CASE Last(b).tx = Activation
  <2>1. e = Event(b, 0, "CapacityEpochActivated")
    <3>1. LogsAt(b) = {Event(b, 0, "CapacityEpochActivated")}
      BY <1>3, <1>4 DEF LogsAt
    <3> QED BY <3>1
  <2> QED BY <1>1, <1>2, <1>3, <1>4, <2>1
          DEF Event, EventRecords, EventNames, Transactions
<1>5. CASE Last(b).tx \in Trades
  <2>1. e = Event(b, 0, "FeesRouted") \/ e = Event(b, 1, "TradeExecuted")
    BY <1>3, <1>5 DEF LogsAt
  <2> QED BY <1>1, <1>2, <1>3, <1>5, <2>1
          DEF Event, EventRecords, EventNames, Transactions
<1>6. CASE Last(b).tx # Activation /\ Last(b).tx \notin Trades
  BY <1>6 DEF LogsAt
<1> QED BY <1>4, <1>5, <1>6

LEMMA EventFacts ==
    ASSUME NEW e, IsEvent(e)
    PROVE  /\ e \in EventRecords /\ e.block \in Branches
           /\ e = Event(e.block, e.index, e.name)
           /\ Len(e.block) \in Nat \ {0} /\ e.tx = e.block[Len(e.block)].tx
           /\ Len(e.block) \in DOMAIN e.block
           /\ e.index \in Nat
           /\ \/ e.tx = Activation /\ e.index = 0 /\ e.name = "CapacityEpochActivated"
              \/ e.tx \in Trades /\ e.index = 0 /\ e.name = "FeesRouted"
              \/ e.tx \in Trades /\ e.index = 1 /\ e.name = "TradeExecuted"
BY EventsOfBlock DEF IsEvent, EventRecords

\* Finitely many events can be put in order.
LEMMA EventsDated ==
    ASSUME NEW S, IsFiniteSet(S), \A e \in S : IsEvent(e)
    PROVE  Dated(S)
BY EventFacts DEF Dated

\* The events of blocks from .. to of a branch.
LEMMA InLogs ==
    ASSUME NEW c \in Branches, NEW from \in Nat \ {0}, NEW to \in Int, NEW e
    PROVE  e \in Logs(c, from, to) <=>
             /\ IsEvent(e) /\ IsPrefix(e.block, c)
             /\ from <= Len(e.block) /\ Len(e.block) <= to
<1> DEFINE top == IF to < Len(c) THEN to ELSE Len(c)
<1>1. Len(c) \in Nat /\ top \in Int
  BY DEF Branches
<1>2. e \in Logs(c, from, to) <=> \E n \in from .. top : e \in LogsAt(SubSeq(c, 1, n))
  BY DEF Logs
<1>3. ASSUME NEW n \in from .. top, e \in LogsAt(SubSeq(c, 1, n))
      PROVE  /\ IsEvent(e) /\ IsPrefix(e.block, c)
             /\ from <= Len(e.block) /\ Len(e.block) <= to
  <2>1. n \in 0 .. Len(c) /\ n > 0
    BY <1>1
  <2> DEFINE b == SubSeq(c, 1, n)
  <2>2. b \in Branches /\ Len(b) = n /\ IsPrefix(b, c)
    BY <2>1, Cut
  <2> HIDE DEF b
  <2>3. b # <<>>
    BY <2>1, <2>2
  <2>4. e \in LogsAt(b)
    BY <1>3 DEF b
  <2>5. e.block = b
    BY <2>2, <2>3, <2>4, EventsOfBlock
  <2> QED BY <1>1, <2>2, <2>3, <2>4, <2>5 DEF IsEvent
<1>4. ASSUME IsEvent(e), IsPrefix(e.block, c), from <= Len(e.block), Len(e.block) <= to
      PROVE  \E n \in from .. top : e \in LogsAt(SubSeq(c, 1, n))
  <2>1. e.block \in Branches /\ e \in LogsAt(e.block)
    BY <1>4 DEF IsEvent
  <2>2. Len(e.block) \in 0 .. Len(c) /\ e.block = SubSeq(c, 1, Len(e.block))
    BY <1>4, <2>1, PrefixIsCut
  <2>3. Len(e.block) \in from .. top
    BY <1>1, <1>4, <2>2
  <2> QED BY <2>1, <2>2, <2>3
<1> QED BY <1>2, <1>3, <1>4

LEMMA InEventsOf ==
    ASSUME NEW c \in Branches, NEW e
    PROVE  e \in EventsOf(c) <=> IsEvent(e) /\ IsPrefix(e.block, c)
<1>1. Len(c) \in Nat
  BY DEF Branches
<1>2. e \in EventsOf(c) <=> /\ IsEvent(e) /\ IsPrefix(e.block, c)
                            /\ 1 <= Len(e.block) /\ Len(e.block) <= Len(c)
  BY <1>1, InLogs DEF EventsOf
<1>3. IsEvent(e) /\ IsPrefix(e.block, c) => 1 <= Len(e.block) /\ Len(e.block) <= Len(c)
  BY <1>1, EventFacts, PrefixIsCut
<1> QED BY <1>2, <1>3

\* Two events of a branch have different places in it, and one transaction has two only
\* when they are the two of a trade.
LEMMA EventsOfBranch ==
    ASSUME NEW c \in Branches, NEW e \in EventsOf(c), NEW f \in EventsOf(c)
    PROVE  /\ e # f => Earlier(e, f) \/ Earlier(f, e)
           /\ Once(c) /\ e.tx = f.tx => e.block = f.block
           /\ Once(c) /\ e.tx = f.tx /\ e.index = f.index => e = f
           /\ Once(c) /\ e.tx = f.tx /\ e.name = f.name => e = f
<1>1. IsEvent(e) /\ IsPrefix(e.block, c) /\ IsEvent(f) /\ IsPrefix(f.block, c)
  BY InEventsOf
<1>2. /\ e.block \in Branches /\ Len(e.block) \in Nat \ {0} /\ e.index \in {0, 1}
      /\ f.block \in Branches /\ Len(f.block) \in Nat \ {0} /\ f.index \in {0, 1}
      /\ e.tx = e.block[Len(e.block)].tx /\ f.tx = f.block[Len(f.block)].tx
      /\ Len(e.block) \in DOMAIN e.block /\ Len(f.block) \in DOMAIN f.block
  BY <1>1, EventFacts DEF EventRecords
<1>3. Len(e.block) = Len(f.block) => e.block = f.block
  BY <1>1, <1>2, CommonBranch
<1>4. e.block = f.block /\ (e.index = f.index \/ e.name = f.name) => e = f
  <2>1. /\ e = Event(e.block, e.index, e.name) /\ f = Event(f.block, f.index, f.name)
        /\ \/ e.tx = Activation /\ e.index = 0 /\ e.name = "CapacityEpochActivated"
           \/ e.tx \in Trades /\ e.index = 0 /\ e.name = "FeesRouted"
           \/ e.tx \in Trades /\ e.index = 1 /\ e.name = "TradeExecuted"
        /\ \/ f.tx = Activation /\ f.index = 0 /\ f.name = "CapacityEpochActivated"
           \/ f.tx \in Trades /\ f.index = 0 /\ f.name = "FeesRouted"
           \/ f.tx \in Trades /\ f.index = 1 /\ f.name = "TradeExecuted"
    BY <1>1, EventFacts
  <2>2. e.block = f.block => e.tx = f.tx
    BY <1>2
  <2>3. e.block = f.block /\ (e.index = f.index \/ e.name = f.name)
          => e.index = f.index /\ e.name = f.name
    BY <2>1, <2>2, IndexerAssumption
  <2> QED BY <2>1, <2>3
<1>5. e # f => Earlier(e, f) \/ Earlier(f, e)
  BY <1>2, <1>3, <1>4 DEF Earlier
<1>6. Once(c) /\ e.tx = f.tx => e.block = f.block
  <2>1. e.tx # None
    BY <1>1, EventFacts, IndexerAssumption
  <2>2. /\ e.tx = c[Len(e.block)].tx /\ Len(e.block) \in DOMAIN c
        /\ f.tx = c[Len(f.block)].tx /\ Len(f.block) \in DOMAIN c
    <3>1. DOMAIN c = 1 .. Len(c) /\ Len(c) \in Nat
      BY DEF Branches
    <3> QED BY <1>1, <1>2, <3>1, PrefixIs
  <2>3. Once(c) /\ e.tx = f.tx => Len(e.block) = Len(f.block)
    BY <2>1, <2>2 DEF Once
  <2> QED BY <1>3, <2>3
<1> QED BY <1>4, <1>5, <1>6

\* A branch has finitely many events, and none without blocks.
LEMMA EventsOfFinite ==
    ASSUME NEW c \in Branches
    PROVE  IsFiniteSet(EventsOf(c))
<1> DEFINE S == EventsOf(c)
           T == 0 .. 2 * Len(c) + 1
           g == [e \in S |-> 2 * Len(e.block) + e.index]
<1>1. Len(c) \in Nat /\ IsFiniteSet(T)
  <2>1. Len(c) \in Nat /\ 2 * Len(c) + 1 \in Int
    BY DEF Branches
  <2> QED BY <2>1, FS_Interval
<1>2. ASSUME NEW e \in S
      PROVE  /\ Len(e.block) \in Nat /\ Len(e.block) <= Len(c) /\ e.index \in {0, 1}
             /\ g[e] = 2 * Len(e.block) + e.index
  BY <1>1, InEventsOf, EventFacts, PrefixIsCut DEF EventRecords
<1>3. \A e \in S : g[e] \in T
  BY <1>1, <1>2
<1>4. ASSUME NEW e \in S, NEW f \in S, g[e] = g[f] PROVE e = f
  <2>1. Len(e.block) = Len(f.block) /\ e.index = f.index
    <3>1. 2 * Len(e.block) + e.index = 2 * Len(f.block) + f.index
      BY <1>2, <1>4
    <3> HIDE DEF S, T, g
    <3>2. /\ Len(e.block) \in Nat /\ e.index \in {0, 1}
          /\ Len(f.block) \in Nat /\ f.index \in {0, 1}
      BY <1>2
    <3> QED BY <3>1, <3>2
  <2>2. ~Earlier(e, f) /\ ~Earlier(f, e)
    BY <1>2, <2>1 DEF Earlier
  <2> QED BY <2>2, EventsOfBranch
<1>5. g \in [S -> T]
  BY <1>3
<1> HIDE DEF g, T
<1>6. g \in Injection(S, T)
  BY <1>4, <1>5 DEF Injection, IsInjective
<1> QED BY <1>1, <1>6, FS_Injection

----------------------------------------------------------------------------
(* What the folds give.                                                    *)

\* The events of a finite set: what every fold is over.
IsEvents(S) == IsFiniteSet(S) /\ \A e \in S : IsEvent(e)

LEMMA IsEventsDated ==
    ASSUME NEW S, IsEvents(S)
    PROVE  Dated(S)
BY EventsDated DEF IsEvents

LEMMA PartIsEvents ==
    ASSUME NEW S, IsEvents(S), NEW T \in SUBSET S
    PROVE  IsEvents(T)
BY FS_Subset DEF IsEvents

\* q lists the events of S, none after one that it is earlier than.
Lists(q, S) ==
    /\ q \in Seq(S)
    /\ \A e \in S : \E i \in 1 .. Len(q) : q[i] = e
    /\ \A i, j \in 1 .. Len(q) : i < j => q[i] # q[j] /\ ~Earlier(q[j], q[i])

LEMMA SortedEvents ==
    ASSUME NEW S, IsEvents(S)
    PROVE  Lists(InOrder(S), S)
<1> DEFINE L(T) == Fold("sorted", <<>>, T)
           B == {T \in SUBSET S : ~Lists(L(T), T)}
<1>1. Dated(S)
  BY IsEventsDated
<1>2. ASSUME NEW T \in B, \A U \in B : U \subseteq T => U = T PROVE FALSE
  <2>1. Dated(T) /\ T \in SUBSET S
    BY <1>1, PartDated
  <2>2. CASE T = {}
    <3>1. L(T) = <<>>
      BY <2>1, <2>2, FoldStep
    <3>2. Lists(<<>>, T)
      <4>1. <<>> \in Seq(T) /\ Len(<<>>) = 0 /\ 1 .. 0 = {}
        OBVIOUS
      <4> QED BY <2>2, <4>1 DEF Lists
    <3> HIDE DEF L
    <3> QED BY <3>1, <3>2
  <2>3. CASE T # {}
    <3> DEFINE e == Newest(T)
               W == Older(T)
               p == L(W)
    <3>1. /\ e \in T /\ (\A other \in T : ~Earlier(e, other))
          /\ W \in SUBSET S /\ W # T /\ W \subseteq T
      BY <2>1, <2>3, NewestIn
    <3>2. T = W \union {e} /\ e \notin W
      BY <3>1 DEF Older
    <3>3. L(T) = Append(p, e)
      <4>1. L(T) = Folded("sorted", p, e)
        BY <2>1, <2>3, FoldStep
      <4> HIDE DEF p, e, L
      <4>2. Folded("sorted", p, e) = Append(p, e)
        BY DEF Folded
      <4> QED BY <4>1, <4>2
    <3>4. Lists(p, W)
      BY <1>2, <3>1
    <3> HIDE DEF e, W, L, p
    <3>5. p \in Seq(W) /\ p \in Seq(T)
      BY <3>1, <3>4, SeqMonotonic DEF Lists
    <3> DEFINE q == Append(p, e)
    <3>6. /\ Len(p) \in Nat /\ Len(q) = Len(p) + 1 /\ q \in Seq(T)
          /\ (\A i \in 1 .. Len(p) : q[i] = p[i]) /\ q[Len(p) + 1] = e
      BY <3>1, <3>5
    <3>7. \A i \in 1 .. Len(p) : p[i] \in W
      BY <3>5
    <3> HIDE DEF q
    <3>8. \A f \in T : \E i \in 1 .. Len(q) : q[i] = f
      <4>1. ASSUME NEW f \in W PROVE \E i \in 1 .. Len(q) : q[i] = f
        <5>1. PICK i \in 1 .. Len(p) : p[i] = f
          BY <3>4 DEF Lists
        <5> QED BY <3>6, <5>1
      <4>2. \E i \in 1 .. Len(q) : q[i] = e
        BY <3>6
      <4> QED BY <3>2, <4>1, <4>2
    <3>9. ASSUME NEW i \in 1 .. Len(q), NEW j \in 1 .. Len(q), i < j
          PROVE  q[i] # q[j] /\ ~Earlier(q[j], q[i])
      <4>1. i \in 1 .. Len(p) /\ q[i] = p[i] /\ q[i] \in W
        BY <3>6, <3>7, <3>9
      <4>2. CASE j \in 1 .. Len(p)
        BY <3>4, <3>6, <3>9, <4>1, <4>2 DEF Lists
      <4>3. CASE j = Len(p) + 1
        BY <3>1, <3>2, <3>6, <4>1, <4>3
      <4> QED BY <3>6, <4>2, <4>3
    <3>10. Lists(q, T)
      BY <3>6, <3>8, <3>9 DEF Lists
    <3> QED BY <3>3, <3>10 DEF q
  <2> QED BY <2>2, <2>3
<1>3. B = {}
  <2> SUFFICES ASSUME B # {} PROVE FALSE
    OBVIOUS
  <2>1. B \subseteq SUBSET S /\ IsFiniteSet(S)
    BY DEF IsEvents
  <2> HIDE DEF B
  <2>2. PICK T \in B : \A U \in B : U \subseteq T => U = T
    BY <2>1, LeastSubset
  <2> QED BY <1>2, <2>2
<1>4. Lists(L(S), S)
  BY <1>3
<1> QED BY <1>1, <1>4, SortIsFold

\* The capacity consumed after a replay.
LEMMA EpochType ==
    ASSUME NEW S, IsEvents(S)
    PROVE  ReplayedEpoch(S) \in Nat \union {None}
<1>1. Dated(S)
  BY IsEventsDated
<1>2. S # {} => Newest(S) \in S
  BY <1>1, NewestIn
<1> DEFINE B == {T \in SUBSET S : Fold("epoch", None, T) \notin Nat \union {None}}
<1>3. ASSUME NEW T \in B, \A U \in B : U \subseteq T => U = T PROVE FALSE
  <2>1. Dated(T) /\ T \in SUBSET S
    BY <1>1, PartDated
  <2>2. T # {}
    BY <2>1, FoldStep
  <2>3. /\ Newest(T) \in T /\ Older(T) \in SUBSET S /\ Older(T) # T /\ Older(T) \subseteq T
    BY <2>1, <2>2, NewestIn
  <2>4. Fold("epoch", None, Older(T)) \in Nat \union {None}
    BY <1>3, <2>3
  <2>5. Fold("epoch", None, T) = Projected(Fold("epoch", None, Older(T)), Newest(T))
    BY <2>1, <2>2, FoldStep DEF Folded
  <2>6. Newest(T).consumed \in Nat
    BY <2>1, <2>3, EventFacts DEF IsEvents, EventRecords
  <2> QED BY <2>4, <2>5, <2>6 DEF Projected
<1>4. B = {}
  <2> SUFFICES ASSUME B # {} PROVE FALSE
    OBVIOUS
  <2>1. B \subseteq SUBSET S /\ IsFiniteSet(S)
    BY DEF IsEvents
  <2> HIDE DEF B
  <2>2. PICK T \in B : \A U \in B : U \subseteq T => U = T
    BY <2>1, LeastSubset
  <2> QED BY <1>3, <2>2
<1>5. Fold("epoch", None, S) \in Nat \union {None}
  BY <1>4
<1> QED BY <1>1, <1>5, EpochIsFold

\* The event that comes last is projected on what a replay of the others gives.
LEMMA EpochOfMore ==
    ASSUME NEW S, NEW e, IsEvents(S \union {e}), \A f \in S : Earlier(f, e)
    PROVE  ReplayedEpoch(S \union {e}) = Projected(ReplayedEpoch(S), e)
<1>1. Dated(S \union {e}) /\ Dated(S)
  BY IsEventsDated, PartDated
<1>2. Fold("epoch", None, S \union {e}) = Folded("epoch", Fold("epoch", None, S), e)
  BY <1>1, FoldMore
<1> QED BY <1>1, <1>2, EpochIsFold DEF Folded

----------------------------------------------------------------------------
(* Settlement records.                                                     *)

Settlement == [trade : Branches \union {None}, fee : Branches \union {None},
               orphaned : BOOLEAN]
Records == [Trades -> Settlement]

\* The half of a record that an event of the trade fills.
Half(e, record) == IF e.name = "FeesRouted" THEN record.fee ELSE record.trade

\* One event fills its half of its trade's record.
LEMMA SettledOne ==
    ASSUME NEW records \in Records, NEW e, IsEvent(e), NEW orphaned \in BOOLEAN
    PROVE  LET R == Settled(records, e, orphaned)
           IN  /\ R \in Records
               /\ \A t \in Trades : t # e.tx => R[t] = records[t]
               /\ e.tx \in Trades =>
                    /\ R[e.tx].orphaned = orphaned /\ Half(e, R[e.tx]) = e.block
                    /\ \A f : IsEvent(f) /\ f.tx = e.tx /\ f.name # e.name
                                => Half(f, R[e.tx]) = Half(f, records[e.tx])
<1> DEFINE R == Settled(records, e, orphaned)
<1>1. CASE e.tx \notin Trades
  BY <1>1 DEF Settled
<1>2. CASE e.tx \in Trades
  <2>1. e.name \in {"FeesRouted", "TradeExecuted"} /\ e.block \in Branches
    BY <1>2, EventFacts, IndexerAssumption
  <2> DEFINE r == records[e.tx]
             x == [trade |-> IF e.name = "TradeExecuted" THEN e.block ELSE r.trade,
                   fee |-> IF e.name = "FeesRouted" THEN e.block ELSE r.fee,
                   orphaned |-> orphaned]
  <2>2. R = [records EXCEPT ![e.tx] = x]
    BY <1>2 DEF Settled
  <2>3. r \in Settlement
    BY <1>2 DEF Records
  <2>4. x \in Settlement
    BY <2>1, <2>3 DEF Settlement
  <2> HIDE DEF r, x
  <2>5. R \in Records /\ R[e.tx] = x /\ \A t \in Trades : t # e.tx => R[t] = records[t]
    BY <1>2, <2>2, <2>4 DEF Records
  <2>6. x.orphaned = orphaned /\ Half(e, x) = e.block
    BY <2>1 DEF x, Half
  <2>7. ASSUME NEW f, IsEvent(f), f.tx = e.tx, f.name # e.name PROVE Half(f, x) = Half(f, r)
    <3>1. f.name \in {"FeesRouted", "TradeExecuted"}
      BY <1>2, <2>7, EventFacts, IndexerAssumption
    <3> QED BY <2>1, <2>7, <3>1 DEF x, Half
  <2> HIDE DEF R
  <2>8. \A f : IsEvent(f) /\ f.tx = e.tx /\ f.name # e.name
                 => Half(f, R[e.tx]) = Half(f, records[e.tx])
    BY <2>5, <2>7 DEF r
  <2> QED BY <2>5, <2>6, <2>8 DEF R
<1> QED BY <1>1, <1>2

\* R tells the trades of the events S over the records there were.
Tells(R, records, S, orphaned) ==
    /\ R \in Records
    /\ \A t \in Trades : (\A e \in S : e.tx # t) => R[t] = records[t]
    /\ \A e \in S : e.tx \in Trades =>
         /\ R[e.tx].orphaned = orphaned
         /\ (\A f \in S : f.tx = e.tx /\ f.name = e.name => f = e)
              => Half(e, R[e.tx]) = e.block

LEMMA SettlementsReplayed ==
    ASSUME NEW S, IsEvents(S), NEW records \in Records, NEW orphaned \in BOOLEAN
    PROVE  Tells(ReplayedSettlements(records, S, orphaned), records, S, orphaned)
<1> DEFINE k == IF orphaned THEN "orphaned" ELSE "live"
           R(T) == Fold(k, records, T)
           B == {T \in SUBSET S : ~Tells(R(T), records, T, orphaned)}
<1>1. Dated(S)
  BY IsEventsDated
<1>2. ASSUME NEW T \in B, \A U \in B : U \subseteq T => U = T PROVE FALSE
  <2>1. Dated(T) /\ T \in SUBSET S
    BY <1>1, PartDated
  <2>2. CASE T = {}
    <3>1. R(T) = records
      BY <2>1, <2>2, FoldStep
    <3> QED BY <2>2, <3>1 DEF Tells
  <2>3. CASE T # {}
    <3> DEFINE e == Newest(T)
               W == Older(T)
               P == R(W)
               Q == Settled(P, e, orphaned)
    <3>1. e \in T /\ W \in SUBSET S /\ W # T /\ W \subseteq T
      BY <2>1, <2>3, NewestIn
    <3>2. T = W \union {e} /\ e \notin W
      BY <3>1 DEF Older
    <3>3. R(T) = Q
      <4>1. R(T) = Folded(k, P, e)
        BY <2>1, <2>3, FoldStep
      <4>2. CASE orphaned = TRUE
        BY <4>1, <4>2 DEF Folded
      <4>3. CASE orphaned = FALSE
        BY <4>1, <4>3 DEF Folded
      <4> QED BY <4>2, <4>3
    <3>4. Tells(P, records, W, orphaned)
      BY <1>2, <3>1
    <3>5. IsEvent(e) /\ \A f \in W : IsEvent(f)
      BY <2>1, <3>1 DEF IsEvents
    <3> HIDE DEF e, W, R, P, Q
    <3>6. P \in Records
      BY <3>4 DEF Tells
    <3>7. /\ Q \in Records
          /\ \A t \in Trades : t # e.tx => Q[t] = P[t]
          /\ e.tx \in Trades =>
                    /\ Q[e.tx].orphaned = orphaned /\ Half(e, Q[e.tx]) = e.block
                    /\ \A f : IsEvent(f) /\ f.tx = e.tx /\ f.name # e.name
                                => Half(f, Q[e.tx]) = Half(f, P[e.tx])
      BY <3>5, <3>6, SettledOne DEF Q
    <3>8. ASSUME NEW t \in Trades, \A f \in T : f.tx # t PROVE Q[t] = records[t]
      BY <3>2, <3>4, <3>7, <3>8 DEF Tells
    <3>9. ASSUME NEW f \in T, f.tx \in Trades
          PROVE  /\ Q[f.tx].orphaned = orphaned
                 /\ (\A g \in T : g.tx = f.tx /\ g.name = f.name => g = f)
                       => Half(f, Q[f.tx]) = f.block
      <4>1. CASE f = e
        BY <3>7, <3>9, <4>1
      <4>2. CASE f \in W /\ f.tx # e.tx
        <5>1. /\ P[f.tx].orphaned = orphaned
              /\ (\A g \in W : g.tx = f.tx /\ g.name = f.name => g = f)
                    => Half(f, P[f.tx]) = f.block
          BY <3>4, <3>9, <4>2 DEF Tells
        <5> QED BY <3>2, <3>7, <3>9, <4>2, <5>1
      <4>3. CASE f \in W /\ f.tx = e.tx
        <5>1. /\ (\A g \in W : g.tx = f.tx /\ g.name = f.name => g = f)
                    => Half(f, P[f.tx]) = f.block
          BY <3>4, <3>9, <4>3 DEF Tells
        <5>2. Q[f.tx].orphaned = orphaned
          BY <3>7, <3>9, <4>3
        <5>3. ASSUME \A g \in T : g.tx = f.tx /\ g.name = f.name => g = f
              PROVE  Half(f, Q[f.tx]) = f.block
          <6>1. f.name # e.name
            BY <3>1, <3>2, <4>3, <5>3
          <6>2. Half(f, P[f.tx]) = f.block
            BY <3>2, <5>1, <5>3
          <6> QED BY <3>5, <3>7, <3>9, <4>3, <6>1, <6>2
        <5> QED BY <5>2, <5>3
      <4> QED BY <3>2, <4>1, <4>2, <4>3
    <3>10. Tells(Q, records, T, orphaned)
      BY <3>7, <3>8, <3>9 DEF Tells
    <3> QED BY <3>3, <3>10
  <2> QED BY <2>2, <2>3
<1>3. B = {}
  <2> SUFFICES ASSUME B # {} PROVE FALSE
    OBVIOUS
  <2>1. B \subseteq SUBSET S /\ IsFiniteSet(S)
    BY DEF IsEvents
  <2> HIDE DEF B
  <2>2. PICK T \in B : \A U \in B : U \subseteq T => U = T
    BY <2>1, LeastSubset
  <2> QED BY <1>2, <2>2
<1>4. Tells(R(S), records, S, orphaned)
  BY <1>3
<1> QED BY <1>1, <1>4, SettlementsAreFold

----------------------------------------------------------------------------
(* The inductive invariant.                                                *)

Places == {"idle", "latest", "verify", "walk", "logs", "header", "project", "mark"}

SyncRecords == [at : Places, to : Int, next : Int, logs : SUBSET EventRecords,
                headers : SUBSET Branches, todo : Seq(EventRecords), torn : BOOLEAN]

\* The types, finer than TypeOK: no transaction is twice on the chain, and every stored
\* event is one of its block.
Types ==
    /\ chain \in Branches /\ Once(chain) /\ made \in 1 .. MaxBlocks
    /\ IsEvents(events)
    /\ headers \subseteq Branches /\ checkpoint \in Branches
    /\ epoch \in Nat \union {None} /\ settlements \in Records
    /\ sync \in SyncRecords
    /\ damaged \in BOOLEAN /\ crashes \in 0 .. CrashBound

\* The walk to the ancestor stays below the checkpoint.
WalkingDown == At("walk") => -1 <= sync.next /\ sync.next < Len(checkpoint)

\* The range that is read starts above the checkpoint, and, as long as no reorganization
\* has crossed the reading, what was read is of the chain.
Reading ==
    /\ sync.at \in {"latest", "verify", "logs"} => sync.headers = {}
    /\ sync.at \in {"logs", "header"} =>
         /\ Len(checkpoint) + 1 <= sync.to
         /\ ~sync.torn => IsPrefix(checkpoint, chain)
    /\ At("header") =>
         /\ Len(checkpoint) + 1 <= sync.next /\ sync.next <= sync.to
         /\ IsEvents(sync.logs)
         /\ ~sync.torn =>
              /\ sync.to <= Len(chain)
              /\ sync.logs = Logs(chain, Len(checkpoint) + 1, sync.to)
              /\ sync.headers = {Branch(n) : n \in Len(checkpoint) + 1 .. sync.next - 1}

\* The events of the batch that are not in the store, and the block up to which it has
\* them all or in part.
Pending == IF At("mark") THEN Tail(sync.todo) ELSE sync.todo
Reached == IF At("mark") THEN Len(Head(sync.todo).block) ELSE Len(checkpoint)

\* The batch ends in block b: what is in the store and what is pending are its events,
\* and the pending ones come later.
Batch(b) ==
    /\ Len(b) = sync.to /\ Once(b) /\ IsPrefix(checkpoint, b)
    /\ \A h \in sync.headers : IsPrefix(h, b)
    /\ \A h \in headers : Len(h) <= sync.to => IsPrefix(h, b)
    /\ EventsOf(b) = events \union {Pending[i] : i \in 1 .. Len(Pending)}
    /\ \A i \in 1 .. Len(Pending) : \A e \in events : Earlier(e, Pending[i])
    /\ \A i, j \in 1 .. Len(Pending) : i < j => Earlier(Pending[i], Pending[j])
    /\ \A e \in events : Len(e.block) <= Reached
    /\ \A i \in 1 .. Len(Pending) : Reached <= Len(Pending[i].block)

Ingest ==
    Ingesting =>
      /\ \E h \in sync.headers : Len(h) = sync.to
      /\ \A i \in 1 .. Len(sync.todo) : IsEvent(sync.todo[i])
      /\ At("mark") => sync.todo # <<>> /\ (~damaged => Head(sync.todo) \in events)
      /\ ~damaged => \E b \in sync.headers : Batch(b)

\* Between batches the store is that of the checkpoint's branch: what a rollback below
\* the checkpoint needs, and what a crash leaves, is that the headers under it are of
\* that branch too.
Store ==
    ~damaged /\ ~Ingesting =>
      /\ events = EventsOf(checkpoint) /\ Once(checkpoint)
      /\ \A h \in headers : Len(h) <= Len(checkpoint) => IsPrefix(h, checkpoint)

IndexerInv ==
    Types /\ WalkingDown /\ Reading /\ Ingest /\ Store /\ ProjectionIsReplay

----------------------------------------------------------------------------
(* Steps that leave the store alone.                                       *)

\* Of headers of bounded numbers one is the highest.
LEMMA HighestHeader ==
    ASSUME NEW S \in SUBSET Branches, S # {}, NEW n \in Int, \A h \in S : Len(h) <= n
    PROVE  \E h \in S : \A k \in S : Len(k) <= Len(h)
<1> DEFINE X == {m \in Nat : \E h \in S : m = n - Len(h)}
           R == OpToRel(<, Nat)
<1>1. \A h \in S : Len(h) \in Nat /\ n - Len(h) \in Nat
  BY DEF Branches
<1>2. X \subseteq Nat /\ X # {}
  BY <1>1
<1>3. IsWellFoundedOn(R, Nat)
  BY NatLessThanWellFounded, Zenon
<1> HIDE DEF X, R
<1>4. PICK m \in X : \A y \in X : ~(<<y, m>> \in R)
  BY <1>2, <1>3, WFMin, Zenon
<1>5. ASSUME NEW y \in X, y < m PROVE <<y, m>> \in R
  <2>1. <<y, m>> \in Nat \X Nat /\ <<y, m>>[1] = y /\ <<y, m>>[2] = m
    BY <1>2
  <2> QED BY <1>5, <2>1 DEF R, OpToRel
<1>6. PICK h \in S : m = n - Len(h)
  BY DEF X
<1>7. ASSUME NEW k \in S PROVE Len(k) <= Len(h)
  <2>1. n - Len(k) \in X
    BY <1>1 DEF X
  <2>2. ~(n - Len(k) < m)
    BY <1>4, <1>5, <2>1
  <2> QED BY <1>1, <1>6, <2>2
<1> QED BY <1>7

LEMMA IdleType == Idle \in SyncRecords
BY DEF Idle, SyncRecords, Places

\* A step that stores nothing, outside of a batch.
LEMMA QuietStep ==
    ASSUME IndexerInv, UNCHANGED stored, damaged' = damaged, ~Ingesting, ~Ingesting'
    PROVE  Ingest' /\ Store' /\ ProjectionIsReplay'
BY DEF IndexerInv, Ingest, Store, ProjectionIsReplay, stored

LEMMA StartInv == IndexerInv /\ Start => IndexerInv'
<1> SUFFICES ASSUME IndexerInv, Start PROVE IndexerInv'
  OBVIOUS
<1>1. /\ At("idle") /\ sync' = [Idle EXCEPT !.at = "latest"]
      /\ UNCHANGED <<stored, network, damaged, crashes>>
  BY DEF Start
<1>2. /\ sync' \in SyncRecords /\ sync'.at = "latest" /\ sync'.headers = {}
  <2>1. Idle \in SyncRecords /\ Idle.headers = {}
    BY IdleType DEF Idle
  <2> QED BY <1>1, <2>1 DEF SyncRecords, Places
<1>3. Types'
  BY <1>1, <1>2 DEF IndexerInv, Types, stored, network
<1>4. WalkingDown' /\ Reading'
  BY <1>2 DEF WalkingDown, Reading, At
<1>5. ~Ingesting /\ ~Ingesting'
  BY <1>1, <1>2 DEF Ingesting, At
<1> QED BY <1>1, <1>3, <1>4, <1>5, QuietStep DEF IndexerInv

\* To leave sync without a word to the store.
LEMMA LeaveInv ==
    ASSUME IndexerInv, Leave, UNCHANGED <<stored, network, damaged, crashes>>, ~Ingesting
    PROVE  IndexerInv'
<1>1. sync' \in SyncRecords /\ sync'.at = "idle"
  BY IdleType DEF Leave, Idle
<1>2. Types'
  BY <1>1 DEF IndexerInv, Types, stored, network
<1>3. WalkingDown' /\ Reading'
  BY <1>1 DEF WalkingDown, Reading, At
<1>4. ~Ingesting'
  BY <1>1 DEF Ingesting
<1> QED BY <1>2, <1>3, <1>4, QuietStep DEF IndexerInv

LEMMA FailInv == IndexerInv /\ Fail => IndexerInv'
<1> SUFFICES ASSUME IndexerInv, Fail PROVE IndexerInv'
  OBVIOUS
<1>1. ~Ingesting
  BY DEF Fail, Ingesting
<1> QED BY <1>1, LeaveInv DEF Fail

LEMMA LatestInv == IndexerInv /\ Latest => IndexerInv'
<1> SUFFICES ASSUME IndexerInv, Latest PROVE IndexerInv'
  OBVIOUS
<1> DEFINE to == Len(chain) - Confirmations
<1>1. At("latest") /\ UNCHANGED <<stored, network, damaged, crashes>> /\ ~Ingesting
  BY DEF Latest, Ingesting, At
<1>2. to \in Int
  BY IndexerAssumption DEF IndexerInv, Types, Branches
<1>3. CASE to < 1
  BY <1>1, <1>3, LeaveInv DEF Latest
<1>4. CASE ~(to < 1)
  <2> DEFINE place == IF checkpoint = <<>> THEN "logs" ELSE "verify"
  <2>1. sync' = [sync EXCEPT !.to = to, !.at = place]
    BY <1>4 DEF Latest
  <2>2. sync \in SyncRecords /\ sync.headers = {}
    BY <1>1 DEF IndexerInv, Types, Reading, At
  <2>3. place \in Places
    BY DEF Places
  <2> HIDE DEF to, place
  <2>4. /\ sync' \in SyncRecords /\ sync'.at = place /\ sync'.to = to
        /\ sync'.headers = {}
    BY <1>2, <2>1, <2>2, <2>3 DEF SyncRecords
  <2>5. Types'
    BY <1>1, <2>4 DEF IndexerInv, Types, stored, network
  <2>6. WalkingDown'
    BY <2>4 DEF WalkingDown, At, place
  <2>7. Reading'
    <3>1. CASE place = "logs"
      <4>1. checkpoint = <<>> /\ Len(checkpoint) = 0
        BY <3>1 DEF place
      <4>2. IsPrefix(checkpoint, chain)
        BY <4>1, PrefixOfAny DEF IndexerInv, Types
      <4>3. checkpoint' = checkpoint /\ chain' = chain
        BY <1>1 DEF stored, network
      <4> QED BY <1>2, <1>4, <2>4, <3>1, <4>1, <4>2, <4>3 DEF Reading, At
    <3>2. CASE place = "verify"
      BY <2>4, <3>2 DEF Reading, At
    <3> QED BY <3>1, <3>2 DEF place
  <2>8. ~Ingesting'
    BY <2>4 DEF Ingesting, place
  <2> QED BY <1>1, <2>5, <2>6, <2>7, <2>8, QuietStep DEF IndexerInv
<1> QED BY <1>3, <1>4

LEMMA VerifyInv == IndexerInv /\ Verify => IndexerInv'
<1> SUFFICES ASSUME IndexerInv, Verify PROVE IndexerInv'
  OBVIOUS
<1>1. At("verify") /\ UNCHANGED <<stored, network, damaged, crashes>> /\ ~Ingesting
  BY DEF Verify, Ingesting, At
<1>2. /\ sync \in SyncRecords /\ sync.headers = {} /\ sync.to \in Int
      /\ Len(checkpoint) \in Nat
  BY <1>1 DEF IndexerInv, Types, Reading, At, Branches, SyncRecords
<1>3. checkpoint' = checkpoint /\ chain' = chain
  BY <1>1 DEF stored, network
<1>4. \/ Leave
      \/ /\ Canonical(checkpoint) /\ Len(checkpoint) + 1 <= sync.to
         /\ sync' = [sync EXCEPT !.at = "logs"]
      \/ sync' = [sync EXCEPT !.at = "walk", !.next = Len(checkpoint) - 1]
  BY <1>2 DEF Verify
<1>5. CASE Leave
  BY <1>1, <1>5, LeaveInv
<1>6. CASE /\ Canonical(checkpoint) /\ Len(checkpoint) + 1 <= sync.to
           /\ sync' = [sync EXCEPT !.at = "logs"]
  <2>1. /\ sync' \in SyncRecords /\ sync'.at = "logs" /\ sync'.to = sync.to
        /\ sync'.headers = {}
    BY <1>2, <1>6 DEF SyncRecords, Places
  <2>2. Types'
    BY <1>1, <2>1 DEF IndexerInv, Types, stored, network
  <2>3. WalkingDown' /\ Reading'
    BY <1>3, <1>6, <2>1 DEF WalkingDown, Reading, At, Canonical
  <2>4. ~Ingesting'
    BY <2>1 DEF Ingesting
  <2> QED BY <1>1, <2>2, <2>3, <2>4, QuietStep DEF IndexerInv
<1>7. CASE sync' = [sync EXCEPT !.at = "walk", !.next = Len(checkpoint) - 1]
  <2> DEFINE below == Len(checkpoint) - 1
  <2>1. /\ below \in Int /\ -1 <= below
        /\ sync' = [sync EXCEPT !.at = "walk", !.next = below]
    BY <1>2, <1>7
  <2> HIDE DEF below
  <2>2. sync' \in SyncRecords /\ sync'.at = "walk" /\ sync'.next = below
    BY <1>2, <2>1 DEF SyncRecords, Places
  <2>3. Types'
    BY <1>1, <2>2 DEF IndexerInv, Types, stored, network
  <2>4. WalkingDown' /\ Reading'
    BY <1>2, <1>3, <2>1, <2>2 DEF WalkingDown, Reading, At, below
  <2>5. ~Ingesting'
    BY <2>2 DEF Ingesting
  <2> QED BY <1>1, <2>3, <2>4, <2>5, QuietStep DEF IndexerInv
<1> QED BY <1>4, <1>5, <1>6, <1>7

LEMMA ReadLogsInv == IndexerInv /\ ReadLogs => IndexerInv'
<1> SUFFICES ASSUME IndexerInv, ReadLogs PROVE IndexerInv'
  OBVIOUS
<1> DEFINE from == Len(checkpoint) + 1
           logs == Logs(chain, from, sync.to)
           torn == sync.torn \/ Len(chain) < sync.to
<1>1. At("logs") /\ UNCHANGED <<stored, network, damaged, crashes>> /\ ~Ingesting
  BY DEF ReadLogs, Ingesting, At
<1>2. /\ sync \in SyncRecords /\ sync.headers = {} /\ sync.to \in Int
      /\ sync.torn \in BOOLEAN /\ from <= sync.to
      /\ Len(checkpoint) \in Nat /\ chain \in Branches /\ Len(chain) \in Nat
      /\ ~sync.torn => IsPrefix(checkpoint, chain)
  BY <1>1 DEF IndexerInv, Types, Reading, At, Branches, SyncRecords
<1>3. checkpoint' = checkpoint /\ chain' = chain
  BY <1>1 DEF stored, network
<1>4. sync' = [sync EXCEPT !.at = "header", !.next = from, !.logs = logs, !.torn = torn]
  BY DEF ReadLogs
<1>5. IsEvents(logs) /\ logs \subseteq EventRecords
  <2>1. from \in Nat \ {0}
    BY <1>2
  <2>2. logs \in SUBSET EventsOf(chain) /\ \A e \in logs : IsEvent(e)
    BY <1>2, <2>1, InLogs, InEventsOf
  <2>3. IsFiniteSet(logs)
    BY <1>2, <2>2, EventsOfFinite, FS_Subset
  <2>4. \A e \in logs : e \in EventRecords
    BY <2>2, EventFacts
  <2> QED BY <2>2, <2>3, <2>4 DEF IsEvents
<1> HIDE DEF logs
<1>6. torn \in BOOLEAN /\ from \in Int
  BY <1>2
<1> HIDE DEF torn, from
<1>7. /\ sync' \in SyncRecords /\ sync'.at = "header" /\ sync'.to = sync.to
      /\ sync'.headers = {} /\ sync'.next = from /\ sync'.logs = logs /\ sync'.torn = torn
  BY <1>2, <1>4, <1>5, <1>6 DEF SyncRecords, Places
<1>8. Types'
  BY <1>1, <1>7 DEF IndexerInv, Types, stored, network
<1>9. WalkingDown'
  BY <1>7 DEF WalkingDown, At
<1>10. Reading'
  <2>1. /\ Len(checkpoint') + 1 <= sync'.to /\ Len(checkpoint') + 1 <= sync'.next
        /\ sync'.next <= sync'.to /\ IsEvents(sync'.logs)
    BY <1>2, <1>3, <1>5, <1>7 DEF from
  <2>2. ASSUME ~sync'.torn
        PROVE  /\ IsPrefix(checkpoint', chain') /\ sync'.to <= Len(chain')
               /\ sync'.logs = Logs(chain', Len(checkpoint') + 1, sync'.to)
               /\ sync'.headers = {Branch(n)' : n \in Len(checkpoint') + 1 .. sync'.next - 1}
    <3>1. IsPrefix(checkpoint, chain) /\ sync.to <= Len(chain)
      <4>1. ~torn
        BY <1>7, <2>2
      <4> QED BY <1>2, <4>1 DEF torn
    <3>2. Len(checkpoint') + 1 .. sync'.next - 1 = {}
      BY <1>2, <1>3, <1>7 DEF from
    <3> QED BY <1>3, <1>7, <3>1, <3>2 DEF logs, from
  <2> QED BY <1>7, <2>1, <2>2 DEF Reading, At
<1>11. ~Ingesting'
  BY <1>7 DEF Ingesting
<1> QED BY <1>1, <1>8, <1>9, <1>10, <1>11, QuietStep DEF IndexerInv

----------------------------------------------------------------------------
(* The chain moves.                                                        *)

\* A branch with one more block.
LEMMA ExtendedOK ==
    ASSUME NEW c \in Branches, Once(c), made \in 1 .. MaxBlocks, made < MaxBlocks,
           NEW d \in Extended(c)
    PROVE  d \in Branches /\ Once(d) /\ IsPrefix(c, d) /\ Len(d) = Len(c) + 1
<1>1. PICK t \in {None} \union (IF Activation \in On(c) THEN Trades \ On(c)
                                ELSE {Activation}) :
             d = Append(c, [id |-> made + 1, tx |-> t])
  BY DEF Extended
<1> DEFINE x == [id |-> made + 1, tx |-> t]
<1>2. made + 1 \in 1 .. MaxBlocks
  BY IndexerAssumption
<1>3. t \in Transactions \union {None}
  BY DEF Transactions
<1>4. x \in Blocks /\ x.tx = t
  BY <1>2, <1>3 DEF Blocks
<1>5. t # None => \A i \in DOMAIN c : c[i].tx # t
  BY DEF On
<1> HIDE DEF x
<1> QED BY <1>1, <1>4, <1>5, Grown DEF x

\* Branches that agree up to a block have the same logs up to it.
LEMMA SameLogs ==
    ASSUME NEW c \in Branches, NEW d \in Branches, NEW n \in 0 .. Len(c),
           IsPrefix(SubSeq(c, 1, n), d), NEW from \in Nat \ {0}, NEW to \in Int, to <= n
    PROVE  Logs(c, from, to) = Logs(d, from, to)
<1> DEFINE b == SubSeq(c, 1, n)
<1>1. b \in Branches /\ Len(b) = n /\ IsPrefix(b, c) /\ n \in Nat
  BY Cut
<1>2. IsPrefix(b, d)
  OBVIOUS
<1> HIDE DEF b
<1>3. ASSUME NEW e, IsEvent(e), Len(e.block) <= to
      PROVE  IsPrefix(e.block, c) <=> IsPrefix(e.block, d)
  <2>1. e.block \in Branches /\ Len(e.block) <= Len(b)
    BY <1>1, <1>3, EventFacts
  <2> QED BY <1>1, <1>2, <2>1, CommonBranch
<1>4. \A e : e \in Logs(c, from, to) <=> e \in Logs(d, from, to)
  BY <1>3, InLogs
<1> QED BY <1>4

\* Where the chain is kept up to block n, what was read up to there stays of it.
LEMMA MovedReading ==
    ASSUME IndexerInv, NEW n \in 0 .. Len(chain), chain' \in Branches,
           IsPrefix(Branch(n), chain'), checkpoint' = checkpoint,
           sync'.at = sync.at, sync'.to = sync.to, sync'.next = sync.next,
           sync'.logs = sync.logs, sync'.headers = sync.headers,
           ~sync'.torn => /\ ~sync.torn
                          /\ At("logs") => Len(checkpoint) <= n
                          /\ At("header") => sync.to <= n
    PROVE  Reading'
<1> DEFINE b == SubSeq(chain, 1, n)
<1>1. /\ chain \in Branches /\ checkpoint \in Branches
      /\ Len(checkpoint) \in Nat /\ Len(chain) \in Nat /\ Len(chain') \in Nat
      /\ sync.to \in Int /\ sync.next \in Int
  BY DEF IndexerInv, Types, SyncRecords, Branches
<1>2. b \in Branches /\ Len(b) = n /\ IsPrefix(b, chain) /\ IsPrefix(b, chain')
  BY <1>1, Cut DEF Branch
<1>3. n <= Len(chain')
  BY <1>1, <1>2, PrefixIs
<1>4. ASSUME sync.at \in {"logs", "header"}, ~sync'.torn
      PROVE  IsPrefix(checkpoint, chain')
  <2>1. IsPrefix(checkpoint, chain) /\ Len(checkpoint) <= n
    BY <1>1, <1>4 DEF IndexerInv, Reading, At
  <2> HIDE DEF b
  <2>2. IsPrefix(checkpoint, b)
    BY <1>1, <1>2, <2>1, CommonBranch
  <2> QED BY <1>1, <1>2, <2>2, CommonBranch
<1>5. ASSUME At("header"), ~sync'.torn
      PROVE  /\ sync.to <= Len(chain')
             /\ sync.logs = Logs(chain', Len(checkpoint) + 1, sync.to)
             /\ sync.headers = {Branch(k)' : k \in Len(checkpoint) + 1 .. sync.next - 1}
  <2>1. /\ sync.to <= n /\ sync.next <= sync.to
        /\ sync.logs = Logs(chain, Len(checkpoint) + 1, sync.to)
        /\ sync.headers = {Branch(k) : k \in Len(checkpoint) + 1 .. sync.next - 1}
    BY <1>5 DEF IndexerInv, Reading
  <2>2. Logs(chain, Len(checkpoint) + 1, sync.to) = Logs(chain', Len(checkpoint) + 1, sync.to)
    <3>1. Len(checkpoint) + 1 \in Nat \ {0}
      BY <1>1
    <3> QED BY <1>1, <1>2, <2>1, <3>1, SameLogs
  <2>3. ASSUME NEW k \in Len(checkpoint) + 1 .. sync.next - 1 PROVE Branch(k) = Branch(k)'
    <3>1. k \in 0 .. Len(chain) /\ k \in 0 .. Len(chain') /\ k <= Len(b)
      BY <1>1, <1>2, <1>3, <2>1
    <3> DEFINE p == SubSeq(chain, 1, k)
               q == SubSeq(chain', 1, k)
    <3>2. /\ p \in Branches /\ Len(p) = k /\ IsPrefix(p, chain)
          /\ q \in Branches /\ Len(q) = k /\ IsPrefix(q, chain')
      BY <1>1, <3>1, Cut
    <3> HIDE DEF p, q, b
    <3>3. IsPrefix(p, b) /\ IsPrefix(q, b)
      BY <1>1, <1>2, <3>1, <3>2, CommonBranch
    <3>4. p = q
      BY <1>2, <3>2, <3>3, CommonBranch
    <3> QED BY <3>4 DEF Branch, p, q
  <2>4. sync.to <= Len(chain')
    BY <1>1, <1>3, <2>1
  <2>5. {Branch(k) : k \in Len(checkpoint) + 1 .. sync.next - 1}
          = {Branch(k)' : k \in Len(checkpoint) + 1 .. sync.next - 1}
    BY <2>3
  <2> QED BY <2>1, <2>2, <2>4, <2>5
<1>6. /\ sync'.at \in {"latest", "verify", "logs"} => sync'.headers = {}
      /\ sync'.at \in {"logs", "header"} => Len(checkpoint') + 1 <= sync'.to
      /\ sync'.at = "header" => /\ Len(checkpoint') + 1 <= sync'.next
                                /\ sync'.next <= sync'.to /\ IsEvents(sync'.logs)
  BY DEF IndexerInv, Reading, At
<1> QED BY <1>4, <1>5, <1>6 DEF Reading, At

\* The rest of the invariant does not speak of the chain.
LEMMA MovedRest ==
    ASSUME IndexerInv, UNCHANGED <<stored, damaged, crashes>>,
           sync' \in SyncRecords, chain' \in Branches, Once(chain'), made' \in 1 .. MaxBlocks,
           sync'.at = sync.at, sync'.to = sync.to, sync'.next = sync.next,
           sync'.headers = sync.headers, sync'.todo = sync.todo
    PROVE  Types' /\ WalkingDown' /\ Ingest' /\ Store' /\ ProjectionIsReplay'
<1>1. Types'
  BY DEF IndexerInv, Types, stored
<1>2. WalkingDown'
  BY DEF IndexerInv, WalkingDown, At, stored
<1>3. Ingest'
  BY DEF IndexerInv, Ingest, Ingesting, At, stored, Batch, Pending, Reached
<1>4. Store'
  BY DEF IndexerInv, Store, Ingesting, stored
<1>5. ProjectionIsReplay'
  BY DEF IndexerInv, ProjectionIsReplay, stored
<1> QED BY <1>1, <1>2, <1>3, <1>4, <1>5

LEMMA MineInv == IndexerInv /\ Mine => IndexerInv'
<1> SUFFICES ASSUME IndexerInv, Mine PROVE IndexerInv'
  OBVIOUS
<1>1. /\ made < MaxBlocks /\ made' = made + 1 /\ chain' \in Extended(chain)
      /\ UNCHANGED <<stored, sync, damaged, crashes>>
  BY DEF Mine
<1>2. chain \in Branches /\ Once(chain) /\ made \in 1 .. MaxBlocks /\ Len(chain) \in Nat
  BY DEF IndexerInv, Types, Branches
<1>3. chain' \in Branches /\ Once(chain') /\ IsPrefix(chain, chain')
  BY <1>1, <1>2, ExtendedOK
<1>4. made' \in 1 .. MaxBlocks
  BY <1>1, <1>2, IndexerAssumption
<1>5. sync' \in SyncRecords /\ sync' = sync
  BY <1>1 DEF IndexerInv, Types
<1>6. Types' /\ WalkingDown' /\ Ingest' /\ Store' /\ ProjectionIsReplay'
  BY <1>1, <1>3, <1>4, <1>5, MovedRest
<1>7. Reading'
  <2>1. Len(chain) \in 0 .. Len(chain) /\ IsPrefix(Branch(Len(chain)), chain')
    <3>1. Branch(Len(chain)) = chain
      BY <1>2, SubSeqFull DEF Branch, Branches
    <3> QED BY <1>2, <1>3, <3>1
  <2>2. checkpoint' = checkpoint
    BY <1>1 DEF stored
  <2>3. ~sync.torn => /\ At("logs") => Len(checkpoint) <= Len(chain)
                      /\ At("header") => sync.to <= Len(chain)
    BY <1>2, PrefixIs DEF IndexerInv, Types, Reading, At
  <2> QED BY <1>3, <1>5, <2>1, <2>2, <2>3, MovedReading
<1> QED BY <1>6, <1>7 DEF IndexerInv

LEMMA ReorgInv == IndexerInv /\ Reorg => IndexerInv'
<1> SUFFICES ASSUME IndexerInv, Reorg PROVE IndexerInv'
  OBVIOUS
<1> DEFINE Touched(n) == \/ At("logs") /\ n < Len(checkpoint)
                         \/ At("header") /\ n < sync.to
<1>1. made < MaxBlocks /\ made' = made + 1 /\ UNCHANGED <<stored, damaged, crashes>>
  BY DEF Reorg
<1>2. PICK n \in 0 .. Len(chain) - 1 :
        chain' \in Extended(Branch(n)) /\ sync' = [sync EXCEPT !.torn = @ \/ Touched(n)]
  BY DEF Reorg
<1>3. chain \in Branches /\ Once(chain) /\ made \in 1 .. MaxBlocks /\ Len(chain) \in Nat
  BY DEF IndexerInv, Types, Branches
<1>4. n \in 0 .. Len(chain) /\ n \in Nat
  BY <1>3
<1>5. Branch(n) \in Branches /\ IsPrefix(Branch(n), chain)
  BY <1>3, <1>4, Cut DEF Branch
<1>6. Once(Branch(n))
  BY <1>3, <1>5, PrefixOnce
<1>7. chain' \in Branches /\ Once(chain') /\ IsPrefix(Branch(n), chain')
  BY <1>1, <1>2, <1>3, <1>5, <1>6, ExtendedOK
<1>8. made' \in 1 .. MaxBlocks
  BY <1>1, <1>3, IndexerAssumption
<1>9. sync \in SyncRecords
  BY DEF IndexerInv, Types
<1> DEFINE torn == sync.torn \/ Touched(n)
<1>10. torn \in BOOLEAN
  BY <1>9 DEF SyncRecords
<1>11. sync' = [sync EXCEPT !.torn = torn]
  BY <1>2
<1>12. ~torn => /\ ~sync.torn
                /\ At("logs") => Len(checkpoint) <= n
                /\ At("header") => sync.to <= n
  <2>1. Len(checkpoint) \in Nat /\ sync.to \in Int
    BY DEF IndexerInv, Types, Branches, SyncRecords
  <2> QED BY <1>4, <2>1
<1> HIDE DEF torn, Touched
<1>13. /\ sync' \in SyncRecords /\ sync'.torn = torn
       /\ sync'.at = sync.at /\ sync'.to = sync.to /\ sync'.next = sync.next
       /\ sync'.logs = sync.logs /\ sync'.headers = sync.headers /\ sync'.todo = sync.todo
  BY <1>9, <1>10, <1>11 DEF SyncRecords
<1>14. Types' /\ WalkingDown' /\ Ingest' /\ Store' /\ ProjectionIsReplay'
  BY <1>1, <1>7, <1>8, <1>13, MovedRest
<1>15. Reading'
  <2>1. checkpoint' = checkpoint
    BY <1>1 DEF stored
  <2>2. ~sync'.torn => ~torn
    BY <1>13
  <2> QED BY <1>4, <1>7, <1>12, <1>13, <2>1, <2>2, MovedReading
<1> QED BY <1>14, <1>15 DEF IndexerInv

----------------------------------------------------------------------------
(* A rollback.                                                             *)

\* A rollback keeps the events of the branch up to the ancestor, and the derived tables
\* are what these give.
LEMMA RolledBack ==
    ASSUME Types, NEW a \in Branches, DropAbove(a)
    PROVE  /\ IsEvents(events') /\ epoch' \in Nat \union {None} /\ settlements' \in Records
           /\ headers' = {h \in headers : Len(h) <= Len(a)}
           /\ events' = {e \in events : Len(e.block) <= Len(a)}
           /\ epoch' = ReplayedEpoch(events')
           /\ \E mid : /\ Tells(mid, settlements, events \ events', TRUE)
                       /\ Tells(settlements', mid, events', FALSE)
<1> DEFINE gone == {e \in events : Beyond(a, e.block)}
           kept == events \ gone
           mid == ReplayedSettlements(settlements, gone, TRUE)
<1>1. /\ events' = kept /\ headers' = {h \in headers : ~Beyond(a, h)}
      /\ settlements' = ReplayedSettlements(mid, kept, FALSE)
      /\ epoch' = ReplayedEpoch(kept)
  BY DEF DropAbove
<1>2. Len(a) \in Nat /\ (\A h \in headers : Len(h) \in Nat)
      /\ \A e \in events : Len(e.block) \in Nat
  BY EventFacts DEF Types, Branches, IsEvents
<1>3. headers' = {h \in headers : Len(h) <= Len(a)}
  BY <1>1, <1>2 DEF Beyond
<1>4. kept = {e \in events : Len(e.block) <= Len(a)}
  BY <1>2 DEF Beyond
<1>5. IsEvents(gone) /\ IsEvents(kept) /\ gone = events \ kept
  BY PartIsEvents DEF Types
<1> HIDE DEF gone, kept, mid
<1>6. epoch' \in Nat \union {None}
  BY <1>1, <1>5, EpochType
<1>7. Tells(mid, settlements, gone, TRUE)
  BY <1>5, SettlementsReplayed DEF Types, mid
<1>8. Tells(settlements', mid, kept, FALSE)
  <2>1. mid \in Records
    BY <1>7 DEF Tells
  <2> QED BY <1>1, <1>5, <2>1, SettlementsReplayed
<1>9. settlements' \in Records
  BY <1>8 DEF Tells
<1> QED BY <1>1, <1>3, <1>4, <1>5, <1>6, <1>7, <1>8, <1>9

\* The record of a trade that has events among S is that of these, and of no trade that
\* was orphaned otherwise.
TradeTold(R, S, t) ==
    LET own == {e \in S : e.tx = t}
    IN  IF own = {} THEN R[t].trade # None => R[t].orphaned
        ELSE /\ ~R[t].orphaned
             /\ \A e \in own : e.block = IF e.name = "FeesRouted" THEN R[t].fee
                                         ELSE R[t].trade

\* The settlement records after it.
LEMMA RolledBackRecords ==
    ASSUME Types, ProjectionIsReplay, ~damaged, NEW c \in Branches, Once(c),
           events = EventsOf(c), NEW kept \in SUBSET events, NEW mid, NEW R,
           Tells(mid, settlements, events \ kept, TRUE), Tells(R, mid, kept, FALSE),
           NEW t \in Trades
    PROVE  TradeTold(R, kept, t)
<1> DEFINE own == {e \in kept : e.tx = t}
           was == {e \in events : e.tx = t}
<1>1. was = {} => (settlements[t].trade # None => settlements[t].orphaned)
  BY DEF ProjectionIsReplay
<1>2. ASSUME own = {} PROVE R[t].trade # None => R[t].orphaned
  <2>1. R[t] = mid[t]
    BY <1>2 DEF Tells
  <2>2. CASE was = {}
    <3>1. mid[t] = settlements[t]
      BY <2>2 DEF Tells
    <3> QED BY <1>1, <2>1, <2>2, <3>1
  <2>3. CASE was # {}
    <3>1. PICK e \in events \ kept : e.tx = t
      BY <1>2, <2>3
    <3>2. mid[t].orphaned = TRUE
      BY <3>1 DEF Tells
    <3> QED BY <2>1, <3>2
  <2> QED BY <2>2, <2>3
<1>3. ASSUME own # {}
      PROVE  /\ ~R[t].orphaned
             /\ \A e \in own : e.block = IF e.name = "FeesRouted" THEN R[t].fee
                                         ELSE R[t].trade
  <2>1. R[t].orphaned = FALSE
    BY <1>3 DEF Tells
  <2>2. ASSUME NEW e \in own PROVE e.block = Half(e, R[t])
    <3>1. e \in kept /\ e.tx = t
      OBVIOUS
    <3>2. \A f \in kept : f.tx = e.tx /\ f.name = e.name => f = e
      BY <3>1, EventsOfBranch
    <3> QED BY <3>1, <3>2 DEF Tells
  <2> QED BY <2>1, <2>2 DEF Half
<1> QED BY <1>2, <1>3 DEF TradeTold

LEMMA WalkInv == IndexerInv /\ Walk => IndexerInv'
<1> SUFFICES ASSUME IndexerInv, Walk PROVE IndexerInv'
  OBVIOUS
<1> DEFINE lower == {h \in headers : Len(h) <= sync.next}
           candidate == CHOOSE h \in lower : \A k \in lower : Len(k) <= Len(h)
           ancestor == IF lower = {} THEN <<>> ELSE candidate
<1>1. At("walk") /\ UNCHANGED <<network, damaged, crashes>> /\ ~Ingesting
  BY DEF Walk, Ingesting, At
<1>2. /\ sync \in SyncRecords /\ sync.next \in Int /\ sync.next < Len(checkpoint)
      /\ checkpoint \in Branches /\ Len(checkpoint) \in Nat /\ headers \subseteq Branches
  BY <1>1 DEF IndexerInv, Types, WalkingDown, SyncRecords, Branches
<1>3. lower # {} => /\ candidate \in headers /\ candidate \in Branches
                    /\ Len(candidate) <= sync.next /\ Len(candidate) \in Nat
  <2> SUFFICES ASSUME lower # {}
               PROVE  /\ candidate \in lower /\ candidate \in Branches
                      /\ Len(candidate) \in Nat
    OBVIOUS
  <2>1. lower \in SUBSET Branches /\ \A h \in lower : Len(h) <= sync.next
    BY <1>2
  <2> HIDE DEF lower
  <2>2. \E h \in lower : \A k \in lower : Len(k) <= Len(h)
    BY <1>2, <2>1, HighestHeader
  <2>3. candidate \in lower
    BY <2>2
  <2> HIDE DEF candidate
  <2> QED BY <2>1, <2>3 DEF Branches
<1>4. \/ RollbackTo(ancestor) /\ sync' = [Idle EXCEPT !.at = "latest"]
      \/ /\ lower # {} /\ UNCHANGED stored
         /\ sync' = [sync EXCEPT !.next = Len(candidate) - 1]
  BY DEF Walk
<1>5. /\ ancestor \in Branches /\ Len(ancestor) <= Len(checkpoint)
      /\ lower # {} => ancestor \in headers
      /\ lower = {} => ancestor = <<>>
  <2>1. <<>> \in Branches /\ Len(<<>>) = 0
    BY DEF Branches
  <2> QED BY <1>2, <1>3, <2>1
<1> HIDE DEF lower, candidate, ancestor
<1>6. CASE RollbackTo(ancestor) /\ sync' = [Idle EXCEPT !.at = "latest"]
  <2>1. DropAbove(ancestor) /\ checkpoint' = ancestor
    BY <1>6 DEF RollbackTo
  <2>2. Types
    BY DEF IndexerInv
  <2>3. /\ IsEvents(events') /\ epoch' \in Nat \union {None} /\ settlements' \in Records
        /\ headers' = {h \in headers : Len(h) <= Len(ancestor)}
        /\ events' = {e \in events : Len(e.block) <= Len(ancestor)}
        /\ epoch' = ReplayedEpoch(events')
    BY <1>5, <2>1, <2>2, RolledBack
  <2>4. PICK mid : /\ Tells(mid, settlements, events \ events', TRUE)
                   /\ Tells(settlements', mid, events', FALSE)
    BY <1>5, <2>1, <2>2, RolledBack
  <2>5. sync' \in SyncRecords /\ sync'.at = "latest" /\ sync'.headers = {}
    <3>1. Idle \in SyncRecords /\ Idle.headers = {}
      BY IdleType DEF Idle
    <3> QED BY <1>6, <3>1 DEF SyncRecords, Places
  <2>6. Types'
    BY <1>1, <1>2, <1>5, <2>1, <2>2, <2>3, <2>5 DEF Types, network
  <2>7. WalkingDown' /\ Reading' /\ ~Ingesting'
    BY <2>5 DEF WalkingDown, Reading, Ingesting, At
  <2>8. ASSUME ~damaged
        PROVE  /\ events' = EventsOf(ancestor) /\ Once(ancestor)
               /\ \A h \in headers' : Len(h) <= Len(ancestor) => IsPrefix(h, ancestor)
    <3>1. /\ events = EventsOf(checkpoint) /\ Once(checkpoint)
          /\ \A h \in headers : Len(h) <= Len(checkpoint) => IsPrefix(h, checkpoint)
      BY <1>1, <2>8 DEF IndexerInv, Store
    <3>2. IsPrefix(ancestor, checkpoint)
      BY <1>2, <1>5, <3>1, PrefixOfAny
    <3>3. Once(ancestor)
      BY <1>2, <1>5, <3>1, <3>2, PrefixOnce
    <3>4. ASSUME NEW b \in Branches, Len(b) <= Len(ancestor)
          PROVE  IsPrefix(b, checkpoint) <=> IsPrefix(b, ancestor)
      BY <1>2, <1>5, <3>2, <3>4, CommonBranch
    <3>5. \A h \in headers' : IsPrefix(h, ancestor)
      <4>1. ASSUME NEW h \in headers' PROVE IsPrefix(h, ancestor)
        <5>1. h \in headers /\ h \in Branches /\ Len(h) <= Len(ancestor) /\ Len(h) \in Nat
          BY <1>2, <2>3 DEF Branches
        <5>2. Len(h) <= Len(checkpoint)
          BY <1>2, <1>5, <5>1 DEF Branches
        <5> QED BY <3>1, <3>4, <5>1, <5>2
      <4> QED BY <4>1
    <3>6. ASSUME NEW e PROVE e \in events' <=> e \in EventsOf(ancestor)
      <4>1. e \in events' <=> /\ IsEvent(e) /\ IsPrefix(e.block, checkpoint)
                              /\ Len(e.block) <= Len(ancestor)
        BY <1>2, <2>3, <3>1, InEventsOf
      <4>2. e \in EventsOf(ancestor) <=> IsEvent(e) /\ IsPrefix(e.block, ancestor)
        BY <1>5, InEventsOf
      <4>3. IsEvent(e) => e.block \in Branches
        BY DEF IsEvent
      <4>4. IsEvent(e) /\ IsPrefix(e.block, ancestor) => Len(e.block) <= Len(ancestor)
        BY <1>5, <4>3, PrefixIs
      <4> QED BY <3>4, <4>1, <4>2, <4>3, <4>4
    <3> QED BY <3>3, <3>5, <3>6
  <2>9. Store'
    BY <1>1, <2>1, <2>8 DEF Store
  <2>10. Ingest'
    BY <2>7 DEF Ingest
  <2>11. ProjectionIsReplay'
    <3> SUFFICES ASSUME ~damaged' PROVE ProjectionIsReplay'
      BY DEF ProjectionIsReplay
    <3>1. ~damaged /\ events = EventsOf(checkpoint) /\ Once(checkpoint) /\ ProjectionIsReplay
      BY <1>1 DEF IndexerInv, Store
    <3>2. events' \in SUBSET events
      BY <2>3
    <3>3. checkpoint \in Branches /\ Types
      BY <1>2, <2>2
    <3>4. \A t \in Trades : TradeTold(settlements', events', t)
      BY <2>4, <3>1, <3>2, <3>3, RolledBackRecords
    <3> QED BY <2>3, <3>4 DEF ProjectionIsReplay, TradeTold
  <2> QED BY <2>6, <2>7, <2>9, <2>10, <2>11 DEF IndexerInv
<1>7. CASE /\ lower # {} /\ UNCHANGED stored
           /\ sync' = [sync EXCEPT !.next = Len(candidate) - 1]
  <2> DEFINE below == Len(candidate) - 1
  <2>1. /\ below \in Int /\ -1 <= below /\ below < Len(checkpoint)
        /\ sync' = [sync EXCEPT !.next = below]
    BY <1>2, <1>3, <1>7
  <2> HIDE DEF below
  <2>2. sync' \in SyncRecords /\ sync'.at = "walk" /\ sync'.next = below
    BY <1>1, <1>2, <2>1 DEF SyncRecords, At
  <2>3. Types'
    BY <1>1, <1>7, <2>2 DEF IndexerInv, Types, stored, network
  <2>4. WalkingDown' /\ Reading' /\ ~Ingesting'
    BY <1>7, <2>1, <2>2 DEF WalkingDown, Reading, Ingesting, At, stored
  <2> QED BY <1>1, <1>7, <2>3, <2>4, QuietStep DEF IndexerInv
<1> QED BY <1>4, <1>6, <1>7

----------------------------------------------------------------------------
(* A batch.                                                                *)

\* What was read up to the last header, with no reorganization across it, is the batch
\* from the checkpoint to the block of that header.
LEMMA BatchRead ==
    ASSUME IndexerInv, At("header"), ~damaged, ~sync.torn, sync.next = sync.to,
           NEW q, Lists(q, sync.logs)
    PROVE  LET b == Branch(sync.to)
               read == sync.headers \union {b}
           IN  /\ Len(b) = sync.to /\ Once(b) /\ IsPrefix(checkpoint, b)
               /\ \A h \in read : IsPrefix(h, b)
               /\ \A h \in {h \in headers : ~SameNumber(h, read)} \union read :
                     Len(h) <= sync.to => IsPrefix(h, b)
               /\ EventsOf(b) = events \union {q[i] : i \in 1 .. Len(q)}
               /\ \A i \in 1 .. Len(q) : \A e \in events : Earlier(e, q[i])
               /\ \A i, j \in 1 .. Len(q) : i < j => Earlier(q[i], q[j])
               /\ \A e \in events : Len(e.block) <= Len(checkpoint)
               /\ \A i \in 1 .. Len(q) : Len(checkpoint) <= Len(q[i].block)
<1> DEFINE b == Branch(sync.to)
           read == sync.headers \union {b}
           low == Len(checkpoint)
<1>1. /\ chain \in Branches /\ Once(chain) /\ checkpoint \in Branches
      /\ low \in Nat /\ Len(chain) \in Nat /\ sync.to \in Int
      /\ headers \subseteq Branches
  BY DEF IndexerInv, Types, SyncRecords, Branches
<1>2. /\ low + 1 <= sync.to /\ sync.to <= Len(chain) /\ IsPrefix(checkpoint, chain)
      /\ sync.logs = Logs(chain, low + 1, sync.to)
      /\ sync.headers = {Branch(n) : n \in low + 1 .. sync.to - 1}
  BY DEF IndexerInv, Reading, At
<1>3. /\ events = EventsOf(checkpoint) /\ Once(checkpoint)
      /\ \A h \in headers : Len(h) <= low => IsPrefix(h, checkpoint)
  BY DEF IndexerInv, Store, Ingesting, At
<1>4. ASSUME NEW n \in low + 1 .. sync.to
      PROVE  Branch(n) \in Branches /\ Len(Branch(n)) = n /\ IsPrefix(Branch(n), chain)
  <2>1. n \in 0 .. Len(chain)
    BY <1>1, <1>2
  <2> QED BY <1>1, <2>1, Cut DEF Branch
<1>5. b \in Branches /\ Len(b) = sync.to /\ IsPrefix(b, chain)
  <2>1. sync.to \in low + 1 .. sync.to
    BY <1>1, <1>2
  <2> QED BY <1>4, <2>1
<1>6. \A h : h \in read <=> \E n \in low + 1 .. sync.to : h = Branch(n)
  BY <1>1, <1>2
<1> HIDE DEF b, read
<1>7. Once(b)
  BY <1>1, <1>5, PrefixOnce
<1>8. IsPrefix(checkpoint, b)
  BY <1>1, <1>2, <1>5, CommonBranch
<1>9. ASSUME NEW h \in read PROVE IsPrefix(h, b)
  <2>1. PICK n \in low + 1 .. sync.to : h = Branch(n)
    BY <1>6
  <2>2. h \in Branches /\ Len(h) <= Len(b) /\ IsPrefix(h, chain)
    BY <1>1, <1>4, <1>5, <2>1
  <2> QED BY <1>1, <1>5, <2>2, CommonBranch
<1>10. ASSUME NEW h \in headers, ~SameNumber(h, read), Len(h) <= sync.to
       PROVE  IsPrefix(h, b)
  <2>1. h \in Branches /\ Len(h) \in Nat
    BY <1>1 DEF Branches
  <2>2. Len(h) \notin low + 1 .. sync.to
    BY <1>4, <1>6, <1>10 DEF SameNumber
  <2>3. IsPrefix(h, checkpoint)
    <3> HIDE DEF low
    <3>1. Len(h) <= low
      BY <1>1, <1>10, <2>1, <2>2
    <3> QED BY <1>3, <3>1 DEF low
  <2> QED BY <1>1, <1>5, <1>8, <2>1, <2>3, CommonBranch
<1>11. q \in Seq(sync.logs) /\ {q[i] : i \in 1 .. Len(q)} = sync.logs
  <2>1. q \in Seq(sync.logs) /\ \A e \in sync.logs : \E i \in 1 .. Len(q) : q[i] = e
    BY DEF Lists
  <2>2. \A i \in 1 .. Len(q) : q[i] \in sync.logs
    BY <2>1
  <2> QED BY <2>1, <2>2, Zenon
<1>12. ASSUME NEW e
       PROVE  e \in sync.logs <=> e \in EventsOf(b) /\ low + 1 <= Len(e.block)
  <2>1. e \in sync.logs <=> /\ IsEvent(e) /\ IsPrefix(e.block, chain)
                            /\ low + 1 <= Len(e.block) /\ Len(e.block) <= sync.to
    <3>1. low + 1 \in Nat \ {0}
      BY <1>1
    <3> HIDE DEF low
    <3> QED BY <1>1, <1>2, <3>1, InLogs
  <2>2. e \in EventsOf(b) <=> IsEvent(e) /\ IsPrefix(e.block, b)
    BY <1>5, InEventsOf
  <2>3. IsEvent(e) => (IsPrefix(e.block, b) <=> /\ IsPrefix(e.block, chain)
                                                /\ Len(e.block) <= sync.to)
    <3>1. IsEvent(e) => e.block \in Branches
      BY DEF IsEvent
    <3> QED BY <1>1, <1>5, <3>1, CommonBranch, PrefixIs
  <2> QED BY <2>1, <2>2, <2>3
<1>13. ASSUME NEW e
       PROVE  e \in events <=> e \in EventsOf(b) /\ Len(e.block) <= low
  <2>1. e \in events <=> IsEvent(e) /\ IsPrefix(e.block, checkpoint)
    BY <1>1, <1>3, InEventsOf
  <2>2. e \in EventsOf(b) <=> IsEvent(e) /\ IsPrefix(e.block, b)
    BY <1>5, InEventsOf
  <2>3. IsEvent(e) => (IsPrefix(e.block, checkpoint) <=> /\ IsPrefix(e.block, b)
                                                         /\ Len(e.block) <= low)
    <3>1. IsEvent(e) => e.block \in Branches
      BY DEF IsEvent
    <3> QED BY <1>1, <1>5, <1>8, <3>1, CommonBranch, PrefixIs
  <2> QED BY <2>1, <2>2, <2>3
<1>14. ASSUME NEW e \in EventsOf(b) PROVE Len(e.block) \in Nat
  BY <1>5, InEventsOf, EventFacts
<1> HIDE DEF low
<1>15. EventsOf(b) = events \union sync.logs
  <2>1. ASSUME NEW e PROVE e \in EventsOf(b) <=> e \in events \/ e \in sync.logs
    BY <1>1, <1>12, <1>13, <1>14
  <2> QED BY <2>1
<1>16. ASSUME NEW e \in events, NEW f \in sync.logs PROVE Earlier(e, f)
  <2>1. /\ Len(e.block) <= low /\ low + 1 <= Len(f.block)
        /\ Len(e.block) \in Nat /\ Len(f.block) \in Nat
    BY <1>12, <1>13, <1>14
  <2> QED BY <1>1, <2>1 DEF Earlier
<1>17. \A i \in 1 .. Len(q) : q[i] \in sync.logs
  BY <1>11
<1>18. ASSUME NEW i \in 1 .. Len(q), NEW j \in 1 .. Len(q), i < j
       PROVE  Earlier(q[i], q[j])
  <2>1. q[i] # q[j] /\ ~Earlier(q[j], q[i])
    BY <1>18 DEF Lists
  <2>2. q[i] \in EventsOf(b) /\ q[j] \in EventsOf(b)
    BY <1>12, <1>17
  <2> QED BY <1>5, <2>1, <2>2, EventsOfBranch
<1>19. \A i \in 1 .. Len(q) : low <= Len(q[i].block)
  <2>1. ASSUME NEW i \in 1 .. Len(q) PROVE low <= Len(q[i].block)
    <3>1. low + 1 <= Len(q[i].block) /\ Len(q[i].block) \in Nat
      BY <1>12, <1>14, <1>17
    <3> QED BY <1>1, <3>1
  <2> QED BY <2>1
<1>20. \A h \in {h \in headers : ~SameNumber(h, read)} \union read :
          Len(h) <= sync.to => IsPrefix(h, b)
  BY <1>9, <1>10
<1>21. \A i \in 1 .. Len(q) : \A e \in events : Earlier(e, q[i])
  BY <1>16, <1>17
<1> QED BY <1>5, <1>7, <1>8, <1>9, <1>11, <1>13, <1>15, <1>18, <1>19, <1>20, <1>21
        DEF b, read, low

LEMMA ReadHeaderInv == IndexerInv /\ ReadHeader => IndexerInv'
<1> SUFFICES ASSUME IndexerInv, ReadHeader PROVE IndexerInv'
  OBVIOUS
<1> DEFINE read == sync.headers \union {Branch(sync.next)}
           q == InOrder(sync.logs)
<1>1. At("header") /\ UNCHANGED <<network, crashes>> /\ ~Ingesting
  BY DEF ReadHeader, Ingesting, At
<1>2. /\ chain \in Branches /\ checkpoint \in Branches /\ sync \in SyncRecords
      /\ Len(checkpoint) \in Nat /\ Len(chain) \in Nat
      /\ sync.to \in Int /\ sync.next \in Int
      /\ Len(checkpoint) + 1 <= sync.next /\ sync.next <= sync.to
      /\ sync.headers \subseteq Branches /\ IsEvents(sync.logs)
  BY <1>1 DEF IndexerInv, Types, Reading, At, SyncRecords, Branches
<1>3. \/ Leave /\ UNCHANGED <<stored, damaged>>
      \/ /\ ~(sync.next > Len(chain)) /\ sync.next < sync.to
         /\ sync' = [sync EXCEPT !.next = @ + 1, !.headers = read]
         /\ UNCHANGED <<stored, damaged>>
      \/ /\ ~(sync.next > Len(chain)) /\ ~(sync.next < sync.to)
         /\ sync' = [sync EXCEPT !.headers = read, !.todo = q,
                                 !.logs = {}, !.at = "project"]
         /\ headers' = {h \in headers : ~SameNumber(h, read)} \union read
         /\ damaged' = (damaged \/ sync.torn)
         /\ UNCHANGED <<events, checkpoint, epoch, settlements>>
  BY Zenon DEF ReadHeader
<1>4. CASE Leave /\ UNCHANGED <<stored, damaged>>
  BY <1>1, <1>4, LeaveInv
<1>5. ~(sync.next > Len(chain)) =>
        /\ Branch(sync.next) \in Branches /\ Len(Branch(sync.next)) = sync.next
        /\ read \subseteq Branches
  <2> SUFFICES ASSUME ~(sync.next > Len(chain))
               PROVE  Branch(sync.next) \in Branches /\ Len(Branch(sync.next)) = sync.next
    BY <1>2
  <2>1. sync.next \in 0 .. Len(chain)
    BY <1>2
  <2> QED BY <1>2, <2>1, Cut DEF Branch
<1>6. CASE /\ ~(sync.next > Len(chain)) /\ sync.next < sync.to
           /\ sync' = [sync EXCEPT !.next = @ + 1, !.headers = read]
           /\ UNCHANGED <<stored, damaged>>
  <2> DEFINE further == sync.next + 1
  <2>1. further \in Int /\ sync' = [sync EXCEPT !.next = further, !.headers = read]
    BY <1>2, <1>6
  <2>2. ~sync.torn /\ (sync.headers = {Branch(n) : n \in Len(checkpoint) + 1 .. sync.next - 1})
          => read = {Branch(n) : n \in Len(checkpoint) + 1 .. further - 1}
    BY <1>2
  <2> HIDE DEF further
  <2>3. read \subseteq Branches
    BY <1>5, <1>6
  <2> HIDE DEF read
  <2>4. /\ sync' \in SyncRecords /\ sync'.at = "header" /\ sync'.to = sync.to
        /\ sync'.next = further /\ sync'.headers = read /\ sync'.logs = sync.logs
        /\ sync'.torn = sync.torn
    BY <1>1, <1>2, <2>1, <2>3 DEF SyncRecords, At
  <2>5. checkpoint' = checkpoint /\ chain' = chain
    BY <1>1, <1>6 DEF stored, network
  <2>6. Types'
    BY <1>1, <1>6, <2>4 DEF IndexerInv, Types, stored, network
  <2>7. WalkingDown'
    BY <2>4 DEF WalkingDown, At
  <2>8. Reading'
    <3>1. /\ Len(checkpoint) + 1 <= sync.to /\ Len(checkpoint) + 1 <= further
          /\ further <= sync.to
      BY <1>2, <1>6 DEF further
    <3>2. ~sync.torn =>
            /\ IsPrefix(checkpoint, chain) /\ sync.to <= Len(chain)
            /\ sync.logs = Logs(chain, Len(checkpoint) + 1, sync.to)
            /\ read = {Branch(n) : n \in Len(checkpoint) + 1 .. further - 1}
      BY <1>1, <2>2 DEF IndexerInv, Reading, At
    <3>3. {Branch(n) : n \in Len(checkpoint) + 1 .. further - 1}
            = {Branch(n)' : n \in Len(checkpoint') + 1 .. further - 1}
      BY <2>5 DEF Branch
    <3> QED BY <1>2, <2>4, <2>5, <3>1, <3>2, <3>3 DEF Reading, At
  <2>9. ~Ingesting'
    BY <2>4 DEF Ingesting
  <2> QED BY <1>1, <1>6, <2>6, <2>7, <2>8, <2>9, QuietStep DEF IndexerInv
<1>7. CASE /\ ~(sync.next > Len(chain)) /\ ~(sync.next < sync.to)
           /\ sync' = [sync EXCEPT !.headers = read, !.todo = q,
                                   !.logs = {}, !.at = "project"]
           /\ headers' = {h \in headers : ~SameNumber(h, read)} \union read
           /\ damaged' = (damaged \/ sync.torn)
           /\ UNCHANGED <<events, checkpoint, epoch, settlements>>
  <2> sync.next = sync.to
    BY <1>2, <1>7
  <2>1. Lists(q, sync.logs)
    BY <1>2, SortedEvents
  <2>2. q \in Seq(EventRecords) /\ \A i \in 1 .. Len(q) : IsEvent(q[i])
    <3>1. \A e \in sync.logs : IsEvent(e) /\ e \in EventRecords
      BY <1>2, EventFacts DEF IsEvents
    <3> HIDE DEF q
    <3>2. q \in Seq(sync.logs)
      BY <2>1 DEF Lists
    <3>3. q \in Seq(EventRecords)
      BY <3>1, <3>2, SeqMonotonic
    <3>4. \A i \in 1 .. Len(q) : q[i] \in sync.logs
      BY <3>2
    <3> QED BY <3>1, <3>3, <3>4
  <2> HIDE DEF q
  <2>3. read \subseteq Branches /\ Branch(sync.to) \in read /\ Len(Branch(sync.to)) = sync.to
    BY <1>5, <1>7
  <2>4. read = sync.headers \union {Branch(sync.to)}
    BY <1>7
  <2> HIDE DEF read
  <2>5. /\ sync' \in SyncRecords /\ sync'.at = "project" /\ sync'.to = sync.to
        /\ sync'.headers = read /\ sync'.todo = q
    BY <1>2, <1>7, <2>2, <2>3 DEF SyncRecords, Places
  <2>6. damaged \in BOOLEAN /\ sync.torn \in BOOLEAN
    BY <1>2 DEF IndexerInv, Types, SyncRecords
  <2>7. damaged' \in BOOLEAN /\ (~damaged' => ~damaged /\ ~sync.torn)
    BY <1>7, <2>6
  <2>8. Types'
    BY <1>1, <1>7, <2>3, <2>5, <2>7 DEF IndexerInv, Types, network
  <2>9. WalkingDown' /\ Reading' /\ Store' /\ Ingesting' /\ ~At("mark")'
    BY <2>5 DEF WalkingDown, Reading, Store, Ingesting, At
  <2>10. ProjectionIsReplay'
    BY <1>7, <2>7 DEF IndexerInv, ProjectionIsReplay
  <2>11. ASSUME ~damaged' PROVE Batch(Branch(sync.to))'
    <3> DEFINE b == Branch(sync.to)
    <3>1. b' = b
      BY <1>1, <2>5 DEF Branch, network
    <3>2. /\ Len(b) = sync.to /\ Once(b) /\ IsPrefix(checkpoint, b)
          /\ \A h \in read : IsPrefix(h, b)
          /\ \A h \in {h \in headers : ~SameNumber(h, read)} \union read :
                Len(h) <= sync.to => IsPrefix(h, b)
          /\ EventsOf(b) = events \union {q[i] : i \in 1 .. Len(q)}
          /\ \A i \in 1 .. Len(q) : \A e \in events : Earlier(e, q[i])
          /\ \A i, j \in 1 .. Len(q) : i < j => Earlier(q[i], q[j])
          /\ \A e \in events : Len(e.block) <= Len(checkpoint)
          /\ \A i \in 1 .. Len(q) : Len(checkpoint) <= Len(q[i].block)
      BY <1>1, <1>7, <2>1, <2>4, <2>7, <2>11, BatchRead
    <3>3. Pending' = q /\ Reached' = Len(checkpoint)
      BY <1>7, <2>5, <2>9 DEF Pending, Reached
    <3> HIDE DEF b
    <3>4. Batch(b)'
      BY <1>7, <2>5, <3>1, <3>2, <3>3 DEF Batch
    <3> QED BY <3>4 DEF b
  <2>12. Branch(sync.to)' = Branch(sync.to)
    BY <1>1, <2>5 DEF Branch, network
  <2>13. Ingest'
    BY <2>2, <2>3, <2>5, <2>9, <2>11, <2>12 DEF Ingest
  <2> QED BY <2>8, <2>9, <2>10, <2>13 DEF IndexerInv
<1> QED BY <1>3, <1>4, <1>6, <1>7

\* The first of a list, and the others.
LEMMA Rest ==
    ASSUME NEW S, NEW q \in Seq(S), q # <<>>
    PROVE  /\ Head(q) = q[1] /\ 1 \in 1 .. Len(q) /\ Len(q) \in Nat
           /\ Tail(q) \in Seq(S) /\ Len(Tail(q)) = Len(q) - 1
           /\ \A i \in 1 .. Len(Tail(q)) :
                 Tail(q)[i] = q[i + 1] /\ i + 1 \in 1 .. Len(q) /\ 1 < i + 1
           /\ {q[i] : i \in 1 .. Len(q)}
                = {q[1]} \union {Tail(q)[i] : i \in 1 .. Len(Tail(q))}
<1> DEFINE r == Tail(q)
<1>1. /\ Head(q) = q[1] /\ 1 \in 1 .. Len(q) /\ Len(q) \in Nat
      /\ r \in Seq(S) /\ Len(r) = Len(q) - 1
      /\ \A i \in 1 .. Len(r) : r[i] = q[i + 1]
  OBVIOUS
<1> HIDE DEF r
<1>2. \A i \in 1 .. Len(r) : i + 1 \in 1 .. Len(q) /\ 1 < i + 1
  BY <1>1
<1>3. ASSUME NEW i \in 1 .. Len(q) PROVE q[i] = q[1] \/ \E j \in 1 .. Len(r) : q[i] = r[j]
  <2>1. CASE i = 1
    BY <2>1
  <2>2. CASE i # 1
    <3>1. i - 1 \in 1 .. Len(r) /\ (i - 1) + 1 = i
      BY <1>1, <2>2
    <3> QED BY <1>1, <3>1
  <2> QED BY <2>1, <2>2
<1>4. {q[i] : i \in 1 .. Len(q)} = {q[1]} \union {r[i] : i \in 1 .. Len(r)}
  <2>1. \A x \in {q[i] : i \in 1 .. Len(q)} : x \in {q[1]} \union {r[i] : i \in 1 .. Len(r)}
    BY <1>3
  <2>2. \A x \in {r[i] : i \in 1 .. Len(r)} : x \in {q[i] : i \in 1 .. Len(q)}
    BY <1>1, <1>2
  <2>3. q[1] \in {q[i] : i \in 1 .. Len(q)}
    BY <1>1
  <2> QED BY <2>1, <2>2, <2>3
<1> QED BY <1>1, <1>2, <1>4 DEF r

\* The first pending event, taken up: nothing is replaced by it, and it comes last in
\* the store.
LEMMA BatchStep ==
    ASSUME Types, At("project"), sync.todo # <<>>, NEW b \in Branches, Batch(b)
    PROVE  LET event == Head(sync.todo)
               rest == Tail(sync.todo)
               more == events \union {event}
           IN  /\ Upserted(event) = more
               /\ \A e \in events : Earlier(e, event)
               /\ EventsOf(b) = more \union {rest[i] : i \in 1 .. Len(rest)}
               /\ \A i \in 1 .. Len(rest) : \A e \in more : Earlier(e, rest[i])
               /\ \A i, j \in 1 .. Len(rest) : i < j => Earlier(rest[i], rest[j])
               /\ \A e \in more : Len(e.block) <= Len(event.block)
               /\ \A i \in 1 .. Len(rest) : Len(event.block) <= Len(rest[i].block)
<1> DEFINE q == sync.todo
           event == Head(q)
           rest == Tail(q)
           more == events \union {event}
<1>1. /\ q \in Seq(EventRecords) /\ Pending = q
  BY DEF Types, SyncRecords, Pending, At
<1>2. /\ Once(b) /\ EventsOf(b) = events \union {q[i] : i \in 1 .. Len(q)}
      /\ \A i \in 1 .. Len(q) : \A e \in events : Earlier(e, q[i])
      /\ \A i, j \in 1 .. Len(q) : i < j => Earlier(q[i], q[j])
  BY <1>1 DEF Batch
<1>3. /\ event = q[1] /\ 1 \in 1 .. Len(q) /\ Len(q) \in Nat
      /\ rest \in Seq(EventRecords) /\ Len(rest) = Len(q) - 1
      /\ \A i \in 1 .. Len(rest) : rest[i] = q[i + 1] /\ i + 1 \in 1 .. Len(q) /\ 1 < i + 1
      /\ {q[i] : i \in 1 .. Len(q)} = {q[1]} \union {rest[i] : i \in 1 .. Len(rest)}
  BY <1>1, Rest
<1> HIDE DEF q, event, rest
<1>4. EventsOf(b) = more \union {rest[i] : i \in 1 .. Len(rest)}
  BY <1>2, <1>3
<1>5. \A e \in events : Earlier(e, event)
  BY <1>2, <1>3
<1>6. \A i \in 1 .. Len(rest) : Earlier(event, rest[i])
  BY <1>2, <1>3
<1>7. \A i \in 1 .. Len(rest) : \A e \in more : Earlier(e, rest[i])
  BY <1>2, <1>3, <1>6
<1>8. ASSUME NEW i \in 1 .. Len(rest), NEW j \in 1 .. Len(rest), i < j
      PROVE  Earlier(rest[i], rest[j])
  <2>1. i + 1 < j + 1
    BY <1>8
  <2> QED BY <1>2, <1>3, <2>1
<1>9. \A e \in EventsOf(b) : Len(e.block) \in Nat
  BY InEventsOf, EventFacts
<1>10. \A e \in more : Len(e.block) <= Len(event.block)
  <2>1. \A e \in more : Len(e.block) \in Nat
    BY <1>4, <1>9
  <2> QED BY <1>5, <2>1 DEF Earlier
<1>11. ASSUME NEW i \in 1 .. Len(rest) PROVE Len(event.block) <= Len(rest[i].block)
  <2>1. Len(event.block) \in Nat /\ Len(rest[i].block) \in Nat
    BY <1>4, <1>9
  <2> QED BY <1>6, <2>1 DEF Earlier
<1>12. Upserted(event) = more
  <2>1. ASSUME NEW e \in events, e.tx = event.tx, e.index = event.index PROVE e = event
    <3>1. e \in EventsOf(b) /\ event \in EventsOf(b)
      BY <1>4
    <3> QED BY <1>2, <2>1, <3>1, EventsOfBranch
  <2> QED BY <2>1 DEF Upserted
<1> QED BY <1>4, <1>5, <1>7, <1>8, <1>10, <1>11, <1>12 DEF event, rest, q

LEMMA ProjectInv == IndexerInv /\ Project => IndexerInv'
<1> SUFFICES ASSUME IndexerInv, Project PROVE IndexerInv'
  OBVIOUS
<1> DEFINE q == sync.todo
           event == Head(q)
           rest == Tail(q)
<1>1. /\ At("project") /\ q # <<>>
      /\ events' = Upserted(event) /\ settlements' = Settled(settlements, event, FALSE)
      /\ epoch' = Projected(epoch, event) /\ sync' = [sync EXCEPT !.at = "mark"]
      /\ UNCHANGED <<headers, checkpoint, network, damaged, crashes>>
  BY DEF Project
<1>2. Types /\ sync \in SyncRecords /\ q \in Seq(EventRecords)
  BY DEF IndexerInv, Types, SyncRecords
<1>3. /\ \E h \in sync.headers : Len(h) = sync.to
      /\ \A i \in 1 .. Len(q) : IsEvent(q[i])
      /\ ~damaged => \E b \in sync.headers : Batch(b)
  BY <1>1 DEF IndexerInv, Ingest, Ingesting, At
<1>4. event = q[1] /\ 1 \in 1 .. Len(q)
  BY <1>1, <1>2, Rest
<1>5. IsEvent(event) /\ event.consumed \in Nat /\ event.block \in Branches
  BY <1>3, <1>4, EventFacts DEF EventRecords
<1>6. /\ sync' \in SyncRecords /\ sync'.at = "mark" /\ sync'.to = sync.to
      /\ sync'.headers = sync.headers /\ sync'.todo = q
  BY <1>1, <1>2 DEF SyncRecords, Places
<1> HIDE DEF event, rest, q
<1>7. IsEvents(events') /\ event \in events'
  <2>1. events' \subseteq events \union {event} /\ event \in events'
    BY <1>1 DEF Upserted
  <2>2. IsFiniteSet(events \union {event}) /\ \A e \in events : IsEvent(e)
    BY <1>2, FS_AddElement DEF Types, IsEvents
  <2> QED BY <1>5, <2>1, <2>2, FS_Subset DEF IsEvents
<1>8. epoch' \in Nat \union {None}
  BY <1>1, <1>2, <1>5 DEF Projected, Types
<1>9. /\ settlements' \in Records
      /\ \A t \in Trades : t # event.tx => settlements'[t] = settlements[t]
      /\ event.tx \in Trades =>
           /\ settlements'[event.tx].orphaned = FALSE
           /\ Half(event, settlements'[event.tx]) = event.block
           /\ \A f : IsEvent(f) /\ f.tx = event.tx /\ f.name # event.name
                       => Half(f, settlements'[event.tx]) = Half(f, settlements[event.tx])
  <2> DEFINE R == Settled(settlements, event, FALSE)
  <2>1. settlements \in Records /\ FALSE \in BOOLEAN
    BY <1>2 DEF Types
  <2>2. /\ R \in Records
        /\ \A t \in Trades : t # event.tx => R[t] = settlements[t]
        /\ event.tx \in Trades =>
             /\ R[event.tx].orphaned = FALSE /\ Half(event, R[event.tx]) = event.block
             /\ \A f : IsEvent(f) /\ f.tx = event.tx /\ f.name # event.name
                         => Half(f, R[event.tx]) = Half(f, settlements[event.tx])
    BY <1>5, <2>1, SettledOne
  <2>3. settlements' = R
    BY <1>1
  <2> HIDE DEF R
  <2> QED BY <2>2, <2>3
<1>10. Types'
  BY <1>1, <1>2, <1>6, <1>7, <1>8, <1>9 DEF Types, network
<1>11. WalkingDown' /\ Reading' /\ Store' /\ Ingesting' /\ At("mark")'
  BY <1>6 DEF WalkingDown, Reading, Store, Ingesting, At
<1>12. ASSUME ~damaged, NEW b \in sync.headers, Batch(b)
       PROVE  /\ events' = events \union {event} /\ \A e \in events : Earlier(e, event)
              /\ Once(b) /\ b \in Branches /\ events' \subseteq EventsOf(b)
              /\ Batch(b)'
  <2>1. b \in Branches
    BY <1>2 DEF SyncRecords
  <2> DEFINE more == events \union {event}
  <2>2. /\ Upserted(event) = more
        /\ \A e \in events : Earlier(e, event)
        /\ EventsOf(b) = more \union {rest[i] : i \in 1 .. Len(rest)}
        /\ \A i \in 1 .. Len(rest) : \A e \in more : Earlier(e, rest[i])
        /\ \A i, j \in 1 .. Len(rest) : i < j => Earlier(rest[i], rest[j])
        /\ \A e \in more : Len(e.block) <= Len(event.block)
        /\ \A i \in 1 .. Len(rest) : Len(event.block) <= Len(rest[i].block)
    BY <1>1, <1>2, <1>12, <2>1, BatchStep DEF event, rest, q
  <2>3. Pending' = rest /\ Reached' = Len(event.block)
    BY <1>6, <1>11 DEF Pending, Reached, rest, event
  <2>4. /\ Len(b) = sync.to /\ Once(b) /\ IsPrefix(checkpoint, b)
        /\ \A h \in sync.headers : IsPrefix(h, b)
        /\ \A h \in headers : Len(h) <= sync.to => IsPrefix(h, b)
    BY <1>12 DEF Batch
  <2> HIDE DEF more
  <2>5. Batch(b)'
    BY <1>1, <1>6, <2>2, <2>3, <2>4 DEF Batch
  <2> QED BY <1>1, <2>1, <2>2, <2>4, <2>5 DEF more
<1>13. Ingest'
  <2>1. /\ \E h \in sync'.headers : Len(h) = sync'.to
        /\ \A i \in 1 .. Len(sync'.todo) : IsEvent(sync'.todo[i])
        /\ sync'.todo # <<>> /\ Head(sync'.todo) \in events'
    BY <1>1, <1>3, <1>6, <1>7 DEF event
  <2>2. ~damaged' => \E b \in sync'.headers : Batch(b)'
    BY <1>1, <1>3, <1>6, <1>12
  <2> QED BY <2>1, <2>2 DEF Ingest
<1>14. ProjectionIsReplay'
  <2> SUFFICES ASSUME ~damaged' PROVE ProjectionIsReplay'
    BY DEF ProjectionIsReplay
  <2>1. ~damaged
    BY <1>1
  <2>2. PICK b \in sync.headers : Batch(b)
    BY <1>3, <2>1
  <2>3. /\ events' = events \union {event} /\ \A e \in events : Earlier(e, event)
        /\ Once(b) /\ b \in Branches /\ events' \subseteq EventsOf(b)
    BY <1>12, <2>1, <2>2
  <2>4. /\ epoch = ReplayedEpoch(events)
        /\ \A t \in Trades : TradeTold(settlements, events, t)
    BY <2>1 DEF IndexerInv, ProjectionIsReplay, TradeTold
  <2>5. epoch' = ReplayedEpoch(events')
    BY <1>1, <1>7, <2>3, <2>4, EpochOfMore
  <2>6. ASSUME NEW t \in Trades PROVE TradeTold(settlements', events', t)
    <3>1. CASE t # event.tx
      <4>1. settlements'[t] = settlements[t]
        BY <1>9, <3>1
      <4>2. {e \in events' : e.tx = t} = {e \in events : e.tx = t}
        BY <2>3, <3>1
      <4> QED BY <2>4, <4>1, <4>2 DEF TradeTold
    <3>2. CASE t = event.tx
      <4> DEFINE R == settlements'[t]
      <4>1. R.orphaned = FALSE
        BY <1>9, <3>2
      <4>2. ASSUME NEW e \in events', e.tx = t PROVE e.block = Half(e, R)
        <5>1. CASE e = event
          BY <1>9, <3>2, <5>1
        <5>2. CASE e # event
          <6>1. e \in events /\ e \in EventsOf(b) /\ event \in EventsOf(b)
            BY <1>7, <2>3, <5>2
          <6>2. e.name # event.name
            BY <2>3, <3>2, <4>2, <5>2, <6>1, EventsOfBranch
          <6>3. IsEvent(e)
            BY <1>2, <6>1 DEF Types, IsEvents
          <6>4. Half(e, R) = Half(e, settlements[t])
            BY <1>9, <3>2, <4>2, <6>2, <6>3
          <6>5. e.block = Half(e, settlements[t])
            BY <2>4, <4>2, <6>1 DEF TradeTold, Half
          <6> QED BY <6>4, <6>5
        <5> QED BY <5>1, <5>2
      <4>3. {e \in events' : e.tx = t} # {}
        BY <1>7, <3>2
      <4> QED BY <4>1, <4>2, <4>3 DEF TradeTold, Half
    <3> QED BY <3>1, <3>2
  <2> QED BY <2>5, <2>6 DEF ProjectionIsReplay, TradeTold
<1> QED BY <1>10, <1>11, <1>13, <1>14 DEF IndexerInv

LEMMA MarkInv == IndexerInv /\ Mark => IndexerInv'
<1> SUFFICES ASSUME IndexerInv, Mark PROVE IndexerInv'
  OBVIOUS
<1> DEFINE q == sync.todo
           event == Head(q)
           rest == Tail(q)
<1>1. /\ At("mark") /\ checkpoint' = event.block
      /\ sync' = [sync EXCEPT !.at = "project", !.todo = rest]
      /\ UNCHANGED <<events, headers, epoch, settlements, network, damaged, crashes>>
  BY DEF Mark
<1>2. Types /\ sync \in SyncRecords /\ q \in Seq(EventRecords)
  BY DEF IndexerInv, Types, SyncRecords
<1>3. /\ \E h \in sync.headers : Len(h) = sync.to
      /\ \A i \in 1 .. Len(q) : IsEvent(q[i])
      /\ q # <<>> /\ (~damaged => event \in events)
      /\ ~damaged => \E b \in sync.headers : Batch(b)
  BY <1>1 DEF IndexerInv, Ingest, Ingesting, At
<1>4. /\ event = q[1] /\ 1 \in 1 .. Len(q) /\ rest \in Seq(EventRecords)
      /\ \A i \in 1 .. Len(rest) : rest[i] = q[i + 1] /\ i + 1 \in 1 .. Len(q)
  BY <1>2, <1>3, Rest
<1>5. IsEvent(event) /\ event.block \in Branches
  BY <1>3, <1>4 DEF IsEvent
<1> HIDE DEF event, rest, q
<1>6. /\ sync' \in SyncRecords /\ sync'.at = "project" /\ sync'.to = sync.to
      /\ sync'.headers = sync.headers /\ sync'.todo = rest
  BY <1>1, <1>2, <1>4 DEF SyncRecords, Places
<1>7. Types'
  BY <1>1, <1>2, <1>5, <1>6 DEF Types, network
<1>8. WalkingDown' /\ Reading' /\ Store' /\ ~At("mark")'
  BY <1>6 DEF WalkingDown, Reading, Store, Ingesting, At
<1>9. ASSUME ~damaged, NEW b \in sync.headers, Batch(b) PROVE Batch(b)'
  <2>1. Pending = rest /\ Pending' = rest /\ Reached' = Reached
    BY <1>1, <1>6, <1>8 DEF Pending, Reached, rest, event, q
  <2>2. b \in Branches
    BY <1>2 DEF SyncRecords
  <2>3. IsPrefix(event.block, b)
    <3>1. event \in EventsOf(b)
      BY <1>3, <1>9 DEF Batch
    <3> QED BY <2>2, <3>1, InEventsOf
  <2>4. IsPrefix(checkpoint', b)
    BY <1>1, <2>3
  <2> QED BY <1>1, <1>6, <1>9, <2>1, <2>4 DEF Batch
<1>10. Ingest'
  <2>1. \A i \in 1 .. Len(rest) : IsEvent(rest[i])
    BY <1>3, <1>4
  <2>2. ~damaged' => \E b \in sync'.headers : Batch(b)'
    BY <1>1, <1>3, <1>6, <1>9
  <2> QED BY <1>3, <1>6, <1>8, <2>1, <2>2 DEF Ingest
<1>11. ProjectionIsReplay'
  BY <1>1 DEF IndexerInv, ProjectionIsReplay
<1> QED BY <1>7, <1>8, <1>10, <1>11 DEF IndexerInv

\* Where nothing is pending up to the checkpoint's block, the store is that of the
\* checkpoint's branch.
LEMMA WholeBlocks ==
    ASSUME Types, At("project"), NEW b \in Branches, NEW c \in Branches, Batch(b),
           IsPrefix(checkpoint, c), IsPrefix(c, b),
           \A e \in events : Len(e.block) <= Len(c),
           \A i \in 1 .. Len(sync.todo) : Len(c) < Len(sync.todo[i].block)
    PROVE  /\ events = EventsOf(c) /\ Once(c)
           /\ \A h \in headers : Len(h) <= Len(c) => IsPrefix(h, c)
<1>1. /\ Pending = sync.todo /\ headers \subseteq Branches
      /\ Len(b) \in Nat /\ Len(c) \in Nat /\ Len(c) <= Len(b)
  BY PrefixIs DEF Pending, At, Types, Branches
<1>2. /\ Len(b) = sync.to /\ Once(b)
      /\ \A h \in headers : Len(h) <= sync.to => IsPrefix(h, b)
      /\ EventsOf(b) = events \union {sync.todo[i] : i \in 1 .. Len(sync.todo)}
  BY <1>1 DEF Batch
<1>3. Once(c)
  BY <1>2, PrefixOnce
<1>4. ASSUME NEW h \in headers, Len(h) <= Len(c) PROVE IsPrefix(h, c)
  <2>1. h \in Branches /\ Len(h) \in Nat
    BY <1>1 DEF Branches
  <2>2. IsPrefix(h, b)
    BY <1>1, <1>2, <1>4, <2>1
  <2> QED BY <1>4, <2>1, <2>2, CommonBranch
<1>5. ASSUME NEW e \in events PROVE e \in EventsOf(c)
  <2>1. IsEvent(e) /\ IsPrefix(e.block, b) /\ e.block \in Branches
    <3>1. e \in EventsOf(b)
      BY <1>2
    <3> QED BY <3>1, InEventsOf DEF IsEvent
  <2>2. Len(e.block) <= Len(c)
    OBVIOUS
  <2>3. IsPrefix(e.block, c)
    BY <2>1, <2>2, CommonBranch
  <2> QED BY <2>1, <2>3, InEventsOf
<1>6. ASSUME NEW e \in EventsOf(c) PROVE e \in events
  <2>1. IsEvent(e) /\ IsPrefix(e.block, c) /\ e.block \in Branches
    BY InEventsOf DEF IsEvent
  <2>2. Len(e.block) <= Len(c) /\ Len(e.block) \in Nat
    BY <2>1, PrefixIs, EventFacts
  <2>3. e \in EventsOf(b)
    BY <2>1, CommonBranch, InEventsOf
  <2>4. ASSUME NEW i \in 1 .. Len(sync.todo), e = sync.todo[i] PROVE FALSE
    BY <1>1, <2>2, <2>4
  <2> QED BY <1>2, <2>3, <2>4
<1> QED BY <1>3, <1>4, <1>5, <1>6

LEMMA FinishInv == IndexerInv /\ Finish => IndexerInv'
<1> SUFFICES ASSUME IndexerInv, Finish PROVE IndexerInv'
  OBVIOUS
<1> DEFINE last == CHOOSE h \in sync.headers : Len(h) = sync.to
<1>1. /\ At("project") /\ sync.todo = <<>> /\ checkpoint' = last /\ Leave
      /\ UNCHANGED <<events, headers, epoch, settlements, network, damaged, crashes>>
  BY DEF Finish
<1>2. Types /\ sync \in SyncRecords
  BY DEF IndexerInv, Types
<1>3. /\ \E h \in sync.headers : Len(h) = sync.to
      /\ ~damaged => \E b \in sync.headers : Batch(b)
  BY <1>1 DEF IndexerInv, Ingest, Ingesting, At
<1>4. last \in sync.headers /\ Len(last) = sync.to
  BY <1>3
<1> HIDE DEF last
<1>5. last \in Branches
  BY <1>2, <1>4 DEF SyncRecords
<1>6. sync' \in SyncRecords /\ sync'.at = "idle"
  BY <1>1, IdleType DEF Leave, Idle
<1>7. Types'
  BY <1>1, <1>2, <1>5, <1>6 DEF Types, network
<1>8. WalkingDown' /\ Reading' /\ Ingest'
  BY <1>6 DEF WalkingDown, Reading, Ingest, Ingesting, At
<1>9. ASSUME ~damaged
      PROVE  /\ events = EventsOf(last) /\ Once(last)
             /\ \A h \in headers : Len(h) <= Len(last) => IsPrefix(h, last)
  <2>1. PICK b \in sync.headers : Batch(b)
    BY <1>3, <1>9
  <2>2. b \in Branches /\ Len(b) = sync.to /\ IsPrefix(last, b) /\ IsPrefix(checkpoint, b)
    BY <1>2, <1>4, <2>1 DEF Batch, SyncRecords
  <2>3. last = b /\ IsPrefix(b, b)
    BY <1>4, <1>5, <2>2, CommonBranch, PrefixOfAny
  <2>4. \A e \in events : Len(e.block) <= Len(b)
    <3>1. ASSUME NEW e \in events PROVE Len(e.block) <= Len(b)
      <4>1. e \in EventsOf(b)
        BY <2>1 DEF Batch
      <4>2. e.block \in Branches /\ IsPrefix(e.block, b)
        BY <2>2, <4>1, InEventsOf DEF IsEvent
      <4> QED BY <2>2, <4>2, PrefixIs
    <3> QED BY <3>1
  <2>5. \A i \in 1 .. Len(sync.todo) : Len(b) < Len(sync.todo[i].block)
    BY <1>1
  <2> QED BY <1>1, <1>2, <2>1, <2>2, <2>3, <2>4, <2>5, WholeBlocks
<1>10. Store'
  BY <1>1, <1>9 DEF Store
<1>11. ProjectionIsReplay'
  BY <1>1 DEF IndexerInv, ProjectionIsReplay
<1> QED BY <1>7, <1>8, <1>10, <1>11 DEF IndexerInv

LEMMA CrashInv == IndexerInv /\ Crash => IndexerInv'
<1> SUFFICES ASSUME IndexerInv, Crash PROVE IndexerInv'
  OBVIOUS
<1> DEFINE part == \/ At("mark")
                   \/ At("project") /\ sync.todo # <<>> /\ Head(sync.todo).block = checkpoint
<1>1. /\ crashes < CrashBound /\ crashes' = crashes + 1
      /\ Leave /\ UNCHANGED <<stored, network>>
  BY DEF Crash
<1>2. damaged' = (damaged \/ part)
  BY DEF Crash
<1>3. Types /\ damaged \in BOOLEAN
  BY DEF IndexerInv, Types
<1>4. damaged' \in BOOLEAN /\ (~damaged' => ~damaged /\ ~part)
  BY <1>2, <1>3
<1>5. sync' \in SyncRecords /\ sync'.at = "idle"
  BY <1>1, IdleType DEF Leave, Idle
<1>6. crashes' \in 0 .. CrashBound
  BY <1>1, <1>3, IndexerAssumption DEF Types
<1>7. Types'
  BY <1>1, <1>3, <1>4, <1>5, <1>6 DEF Types, stored, network
<1>8. WalkingDown' /\ Reading' /\ Ingest'
  BY <1>5 DEF WalkingDown, Reading, Ingest, Ingesting, At
<1>9. ProjectionIsReplay'
  BY <1>1, <1>4 DEF IndexerInv, ProjectionIsReplay, stored
<1>10. ASSUME ~damaged, ~part
       PROVE  /\ events = EventsOf(checkpoint) /\ Once(checkpoint)
              /\ \A h \in headers : Len(h) <= Len(checkpoint) => IsPrefix(h, checkpoint)
  <2>1. CASE ~Ingesting
    BY <1>10, <2>1 DEF IndexerInv, Store
  <2>2. CASE Ingesting
    <3> DEFINE q == sync.todo
    <3>1. At("project") /\ (q # <<>> => Head(q).block # checkpoint)
      BY <1>10, <2>2 DEF Ingesting, At
    <3>2. PICK b \in sync.headers : Batch(b)
      BY <1>10, <2>2 DEF IndexerInv, Ingest
    <3>3. b \in Branches /\ checkpoint \in Branches /\ q \in Seq(EventRecords)
      BY <1>3 DEF Types, SyncRecords
    <3>4. Pending = q /\ Reached = Len(checkpoint)
      BY <3>1 DEF Pending, Reached, At
    <3>5. /\ IsPrefix(checkpoint, b)
          /\ EventsOf(b) = events \union {q[i] : i \in 1 .. Len(q)}
          /\ \A i, j \in 1 .. Len(q) : i < j => Earlier(q[i], q[j])
          /\ \A e \in events : Len(e.block) <= Len(checkpoint)
          /\ \A i \in 1 .. Len(q) : Len(checkpoint) <= Len(q[i].block)
      BY <3>2, <3>4 DEF Batch
    <3>6. IsPrefix(checkpoint, checkpoint) /\ Len(checkpoint) \in Nat
      BY <3>3, PrefixOfAny DEF Branches
    <3>7. ASSUME NEW i \in 1 .. Len(q) PROVE Len(checkpoint) < Len(q[i].block)
      <4>1. q # <<>> /\ Head(q) = q[1] /\ 1 \in 1 .. Len(q) /\ i \in Nat /\ i >= 1
        BY <3>3
      <4> HIDE DEF q
      <4>2. q[1] \in EventsOf(b) /\ q[i] \in EventsOf(b)
        BY <3>5, <4>1
      <4>3. /\ q[1].block \in Branches /\ IsPrefix(q[1].block, b)
            /\ Len(q[1].block) \in Nat /\ Len(q[i].block) \in Nat
        BY <3>3, <4>2, InEventsOf, EventFacts
      <4>4. Len(checkpoint) # Len(q[1].block)
        <5>1. q[1].block # checkpoint
          BY <3>1, <4>1
        <5>2. Len(q[1].block) = Len(checkpoint) => q[1].block = checkpoint
          <6> SUFFICES ASSUME Len(q[1].block) = Len(checkpoint)
                       PROVE  q[1].block = checkpoint
            OBVIOUS
          <6>1. IsPrefix(q[1].block, checkpoint)
            BY <3>3, <3>5, <3>6, <4>3, CommonBranch
          <6> QED BY <3>3, <3>6, <4>3, <6>1, CommonBranch
        <5> QED BY <5>1, <5>2
      <4>5. Len(checkpoint) < Len(q[1].block)
        BY <3>5, <3>6, <4>1, <4>3, <4>4
      <4>6. Len(q[1].block) <= Len(q[i].block)
        <5>1. CASE i = 1
          BY <4>3, <5>1
        <5>2. CASE i # 1
          <6>1. Earlier(q[1], q[i])
            BY <3>5, <4>1, <5>2
          <6> QED BY <4>3, <6>1 DEF Earlier
        <5> QED BY <5>1, <5>2
      <4> QED BY <3>6, <4>3, <4>5, <4>6
    <3> QED BY <1>3, <3>1, <3>2, <3>3, <3>5, <3>6, <3>7, WholeBlocks
  <2> QED BY <2>1, <2>2
<1> HIDE DEF part
<1>11. Store'
  BY <1>1, <1>4, <1>10 DEF Store, stored
<1> QED BY <1>7, <1>8, <1>9, <1>11 DEF IndexerInv

----------------------------------------------------------------------------
(* The theorems.                                                           *)

LEMMA InitInv == Init => IndexerInv
<1> SUFFICES ASSUME Init PROVE IndexerInv
  OBVIOUS
<1> DEFINE first == [id |-> 1, tx |-> None]
<1>1. first \in Blocks
  <2>1. 1 \in 1 .. MaxBlocks
    BY IndexerAssumption
  <2> QED BY <2>1 DEF Blocks
<1> HIDE DEF first
<1>2. chain \in Branches /\ Once(chain) /\ made \in 1 .. MaxBlocks
  <2>1. chain = <<first>>
    BY DEF Init, first
  <2>2. <<first>> \in Branches /\ Len(<<first>>) = 1 /\ DOMAIN <<first>> = 1 .. 1
    BY <1>1 DEF Branches
  <2>3. Once(<<first>>)
    BY <2>2 DEF Once
  <2> QED BY <2>1, <2>2, <2>3, IndexerAssumption DEF Init
<1>3. settlements \in Records
  BY DEF Init, Records, Settlement
<1>4. events = {} /\ IsEvents({})
  BY FS_EmptySet DEF Init, IsEvents
<1>5. checkpoint = <<>> /\ checkpoint \in Branches /\ Once(checkpoint)
  BY DEF Init, Branches, Once
<1>6. EventsOf(<<>>) = {}
  <2>1. ASSUME NEW e \in EventsOf(<<>>) PROVE FALSE
    <3>1. <<>> \in Branches /\ Len(<<>>) = 0
      BY DEF Branches
    <3>2. IsEvent(e) /\ IsPrefix(e.block, <<>>)
      BY <3>1, InEventsOf
    <3>3. e.block \in Branches /\ Len(e.block) \in Nat \ {0}
      BY <3>2, EventFacts
    <3> QED BY <3>1, <3>2, <3>3, PrefixIs
  <2> QED BY <2>1
<1>7. sync = Idle /\ sync \in SyncRecords /\ sync.at = "idle"
  BY IdleType DEF Init, Idle
<1>8. Types
  <2>1. headers = {} /\ epoch = None /\ damaged = FALSE /\ crashes = 0
    BY DEF Init
  <2>2. 0 \in 0 .. CrashBound
    BY IndexerAssumption
  <2>3. IsEvents(events)
    BY <1>4
  <2> QED BY <1>2, <1>3, <1>5, <1>7, <2>1, <2>2, <2>3 DEF Types
<1>9. WalkingDown /\ Reading /\ Ingest
  BY <1>7 DEF WalkingDown, Reading, Ingest, Ingesting, At
<1>10. Store
  BY <1>4, <1>5, <1>6 DEF Store, Init
<1>11. ProjectionIsReplay
  <2>1. ReplayedEpoch({}) = None
    <3>1. Dated({})
      BY <1>4, IsEventsDated
    <3>2. ReplayedEpoch({}) = Fold("epoch", None, {})
      BY <3>1, EpochIsFold
    <3>3. Fold("epoch", None, {}) = None
      BY <3>1, FoldStep
    <3> QED BY <3>2, <3>3
  <2>2. epoch = None /\ \A t \in Trades : settlements[t].trade = None
    BY DEF Init
  <2> QED BY <1>4, <2>1, <2>2 DEF ProjectionIsReplay
<1> QED BY <1>8, <1>9, <1>10, <1>11 DEF IndexerInv

LEMMA NextInv == IndexerInv /\ [Next]_vars => IndexerInv'
<1> SUFFICES ASSUME IndexerInv, [Next]_vars PROVE IndexerInv'
  OBVIOUS
<1>1. CASE Start
  BY <1>1, StartInv
<1>2. CASE SyncStep
  BY <1>2, LatestInv, VerifyInv, WalkInv, ReadLogsInv, ReadHeaderInv, ProjectInv, MarkInv,
     FinishInv DEF SyncStep
<1>3. CASE Fail
  BY <1>3, FailInv
<1>4. CASE Crash
  BY <1>4, CrashInv
<1>5. CASE Mine
  BY <1>5, MineInv
<1>6. CASE Reorg
  BY <1>6, ReorgInv
<1>7. CASE UNCHANGED vars
  <2>1. UNCHANGED <<stored, network, sync, damaged, crashes>>
    BY <1>7 DEF vars
  <2>2. Types' /\ WalkingDown' /\ Reading'
    BY <2>1 DEF IndexerInv, Types, WalkingDown, Reading, At, Branch, stored, network
  <2>3. Ingest'
    BY <2>1 DEF IndexerInv, Ingest, Ingesting, At, stored, Batch, Pending, Reached
  <2>4. Store' /\ ProjectionIsReplay'
    BY <2>1 DEF IndexerInv, Store, ProjectionIsReplay, Ingesting, stored
  <2> QED BY <2>2, <2>3, <2>4 DEF IndexerInv
<1> QED BY <1>1, <1>2, <1>3, <1>4, <1>5, <1>6, <1>7 DEF Next

\* The inductive invariant holds in every state, however often sync is started, fails or is
\* cut off and however the chain grows and reorganizes in between.
THEOREM IndexerInvariant == Spec => []IndexerInv
BY InitInv, NextInv, PTL DEF Spec

\* Every table the projector writes, its checkpoint, and the chain it reads keep their types:
\* rollbackToBlock and rebuildProjectedState build nothing else.
THEOREM IndexerTypes == Spec => []TypeOK
<1>1. IndexerInv => TypeOK
  <2> SUFFICES ASSUME IndexerInv PROVE TypeOK
    OBVIOUS
  <2>1. Types
    BY DEF IndexerInv
  <2>2. \A e \in events : e.block \in Seq(Blocks) /\ e.tx \in Transactions
    BY <2>1, EventFacts DEF Types, IsEvents, EventRecords, Branches
  <2> QED BY <2>1, <2>2 DEF TypeOK, Types, SyncRecords, Places, Branches
<1> QED BY <1>1, IndexerInvariant, PTL

\* For any number of trades, blocks, confirmations and crashes, the events stored between
\* two batches are exactly those of the branch the checkpoint names: sync's walk to the
\* common ancestor, its rollback and its batches lose and keep no event wrongly.
THEOREM IndexFollowsChain == Spec => []IndexMatchesChain
<1>1. IndexerInv => IndexMatchesChain
  BY DEF IndexerInv, Store, IndexMatchesChain
<1> QED BY <1>1, IndexerInvariant, PTL

\* Likewise the derived tables are what rebuildProjectedState would make of the stored
\* events: projecting them one by one, over any number of batches, and rolling back agree.
THEOREM IndexIsReplay == Spec => []ProjectionIsReplay
<1>1. IndexerInv => ProjectionIsReplay
  BY DEF IndexerInv
<1> QED BY <1>1, IndexerInvariant, PTL

----------------------------------------------------------------------------
(* The end of sync.                                                        *)

\* How far sync is from its end: a stage, where a checkpoint that is not canonical costs a
\* walk, a rollback and a second start, and what is left of a stage of several steps.
Stage ==
    CASE At("idle") -> 0
      [] Ingesting -> 1
      [] At("header") -> 2
      [] At("logs") -> 3
      [] At("verify") -> IF Canonical(checkpoint) THEN 4 ELSE 7
      [] At("latest") -> IF Canonical(checkpoint) THEN 5 ELSE 8
      [] At("walk") -> 6
Left ==
    CASE At("header") -> sync.to - sync.next
      [] At("project") -> 2 * Len(sync.todo) + 1
      [] At("mark") -> 2 * Len(sync.todo)
      [] At("walk") -> sync.next + 1
      [] OTHER -> 0

\* A step goes to a lower stage, or leaves less of the same one.
Descends ==
    /\ Stage \in 0 .. 8 /\ Left \in Nat /\ Left' \in Nat
    /\ \/ Stage' < Stage
       \/ Stage' = Stage /\ Left' < Left

LEMMA StageAndLeft ==
    ASSUME IndexerInv
    PROVE  Stage \in 0 .. 8 /\ Left \in Nat
<1>1. /\ sync.at \in Places /\ sync.to \in Int /\ sync.next \in Int
      /\ Len(sync.todo) \in Nat
  BY DEF IndexerInv, Types, SyncRecords
<1>2. Stage \in 0 .. 8
  BY <1>1 DEF Stage, At, Ingesting, Places
<1>3. At("header") => sync.to - sync.next \in Nat
  BY <1>1 DEF IndexerInv, Reading
<1>4. At("walk") => sync.next + 1 \in Nat
  BY <1>1 DEF IndexerInv, WalkingDown
<1>5. Left \in Nat
  BY <1>1, <1>3, <1>4 DEF Left
<1> QED BY <1>2, <1>5

\* sync that ends has nothing left.
LEMMA LeaveDescends ==
    ASSUME IndexerInv, Leave, ~At("idle")
    PROVE  Descends
<1>1. sync'.at = "idle"
  BY DEF Leave, Idle
<1>2. Stage' = 0 /\ Left' = 0
  BY <1>1 DEF Stage, Left, At, Ingesting
<1>3. Stage # 0
  BY DEF IndexerInv, Types, SyncRecords, Places, Stage, At, Ingesting
<1> QED BY <1>2, <1>3, StageAndLeft DEF Descends

\* Before anything is read.
LEMMA StartDescends ==
    ASSUME IndexerInv, Latest \/ Verify
    PROVE  Descends
<1>1. CASE Leave
  BY <1>1, LeaveDescends DEF Latest, Verify, At
<1>2. CASE Latest /\ ~Leave
  <2>1. /\ At("latest") /\ checkpoint' = checkpoint /\ chain' = chain
        /\ sync'.at = "logs" \/ sync'.at = "verify"
    BY <1>2 DEF Latest, stored, network, IndexerInv, Types, SyncRecords
  <2>2. Canonical(checkpoint)' <=> Canonical(checkpoint)
    BY <2>1 DEF Canonical
  <2>3. Stage' < Stage /\ Left' = 0
    BY <2>1, <2>2 DEF Stage, Left, At, Ingesting
  <2> QED BY <2>3, StageAndLeft DEF Descends
<1>3. CASE Verify /\ ~Leave
  <2>1. /\ At("verify") /\ sync \in SyncRecords /\ Len(checkpoint) \in Nat
        /\ \/ Canonical(checkpoint) /\ sync'.at = "logs"
           \/ ~Canonical(checkpoint) /\ sync' = [sync EXCEPT !.at = "walk",
                                                             !.next = Len(checkpoint) - 1]
    <3>1. sync \in SyncRecords /\ Len(checkpoint) \in Nat
      BY DEF IndexerInv, Types, Branches
    <3> QED BY <1>3, <3>1 DEF Verify, SyncRecords
  <2>2. CASE Canonical(checkpoint) /\ sync'.at = "logs"
    <3>1. Stage' < Stage /\ Left' = 0
      BY <2>1, <2>2 DEF Stage, Left, At, Ingesting
    <3> QED BY <3>1, StageAndLeft DEF Descends
  <2>3. CASE ~Canonical(checkpoint) /\ sync' = [sync EXCEPT !.at = "walk",
                                                            !.next = Len(checkpoint) - 1]
    <3> DEFINE below == Len(checkpoint) - 1
    <3>1. below + 1 \in Nat
      BY <2>1
    <3>2. sync'.at = "walk" /\ sync'.next = below
      BY <2>1, <2>3 DEF SyncRecords
    <3> HIDE DEF below
    <3>3. Stage' < Stage /\ Left' \in Nat
      BY <2>1, <2>3, <3>1, <3>2 DEF Stage, Left, At, Ingesting
    <3> QED BY <3>3, StageAndLeft DEF Descends
  <2> QED BY <2>1, <2>2, <2>3
<1> QED BY <1>1, <1>2, <1>3

\* The walk goes down, and ends in a checkpoint that is canonical.
LEMMA WalkDescends ==
    ASSUME IndexerInv, Walk
    PROVE  Descends
<1> DEFINE lower == {h \in headers : Len(h) <= sync.next}
           candidate == CHOOSE h \in lower : \A k \in lower : Len(k) <= Len(h)
<1>1. /\ At("walk") /\ chain' = chain /\ sync \in SyncRecords /\ sync.next \in Int
      /\ headers \subseteq Branches /\ chain \in Branches
  BY DEF Walk, network, IndexerInv, Types, SyncRecords
<1>2. lower # {} => Len(candidate) <= sync.next /\ Len(candidate) \in Nat
  <2> SUFFICES ASSUME lower # {} PROVE candidate \in lower /\ Len(candidate) \in Nat
    OBVIOUS
  <2>1. lower \in SUBSET Branches /\ \A h \in lower : Len(h) <= sync.next
    BY <1>1
  <2> HIDE DEF lower
  <2>2. \E h \in lower : \A k \in lower : Len(k) <= Len(h)
    BY <1>1, <2>1, HighestHeader
  <2>3. candidate \in lower
    BY <2>2
  <2> HIDE DEF candidate
  <2> QED BY <2>1, <2>3 DEF Branches
<1>3. \/ /\ \/ lower = {} /\ checkpoint' = <<>>
            \/ Canonical(candidate) /\ checkpoint' = candidate
         /\ sync' = [Idle EXCEPT !.at = "latest"]
      \/ lower # {} /\ sync' = [sync EXCEPT !.next = Len(candidate) - 1]
  BY DEF Walk, RollbackTo
<1>4. IsPrefix(<<>>, chain)
  BY <1>1, PrefixOfAny
<1> HIDE DEF lower, candidate
<1>5. CASE /\ \/ lower = {} /\ checkpoint' = <<>>
              \/ Canonical(candidate) /\ checkpoint' = candidate
           /\ sync' = [Idle EXCEPT !.at = "latest"]
  <2>1. Canonical(checkpoint)'
    BY <1>1, <1>4, <1>5 DEF Canonical
  <2>2. sync'.at = "latest"
    BY <1>5 DEF Idle
  <2>3. Stage' < Stage /\ Left' = 0
    BY <1>1, <2>1, <2>2 DEF Stage, Left, At, Ingesting
  <2> QED BY <2>3, StageAndLeft DEF Descends
<1>6. CASE lower # {} /\ sync' = [sync EXCEPT !.next = Len(candidate) - 1]
  <2> DEFINE below == Len(candidate) - 1
  <2>1. below + 1 \in Nat /\ below < sync.next /\ below \in Int
    BY <1>1, <1>2, <1>6
  <2>2. sync'.at = "walk" /\ sync'.next = below
    BY <1>1, <1>6 DEF SyncRecords, At
  <2> HIDE DEF below
  <2>3. Stage' = Stage /\ Left' \in Nat /\ Left' < Left
    BY <1>1, <2>1, <2>2 DEF Stage, Left, At, Ingesting
  <2> QED BY <2>3, StageAndLeft DEF Descends
<1> QED BY <1>3, <1>5, <1>6

\* The range is read block by block.
LEMMA ReadDescends ==
    ASSUME IndexerInv, ReadLogs \/ ReadHeader
    PROVE  Descends
<1>1. /\ sync \in SyncRecords /\ sync.to \in Int /\ sync.next \in Int
      /\ Len(checkpoint) \in Nat
      /\ At("logs") => Len(checkpoint) + 1 <= sync.to
  BY DEF IndexerInv, Types, SyncRecords, Branches, Reading, At
<1>2. CASE ReadLogs
  <2> DEFINE from == Len(checkpoint) + 1
  <2>1. At("logs") /\ from <= sync.to /\ from \in Int
    BY <1>1, <1>2 DEF ReadLogs
  <2>2. sync'.at = "header" /\ sync'.next = from /\ sync'.to = sync.to
    BY <1>1, <1>2 DEF ReadLogs, SyncRecords
  <2> HIDE DEF from
  <2>3. Stage' < Stage /\ Left' \in Nat
    BY <1>1, <2>1, <2>2 DEF Stage, Left, At, Ingesting
  <2> QED BY <2>3, StageAndLeft DEF Descends
<1>3. CASE ReadHeader /\ Leave
  BY <1>3, LeaveDescends DEF ReadHeader, At
<1>4. CASE ReadHeader /\ ~Leave
  <2> DEFINE q == InOrder(sync.logs)
             read == sync.headers \union {Branch(sync.next)}
             further == sync.next + 1
  <2>1. /\ At("header")
        /\ \/ sync.next < sync.to /\ sync' = [sync EXCEPT !.next = further, !.headers = read]
           \/ sync' = [sync EXCEPT !.headers = read, !.todo = q, !.logs = {},
                                   !.at = "project"]
    BY <1>4 DEF ReadHeader
  <2>2. IsEvents(sync.logs)
    BY <2>1 DEF IndexerInv, Reading
  <2>3. Len(q) \in Nat
    BY <2>2, SortedEvents DEF Lists
  <2>4. further \in Int /\ further = sync.next + 1
    BY <1>1
  <2> HIDE DEF q, read, further
  <2>5. CASE sync.next < sync.to /\ sync' = [sync EXCEPT !.next = further, !.headers = read]
    <3>1. sync'.at = "header" /\ sync'.next = further /\ sync'.to = sync.to
      BY <1>1, <2>1, <2>5 DEF SyncRecords, At
    <3>2. Stage' = Stage /\ Left' \in Nat /\ Left' < Left
      BY <1>1, <2>1, <2>4, <2>5, <3>1 DEF Stage, Left, At, Ingesting
    <3> QED BY <3>2, StageAndLeft DEF Descends
  <2>6. CASE sync' = [sync EXCEPT !.headers = read, !.todo = q, !.logs = {}, !.at = "project"]
    <3>1. sync'.at = "project" /\ sync'.todo = q
      BY <1>1, <2>6 DEF SyncRecords
    <3>2. Stage' < Stage /\ Left' \in Nat
      BY <2>1, <2>3, <3>1 DEF Stage, Left, At, Ingesting
    <3> QED BY <3>2, StageAndLeft DEF Descends
  <2> QED BY <2>1, <2>5, <2>6
<1> QED BY <1>2, <1>3, <1>4

\* The batch is stored event by event.
LEMMA IngestDescends ==
    ASSUME IndexerInv, Project \/ Mark \/ Finish
    PROVE  Descends
<1> DEFINE q == sync.todo
           rest == Tail(q)
<1>1. sync \in SyncRecords /\ q \in Seq(EventRecords) /\ Len(q) \in Nat
  BY DEF IndexerInv, Types, SyncRecords
<1>2. CASE Finish
  BY <1>2, LeaveDescends DEF Finish, At
<1>3. CASE Project
  <2>1. At("project") /\ sync'.at = "mark" /\ sync'.todo = q
    BY <1>1, <1>3 DEF Project, SyncRecords
  <2> HIDE DEF q
  <2>2. sync.todo = q
    BY DEF q
  <2>3. Stage' = Stage /\ Left' \in Nat /\ Left' < Left
    BY <1>1, <2>1, <2>2 DEF Stage, Left, At, Ingesting
  <2> QED BY <2>3, StageAndLeft DEF Descends
<1>4. CASE Mark
  <2>1. At("mark") /\ q # <<>>
    BY <1>4 DEF Mark, IndexerInv, Ingest, Ingesting, At
  <2>2. sync'.at = "project" /\ sync'.todo = rest
    BY <1>1, <1>4 DEF Mark, SyncRecords
  <2>3. Len(rest) = Len(q) - 1 /\ Len(rest) \in Nat
    BY <1>1, <2>1, Rest
  <2> HIDE DEF q, rest
  <2>4. sync.todo = q
    BY DEF q
  <2>5. Stage' = Stage /\ Left' \in Nat /\ Left' < Left
    BY <1>1, <2>1, <2>2, <2>3, <2>4 DEF Stage, Left, At, Ingesting
  <2> QED BY <2>5, StageAndLeft DEF Descends
<1> QED BY <1>2, <1>3, <1>4

\* Every answered call brings sync nearer to its end, by a measure that cannot fall for
\* ever; a block that is mined meanwhile takes it no further away, so that only a
\* reorganization can make it walk back and start again.  This is what SyncEnds rests on.
THEOREM SyncDescends ==
    Spec => [][/\ SyncStep => Descends
               /\ Mine => Stage' <= Stage /\ Left' = Left]_vars
<1>1. ASSUME IndexerInv, SyncStep PROVE Descends
  BY <1>1, StartDescends, WalkDescends, ReadDescends, IngestDescends DEF SyncStep
<1>2. ASSUME IndexerInv, Mine PROVE Stage' <= Stage /\ Left' = Left
  <2>1. /\ sync' = sync /\ checkpoint' = checkpoint
        /\ chain \in Branches /\ chain' \in Branches /\ IsPrefix(chain, chain')
        /\ checkpoint \in Branches
    <3>1. chain \in Branches /\ Once(chain) /\ made \in 1 .. MaxBlocks
          /\ checkpoint \in Branches
      BY <1>2 DEF IndexerInv, Types
    <3> QED BY <1>2, <3>1, ExtendedOK DEF Mine, stored
  <2>2. Canonical(checkpoint) => Canonical(checkpoint)'
    BY <2>1, CommonBranch DEF Canonical
  <2>3. sync.at \in Places
    BY <1>2 DEF IndexerInv, Types, SyncRecords
  <2>4. Left' = Left
    BY <2>1 DEF Left, At
  <2>5. Stage' <= Stage
    BY <2>1, <2>2, <2>3 DEF Stage, At, Ingesting, Places
  <2> QED BY <2>4, <2>5
<1> QED BY <1>1, <1>2, IndexerInvariant, PTL

=============================================================================
