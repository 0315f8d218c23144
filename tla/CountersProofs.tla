----------------------------- MODULE CountersProofs -----------------------------
(***************************************************************************)
(* Proofs about Counters, for any number of connections, batches, samples  *)
(* and snapshots: the aggregates, the rate samples and the snapshots add   *)
(* up.  The first part is about sums over a finite set.                    *)
(***************************************************************************)
EXTENDS Counters, TLAPS, FiniteSetTheorems, WellFoundedInduction

-----------------------------------------------------------------------------
(* Sums.  SumFunction folds over the subsets of the domain, taking one     *)
(* element at a time.                                                      *)

Less == {ss \in Nat \X Nat : ss[1] < ss[2]}

\* A set of numbers has a least one.
LEMMA LeastNat ==
    ASSUME NEW T, T \subseteq Nat, T # {}
    PROVE  \E x \in T : \A y \in T : x <= y
<1>1. IsWellFoundedOn(Less, Nat)
  BY NatLessThanWellFounded DEF OpToRel, Less
<1>2. PICK x \in T : \A y \in T : ~(<<y, x>> \in Less)
  BY <1>1, WFMin
<1>3. ASSUME NEW y \in T PROVE x <= y
  <2>1. x \in Nat /\ y \in Nat
    OBVIOUS
  <2>2. ~(<<y, x>> \in Less)
    BY <1>2
  <2> QED
    BY <2>1, <2>2 DEF Less
<1> QED
  BY <1>2, <1>3

\* The element that the fold takes next.
Pick(s) == CHOOSE x \in s : TRUE

\* A set without its next element is smaller.
LEMMA PickFacts ==
    ASSUME NEW S, IsFiniteSet(S), NEW s \in SUBSET S, s # {}
    PROVE  /\ Pick(s) \in s
           /\ s \ {Pick(s)} \in SUBSET S
           /\ Cardinality(s) \in Nat /\ Cardinality(s \ {Pick(s)}) \in Nat
           /\ Cardinality(s \ {Pick(s)}) = Cardinality(s) - 1
<1>1. Pick(s) \in s
  BY DEF Pick
<1>2. IsFiniteSet(s) /\ IsFiniteSet(s \ {Pick(s)})
  BY FS_Subset, FS_RemoveElement
<1>3. Cardinality(s \ {Pick(s)}) = Cardinality(s) - 1
  BY <1>1, <1>2, FS_RemoveElement
<1> QED
  BY <1>1, <1>2, <1>3, FS_CardinalityType

\* The sets of a collection in which none smaller is.
LEMMA SmallestSet ==
    ASSUME NEW S, IsFiniteSet(S), NEW B, B \subseteq SUBSET S, B # {}
    PROVE  \E s \in B : \A t \in B : Cardinality(s) <= Cardinality(t)
<1> DEFINE N == {Cardinality(s) : s \in B}
<1>1. N \subseteq Nat
  BY FS_Subset, FS_CardinalityType
<1>2. PICK n \in N : \A m \in N : n <= m
  <2> HIDE DEF N
  <2>1. N # {}
    BY DEF N
  <2> QED
    BY <1>1, <2>1, LeastNat
<1>3. PICK s \in B : n = Cardinality(s)
  BY <1>2
<1> QED
  BY <1>2, <1>3

\* Induction over the subsets: in a collection that does not hold the empty set
\* there is one that holds no more once its next element is taken.
LEMMA FoldInduction ==
    ASSUME NEW S, IsFiniteSet(S), NEW B, B \subseteq SUBSET S, {} \notin B, B # {}
    PROVE  \E s \in B : /\ s # {} /\ Pick(s) \in s /\ Pick(s) \in S
                        /\ s \ {Pick(s)} \in SUBSET S
                        /\ s \ {Pick(s)} \notin B
<1>1. PICK s \in B : \A t \in B : Cardinality(s) <= Cardinality(t)
  BY SmallestSet
<1>2. s \in SUBSET S /\ s # {}
  OBVIOUS
<1>3. /\ Pick(s) \in s /\ s \ {Pick(s)} \in SUBSET S
      /\ Cardinality(s) \in Nat
      /\ Cardinality(s \ {Pick(s)}) = Cardinality(s) - 1
  BY <1>2, PickFacts
<1>4. s \ {Pick(s)} \notin B
  BY <1>1, <1>3
<1> QED
  BY <1>2, <1>3, <1>4

\* g is the fold of f on the sets of the collection D.
Folds(g, f, D) ==
    \A s \in D : g[s] = IF s = {} THEN 0 ELSE f[Pick(s)] + g[s \ {Pick(s)}]

\* What it starts from and how it goes on.
LEMMA FoldBase ==
    ASSUME NEW S, NEW f, NEW g, Folds(g, f, SUBSET S)
    PROVE  g[{}] = 0
<1>1. {} \in SUBSET S
  OBVIOUS
<1> QED
  BY <1>1 DEF Folds

\* A fold over a set that is not empty, unfolded by one element.
LEMMA FoldStep ==
    ASSUME NEW S, NEW f, NEW g, Folds(g, f, SUBSET S), NEW s \in SUBSET S, s # {}
    PROVE  g[s] = f[Pick(s)] + g[s \ {Pick(s)}]
  BY DEF Folds

\* The subsets with at most n elements.
UpTo(S, n) == {s \in SUBSET S : Cardinality(s) <= n}

\* The fold can be extended from the sets of n elements to those of one more.
LEMMA FoldExtends ==
    ASSUME NEW S, IsFiniteSet(S), NEW f \in [S -> Nat], NEW n \in Nat,
           NEW g \in [UpTo(S, n) -> Nat], Folds(g, f, UpTo(S, n))
    PROVE  \E h \in [UpTo(S, n + 1) -> Nat] : Folds(h, f, UpTo(S, n + 1))
<1> DEFINE h == [s \in UpTo(S, n + 1) |->
                    IF s \in UpTo(S, n) THEN g[s] ELSE f[Pick(s)] + g[s \ {Pick(s)}]]
<1>1. {} \in UpTo(S, n)
  BY FS_EmptySet DEF UpTo
<1>2. ASSUME NEW s \in UpTo(S, n + 1), s # {}
      PROVE  Pick(s) \in S /\ s \ {Pick(s)} \in UpTo(S, n)
  BY <1>2, PickFacts DEF UpTo
<1>3. UpTo(S, n) \subseteq UpTo(S, n + 1)
  <2>1. ASSUME NEW s \in UpTo(S, n) PROVE Cardinality(s) <= n + 1 /\ s \in SUBSET S
    <3>1. Cardinality(s) \in Nat
      BY FS_Subset, FS_CardinalityType DEF UpTo
    <3> QED
      BY <3>1 DEF UpTo
  <2> QED
    BY <2>1 DEF UpTo
<1>4. h \in [UpTo(S, n + 1) -> Nat]
  <2>1. ASSUME NEW s \in UpTo(S, n + 1) PROVE h[s] \in Nat
    <3>1. CASE s \in UpTo(S, n)
      BY <3>1
    <3>2. CASE s \notin UpTo(S, n)
      <4>1. f[Pick(s)] \in Nat /\ g[s \ {Pick(s)}] \in Nat
        BY <3>2, <1>1, <1>2
      <4>2. h[s] = f[Pick(s)] + g[s \ {Pick(s)}]
        BY <3>2
      <4> QED
        BY <4>1, <4>2
    <3> QED
      BY <3>1, <3>2
  <2> QED
    BY <2>1
<1>5. ASSUME NEW s \in UpTo(S, n + 1)
      PROVE  h[s] = IF s = {} THEN 0 ELSE f[Pick(s)] + h[s \ {Pick(s)}]
  <2>1. CASE s = {}
    BY <2>1, <1>1, <1>3 DEF Folds
  <2>2. CASE s # {}
    <3> DEFINE t == s \ {Pick(s)}
    <3>1. t \in UpTo(S, n)
      BY <2>2, <1>2
    <3>2. h[t] = g[t]
      BY <3>1, <1>3
    <3>3. h[s] = f[Pick(s)] + g[t]
      BY <2>2 DEF Folds
    <3> QED
      BY <2>2, <3>2, <3>3
  <2> QED
    BY <2>1, <2>2
<1> HIDE DEF h
<1> QED
  BY <1>4, <1>5 DEF Folds

\* So it exists on all of them.
LEMMA FoldExists ==
    ASSUME NEW S, IsFiniteSet(S), NEW f \in [S -> Nat]
    PROVE  \E g \in [SUBSET S -> Nat] : Folds(g, f, SUBSET S)
<1> DEFINE Lacking == {n \in Nat : ~\E g \in [UpTo(S, n) -> Nat] : Folds(g, f, UpTo(S, n))}
<1>1. Lacking = {}
  <2> SUFFICES ASSUME Lacking # {} PROVE FALSE
    OBVIOUS
  <2>1. PICK n \in Lacking : \A m \in Lacking : n <= m
    <3>1. Lacking \subseteq Nat
      OBVIOUS
    <3> HIDE DEF Lacking
    <3> QED
      BY <3>1, LeastNat
  <2>2. CASE n = 0
    <3> DEFINE g == [s \in UpTo(S, 0) |-> 0]
    <3>1. ASSUME NEW s \in UpTo(S, 0) PROVE s = {}
      <4>1. IsFiniteSet(s) /\ Cardinality(s) \in Nat /\ Cardinality(s) <= 0
        BY FS_Subset, FS_CardinalityType DEF UpTo
      <4>2. Cardinality(s) = 0
        BY <4>1
      <4> QED
        BY <4>1, <4>2, FS_EmptySet
    <3>2. g \in [UpTo(S, 0) -> Nat] /\ Folds(g, f, UpTo(S, 0))
      BY <3>1 DEF Folds
    <3> QED
      BY <2>2, <3>2
  <2>3. CASE n # 0
    <3>1. n - 1 \in Nat /\ n - 1 \notin Lacking /\ (n - 1) + 1 = n
      BY <2>1, <2>3
    <3>2. PICK g \in [UpTo(S, n - 1) -> Nat] : Folds(g, f, UpTo(S, n - 1))
      BY <3>1
    <3>3. \E h \in [UpTo(S, (n - 1) + 1) -> Nat] : Folds(h, f, UpTo(S, (n - 1) + 1))
      <4> HIDE DEF Lacking
      <4> QED
        BY <3>1, <3>2, FoldExtends
    <3> QED
      BY <3>1, <3>3
  <2> QED
    BY <2>2, <2>3
<1>2. Cardinality(S) \in Nat
  BY FS_CardinalityType
<1>3. UpTo(S, Cardinality(S)) = SUBSET S
  BY FS_Subset DEF UpTo
<1>4. Cardinality(S) \notin Lacking
  <2> HIDE DEF Lacking
  <2> QED
    BY <1>1
<1>5. \E g \in [UpTo(S, Cardinality(S)) -> Nat] : Folds(g, f, UpTo(S, Cardinality(S)))
  BY <1>2, <1>4
<1> QED
  BY <1>3, <1>5

\* The sum is the fold's value for the whole domain.
LEMMA SumIsFold ==
    ASSUME NEW S, IsFiniteSet(S), NEW f \in [S -> Nat]
    PROVE  \E g \in [SUBSET S -> Nat] : Folds(g, f, SUBSET S) /\ SumFunction(f) = g[S]
<1> DEFINE Body(g) == [s \in SUBSET S |-> IF s = {} THEN 0 ELSE f[Pick(s)] + g[s \ {Pick(s)}]]
           iter == CHOOSE g : g = Body(g)
<1>1. \E g : g = Body(g)
  <2>1. PICK g \in [SUBSET S -> Nat] : Folds(g, f, SUBSET S)
    BY FoldExists
  <2>2. g = Body(g)
    BY <2>1 DEF Folds
  <2> QED
    BY <2>2
<1>2. iter = Body(iter)
  BY <1>1
<1>3. SumFunction(f) = iter[S]
  BY DEF SumFunction, SumFunctionOnSet, FoldFunctionOnSet, MapThenFoldSet, Pick
<1> HIDE DEF iter
<1>4. Folds(iter, f, SUBSET S)
  <2>1. ASSUME NEW s \in SUBSET S
        PROVE  iter[s] = IF s = {} THEN 0 ELSE f[Pick(s)] + iter[s \ {Pick(s)}]
    <3>1. Body(iter)[s] = IF s = {} THEN 0 ELSE f[Pick(s)] + iter[s \ {Pick(s)}]
      OBVIOUS
    <3> HIDE DEF Body
    <3> QED
      BY <1>2, <3>1
  <2> QED
    BY <2>1 DEF Folds
<1>5. \A s \in SUBSET S : iter[s] \in Nat
  <2> DEFINE Bad == {s \in SUBSET S : iter[s] \notin Nat}
  <2> SUFFICES ASSUME Bad # {} PROVE FALSE
    OBVIOUS
  <2>1. {} \notin Bad
    BY <1>4, FoldBase
  <2>2. PICK s \in Bad : /\ s # {} /\ Pick(s) \in S
                         /\ s \ {Pick(s)} \in SUBSET S /\ s \ {Pick(s)} \notin Bad
    <3>1. Bad \subseteq SUBSET S
      OBVIOUS
    <3> HIDE DEF Bad
    <3> QED
      BY <2>1, <3>1, FoldInduction
  <2>3. iter[s \ {Pick(s)}] \in Nat /\ f[Pick(s)] \in Nat
    BY <2>2
  <2>4. iter[s] = f[Pick(s)] + iter[s \ {Pick(s)}]
    <3>1. s \in SUBSET S /\ s # {}
      BY <2>2
    <3> HIDE DEF Bad, Body
    <3> QED
      BY <1>4, <3>1 DEF Folds
  <2> QED
    BY <2>3, <2>4
<1>6. iter = [s \in SUBSET S |-> iter[s]]
  <2>1. Body(iter) = [s \in SUBSET S |-> Body(iter)[s]]
    OBVIOUS
  <2> HIDE DEF Body
  <2> QED
    BY <1>2, <2>1
<1>7. iter \in [SUBSET S -> Nat]
  BY <1>5, <1>6
<1> QED
  BY <1>3, <1>4, <1>7

\* A sum of numbers is a number.
LEMMA SumType ==
    ASSUME NEW S, IsFiniteSet(S), NEW f \in [S -> Nat]
    PROVE  SumFunction(f) \in Nat
<1>1. PICK g \in [SUBSET S -> Nat] : SumFunction(f) = g[S]
  BY SumIsFold
<1> QED
  BY <1>1

\* A sum of zeros is zero.
LEMMA SumZero ==
    ASSUME NEW S, IsFiniteSet(S)
    PROVE  SumFunction([c \in S |-> 0]) = 0
<1> DEFINE f == [c \in S |-> 0]
<1>1. f \in [S -> Nat]
  OBVIOUS
<1>2. PICK g \in [SUBSET S -> Nat] : Folds(g, f, SUBSET S) /\ SumFunction(f) = g[S]
  <2> HIDE DEF f
  <2> QED
    BY <1>1, SumIsFold
<1> DEFINE Bad == {s \in SUBSET S : g[s] # 0}
<1>3. Bad = {}
  <2> SUFFICES ASSUME Bad # {} PROVE FALSE
    OBVIOUS
  <2>1. {} \notin Bad
    BY <1>2, FoldBase
  <2>2. PICK s \in Bad : /\ s # {} /\ Pick(s) \in S
                         /\ s \ {Pick(s)} \in SUBSET S /\ s \ {Pick(s)} \notin Bad
    <3>1. Bad \subseteq SUBSET S
      OBVIOUS
    <3> HIDE DEF Bad
    <3> QED
      BY <2>1, <3>1, FoldInduction
  <2>3. g[s] = f[Pick(s)] + g[s \ {Pick(s)}]
    BY <1>2, <2>2, FoldStep
  <2> QED
    BY <2>2, <2>3
<1>4. g[S] = 0
  BY <1>3
<1> QED
  BY <1>2, <1>4

\* A change of one number changes the sum by as much.
LEMMA SumChange ==
    ASSUME NEW S, IsFiniteSet(S), NEW f \in [S -> Nat], NEW h \in [S -> Nat], NEW c \in S,
           \A x \in S : x # c => h[x] = f[x]
    PROVE  SumFunction(h) - SumFunction(f) = h[c] - f[c]
<1>1. PICK g \in [SUBSET S -> Nat] : Folds(g, f, SUBSET S) /\ SumFunction(f) = g[S]
  BY SumIsFold
<1>2. PICK k \in [SUBSET S -> Nat] : Folds(k, h, SUBSET S) /\ SumFunction(h) = k[S]
  BY SumIsFold
<1> DEFINE Bad == {s \in SUBSET S : k[s] - g[s] # IF c \in s THEN h[c] - f[c] ELSE 0}
<1>3. Bad = {}
  <2> SUFFICES ASSUME Bad # {} PROVE FALSE
    OBVIOUS
  <2>1. {} \notin Bad
    <3>1. g[{}] = 0 /\ k[{}] = 0
      BY <1>1, <1>2, FoldBase
    <3> QED
      BY <3>1
  <2>2. PICK s \in Bad : /\ s # {} /\ Pick(s) \in s /\ Pick(s) \in S
                         /\ s \ {Pick(s)} \in SUBSET S /\ s \ {Pick(s)} \notin Bad
    <3>1. Bad \subseteq SUBSET S
      OBVIOUS
    <3> HIDE DEF Bad
    <3> QED
      BY <2>1, <3>1, FoldInduction
  <2> DEFINE x == Pick(s)
             t == s \ {Pick(s)}
  <2>3. g[s] = f[x] + g[t] /\ k[s] = h[x] + k[t]
    <3>1. s \in SUBSET S /\ s # {}
      BY <2>2
    <3>2. g[s] = f[Pick(s)] + g[s \ {Pick(s)}]
      BY <1>1, <3>1, FoldStep
    <3>3. k[s] = h[Pick(s)] + k[s \ {Pick(s)}]
      BY <1>2, <3>1, FoldStep
    <3> QED
      BY <3>2, <3>3
  <2>4. k[t] - g[t] = IF c \in t THEN h[c] - f[c] ELSE 0
    BY <2>2
  <2>5. /\ g[t] \in Nat /\ k[t] \in Nat /\ f[x] \in Nat /\ h[x] \in Nat
        /\ f[c] \in Nat /\ h[c] \in Nat
    BY <2>2
  <2>6. /\ c \in t => c \in s /\ x # c
        /\ c \notin t /\ c \in s => x = c
        /\ x # c => h[x] = f[x]
    BY <2>2
  <2>7. k[s] - g[s] # IF c \in s THEN h[c] - f[c] ELSE 0
    OBVIOUS
  <2>8. x = c => c \in s
    BY <2>2
  <2> HIDE DEF Bad, x, t
  <2> QED
    BY <2>3, <2>4, <2>5, <2>6, <2>7, <2>8
<1>4. k[S] - g[S] = h[c] - f[c]
  BY <1>3
<1> QED
  BY <1>1, <1>2, <1>4

\* A sum of larger numbers is no smaller.
LEMMA SumMonotone ==
    ASSUME NEW S, IsFiniteSet(S), NEW f \in [S -> Nat], NEW h \in [S -> Nat],
           \A x \in S : f[x] <= h[x]
    PROVE  SumFunction(f) <= SumFunction(h)
<1>1. PICK g \in [SUBSET S -> Nat] : Folds(g, f, SUBSET S) /\ SumFunction(f) = g[S]
  BY SumIsFold
<1>2. PICK k \in [SUBSET S -> Nat] : Folds(k, h, SUBSET S) /\ SumFunction(h) = k[S]
  BY SumIsFold
<1> DEFINE Bad == {s \in SUBSET S : ~(g[s] <= k[s])}
<1>3. Bad = {}
  <2> SUFFICES ASSUME Bad # {} PROVE FALSE
    OBVIOUS
  <2>1. {} \notin Bad
    <3>1. g[{}] = 0 /\ k[{}] = 0
      BY <1>1, <1>2, FoldBase
    <3> QED
      BY <3>1
  <2>2. PICK s \in Bad : /\ s # {} /\ Pick(s) \in S
                         /\ s \ {Pick(s)} \in SUBSET S /\ s \ {Pick(s)} \notin Bad
    <3>1. Bad \subseteq SUBSET S
      OBVIOUS
    <3> HIDE DEF Bad
    <3> QED
      BY <2>1, <3>1, FoldInduction
  <2> DEFINE x == Pick(s)
             t == s \ {Pick(s)}
  <2>3. g[s] = f[x] + g[t] /\ k[s] = h[x] + k[t]
    <3>1. s \in SUBSET S /\ s # {}
      BY <2>2
    <3>2. g[s] = f[Pick(s)] + g[s \ {Pick(s)}]
      BY <1>1, <3>1, FoldStep
    <3>3. k[s] = h[Pick(s)] + k[s \ {Pick(s)}]
      BY <1>2, <3>1, FoldStep
    <3> QED
      BY <3>2, <3>3
  <2>4. /\ g[t] \in Nat /\ k[t] \in Nat /\ f[x] \in Nat /\ h[x] \in Nat
        /\ g[t] <= k[t] /\ f[x] <= h[x] /\ ~(g[s] <= k[s])
    BY <2>2
  <2> HIDE DEF Bad, x, t
  <2> QED
    BY <2>3, <2>4
<1>4. g[S] <= k[S]
  BY <1>3
<1> QED
  BY <1>1, <1>2, <1>4
-----------------------------------------------------------------------------
(* The inductive invariant.                                                *)

PumpTypes ==
    /\ total \in [Cells -> Nat]
    /\ stat \in [Conns -> [Cells -> Nat]]
    /\ pump \in [Pumps -> [step : 0..4, batch : [msgs : Nat, bytes : Nat]]]
    /\ \A p \in Pumps : pump[p].step # 0 => pump[p].batch \in Batches

RateTypes ==
    /\ previous \in [Cells -> Nat] /\ sampled \in [Cells -> Nat]
    /\ DOMAIN loaded \subseteq Cells /\ loaded \in [DOMAIN loaded -> Nat]
    /\ samples \in Seq([Cells -> Nat])

ViewTypes ==
    /\ view = [stage |-> view.stage, total |-> view.total, list |-> view.list, stat |-> view.stat]
    /\ view.total \in [Cells -> Nat]
    /\ view.list \subseteq Conns
    /\ DOMAIN view.stat \subseteq view.list /\ view.stat \in [DOMAIN view.stat -> [Cells -> Nat]]
    /\ view.stage # "listing" => view.list = {}

\* A connection that was never opened counts nothing, and as long as a snapshot
\* holds the lock, what it does not list is not retained.
RegistryInv ==
    /\ registry \in [Conns -> {"new", "retained", "evicted"}]
    /\ \A p \in Pumps : registry[p[1]] = "new" => pump[p].step = 0
    /\ \A c \in Conns : registry[c] = "new" => stat[c] = Zero
    /\ view.stage = "listing" => \A c \in Conns : registry[c] = "retained" => c \in view.list

\* What connection c has counted in cell x, with what is still on its way there.
Owed(c, x) == stat[c][x] + InFlight(<<c, x[1]>>, x[2])
Owes(x)    == [c \in Conns |-> Owed(c, x)]

\* TotalsAccountForConns, with a cell as one value.
SumInv == \A x \in Cells : total[x] = SumFunction(Owes(x))

\* Cells only grow: what was loaded is behind them, and ahead of the last sample.
RateInv ==
    /\ SamplesAddUp
    /\ \A x \in DOMAIN loaded : previous[x] <= loaded[x] /\ loaded[x] <= total[x]

\* The connections that the snapshot has loaded count with what they may have
\* lacked, the others with what they hold by now.
Seen(x) == [c \in Conns |-> IF c \in DOMAIN view.stat
                            THEN view.stat[c][x] + LargestBatch(x[2]) ELSE Owed(c, x)]
ViewInv ==
    view.stage # "idle" => \A x \in Cells : view.total[x] <= SumFunction(Seen(x))

IInv == PumpTypes /\ RateTypes /\ ViewTypes /\ RegistryInv /\ SumInv /\ RateInv /\ ViewInv

-----------------------------------------------------------------------------
(* What record_messages does to a cell.                                    *)

\* There is a cell to sum over.
LEMMA CellsExist == Cells # {}
<1>1. PICK d \in Dirs : TRUE
  BY CountersAssumption
<1>2. <<d, "msgs">> \in Cells
  BY DEF Cells, Fields
<1> QED
  BY <1>2

\* There is a largest batch.
LEMMA LargestFacts ==
    ASSUME NEW f \in Fields
    PROVE  LargestBatch(f) \in Nat /\ \A b \in Batches : b[f] <= LargestBatch(f)
<1> DEFINE B == {b[f] : b \in Batches}
<1>1. B \subseteq Nat
  BY CountersAssumption DEF Fields
<1>2. \E m \in B : \A n \in B : m >= n
  <2>1. PICK b \in Batches : \A o \in Batches : b[f] >= o[f]
    BY CountersAssumption
  <2> QED
    BY <2>1
<1>3. LargestBatch(f) = CHOOSE m \in B : \A n \in B : m >= n
  BY DEF LargestBatch, Max
<1>4. LargestBatch(f) \in B /\ \A n \in B : LargestBatch(f) >= n
  <2> HIDE DEF B
  <2> QED
    BY <1>2, <1>3
<1> QED
  BY <1>1, <1>4

\* What a pump owes is a part of its batch.
LEMMA InFlightType ==
    ASSUME PumpTypes, NEW p \in Pumps, NEW f \in Fields
    PROVE  InFlight(p, f) \in Nat /\ InFlight(p, f) <= LargestBatch(f)
<1>1. LargestBatch(f) \in Nat /\ \A b \in Batches : b[f] <= LargestBatch(f)
  BY LargestFacts
<1>2. pump[p].batch[f] \in Nat
  BY DEF PumpTypes, Fields
<1>3. CASE pump[p].step = 0
  BY <1>1, <1>3 DEF InFlight
<1>4. CASE pump[p].step # 0
  <2>1. pump[p].batch[f] <= LargestBatch(f)
    BY <1>1, <1>4 DEF PumpTypes
  <2> QED
    BY <1>1, <1>2, <2>1 DEF InFlight
<1> QED
  BY <1>3, <1>4

\* A connection's share of a total exceeds its counter by one batch at most.
LEMMA OwedType ==
    ASSUME PumpTypes, NEW c \in Conns, NEW x \in Cells
    PROVE  /\ stat[c][x] \in Nat /\ LargestBatch(x[2]) \in Nat
           /\ Owed(c, x) \in Nat
           /\ Owed(c, x) <= stat[c][x] + LargestBatch(x[2])
<1>1. <<c, x[1]>> \in Pumps /\ x[2] \in Fields
  BY DEF Cells, Pumps
<1>2. stat[c][x] \in Nat
  BY DEF PumpTypes
<1>3. InFlight(<<c, x[1]>>, x[2]) \in Nat /\ InFlight(<<c, x[1]>>, x[2]) <= LargestBatch(x[2])
  BY <1>1, InFlightType
<1>4. LargestBatch(x[2]) \in Nat
  BY <1>1, LargestFacts
<1> QED
  BY <1>2, <1>3, <1>4 DEF Owed

\* Beginning a record does not count anything yet.
LEMMA BeginRecordFlight ==
    ASSUME PumpTypes, NEW p \in Pumps, NEW b \in Batches, BeginRecord(p, b),
           NEW q \in Pumps, NEW f \in Fields
    PROVE  InFlight(q, f)' = InFlight(q, f)
<1>1. pump' = [pump EXCEPT ![p] = [step |-> 1, batch |-> b]] /\ pump[p].step = 0
  BY DEF BeginRecord
<1>2. CASE q = p
  <2>1. pump'[q].step = 1
    BY <1>1, <1>2 DEF PumpTypes
  <2> QED
    BY <1>1, <1>2, <2>1 DEF InFlight
<1>3. CASE q # p
  <2>1. pump'[q] = pump[q]
    BY <1>1, <1>3 DEF PumpTypes
  <2> QED
    BY <2>1 DEF InFlight
<1> QED
  BY <1>2, <1>3

\* What the aggregate gains is owed to the connection.
LEMMA AddTotalFlight ==
    ASSUME PumpTypes, NEW p \in Pumps, AddTotal(p)
    PROVE  \E f \in Fields, n \in Nat :
              /\ total' = [total EXCEPT ![<<p[2], f>>] = @ + n]
              /\ \A q \in Pumps, e \in Fields :
                    InFlight(q, e)' = InFlight(q, e) + (IF q = p /\ e = f THEN n ELSE 0)
<1>1. pump' = [pump EXCEPT ![p].step = @ + 1] /\ pump[p].step \in {1, 2}
  BY DEF AddTotal
<1>2. /\ pump'[p].step = pump[p].step + 1
      /\ pump'[p].batch = pump[p].batch
      /\ \A e \in Fields : pump[p].batch[e] \in Nat
  BY <1>1 DEF PumpTypes, Fields
<1>3. ASSUME NEW q \in Pumps, NEW e \in Fields, q # p
      PROVE  InFlight(q, e)' = InFlight(q, e) /\ InFlight(q, e) \in Nat
  <2>1. pump'[q] = pump[q]
    BY <1>1, <1>3 DEF PumpTypes
  <2> QED
    BY <2>1, InFlightType DEF InFlight
<1>4. CASE pump[p].step = 1
  <2> DEFINE n == pump[p].batch["msgs"]
  <2>1. n \in Nat /\ "msgs" \in Fields
    BY <1>2 DEF Fields
  <2>2. total' = [total EXCEPT ![<<p[2], "msgs">>] = @ + n]
    BY <1>4 DEF AddTotal
  <2>3. /\ InFlight(p, "msgs") = 0 /\ InFlight(p, "msgs")' = n
        /\ InFlight(p, "bytes") = 0 /\ InFlight(p, "bytes")' = 0
    BY <1>2, <1>4 DEF InFlight
  <2>4. ASSUME NEW q \in Pumps, NEW e \in Fields
        PROVE  InFlight(q, e)' = InFlight(q, e) + (IF q = p /\ e = "msgs" THEN n ELSE 0)
    <3>1. CASE q # p
      BY <1>3, <3>1
    <3>2. CASE q = p
      BY <2>1, <2>3, <3>2 DEF Fields
    <3> QED
      BY <3>1, <3>2
  <2> QED
    BY <2>1, <2>2, <2>4
<1>5. CASE pump[p].step = 2
  <2> DEFINE n == pump[p].batch["bytes"]
  <2>1. n \in Nat /\ "bytes" \in Fields /\ pump[p].batch["msgs"] \in Nat
    BY <1>2 DEF Fields
  <2>2. total' = [total EXCEPT ![<<p[2], "bytes">>] = @ + n]
    BY <1>5 DEF AddTotal
  <2>3. /\ InFlight(p, "msgs") = pump[p].batch["msgs"]
        /\ InFlight(p, "msgs")' = pump[p].batch["msgs"]
        /\ InFlight(p, "bytes") = 0 /\ InFlight(p, "bytes")' = n
    BY <1>2, <1>5 DEF InFlight
  <2>4. ASSUME NEW q \in Pumps, NEW e \in Fields
        PROVE  InFlight(q, e)' = InFlight(q, e) + (IF q = p /\ e = "bytes" THEN n ELSE 0)
    <3>1. CASE q # p
      BY <1>3, <3>1
    <3>2. CASE q = p
      BY <2>1, <2>3, <3>2 DEF Fields
    <3> QED
      BY <3>1, <3>2
  <2> QED
    BY <2>1, <2>2, <2>4
<1> QED
  BY <1>1, <1>4, <1>5

\* What the connection gains is no longer owed.
LEMMA AddStatFlight ==
    ASSUME PumpTypes, NEW p \in Pumps, AddStat(p)
    PROVE  \E f \in Fields, n \in Nat :
              /\ stat' = [stat EXCEPT ![p[1]][<<p[2], f>>] = @ + n]
              /\ \A q \in Pumps, e \in Fields :
                    InFlight(q, e)' = InFlight(q, e) - (IF q = p /\ e = f THEN n ELSE 0)
<1>1. /\ pump' = [pump EXCEPT ![p] = IF @.step = 3 THEN [@ EXCEPT !.step = 4]
                                     ELSE [step |-> 0, batch |-> NoBatch]]
      /\ pump[p].step \in {3, 4}
  BY DEF AddStat
<1>2. \A e \in Fields : pump[p].batch[e] \in Nat
  BY DEF PumpTypes, Fields
<1>3. ASSUME NEW q \in Pumps, NEW e \in Fields, q # p
      PROVE  InFlight(q, e)' = InFlight(q, e) /\ InFlight(q, e) \in Nat
  <2>1. pump'[q] = pump[q]
    BY <1>1, <1>3 DEF PumpTypes
  <2> QED
    BY <2>1, InFlightType DEF InFlight
<1>4. CASE pump[p].step = 3
  <2> DEFINE n == pump[p].batch["msgs"]
  <2>1. n \in Nat /\ "msgs" \in Fields /\ pump[p].batch["bytes"] \in Nat
    BY <1>2 DEF Fields
  <2>2. stat' = [stat EXCEPT ![p[1]][<<p[2], "msgs">>] = @ + n]
    BY <1>4 DEF AddStat
  <2>3. pump'[p].step = 4 /\ pump'[p].batch = pump[p].batch
    BY <1>1, <1>4 DEF PumpTypes
  <2>4. /\ InFlight(p, "msgs") = n /\ InFlight(p, "msgs")' = 0
        /\ InFlight(p, "bytes") = pump[p].batch["bytes"]
        /\ InFlight(p, "bytes")' = pump[p].batch["bytes"]
    BY <1>4, <2>3 DEF InFlight
  <2>5. ASSUME NEW q \in Pumps, NEW e \in Fields
        PROVE  InFlight(q, e)' = InFlight(q, e) - (IF q = p /\ e = "msgs" THEN n ELSE 0)
    <3>1. CASE q # p
      BY <1>3, <3>1
    <3>2. CASE q = p
      BY <2>1, <2>4, <3>2 DEF Fields
    <3> QED
      BY <3>1, <3>2
  <2> QED
    BY <2>1, <2>2, <2>5
<1>5. CASE pump[p].step = 4
  <2> DEFINE n == pump[p].batch["bytes"]
  <2>1. n \in Nat /\ "bytes" \in Fields
    BY <1>2 DEF Fields
  <2>2. stat' = [stat EXCEPT ![p[1]][<<p[2], "bytes">>] = @ + n]
    BY <1>5 DEF AddStat
  <2>3. pump'[p].step = 0
    BY <1>1, <1>5 DEF PumpTypes
  <2>4. /\ InFlight(p, "msgs") = 0 /\ InFlight(p, "msgs")' = 0
        /\ InFlight(p, "bytes") = n /\ InFlight(p, "bytes")' = 0
    BY <1>5, <2>3 DEF InFlight
  <2>5. ASSUME NEW q \in Pumps, NEW e \in Fields
        PROVE  InFlight(q, e)' = InFlight(q, e) - (IF q = p /\ e = "bytes" THEN n ELSE 0)
    <3>1. CASE q # p
      BY <1>3, <3>1
    <3>2. CASE q = p
      BY <2>1, <2>4, <3>2 DEF Fields
    <3> QED
      BY <3>1, <3>2
  <2> QED
    BY <2>1, <2>2, <2>5
<1> QED
  BY <1>1, <1>4, <1>5
\* The same for the cells: a connection never owes less, and the aggregate and
\* one connection move together.
LEMMA AddTotalOwed ==
    ASSUME PumpTypes, NEW p \in Pumps, AddTotal(p)
    PROVE  \E y \in Cells, n \in Nat :
              /\ total' = [total EXCEPT ![y] = @ + n]
              /\ \A c \in Conns, x \in Cells :
                    Owed(c, x)' = Owed(c, x) + (IF c = p[1] /\ x = y THEN n ELSE 0)
<1>1. PICK f \in Fields, n \in Nat :
              /\ total' = [total EXCEPT ![<<p[2], f>>] = @ + n]
              /\ \A q \in Pumps, e \in Fields :
                    InFlight(q, e)' = InFlight(q, e) + (IF q = p /\ e = f THEN n ELSE 0)
  BY AddTotalFlight
<1>2. <<p[2], f>> \in Cells /\ p = <<p[1], p[2]>>
  BY DEF Pumps, Cells
<1>3. ASSUME NEW c \in Conns, NEW x \in Cells
      PROVE  Owed(c, x)' = Owed(c, x) + (IF c = p[1] /\ x = <<p[2], f>> THEN n ELSE 0)
  <2>1. <<c, x[1]>> \in Pumps /\ x[2] \in Fields /\ x = <<x[1], x[2]>>
    BY DEF Pumps, Cells
  <2>2. (<<c, x[1]>> = p /\ x[2] = f) <=> (c = p[1] /\ x = <<p[2], f>>)
    BY <1>2, <2>1
  <2>3. stat' = stat /\ stat[c][x] \in Nat
    BY DEF AddTotal, PumpTypes
  <2>4. InFlight(<<c, x[1]>>, x[2]) \in Nat
    BY <2>1, InFlightType
  <2>5. InFlight(<<c, x[1]>>, x[2])' = InFlight(<<c, x[1]>>, x[2])
            + (IF c = p[1] /\ x = <<p[2], f>> THEN n ELSE 0)
    BY <1>1, <2>1, <2>2
  <2> QED
    BY <2>3, <2>4, <2>5 DEF Owed
<1> QED
  BY <1>1, <1>2, <1>3

\* Adding to the connection's own counter leaves its share of the total as it is.
LEMMA AddStatOwed ==
    ASSUME PumpTypes, NEW p \in Pumps, AddStat(p), NEW c \in Conns, NEW x \in Cells
    PROVE  Owed(c, x)' = Owed(c, x)
<1>1. PICK f \in Fields, n \in Nat :
              /\ stat' = [stat EXCEPT ![p[1]][<<p[2], f>>] = @ + n]
              /\ \A q \in Pumps, e \in Fields :
                    InFlight(q, e)' = InFlight(q, e) - (IF q = p /\ e = f THEN n ELSE 0)
  BY AddStatFlight
<1>2. <<p[2], f>> \in Cells /\ p = <<p[1], p[2]>> /\ p[1] \in Conns
  BY DEF Pumps, Cells
<1>3. <<c, x[1]>> \in Pumps /\ x[2] \in Fields /\ x = <<x[1], x[2]>>
  BY DEF Pumps, Cells
<1>4. (<<c, x[1]>> = p /\ x[2] = f) <=> (c = p[1] /\ x = <<p[2], f>>)
  BY <1>2, <1>3
<1>5. InFlight(<<c, x[1]>>, x[2]) \in Nat /\ stat[c][x] \in Nat
  BY <1>3, InFlightType DEF PumpTypes
<1>6. InFlight(<<c, x[1]>>, x[2])' = InFlight(<<c, x[1]>>, x[2])
          - (IF c = p[1] /\ x = <<p[2], f>> THEN n ELSE 0)
  BY <1>1, <1>3, <1>4
<1>7. stat'[c][x] = stat[c][x] + (IF c = p[1] /\ x = <<p[2], f>> THEN n ELSE 0)
  <2> DEFINE y == <<p[2], f>>
  <2>1. CASE c = p[1]
    <3>1. stat'[c] = [stat[c] EXCEPT ![y] = stat[c][y] + n]
      BY <1>1, <2>1 DEF PumpTypes
    <3>2. stat[c] \in [Cells -> Nat] /\ y \in Cells
      BY <1>2 DEF PumpTypes
    <3> HIDE DEF y
    <3>3. stat'[c][x] = stat[c][x] + (IF x = y THEN n ELSE 0)
      BY <1>5, <3>1, <3>2
    <3> QED
      BY <2>1, <3>3 DEF y
  <2>2. CASE c # p[1]
    <3>1. stat'[c] = stat[c]
      BY <1>1, <1>2, <2>2 DEF PumpTypes
    <3> QED
      BY <1>5, <2>2, <3>1
  <2> QED
    BY <2>1, <2>2
<1> QED
  BY <1>5, <1>6, <1>7 DEF Owed

\* So does the start of a recording.
LEMMA BeginRecordOwed ==
    ASSUME PumpTypes, NEW p \in Pumps, NEW b \in Batches, BeginRecord(p, b),
           NEW c \in Conns, NEW x \in Cells
    PROVE  Owed(c, x)' = Owed(c, x)
<1>1. <<c, x[1]>> \in Pumps /\ x[2] \in Fields
  BY DEF Pumps, Cells
<1>2. InFlight(<<c, x[1]>>, x[2])' = InFlight(<<c, x[1]>>, x[2])
  BY <1>1, BeginRecordFlight
<1> QED
  BY <1>2 DEF Owed, BeginRecord

\* A step that leaves the pumps' variables alone.
LEMMA OtherOwed ==
    ASSUME UNCHANGED recVars, NEW c \in Conns, NEW x \in Cells
    PROVE  Owed(c, x)' = Owed(c, x)
  BY DEF recVars, Owed, InFlight

-----------------------------------------------------------------------------
(* The sum over the connections.                                           *)

\* If no connection's share changes, nor does the sum.
LEMMA SumStays ==
    ASSUME NEW x \in Cells, \A c \in Conns : Owed(c, x)' = Owed(c, x)
    PROVE  SumFunction(Owes(x))' = SumFunction(Owes(x))
<1>1. Owes(x)' = Owes(x)
  BY DEF Owes
<1> QED
  BY <1>1

\* Every step keeps each total the sum over the connections.
LEMMA SumStep ==
    ASSUME PumpTypes, SumInv, [Next]_vars
    PROVE  SumInv'
<1>1. ASSUME NEW p \in Pumps, AddTotal(p) PROVE SumInv'
  <2>1. PICK y \in Cells, n \in Nat :
            /\ total' = [total EXCEPT ![y] = @ + n]
            /\ \A c \in Conns, x \in Cells :
                  Owed(c, x)' = Owed(c, x) + (IF c = p[1] /\ x = y THEN n ELSE 0)
    BY <1>1, AddTotalOwed
  <2>2. ASSUME NEW x \in Cells PROVE total'[x] = SumFunction(Owes(x))'
    <3>1. CASE x # y
      <4>1. \A c \in Conns : Owed(c, x)' = Owed(c, x)
        BY <2>1, <3>1, OwedType
      <4> QED
        BY <2>1, <3>1, <4>1, SumStays DEF SumInv, PumpTypes
    <3>2. CASE x = y
      <4> DEFINE f == Owes(x)
                 h == Owes(x)'
                 c0 == p[1]
      <4>1. c0 \in Conns
        BY DEF Pumps
      <4>2. f \in [Conns -> Nat] /\ h \in [Conns -> Nat]
        BY <2>1, OwedType DEF Owes
      <4>3. (\A c \in Conns : c # c0 => h[c] = f[c]) /\ h[c0] - f[c0] = n
        BY <2>1, <3>2, <4>1, OwedType DEF Owes
      <4>4. SumFunction(h) - SumFunction(f) = h[c0] - f[c0]
        <5> HIDE DEF f, h, c0
        <5> QED
          BY <4>1, <4>2, <4>3, SumChange, CountersAssumption
      <4>5. SumFunction(f) \in Nat /\ SumFunction(h) \in Nat
        <5> HIDE DEF f, h
        <5> QED
          BY <4>2, SumType, CountersAssumption
      <4>6. total'[x] = total[x] + n /\ total[x] = SumFunction(f)
        BY <2>1, <3>2 DEF SumInv, PumpTypes
      <4> QED
        BY <4>3, <4>4, <4>5, <4>6
    <3> QED
      BY <3>1, <3>2
  <2> QED
    BY <2>2 DEF SumInv
<1>2. ASSUME total' = total, \A c \in Conns, x \in Cells : Owed(c, x)' = Owed(c, x)
      PROVE  SumInv'
  BY <1>2, SumStays DEF SumInv
<1>3. ASSUME NEW p \in Pumps, NEW b \in Batches, BeginRecord(p, b) PROVE SumInv'
  BY <1>2, <1>3, BeginRecordOwed DEF BeginRecord
<1>4. ASSUME NEW p \in Pumps, AddStat(p) PROVE SumInv'
  BY <1>2, <1>4, AddStatOwed DEF AddStat
<1>5. ASSUME UNCHANGED recVars PROVE SumInv'
  BY <1>2, <1>5, OtherOwed DEF recVars
<1>6. CASE \/ Tick \/ Sampling \/ DropGuard \/ Join \/ ViewTotals \/ ViewLock \/ ViewShown
           \/ \E c \in Conns : OpenConn(c) \/ EvictConn(c) \/ ViewStat(c)
  BY <1>5, <1>6 DEF Tick, Sampling, LoadCell, Commit, SamplerExits, DropGuard, Join, ViewTotals,
        ViewLock, ViewStat, ViewShown, OpenConn, EvictConn
<1>7. CASE UNCHANGED vars
  BY <1>5, <1>7 DEF vars
<1> QED
  BY <1>1, <1>3, <1>4, <1>6, <1>7 DEF Next
-----------------------------------------------------------------------------
(* The types.                                                              *)

\* Every step keeps the pumps' variables well typed.
LEMMA PumpTypesStep ==
    ASSUME PumpTypes, [Next]_vars PROVE PumpTypes'
<1>1. ASSUME NEW p \in Pumps, NEW b \in Batches, BeginRecord(p, b) PROVE PumpTypes'
  <2>1. b \in [msgs : Nat, bytes : Nat]
    BY CountersAssumption
  <2> QED
    BY <1>1, <2>1 DEF BeginRecord, PumpTypes
<1>2. ASSUME NEW p \in Pumps, AddTotal(p) PROVE PumpTypes'
  <2>1. PICK f \in Fields, n \in Nat :
            /\ total' = [total EXCEPT ![<<p[2], f>>] = @ + n]
            /\ \A q \in Pumps, e \in Fields :
                  InFlight(q, e)' = InFlight(q, e) + (IF q = p /\ e = f THEN n ELSE 0)
    BY <1>2, AddTotalFlight
  <2>2. total' \in [Cells -> Nat] /\ stat' = stat
    <3> DEFINE y == <<p[2], f>>
    <3>1. y \in Cells
      BY DEF Pumps, Cells
    <3>2. total \in [Cells -> Nat] /\ total[y] + n \in Nat
      BY <3>1 DEF PumpTypes
    <3>3. total' = [total EXCEPT ![y] = total[y] + n]
      BY <2>1
    <3> HIDE DEF y
    <3>4. total' \in [Cells -> Nat]
      BY <3>1, <3>2, <3>3
    <3> QED
      BY <1>2, <3>4 DEF AddTotal
  <2>3. /\ pump' = [pump EXCEPT ![p].step = @ + 1]
        /\ pump[p].step + 1 \in 0..4 /\ pump[p].step # 0
    BY <1>2 DEF AddTotal
  <2>4. pump' \in [Pumps -> [step : 0..4, batch : [msgs : Nat, bytes : Nat]]]
    <3> DEFINE next == [pump[p] EXCEPT !.step = pump[p].step + 1]
    <3>1. pump' = [pump EXCEPT ![p] = next]
      BY <2>3
    <3>2. next \in [step : 0..4, batch : [msgs : Nat, bytes : Nat]]
      BY <2>3 DEF PumpTypes
    <3> HIDE DEF next
    <3> QED
      BY <3>1, <3>2 DEF PumpTypes
  <2>5. ASSUME NEW q \in Pumps, pump'[q].step # 0 PROVE pump'[q].batch \in Batches
    <3>1. pump'[q].batch = pump[q].batch
      BY <2>3 DEF PumpTypes
    <3>2. pump[q].step # 0
      BY <2>3, <2>5 DEF PumpTypes
    <3> QED
      BY <3>1, <3>2 DEF PumpTypes
  <2>6. stat \in [Conns -> [Cells -> Nat]]
    BY DEF PumpTypes
  <2>7. \A q \in Pumps : pump'[q].step # 0 => pump'[q].batch \in Batches
    BY <2>5
  <2> QED
    BY <2>2, <2>4, <2>6, <2>7 DEF PumpTypes
<1>3. ASSUME NEW p \in Pumps, AddStat(p) PROVE PumpTypes'
  <2>1. PICK f \in Fields, n \in Nat :
            /\ stat' = [stat EXCEPT ![p[1]][<<p[2], f>>] = @ + n]
            /\ \A q \in Pumps, e \in Fields :
                  InFlight(q, e)' = InFlight(q, e) - (IF q = p /\ e = f THEN n ELSE 0)
    BY <1>3, AddStatFlight
  <2>2. stat' \in [Conns -> [Cells -> Nat]] /\ total' = total
    <3> DEFINE y == <<p[2], f>>
               c == p[1]
               cells == [stat[c] EXCEPT ![y] = stat[c][y] + n]
    <3>1. y \in Cells /\ c \in Conns
      BY DEF Pumps, Cells
    <3>2. stat[c] \in [Cells -> Nat] /\ stat[c][y] + n \in Nat
      BY <3>1 DEF PumpTypes
    <3>3. stat' = [stat EXCEPT ![c] = cells]
      BY <2>1
    <3> HIDE DEF y, c
    <3>4. cells \in [Cells -> Nat]
      BY <3>1, <3>2
    <3> HIDE DEF cells
    <3>5. stat' \in [Conns -> [Cells -> Nat]]
      BY <3>1, <3>3, <3>4 DEF PumpTypes
    <3> QED
      BY <1>3, <3>5 DEF AddStat
  <2>3. /\ pump' = [pump EXCEPT ![p] = IF @.step = 3 THEN [@ EXCEPT !.step = 4]
                                       ELSE [step |-> 0, batch |-> NoBatch]]
        /\ pump[p].step \in {3, 4}
    BY <1>3 DEF AddStat
  <2>4. /\ pump' \in [Pumps -> [step : 0..4, batch : [msgs : Nat, bytes : Nat]]]
        /\ \A q \in Pumps : pump'[q].step # 0 => pump'[q].batch \in Batches
    <3>1. NoBatch \in [msgs : Nat, bytes : Nat]
      BY DEF NoBatch
    <3> QED
      BY <2>3, <3>1 DEF PumpTypes
  <2> QED
    BY <2>2, <2>4 DEF PumpTypes
<1>4. ASSUME UNCHANGED recVars PROVE PumpTypes'
  BY <1>4 DEF recVars, PumpTypes
<1>5. CASE \/ Tick \/ Sampling \/ DropGuard \/ Join \/ ViewTotals \/ ViewLock \/ ViewShown
           \/ \E c \in Conns : OpenConn(c) \/ EvictConn(c) \/ ViewStat(c)
  BY <1>4, <1>5 DEF Tick, Sampling, LoadCell, Commit, SamplerExits, DropGuard, Join, ViewTotals,
        ViewLock, ViewStat, ViewShown, OpenConn, EvictConn
<1>6. CASE UNCHANGED vars
  BY <1>4, <1>6 DEF vars
<1> QED
  BY <1>1, <1>2, <1>3, <1>5, <1>6 DEF Next

\* The aggregate never goes down.
LEMMA TotalGrows ==
    ASSUME PumpTypes, [Next]_vars, NEW x \in Cells
    PROVE  total[x] \in Nat /\ total'[x] \in Nat /\ total[x] <= total'[x]
<1>1. total[x] \in Nat
  BY DEF PumpTypes
<1>2. CASE \E p \in Pumps : AddTotal(p)
  <2>1. PICK p \in Pumps : AddTotal(p)
    BY <1>2
  <2>2. PICK f \in Fields, n \in Nat :
            /\ total' = [total EXCEPT ![<<p[2], f>>] = @ + n]
            /\ \A q \in Pumps, e \in Fields :
                  InFlight(q, e)' = InFlight(q, e) + (IF q = p /\ e = f THEN n ELSE 0)
    BY <2>1, AddTotalFlight
  <2>3. total'[x] = total[x] \/ total'[x] = total[x] + n
    BY <2>2 DEF PumpTypes
  <2> QED
    BY <1>1, <2>3
<1>3. CASE total' = total
  BY <1>1, <1>3
<1> QED
  BY <1>2, <1>3 DEF Next, vars, recVars, BeginRecord, AddStat, Tick, Sampling, LoadCell, Commit,
        SamplerExits, DropGuard, Join, ViewTotals, ViewLock, ViewStat, ViewShown,
        OpenConn, EvictConn

-----------------------------------------------------------------------------
(* The rate samples.                                                       *)

\* The rate history is cut to its length.
LEMMA TrimFacts ==
    ASSUME NEW T, NEW s \in Seq(T)
    PROVE  Trim(s) \in Seq(T) /\ Len(Trim(s)) <= RateHistory
<1>1. RateHistory \in Nat /\ RateHistory >= 1
  BY CountersAssumption
<1>2. CASE Len(s) > RateHistory
  <2>1. Trim(s) = SubSeq(s, Len(s) - RateHistory + 1, Len(s))
    BY <1>2 DEF Trim
  <2>2. Trim(s) \in Seq(T) /\ Len(Trim(s)) = RateHistory
    BY <1>1, <1>2, <2>1
  <2> QED
    BY <1>1, <2>2
<1>3. CASE ~(Len(s) > RateHistory)
  BY <1>1, <1>3 DEF Trim
<1> QED
  BY <1>2, <1>3

\* A sampler's pass, and every other step, keeps what is loaded between the last sample and the totals.
LEMMA RateStep ==
    ASSUME PumpTypes, RateTypes, RateInv, [Next]_vars
    PROVE  RateTypes' /\ RateInv'
<1>1. \A x \in Cells : total[x] \in Nat /\ total'[x] \in Nat /\ total[x] <= total'[x]
  BY TotalGrows
<1>2. CASE UNCHANGED <<loaded, previous, samples, sampled>>
  <2>1. RateTypes'
    BY <1>2 DEF RateTypes
  <2>2. SamplesAddUp'
    <3>1. \A x \in Cells : sampled[x] = previous[x] /\ previous[x] <= total[x]
                            /\ previous[x] \in Nat
      BY DEF RateTypes, RateInv, SamplesAddUp
    <3>2. \A x \in Cells : previous[x] <= total'[x]
      BY <1>1, <3>1
    <3>3. Len(samples) <= RateHistory
      BY DEF RateInv, SamplesAddUp
    <3> QED
      BY <1>2, <3>1, <3>2, <3>3 DEF SamplesAddUp
  <2>3. ASSUME NEW x \in DOMAIN loaded' PROVE previous'[x] <= loaded'[x] /\ loaded'[x] <= total'[x]
    <3>1. x \in Cells /\ x \in DOMAIN loaded /\ loaded[x] \in Nat
      BY <1>2 DEF RateTypes
    <3>2. previous[x] <= loaded[x] /\ loaded[x] <= total[x]
      BY <3>1 DEF RateInv
    <3> QED
      BY <1>1, <1>2, <3>1, <3>2
  <2> QED
    BY <2>1, <2>2, <2>3 DEF RateInv
<1>3. CASE Tick
  <2>1. loaded' = << >> /\ UNCHANGED <<previous, samples, sampled, total>>
    BY <1>3 DEF Tick, recVars
  <2>2. DOMAIN loaded' = {} /\ loaded' \in [{} -> Nat]
    BY <2>1
  <2> QED
    BY <2>1, <2>2 DEF RateTypes, RateInv, SamplesAddUp
<1>4. ASSUME NEW y \in Cells, LoadCell(y) PROVE RateTypes' /\ RateInv'
  <2>1. /\ loaded' = [z \in DOMAIN loaded \cup {y} |-> IF z = y THEN total[y] ELSE loaded[z]]
        /\ UNCHANGED <<previous, samples, sampled, total>>
    BY <1>4 DEF LoadCell, recVars
  <2>2. /\ DOMAIN loaded' = DOMAIN loaded \cup {y}
        /\ \A z \in DOMAIN loaded' : loaded'[z] = IF z = y THEN total[y] ELSE loaded[z]
    BY <2>1
  <2>3. RateTypes'
    BY <1>1, <2>1, <2>2 DEF RateTypes
  <2>4. SamplesAddUp'
    BY <2>1 DEF RateInv, SamplesAddUp
  <2>5. \A z \in DOMAIN loaded' : previous'[z] <= loaded'[z] /\ loaded'[z] <= total'[z]
    BY <1>1, <2>1, <2>2 DEF RateTypes, RateInv, SamplesAddUp
  <2> QED
    BY <2>3, <2>4, <2>5 DEF RateInv
<1>5. CASE Commit
  <2> DEFINE sample == [x \in Cells |-> SaturatingSub(loaded[x], previous[x])]
  <2>1. /\ DOMAIN loaded = Cells /\ previous' = loaded /\ loaded' = loaded /\ total' = total
        /\ samples' = Trim(Append(samples, sample))
        /\ sampled' = [x \in Cells |-> sampled[x] + sample[x]]
    BY <1>5 DEF Commit, recVars
  <2>2. \A x \in Cells : /\ loaded[x] \in Nat /\ previous[x] \in Nat
                         /\ previous[x] <= loaded[x] /\ loaded[x] <= total[x]
    BY <2>1 DEF RateTypes, RateInv
  <2>3. \A x \in Cells : sample[x] = loaded[x] - previous[x] /\ sample[x] \in Nat
    BY <2>2 DEF SaturatingSub
  <2>4. \A x \in Cells : sampled'[x] = loaded[x]
    <3>1. \A x \in Cells : sampled[x] = previous[x]
      BY DEF RateInv, SamplesAddUp
    <3>2. \A x \in Cells : sampled'[x] = sampled[x] + sample[x]
      BY <2>1
    <3> HIDE DEF sample
    <3> QED
      BY <2>2, <2>3, <3>1, <3>2
  <2>5. samples' \in Seq([Cells -> Nat]) /\ Len(samples') <= RateHistory
    <3>1. sample \in [Cells -> Nat]
      BY <2>3
    <3> HIDE DEF sample
    <3>2. Append(samples, sample) \in Seq([Cells -> Nat])
      BY <3>1 DEF RateTypes
    <3> QED
      BY <2>1, <3>2, TrimFacts
  <2>6. sampled' \in [Cells -> Nat] /\ previous' \in [Cells -> Nat]
    <3>1. sampled' = [x \in Cells |-> sampled'[x]]
      BY <2>1
    <3> HIDE DEF sample
    <3>2. \A x \in Cells : sampled'[x] \in Nat
      BY <2>2, <2>4
    <3> QED
      BY <2>1, <3>1, <3>2 DEF RateTypes
  <2> HIDE DEF sample
  <2>7. RateTypes'
    BY <2>1, <2>5, <2>6 DEF RateTypes
  <2>8. SamplesAddUp'
    BY <2>1, <2>2, <2>4, <2>5 DEF SamplesAddUp
  <2>9. \A x \in DOMAIN loaded' : previous'[x] <= loaded'[x] /\ loaded'[x] <= total'[x]
    BY <2>1, <2>2
  <2> QED
    BY <2>7, <2>8, <2>9 DEF RateInv
<1> QED
  BY <1>2, <1>3, <1>4, <1>5 DEF Next, vars, rateVars, BeginRecord, AddTotal, AddStat, Sampling,
        SamplerExits, DropGuard, Join, ViewTotals, ViewLock, ViewStat, ViewShown,
        OpenConn, EvictConn
-----------------------------------------------------------------------------
(* The snapshot.                                                           *)

\* What a snapshot has seen of a connection is a number.
LEMMA SeenType ==
    ASSUME PumpTypes, ViewTypes, NEW x \in Cells
    PROVE  Seen(x) \in [Conns -> Nat]
<1>1. ASSUME NEW c \in Conns PROVE Seen(x)[c] \in Nat
  <2>1. CASE c \in DOMAIN view.stat
    <3>1. view.stat[c][x] \in Nat /\ LargestBatch(x[2]) \in Nat
      BY <2>1, OwedType DEF ViewTypes
    <3> QED
      BY <2>1, <3>1 DEF Seen
  <2>2. CASE c \notin DOMAIN view.stat
    BY <2>2, OwedType DEF Seen
  <2> QED
    BY <2>1, <2>2
<1> QED
  BY <1>1 DEF Seen

\* Every step keeps the snapshot's variables well typed.
LEMMA ViewTypesStep ==
    ASSUME PumpTypes, ViewTypes, [Next]_vars PROVE ViewTypes'
<1>1. CASE ViewTotals
  <2>1. view' = [view EXCEPT !.stage = "summed", !.total = total] /\ view.stage = "idle"
    BY <1>1 DEF ViewTotals
  <2>2. /\ view'.stage = "summed" /\ view'.total = total
        /\ view'.list = view.list /\ view'.stat = view.stat
        /\ view' = [stage |-> view'.stage, total |-> view'.total,
                    list |-> view'.list, stat |-> view'.stat]
    BY <2>1 DEF ViewTypes
  <2> QED
    BY <2>1, <2>2 DEF ViewTypes, PumpTypes
<1>2. ASSUME NEW c \in Conns, ViewStat(c) PROVE ViewTypes'
  <2> DEFINE new == [e \in DOMAIN view.stat \cup {c} |->
                        IF e = c THEN stat[c] ELSE view.stat[e]]
  <2>1. /\ view' = [view EXCEPT !.stat = new]
        /\ view.stage = "listing" /\ c \in view.list
    BY <1>2 DEF ViewStat
  <2>2. /\ view'.stage = view.stage /\ view'.total = view.total
        /\ view'.list = view.list /\ view'.stat = new
        /\ view' = [stage |-> view'.stage, total |-> view'.total,
                    list |-> view'.list, stat |-> view'.stat]
    BY <2>1 DEF ViewTypes
  <2>3. DOMAIN new \subseteq view.list /\ new \in [DOMAIN new -> [Cells -> Nat]]
    BY <2>1 DEF ViewTypes, PumpTypes
  <2> HIDE DEF new
  <2> QED
    BY <2>1, <2>2, <2>3 DEF ViewTypes
<1>3. CASE ViewShown
  <2>1. /\ view' = NoView /\ Zero \in [Cells -> Nat]
        /\ DOMAIN << >> = {} /\ << >> \in [{} -> [Cells -> Nat]]
    BY <1>3 DEF ViewShown, Zero
  <2> QED
    BY <2>1 DEF ViewTypes, NoView
<1>4. CASE ViewLock
  <2> DEFINE list == {c \in Conns : registry[c] = "retained"}
  <2>1. /\ view' = [view EXCEPT !.stage = "listing", !.list = list]
        /\ view.stage = "summed"
    BY <1>4 DEF ViewLock
  <2>2. /\ view'.stage = "listing" /\ view'.total = view.total
        /\ view'.list = list /\ view'.stat = view.stat
        /\ view' = [stage |-> view'.stage, total |-> view'.total,
                    list |-> view'.list, stat |-> view'.stat]
    BY <2>1 DEF ViewTypes
  <2>3. list \subseteq Conns /\ DOMAIN view.stat = {}
    BY <2>1 DEF ViewTypes
  <2> HIDE DEF list
  <2> QED
    BY <2>2, <2>3 DEF ViewTypes
<1>5. CASE UNCHANGED view
  BY <1>5 DEF ViewTypes
<1> QED
  BY <1>1, <1>2, <1>3, <1>4, <1>5 DEF Next, vars, viewVars, BeginRecord, AddTotal, AddStat, Tick,
        Sampling, LoadCell, Commit, SamplerExits, DropGuard, Join, OpenConn, EvictConn

\* Every step keeps what the registry says of a connection: a pump records only
\* what was opened, and nothing is opened or evicted under the snapshot's lock.
LEMMA RegistryStep ==
    ASSUME PumpTypes, ViewTypes, RegistryInv, [Next]_vars PROVE RegistryInv'
<1>1. ASSUME NEW p \in Pumps, NEW b \in Batches, BeginRecord(p, b) PROVE RegistryInv'
  <2>1. /\ registry[p[1]] # "new" /\ pump' = [pump EXCEPT ![p] = [step |-> 1, batch |-> b]]
        /\ UNCHANGED <<registry, stat, view>>
    BY <1>1 DEF BeginRecord, viewVars
  <2>2. \A q \in Pumps : registry[q[1]] = "new" => pump'[q].step = 0
    <3>1. ASSUME NEW q \in Pumps, registry[q[1]] = "new" PROVE pump'[q].step = 0
      <4>1. q # p
        BY <2>1, <3>1
      <4>2. pump'[q] = pump[q]
        BY <2>1, <4>1 DEF PumpTypes
      <4> QED
        BY <3>1, <4>2 DEF RegistryInv
    <3> QED
      BY <3>1
  <2> QED
    BY <2>1, <2>2 DEF RegistryInv
<1>2. ASSUME NEW p \in Pumps, AddTotal(p) PROVE RegistryInv'
  <2>1. /\ pump[p].step # 0 /\ pump' = [pump EXCEPT ![p].step = @ + 1]
        /\ UNCHANGED <<registry, stat, view>>
    BY <1>2 DEF AddTotal, viewVars
  <2>2. \A q \in Pumps : registry[q[1]] = "new" => pump'[q].step = 0
    <3>1. ASSUME NEW q \in Pumps, registry[q[1]] = "new" PROVE pump'[q].step = 0
      <4>1. q # p
        BY <2>1, <3>1 DEF RegistryInv
      <4>2. pump'[q] = pump[q]
        BY <2>1, <4>1 DEF PumpTypes
      <4> QED
        BY <3>1, <4>2 DEF RegistryInv
    <3> QED
      BY <3>1
  <2> QED
    BY <2>1, <2>2 DEF RegistryInv
<1>3. ASSUME NEW p \in Pumps, AddStat(p) PROVE RegistryInv'
  <2> DEFINE c == p[1]
  <2>1. /\ pump[p].step # 0
        /\ pump' = [pump EXCEPT ![p] = IF @.step = 3 THEN [@ EXCEPT !.step = 4]
                                       ELSE [step |-> 0, batch |-> NoBatch]]
        /\ UNCHANGED <<registry, view>>
    BY <1>3 DEF AddStat, viewVars
  <2>2. c \in Conns /\ registry[c] # "new"
    BY <2>1 DEF RegistryInv, Pumps
  <2>3. \A q \in Pumps : registry[q[1]] = "new" => pump'[q].step = 0
    <3>1. ASSUME NEW q \in Pumps, registry[q[1]] = "new" PROVE pump'[q].step = 0
      <4>1. q # p
        BY <2>2, <3>1
      <4>2. pump'[q] = pump[q]
        BY <2>1, <4>1 DEF PumpTypes
      <4> QED
        BY <3>1, <4>2 DEF RegistryInv
    <3> QED
      BY <3>1
  <2>4. ASSUME NEW e \in Conns, registry[e] = "new" PROVE stat'[e] = Zero
    <3>1. e # c
      BY <2>2, <2>4
    <3>2. stat'[e] = stat[e]
      BY <1>3, <3>1 DEF AddStat, PumpTypes
    <3> QED
      BY <2>4, <3>2 DEF RegistryInv
  <2> HIDE DEF c
  <2> QED
    BY <2>1, <2>3, <2>4 DEF RegistryInv
<1>4. ASSUME NEW c \in Conns, OpenConn(c) PROVE RegistryInv'
  BY <1>4 DEF OpenConn, RegistryFree, recVars, viewVars, RegistryInv
<1>5. ASSUME NEW c \in Conns, EvictConn(c) PROVE RegistryInv'
  BY <1>5 DEF EvictConn, RegistryFree, recVars, viewVars, RegistryInv
<1>6. CASE ViewLock
  <2>1. /\ view' = [view EXCEPT !.stage = "listing",
                                !.list = {c \in Conns : registry[c] = "retained"}]
        /\ UNCHANGED <<registry, pump, stat>>
    BY <1>6 DEF ViewLock, recVars
  <2>2. view'.list = {c \in Conns : registry[c] = "retained"}
    BY <2>1 DEF ViewTypes
  <2> QED
    BY <2>1, <2>2 DEF RegistryInv
<1>7. ASSUME UNCHANGED <<registry, recVars>>, view'.stage = "listing" => UNCHANGED view
      PROVE  RegistryInv'
  BY <1>7 DEF RegistryInv, recVars
<1>8. CASE ViewTotals \/ ViewShown
  <2>1. UNCHANGED <<registry, recVars>>
    BY <1>8 DEF ViewTotals, ViewShown
  <2>2. view'.stage # "listing"
    <3>1. CASE ViewTotals
      BY <3>1 DEF ViewTotals, ViewTypes
    <3>2. CASE ViewShown
      BY <3>2 DEF ViewShown, NoView
    <3> QED
      BY <1>8, <3>1, <3>2
  <2> QED
    BY <1>7, <2>1, <2>2
<1>9. ASSUME NEW c \in Conns, ViewStat(c) PROVE RegistryInv'
  <2>1. /\ \E new : view' = [view EXCEPT !.stat = new]
        /\ view.stage = "listing" /\ UNCHANGED <<registry, recVars>>
    BY <1>9 DEF ViewStat
  <2>2. view'.list = view.list
    BY <2>1 DEF ViewTypes
  <2> QED
    BY <2>1, <2>2 DEF RegistryInv, recVars
<1>10. CASE UNCHANGED <<registry, recVars, view>>
  BY <1>7, <1>10
<1> QED
  BY <1>1, <1>2, <1>3, <1>4, <1>5, <1>6, <1>8, <1>9, <1>10 DEF Next, vars, viewVars, Tick,
        Sampling, LoadCell, Commit, SamplerExits, DropGuard, Join

\* A connection never owes less than before.
LEMMA OwedGrows ==
    ASSUME PumpTypes, [Next]_vars, NEW c \in Conns, NEW x \in Cells
    PROVE  Owed(c, x)' \in Nat /\ Owed(c, x) <= Owed(c, x)'
<1>1. Owed(c, x) \in Nat
  BY OwedType
<1>2. ASSUME NEW p \in Pumps, AddTotal(p) PROVE Owed(c, x)' \in Nat /\ Owed(c, x) <= Owed(c, x)'
  <2>1. PICK y \in Cells, n \in Nat :
            Owed(c, x)' = Owed(c, x) + (IF c = p[1] /\ x = y THEN n ELSE 0)
    BY <1>2, AddTotalOwed
  <2> QED
    BY <1>1, <2>1
<1>3. ASSUME NEW p \in Pumps, AddStat(p) PROVE Owed(c, x)' \in Nat /\ Owed(c, x) <= Owed(c, x)'
  BY <1>1, <1>3, AddStatOwed
<1>4. ASSUME NEW p \in Pumps, NEW b \in Batches, BeginRecord(p, b)
      PROVE  Owed(c, x)' \in Nat /\ Owed(c, x) <= Owed(c, x)'
  BY <1>1, <1>4, BeginRecordOwed
<1>5. ASSUME UNCHANGED recVars PROVE Owed(c, x)' \in Nat /\ Owed(c, x) <= Owed(c, x)'
  BY <1>1, <1>5, OtherOwed
<1>6. CASE \/ Tick \/ Sampling \/ DropGuard \/ Join \/ ViewTotals \/ ViewLock \/ ViewShown
           \/ \E d \in Conns : OpenConn(d) \/ EvictConn(d) \/ ViewStat(d)
  BY <1>5, <1>6 DEF Tick, Sampling, LoadCell, Commit, SamplerExits, DropGuard, Join, ViewTotals,
        ViewLock, ViewStat, ViewShown, OpenConn, EvictConn
<1>7. CASE UNCHANGED vars
  BY <1>5, <1>7 DEF vars
<1> QED
  BY <1>2, <1>3, <1>4, <1>6, <1>7 DEF Next

\* So what a snapshot compares its aggregates with only grows, once they are loaded.
LEMMA SeenGrows ==
    ASSUME PumpTypes, ViewTypes, [Next]_vars, view'.total = view.total,
           DOMAIN view.stat \subseteq DOMAIN view'.stat,
           \A c \in DOMAIN view.stat : view'.stat[c] = view.stat[c],
           \A c \in DOMAIN view'.stat : c \in DOMAIN view.stat \/ view'.stat[c] = stat[c],
           NEW x \in Cells
    PROVE  SumFunction(Seen(x))' \in Nat /\ SumFunction(Seen(x)) <= SumFunction(Seen(x))'
<1> DEFINE f == Seen(x)
           h == Seen(x)'
<1>1. f \in [Conns -> Nat]
  BY SeenType
<1>2. ASSUME NEW c \in Conns PROVE h[c] \in Nat /\ f[c] <= h[c]
  <2>1. /\ Owed(c, x) \in Nat /\ Owed(c, x)' \in Nat /\ Owed(c, x) <= Owed(c, x)'
        /\ LargestBatch(x[2]) \in Nat /\ stat[c][x] \in Nat
        /\ Owed(c, x) <= stat[c][x] + LargestBatch(x[2])
    BY OwedGrows, OwedType
  <2>2. CASE c \in DOMAIN view.stat
    <3>1. f[c] = view.stat[c][x] + LargestBatch(x[2]) /\ h[c] = f[c] /\ view.stat[c][x] \in Nat
      BY <2>2 DEF Seen, ViewTypes
    <3> QED
      BY <2>1, <3>1
  <2>3. CASE c \notin DOMAIN view.stat /\ c \in DOMAIN view'.stat
    <3>1. f[c] = Owed(c, x) /\ h[c] = stat[c][x] + LargestBatch(x[2])
      BY <2>3 DEF Seen
    <3> QED
      BY <2>1, <3>1
  <2>4. CASE c \notin DOMAIN view'.stat
    <3>1. f[c] = Owed(c, x) /\ h[c] = Owed(c, x)'
      BY <2>4 DEF Seen
    <3> QED
      BY <2>1, <3>1
  <2> QED
    BY <2>2, <2>3, <2>4
<1>3. h \in [Conns -> Nat]
  BY <1>2 DEF Seen
<1>4. SumFunction(h) \in Nat /\ SumFunction(f) <= SumFunction(h)
  <2> HIDE DEF f, h
  <2> QED
    BY <1>1, <1>2, <1>3, SumType, SumMonotone, CountersAssumption
<1> QED
  BY <1>4

\* A snapshot's pass, and every other step, keeps the loaded totals within a batch per connection.
LEMMA ViewStep ==
    ASSUME PumpTypes, ViewTypes, SumInv, ViewInv, [Next]_vars
    PROVE  ViewInv'
<1>1. ASSUME view'.total = view.total, view'.stage # "idle" => view.stage # "idle",
             DOMAIN view.stat \subseteq DOMAIN view'.stat,
             \A c \in DOMAIN view.stat : view'.stat[c] = view.stat[c],
             \A c \in DOMAIN view'.stat : c \in DOMAIN view.stat \/ view'.stat[c] = stat[c]
      PROVE  ViewInv'
  <2> SUFFICES ASSUME view.stage # "idle", NEW x \in Cells
               PROVE  view.total[x] <= SumFunction(Seen(x))'
    BY <1>1 DEF ViewInv
  <2>1. SumFunction(Seen(x))' \in Nat /\ SumFunction(Seen(x)) <= SumFunction(Seen(x))'
    BY <1>1, SeenGrows
  <2>2. view.total[x] <= SumFunction(Seen(x))
    BY DEF ViewInv
  <2>3. view.total[x] \in Nat
    BY DEF ViewTypes
  <2>4. SumFunction(Seen(x)) \in Nat
    BY SeenType, SumType, CountersAssumption
  <2> QED
    BY <2>1, <2>2, <2>3, <2>4
<1>2. CASE ViewTotals
  <2>1. /\ view' = [view EXCEPT !.stage = "summed", !.total = total]
        /\ view.stage = "idle" /\ UNCHANGED recVars
    BY <1>2 DEF ViewTotals
  <2>2. view'.total = total /\ view'.stat = view.stat
    BY <2>1 DEF ViewTypes
  <2>3. DOMAIN view.stat = {}
    BY <2>1 DEF ViewTypes
  <2>4. ASSUME NEW x \in Cells PROVE Seen(x)' = Owes(x)
    BY <2>1, <2>2, <2>3, OtherOwed DEF Seen, Owes
  <2>5. ASSUME NEW x \in Cells PROVE view'.total[x] <= SumFunction(Seen(x))'
    <3>1. SumFunction(Seen(x))' = SumFunction(Owes(x))
      BY <2>4
    <3>2. total[x] = SumFunction(Owes(x)) /\ total[x] \in Nat
      BY DEF SumInv, PumpTypes
    <3> QED
      BY <2>2, <3>1, <3>2
  <2> QED
    BY <2>5 DEF ViewInv
<1>3. ASSUME NEW c \in Conns, ViewStat(c) PROVE ViewInv'
  <2> DEFINE new == [e \in DOMAIN view.stat \cup {c} |->
                        IF e = c THEN stat[c] ELSE view.stat[e]]
  <2>1. /\ view' = [view EXCEPT !.stat = new] /\ c \notin DOMAIN view.stat
        /\ view.stage = "listing"
    BY <1>3 DEF ViewStat
  <2>2. view'.total = view.total /\ view'.stat = new
    BY <2>1 DEF ViewTypes
  <2>3. DOMAIN new = DOMAIN view.stat \cup {c}
    OBVIOUS
  <2>4. \A e \in DOMAIN new : new[e] = IF e = c THEN stat[c] ELSE view.stat[e]
    OBVIOUS
  <2> HIDE DEF new
  <2> QED
    BY <1>1, <2>1, <2>2, <2>3, <2>4
<1>4. CASE ViewShown
  <2>1. view'.stage = "idle"
    BY <1>4 DEF ViewShown, NoView
  <2> QED
    BY <2>1 DEF ViewInv
<1>5. CASE ViewLock
  <2>1. /\ \E list : view' = [view EXCEPT !.stage = "listing", !.list = list]
        /\ view.stage = "summed"
    BY <1>5 DEF ViewLock
  <2>2. view'.total = view.total /\ view'.stat = view.stat
    BY <2>1 DEF ViewTypes
  <2> QED
    BY <1>1, <2>1, <2>2
<1>6. CASE UNCHANGED view
  BY <1>1, <1>6
<1> QED
  BY <1>2, <1>3, <1>4, <1>5, <1>6 DEF Next, vars, viewVars, BeginRecord, AddTotal, AddStat, Tick,
        Sampling, LoadCell, Commit, SamplerExits, DropGuard, Join, OpenConn, EvictConn
-----------------------------------------------------------------------------
(* The theorems.                                                           *)

\* The invariant holds at the start.
LEMMA InitIInv == Init => IInv
<1> SUFFICES ASSUME Init PROVE IInv
  OBVIOUS
<1>1. /\ Zero \in [Cells -> Nat] /\ (\A x \in Cells : Zero[x] = 0)
      /\ NoBatch \in [msgs : Nat, bytes : Nat]
      /\ DOMAIN << >> = {} /\ (\A T : << >> \in [{} -> T]) /\ RateHistory \in Nat
  BY CountersAssumption DEF Zero, NoBatch
<1>2. PumpTypes
  BY <1>1 DEF Init, PumpTypes
<1>3. RateTypes /\ RateInv
  <2>1. Len(<< >>) = 0 /\ << >> \in Seq([Cells -> Nat])
    OBVIOUS
  <2> QED
    BY <1>1, <2>1 DEF Init, RateTypes, RateInv, SamplesAddUp
<1>4. ViewTypes /\ RegistryInv /\ ViewInv
  BY <1>1 DEF Init, NoView, ViewTypes, RegistryInv, ViewInv
<1>5. SumInv
  <2>1. ASSUME NEW x \in Cells PROVE Owes(x) = [c \in Conns |-> 0]
    <3>1. ASSUME NEW c \in Conns PROVE Owed(c, x) = 0
      <4>1. <<c, x[1]>> \in Pumps
        BY DEF Pumps, Cells
      <4>2. InFlight(<<c, x[1]>>, x[2]) = 0
        BY <4>1 DEF Init, InFlight
      <4> QED
        BY <1>1, <4>2 DEF Init, Owed
    <3> QED
      BY <3>1 DEF Owes
  <2>2. SumFunction([c \in Conns |-> 0]) = 0
    BY SumZero, CountersAssumption
  <2> QED
    BY <1>1, <2>1, <2>2 DEF Init, SumInv
<1> QED
  BY <1>2, <1>3, <1>4, <1>5 DEF IInv

\* The inductive invariant holds throughout.
LEMMA IInvInvariant == Spec => []IInv
<1>1. IInv /\ [Next]_vars => IInv'
  BY PumpTypesStep, RateStep, ViewTypesStep, RegistryStep, SumStep, ViewStep DEF IInv
<1> QED
  BY <1>1, InitIInv, PTL DEF Spec

\* record_messages loses nothing, counts nothing twice and nothing under another
\* direction, however the four additions of the pumps interleave.
THEOREM TotalsAccount == Spec => []TotalsAccountForConns
<1>1. IInv => TotalsAccountForConns
  <2> SUFFICES ASSUME IInv, NEW d \in Dirs, NEW f \in Fields
               PROVE  total[<<d, f>>] =
                          SumFunction([c \in Conns |-> stat[c][<<d, f>>] + InFlight(<<c, d>>, f)])
    BY DEF TotalsAccountForConns
  <2>1. <<d, f>> \in Cells /\ <<d, f>>[1] = d /\ <<d, f>>[2] = f
    BY DEF Cells
  <2>2. Owes(<<d, f>>) = [c \in Conns |-> stat[c][<<d, f>>] + InFlight(<<c, d>>, f)]
    BY <2>1 DEF Owes, Owed
  <2> QED
    BY <2>1, <2>2 DEF IInv, SumInv
<1> QED
  BY <1>1, IInvInvariant, PTL

\* sample_rates: every message is in one sample, although the totals are loaded
\* one by one while the pumps add to them.
THEOREM SamplesAddUpInvariant == Spec => []SamplesAddUp
<1>1. IInv => SamplesAddUp
  BY DEF IInv, RateInv
<1> QED
  BY <1>1, IInvInvariant, PTL

\* snapshot: the aggregates it shows are those of the connections it lists and of
\* the evicted ones, but for at most one batch for each pump of a listed one.
THEOREM SnapshotAgrees == Spec => []SnapshotNearlyAgrees
<1>1. IInv => SnapshotNearlyAgrees
  <2> SUFFICES ASSUME IInv, view.stage = "listing", DOMAIN view.stat = view.list, NEW x \in Cells
               PROVE  view.total[x] <= SumFunction([c \in Conns |-> Accounted(c, x)])
    BY DEF SnapshotNearlyAgrees
  <2>1. ASSUME NEW c \in Conns PROVE Seen(x)[c] = Accounted(c, x)
    <3>1. CASE c \in view.list
      BY <3>1 DEF Seen, Accounted
    <3>2. CASE c \notin view.list /\ registry[c] = "evicted"
      BY <3>2 DEF Seen, Accounted, Owed
    <3>3. CASE c \notin view.list /\ registry[c] # "evicted"
      <4>1. registry[c] = "new"
        BY <3>3 DEF IInv, RegistryInv
      <4>2. stat[c][x] = 0
        BY <4>1 DEF IInv, RegistryInv, Zero
      <4>3. <<c, x[1]>> \in Pumps /\ <<c, x[1]>>[1] = c
        BY DEF Pumps, Cells
      <4>4. pump[<<c, x[1]>>].step = 0
        BY <4>1, <4>3 DEF IInv, RegistryInv
      <4>5. InFlight(<<c, x[1]>>, x[2]) = 0
        BY <4>4 DEF InFlight
      <4> QED
        BY <3>3, <4>2, <4>5 DEF Seen, Accounted, Owed
    <3> QED
      BY <3>1, <3>2, <3>3
  <2>2. Seen(x) = [c \in Conns |-> Accounted(c, x)]
    BY <2>1 DEF Seen
  <2> QED
    BY <2>2 DEF IInv, ViewInv
<1> QED
  BY <1>1, IInvInvariant, PTL
=================================================================================
