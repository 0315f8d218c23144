------------------------------ MODULE TuiAppProofs ------------------------------
(***************************************************************************)
(* Proofs about TuiApp, for any history cap, trim chunk, set of session    *)
(* files and setups.  The retained events and the file that is recorded    *)
(* are both ends of one timeline, so it is enough to know their lengths:   *)
(* IInv adds that the writer stands at the end of its file and that the    *)
(* file is not shorter than the history.  What is visible is determined by *)
(* the events and the filter, which bounds every index a frame uses.  That *)
(* a frame fills the view is shown by induction along the fold of Fill and *)
(* the sums of Total; SourceInv adds that every record shown has a height. *)
(***************************************************************************)
EXTENDS TuiApp, SequenceTheorems, FiniteSetTheorems, WellFoundedInduction, TLAPS

\* The sequence s is the end of t.
EndsWith(t, s) ==
    /\ Len(s) <= Len(t)
    /\ \A i \in 1..Len(s) : s[i] = t[(Len(t) - Len(s)) + i]

Flags ==
    /\ follow \in BOOLEAN /\ wrap \in BOOLEAN /\ rich \in BOOLEAN
    /\ filter_error \in BOOLEAN /\ filter_editing \in BOOLEAN
    /\ command_editing \in BOOLEAN /\ show_splash \in BOOLEAN
    /\ accept_source_records \in BOOLEAN /\ conns_opened \in BOOLEAN

Types ==
    /\ produced \in Seq(Entries) /\ outputs \in Seq(Entries) /\ opened \in Seq(Entries)
    /\ setup \in Setups
    /\ taken \in Nat /\ taken <= Len(produced)
    /\ events \in Seq(Entries)
    /\ files \in [Files -> Seq(Entries)]
    /\ recorder \in [path : Files \cup {"none"}, off : Nat]
    /\ dropped_events \in Nat /\ cleared \in Nat /\ scroll \in Nat /\ log_h \in Nat
    /\ filter \in {"all", "query", "row"} /\ filter_text \in Texts
    /\ phase \in {"drain", "keys", "quit"}

\* The history and its view.
HistoryInv ==
    /\ Len(events) < HISTORY_CAP + HISTORY_TRIM_CHUNK
    /\ phase = "keys" => Len(events) <= HISTORY_CAP
    /\ scroll <= Larger(MaxScroll, HISTORY_CAP)
    /\ visible = VisibleOf(events, filter)

\* The history is the end of the timeline, and what is missing was counted.
TimeInv ==
    /\ EndsWith(Timeline, events)
    /\ dropped_events + cleared + Len(events) = Len(Timeline)

\* So is the file that is recorded; the writer is at its end.
RecordInv ==
    Recording /\ ~clobbered =>
        /\ recorder.off = Len(files[recorder.path])
        /\ EndsWith(Timeline, files[recorder.path])
        /\ Len(events) <= Len(files[recorder.path])

IInv == Types /\ Flags /\ HistoryInv /\ TimeInv /\ RecordInv

-----------------------------------------------------------------------------
(* Ends of sequences                                                       *)

\* A function on 1..n is a sequence of length n.
LEMMA FunctionIsSeq ==
  ASSUME NEW S, NEW n \in Nat, NEW f \in [1..n -> S]
  PROVE  f \in Seq(S) /\ Len(f) = n
<1>1. f \in Seq(S)
  BY SeqDef
<1>2. DOMAIN f = 1..n /\ DOMAIN f = 1..Len(f) /\ Len(f) \in Nat
  BY <1>1, LenProperties
<1> QED
  BY <1>1, <1>2

\* The end of an end is an end.
LEMMA EndsWithTrans ==
  ASSUME NEW S, NEW t \in Seq(S), NEW s \in Seq(S), NEW r \in Seq(S),
         EndsWith(t, s), EndsWith(s, r)
  PROVE  EndsWith(t, r)
<1> DEFINE a == Len(t)
           b == Len(s)
           c == Len(r)
<1>1. a \in Nat /\ b \in Nat /\ c \in Nat
  OBVIOUS
<1>2. /\ b <= a /\ \A i \in 1..b : s[i] = t[(a - b) + i]
      /\ c <= b /\ \A i \in 1..c : r[i] = s[(b - c) + i]
  BY DEF EndsWith
<1>3. (c <= a /\ \A i \in 1..c : r[i] = t[(a - c) + i]) => EndsWith(t, r)
  BY DEF EndsWith
<1> HIDE DEF a, b, c
<1>4. \A i \in 1..c : (b - c) + i \in 1..b /\ (a - b) + ((b - c) + i) = (a - c) + i
  BY <1>1, <1>2
<1>5. c <= a /\ \A i \in 1..c : r[i] = t[(a - c) + i]
  BY <1>1, <1>2, <1>4
<1> QED
  BY <1>3, <1>5

\* Two ends of a sequence: the shorter is the end of the longer.
LEMMA EndsNested ==
  ASSUME NEW S, NEW t \in Seq(S), NEW s \in Seq(S), NEW r \in Seq(S),
         EndsWith(t, s), EndsWith(t, r), Len(r) <= Len(s)
  PROVE  EndsWith(s, r)
<1> DEFINE a == Len(t)
           b == Len(s)
           c == Len(r)
<1>1. a \in Nat /\ b \in Nat /\ c \in Nat /\ c <= b
  OBVIOUS
<1>2. /\ b <= a /\ \A i \in 1..b : s[i] = t[(a - b) + i]
      /\ c <= a /\ \A i \in 1..c : r[i] = t[(a - c) + i]
  BY DEF EndsWith
<1>3. (\A i \in 1..c : r[i] = s[(b - c) + i]) => EndsWith(s, r)
  BY <1>1 DEF EndsWith
<1> HIDE DEF a, b, c
<1>4. \A i \in 1..c : (b - c) + i \in 1..b /\ (a - b) + ((b - c) + i) = (a - c) + i
  BY <1>1, <1>2
<1>5. \A i \in 1..c : r[i] = s[(b - c) + i]
  BY <1>2, <1>4
<1> QED
  BY <1>3, <1>5

\* A sequence ends with itself and with the empty sequence.
LEMMA EndsTrivial ==
  ASSUME NEW S, NEW t \in Seq(S)
  PROVE  EndsWith(t, t) /\ EndsWith(t, << >>)
<1>1. Len(t) \in Nat /\ \A i \in 1..Len(t) : (Len(t) - Len(t)) + i = i
  OBVIOUS
<1>2. EndsWith(t, t)
  BY <1>1 DEF EndsWith
<1>3. EndsWith(t, << >>)
  <2>1. Len(<< >>) = 0 /\ 0 <= Len(t)
    BY <1>1
  <2> QED
    BY <2>1 DEF EndsWith
<1> QED
  BY <1>2, <1>3

\* Both sequences grow by the same element.
LEMMA EndsAppend ==
  ASSUME NEW S, NEW t \in Seq(S), NEW s \in Seq(S), EndsWith(t, s), NEW x \in S
  PROVE  EndsWith(Append(t, x), Append(s, x))
<1> DEFINE a == Len(t)
           b == Len(s)
           p == Append(t, x)
           q == Append(s, x)
<1>1. a \in Nat /\ b \in Nat
  OBVIOUS
<1>2. b <= a /\ \A i \in 1..b : s[i] = t[(a - b) + i]
  BY DEF EndsWith
<1>3. /\ Len(p) = a + 1 /\ p[a + 1] = x /\ \A i \in 1..a : p[i] = t[i]
      /\ Len(q) = b + 1 /\ q[b + 1] = x /\ \A i \in 1..b : q[i] = s[i]
  BY AppendProperties
<1> HIDE DEF a, b, p, q
<1>4. \A i \in 1..b : (a - b) + i \in 1..a
  BY <1>1, <1>2
<1>5. ASSUME NEW i \in 1..(b + 1) PROVE q[i] = p[(a - b) + i]
  <2>1. CASE i \in 1..b
    BY <1>2, <1>3, <1>4, <2>1
  <2>2. CASE i = b + 1
    <3>1. (a - b) + i = a + 1
      BY <1>1, <2>2
    <3> QED
      BY <1>3, <2>2, <3>1
  <2> QED
    BY <1>1, <2>1, <2>2
<1>6. (a + 1) - (b + 1) = a - b /\ b + 1 <= a + 1
  BY <1>1, <1>2
<1>7. EndsWith(p, q)
  BY <1>3, <1>5, <1>6 DEF EndsWith
<1> QED
  BY <1>7 DEF p, q

\* Dropping the first n elements leaves an end.
LEMMA EndsCut ==
  ASSUME NEW S, NEW s \in Seq(S), NEW n \in Nat, n <= Len(s)
  PROVE  LET c == SubSeq(s, n + 1, Len(s))
         IN  c \in Seq(S) /\ Len(c) = Len(s) - n /\ EndsWith(s, c)
<1> DEFINE l == Len(s)
           c == SubSeq(s, n + 1, l)
<1>1. l \in Nat /\ n + 1 \in Int /\ n <= l
  OBVIOUS
<1>2. \A i \in (n + 1)..l : s[i] \in S
  BY <1>1, ElementOfSeq
<1> HIDE DEF l
<1>3. /\ c \in Seq(S) /\ Len(c) = (IF n + 1 <= l THEN l - (n + 1) + 1 ELSE 0)
      /\ \A i \in 1..(l - (n + 1) + 1) : c[i] = s[(n + 1) + i - 1]
  BY <1>1, <1>2, SubSeqProperties
<1> HIDE DEF c
<1>4. /\ l - (n + 1) + 1 = l - n /\ (~(n + 1 <= l) => l - n = 0)
      /\ \A i \in 1..(l - n) : (n + 1) + i - 1 = (l - (l - n)) + i
      /\ l - n <= l /\ l - n \in Nat
  BY <1>1
<1>5. Len(c) = l - n
  BY <1>3, <1>4
<1>6. \A i \in 1..(l - n) : c[i] = s[(l - (l - n)) + i]
  BY <1>3, <1>4
<1>7. EndsWith(s, c)
  BY <1>4, <1>5, <1>6 DEF EndsWith, l
<1> QED
  BY <1>3, <1>5, <1>7 DEF c, l

\* The first n elements.
LEMMA FirstFacts ==
  ASSUME NEW S, NEW s \in Seq(S), NEW n \in Nat, n <= Len(s)
  PROVE  /\ SubSeq(s, 1, n) \in Seq(S) /\ Len(SubSeq(s, 1, n)) = n
         /\ \A i \in 1..n : SubSeq(s, 1, n)[i] = s[i]
<1>1. \A i \in 1..n : s[i] \in S
  <2>1. Len(s) \in Nat
    OBVIOUS
  <2>2. \A i \in 1..n : i \in 1..Len(s)
    BY <2>1
  <2> QED
    BY <2>2, ElementOfSeq
<1>2. /\ SubSeq(s, 1, n) \in Seq(S)
      /\ Len(SubSeq(s, 1, n)) = (IF 1 <= n THEN n - 1 + 1 ELSE 0)
      /\ \A i \in 1..(n - 1 + 1) : SubSeq(s, 1, n)[i] = s[1 + i - 1]
  BY <1>1, SubSeqProperties
<1>3. n - 1 + 1 = n /\ (~(1 <= n) => n = 0) /\ \A i \in 1..n : 1 + i - 1 = i
  OBVIOUS
<1> QED
  BY <1>2, <1>3

\* The end in the sense of the properties.
LEMMA EndIsSuffix ==
  ASSUME NEW S, NEW t \in Seq(S), NEW s \in Seq(S), EndsWith(t, s)
  PROVE  IsSuffix(s, t)
<1> DEFINE a == Len(t)
           b == Len(s)
           p == Reverse(t)
           q == Reverse(s)
<1>1. a \in Nat /\ b \in Nat
  OBVIOUS
<1>2. b <= a /\ \A i \in 1..b : s[i] = t[(a - b) + i]
  BY DEF EndsWith
<1>3. /\ p = [i \in 1..a |-> t[(a - i) + 1]]
      /\ q = [i \in 1..b |-> s[(b - i) + 1]]
  BY DEF Reverse
<1>4. /\ \A i \in 1..a : (a - i) + 1 \in 1..a
      /\ \A i \in 1..b : (b - i) + 1 \in 1..b
  BY <1>1
<1>5. p \in Seq(S) /\ q \in Seq(S) /\ Len(p) = a /\ Len(q) = b
  <2>1. p \in [1..a -> S] /\ q \in [1..b -> S]
    BY <1>3, <1>4, ElementOfSeq
  <2> HIDE DEF p, q, a, b
  <2> QED
    BY <1>1, <2>1, FunctionIsSeq
<1> HIDE DEF p, q
<1>6. \A i \in 1..b : q[i] = p[i] /\ q[i] \in S /\ p[i] \in S
  <2> SUFFICES ASSUME NEW i \in 1..b PROVE q[i] = p[i] /\ q[i] \in S /\ p[i] \in S
    OBVIOUS
  <2>1. i \in 1..a
    BY <1>1, <1>2
  <2>2. q[i] = s[(b - i) + 1] /\ p[i] = t[(a - i) + 1]
    BY <1>3, <2>1
  <2>3. s[(b - i) + 1] = t[(a - b) + ((b - i) + 1)]
    BY <1>2, <1>4
  <2> HIDE DEF a, b
  <2>4. (a - b) + ((b - i) + 1) = (a - i) + 1
    BY <1>1, <2>1
  <2> QED
    BY <1>5, <2>1, <2>2, <2>3, <2>4, ElementOfSeq
<1> HIDE DEF a, b
<1>7. /\ SubSeq(q, 1, b) \in Seq(S) /\ Len(SubSeq(q, 1, b)) = b
      /\ \A i \in 1..b : SubSeq(q, 1, b)[i] = q[i]
  BY <1>1, <1>5, FirstFacts
<1>8. /\ SubSeq(p, 1, b) \in Seq(S) /\ Len(SubSeq(p, 1, b)) = b
      /\ \A i \in 1..b : SubSeq(p, 1, b)[i] = p[i]
  BY <1>1, <1>2, <1>5, FirstFacts
<1>9. \A i \in 1..b : SubSeq(q, 1, b)[i] = SubSeq(p, 1, b)[i]
  BY <1>6, <1>7, <1>8
<1>10. SubSeq(q, 1, b) = SubSeq(p, 1, b)
  BY <1>7, <1>8, <1>9, SeqEqual
<1>11. IsPrefix(q, p)
  BY <1>2, <1>5, <1>10 DEF IsPrefix
<1> QED
  BY <1>11 DEF IsSuffix, p, q

-----------------------------------------------------------------------------
(* What is visible                                                         *)

\* The events that match, how many of m there are up to i, and m in order.
Matching(evs, f) == {i \in 1..Len(evs) : Matches(evs[i], f)}
Rank(m, i) == Cardinality({j \in m : j <= i})
Listed(m) == [k \in 1..Cardinality(m) |-> CHOOSE i \in m : Rank(m, i) = k]

\* rebuild_visible lists the positions that match.
LEMMA VisibleIsListed ==
  ASSUME NEW evs, NEW f
  PROVE  VisibleOf(evs, f) = Listed(Matching(evs, f))
  BY DEF VisibleOf, Listed, Matching, Rank

\* Ranks number the elements of m in their order, without gaps.
LEMMA RankFacts ==
  ASSUME NEW n \in Nat, NEW m \in SUBSET (1..n)
  PROVE  /\ IsFiniteSet(m) /\ Cardinality(m) \in Nat /\ Cardinality(m) <= n
         /\ \A i \in m : Rank(m, i) \in 1..Cardinality(m)
         /\ \A i, j \in m : i < j => Rank(m, i) < Rank(m, j)
         /\ \A k \in 1..Cardinality(m) : \E i \in m : Rank(m, i) = k
<1> DEFINE c == Cardinality(m)
<1>1. IsFiniteSet(m) /\ c \in Nat /\ c <= n
  <2>1. IsFiniteSet(1..n) /\ Cardinality(1..n) = IF 1 > n THEN 0 ELSE n - 1 + 1
    BY FS_Interval
  <2>2. Cardinality(1..n) <= n /\ Cardinality(1..n) \in Nat
    BY <2>1
  <2>3. IsFiniteSet(m) /\ c <= Cardinality(1..n)
    BY <2>1, FS_Subset
  <2>4. c \in Nat
    BY <2>3, FS_CardinalityType
  <2> HIDE DEF c
  <2> QED
    BY <2>2, <2>3, <2>4
<1>2. ASSUME NEW i \in m
      PROVE  /\ IsFiniteSet({j \in m : j <= i}) /\ Rank(m, i) \in 1..c
  <2> DEFINE b == {j \in m : j <= i}
  <2>1. b \in SUBSET m /\ i \in b
    OBVIOUS
  <2>2. IsFiniteSet(b) /\ Cardinality(b) <= c
    BY <1>1, <2>1, FS_Subset
  <2>3. Cardinality(b) \in Nat /\ Cardinality(b) # 0
    BY <2>1, <2>2, FS_CardinalityType, FS_EmptySet
  <2> HIDE DEF b
  <2>4. Cardinality(b) \in 1..c
    BY <1>1, <2>2, <2>3
  <2> QED
    BY <2>2, <2>4 DEF Rank, b
<1>3. ASSUME NEW i \in m, NEW j \in m, i < j PROVE Rank(m, i) < Rank(m, j)
  <2> DEFINE a == {l \in m : l <= i}
             b == {l \in m : l <= j}
  <2>1. a \in SUBSET b /\ j \in b /\ j \notin a
    <3>1. \A l \in m : l \in Nat
      OBVIOUS
    <3>2. \A l \in m : l <= i => l <= j
      BY <1>3, <3>1
    <3>3. j <= j /\ ~(j <= i)
      BY <1>3, <3>1
    <3> QED
      BY <3>2, <3>3
  <2>2. IsFiniteSet(b) /\ Rank(m, i) \in 1..c /\ Rank(m, j) \in 1..c
        /\ Rank(m, i) = Cardinality(a) /\ Rank(m, j) = Cardinality(b)
    BY <1>2 DEF Rank
  <2> HIDE DEF a, b
  <2>3. Cardinality(a) <= Cardinality(b) /\ Cardinality(a) # Cardinality(b)
    BY <2>1, <2>2, FS_Subset
  <2> QED
    BY <1>1, <2>2, <2>3
<1>4. ASSUME NEW k \in 1..c PROVE \E i \in m : Rank(m, i) = k
  <2> DEFINE f == [i \in m |-> Rank(m, i)]
  <2>1. f \in [m -> 1..c]
    BY <1>2
  <2>2. \A i, j \in m : f[i] = f[j] => i = j
    <3> SUFFICES ASSUME NEW i \in m, NEW j \in m, Rank(m, i) = Rank(m, j) PROVE i = j
      OBVIOUS
    <3>1. \A x \in 1..c : ~(x < x)
      BY <1>1
    <3>2. ~(i < j) /\ ~(j < i)
      BY <1>2, <1>3, <3>1
    <3>3. i \in Nat /\ j \in Nat
      OBVIOUS
    <3> QED
      BY <3>2, <3>3
  <2> HIDE DEF f
  <2>3. f \in Injection(m, 1..c)
    <3>1. DOMAIN f = m
      BY <2>1
    <3>2. IsInjective(f)
      BY <2>2, <3>1 DEF IsInjective
    <3> QED
      BY <2>1, <3>2 DEF Injection
  <2>4. IsFiniteSet(1..c) /\ Cardinality(1..c) = IF 1 > c THEN 0 ELSE c - 1 + 1
    <3> HIDE DEF c
    <3>1. 1 \in Int /\ c \in Int
      BY <1>1
    <3> QED
      BY <3>1, FS_Interval
  <2>5. Cardinality(1..c) = c
    BY <1>1, <2>4
  <2>6. f \in Surjection(m, 1..c)
    BY <2>3, <2>4, <2>5, FS_Injection
  <2>7. \E i \in m : f[i] = k
    BY <2>6 DEF Surjection
  <2> QED
    BY <2>7 DEF f
<1> QED
  BY <1>1, <1>2, <1>3, <1>4

\* The list has the k-th element at its k-th place.
LEMMA ListedFacts ==
  ASSUME NEW n \in Nat, NEW m \in SUBSET (1..n)
  PROVE  /\ Listed(m) \in Seq(1..n) /\ Len(Listed(m)) = Cardinality(m)
         /\ \A k \in 1..Cardinality(m) : Listed(m)[k] \in m /\ Rank(m, Listed(m)[k]) = k
<1> DEFINE c == Cardinality(m)
           v == Listed(m)
<1>1. c \in Nat /\ \A k \in 1..c : \E i \in m : Rank(m, i) = k
  BY RankFacts
<1>2. \A k \in 1..c : v[k] = CHOOSE i \in m : Rank(m, i) = k
  BY DEF Listed
<1>3. \A k \in 1..c : v[k] \in m /\ Rank(m, v[k]) = k
  BY <1>1, <1>2
<1>4. v \in [1..c -> 1..n]
  <2>1. v = [k \in 1..c |-> v[k]]
    BY DEF Listed
  <2> HIDE DEF v
  <2> QED
    BY <1>3, <2>1
<1> HIDE DEF v, c
<1>5. v \in Seq(1..n) /\ Len(v) = c
  BY <1>1, <1>4, FunctionIsSeq
<1> QED
  BY <1>3, <1>5 DEF v, c

\* A new greatest element comes last.
LEMMA ListedGrows ==
  ASSUME NEW n \in Nat, NEW m \in SUBSET (1..n)
  PROVE  Listed(m \cup {n + 1}) = Append(Listed(m), n + 1)
<1> DEFINE q == m \cup {n + 1}
           c == Cardinality(m)
           v == Listed(m)
           w == Listed(q)
           a == Append(v, n + 1)
<1>1. n + 1 \in Nat /\ q \in SUBSET (1..(n + 1)) /\ m \in SUBSET (1..(n + 1)) /\ n + 1 \notin m
  OBVIOUS
<1>2. c \in Nat /\ IsFiniteSet(m) /\ \A i, j \in m : i < j => Rank(m, i) < Rank(m, j)
  BY RankFacts
<1>3. Cardinality(q) = c + 1
  BY <1>1, <1>2, FS_AddElement
<1>4. /\ v \in Seq(1..(n + 1)) /\ Len(v) = c
      /\ \A k \in 1..c : v[k] \in m /\ Rank(m, v[k]) = k
  BY <1>1, ListedFacts
<1>5. /\ w \in Seq(1..(n + 1)) /\ Len(w) = c + 1
      /\ \A k \in 1..(c + 1) : w[k] \in q /\ Rank(q, w[k]) = k
  <2> HIDE DEF q, w
  <2>1. /\ Listed(q) \in Seq(1..(n + 1)) /\ Len(Listed(q)) = Cardinality(q)
        /\ \A k \in 1..Cardinality(q) : Listed(q)[k] \in q /\ Rank(q, Listed(q)[k]) = k
    BY <1>1, ListedFacts
  <2> QED
    BY <1>3, <2>1 DEF w
<1>6. \A i \in m : Rank(q, i) = Rank(m, i)
  <2> SUFFICES ASSUME NEW i \in m PROVE {j \in q : j <= i} = {j \in m : j <= i}
    BY DEF Rank
  <2>1. ~(n + 1 <= i)
    BY <1>1
  <2> QED
    BY <2>1
<1>7. Rank(q, n + 1) = c + 1
  <2>1. \A j \in 1..(n + 1) : j <= n + 1
    BY <1>1
  <2>2. {j \in q : j <= n + 1} = q
    BY <1>1, <2>1
  <2> QED
    BY <1>3, <2>2 DEF Rank
<1> HIDE DEF v, w
<1>8. /\ a \in Seq(1..(n + 1)) /\ Len(a) = c + 1
      /\ \A k \in 1..c : a[k] = v[k]
      /\ a[c + 1] = n + 1
  <2>1. n + 1 \in 1..(n + 1)
    BY <1>1
  <2> QED
    BY <1>4, <2>1, AppendProperties
<1> HIDE DEF a, c
<1>9. ASSUME NEW k \in 1..(c + 1) PROVE w[k] = a[k]
  <2>1. w[k] \in q /\ Rank(q, w[k]) = k
    BY <1>5
  <2>2. CASE k \in 1..c
    <3>1. w[k] \in m
      BY <1>2, <1>7, <2>1, <2>2
    <3>2. Rank(m, w[k]) = k /\ v[k] \in m /\ Rank(m, v[k]) = k
      BY <1>4, <1>6, <2>1, <2>2, <3>1
    <3>3. \A i, j \in m : Rank(m, i) = k /\ Rank(m, j) = k => i = j
      <4> SUFFICES ASSUME NEW i \in m, NEW j \in m, Rank(m, i) = k, Rank(m, j) = k PROVE i = j
        OBVIOUS
      <4>1. k \in Nat /\ ~(k < k)
        BY <1>2, <2>2
      <4>2. ~(i < j) /\ ~(j < i)
        BY <1>2, <4>1
      <4>3. i \in Nat /\ j \in Nat
        BY <1>1
      <4> QED
        BY <4>2, <4>3
    <3>4. w[k] = v[k]
      BY <3>1, <3>2, <3>3
    <3> QED
      BY <1>8, <2>2, <3>4
  <2>3. CASE k = c + 1
    <3>1. w[k] \notin m
      <4> SUFFICES ASSUME w[k] \in m PROVE FALSE
        OBVIOUS
      <4>1. Rank(m, w[k]) \in 1..c
        BY RankFacts DEF c
      <4> QED
        <5>1. c + 1 \in 1..c
          BY <1>6, <2>1, <2>3, <4>1
        <5> QED
          BY <1>2, <5>1
    <3> QED
      BY <1>8, <2>1, <2>3, <3>1
  <2> QED
    BY <1>2, <2>2, <2>3
<1>10. w = a
  BY <1>5, <1>8, <1>9, SeqEqual
<1> QED
  BY <1>10 DEF w, a, v

\* Every position listed is that of an event.
LEMMA VisibleFacts ==
  ASSUME NEW evs \in Seq(Entries), NEW f
  PROVE  /\ VisibleOf(evs, f) \in Seq(1..Len(evs))
         /\ Len(VisibleOf(evs, f)) \in Nat /\ Len(VisibleOf(evs, f)) <= Len(evs)
         /\ \A k \in 1..Len(VisibleOf(evs, f)) : VisibleOf(evs, f)[k] \in 1..Len(evs)
<1> DEFINE m == Matching(evs, f)
           v == VisibleOf(evs, f)
<1>1. Len(evs) \in Nat /\ m \in SUBSET (1..Len(evs))
  BY DEF Matching
<1>2. v = Listed(m)
  BY VisibleIsListed
<1> HIDE DEF m, v
<1>3. v \in Seq(1..Len(evs)) /\ Len(v) = Cardinality(m)
  BY <1>1, <1>2, ListedFacts
<1>4. Cardinality(m) \in Nat /\ Cardinality(m) <= Len(evs)
  BY <1>1, RankFacts
<1>5. \A k \in 1..Len(v) : v[k] \in 1..Len(evs)
  BY <1>3, ElementOfSeq
<1> QED
  BY <1>3, <1>4, <1>5 DEF v

\* push_output extends the list as rebuild_visible would.
LEMMA VisibleGrows ==
  ASSUME NEW evs \in Seq(Entries), NEW r \in Entries, NEW f
  PROVE  LET grown == Append(evs, r)
         IN  VisibleOf(grown, f) = IF Matches(r, f)
                                   THEN Append(VisibleOf(evs, f), Len(grown))
                                   ELSE VisibleOf(evs, f)
<1> DEFINE n == Len(evs)
           g == Append(evs, r)
           m == Matching(evs, f)
           q == Matching(g, f)
<1>1. n \in Nat /\ Len(g) = n + 1 /\ g[n + 1] = r /\ \A i \in 1..n : g[i] = evs[i]
  BY AppendProperties
<1>2. m \in SUBSET (1..n)
  BY DEF Matching
<1>3. VisibleOf(g, f) = Listed(q) /\ VisibleOf(evs, f) = Listed(m)
  BY VisibleIsListed
<1>4. \A i \in 1..(n + 1) : i \in 1..n \/ i = n + 1
  BY <1>1
<1>5. \A i : i \in q <=> i \in 1..(n + 1) /\ Matches(g[i], f)
  <2> HIDE DEF g
  <2> QED
    BY <1>1 DEF Matching
<1>6. \A i : i \in m <=> i \in 1..n /\ Matches(evs[i], f)
  BY DEF Matching
<1> HIDE DEF q, m, g, n
<1>7. CASE Matches(r, f)
  <2>1. q = m \cup {n + 1}
    BY <1>1, <1>4, <1>5, <1>6, <1>7
  <2>2. Listed(q) = Append(Listed(m), n + 1)
    BY <1>1, <1>2, <2>1, ListedGrows
  <2> QED
    BY <1>1, <1>3, <1>7, <2>2 DEF g
<1>8. CASE ~Matches(r, f)
  <2>1. \A i : i \in q <=> i \in m
    <3>1. \A i \in 1..n : i \in 1..(n + 1)
      BY <1>1
    <3>2. \A i \in 1..n : i \in q <=> i \in m
      BY <1>1, <1>5, <1>6, <3>1
    <3>3. n + 1 \notin q /\ n + 1 \notin 1..n
      BY <1>1, <1>5, <1>8
    <3> QED
      BY <1>4, <1>5, <1>6, <3>2, <3>3
  <2>2. q = m
    BY <2>1
  <2> QED
    BY <1>3, <1>8, <2>2 DEF g
<1> QED
  BY <1>7, <1>8

-----------------------------------------------------------------------------
(* History, recorder and timeline                                          *)

\* The limits of the history are positive numbers.
LEMMA CapFacts ==
  /\ HISTORY_CAP \in Nat /\ HISTORY_CAP > 0
  /\ HISTORY_TRIM_CHUNK \in Nat /\ HISTORY_TRIM_CHUNK > 0
  /\ MaxScroll \in Nat
  BY HistoryAssumption

\* A damaged line is an entry of a session file.
LEMMA DamageIsEntry == Damage \in Entries
  BY DEF Entries

\* trim_history keeps the newest events, counts the others and keeps the view
\* in step.
LEMMA TrimFacts ==
  ASSUME NEW evs \in Seq(Entries), NEW vis, NEW scr, vis = VisibleOf(evs, filter)
  PROVE  LET t == TrimHistory(evs, vis, scr)
         IN  /\ t.events \in Seq(Entries) /\ Len(t.events) \in Nat /\ t.dropped \in Nat
             /\ t.dropped + Len(t.events) = Len(evs) /\ Len(t.events) <= HISTORY_CAP
             /\ EndsWith(evs, t.events)
             /\ t.visible = VisibleOf(t.events, filter)
             /\ t.scroll = scr \/ t.scroll = 0
             /\ t.dropped = 0 => t.events = evs /\ t.visible = vis /\ t.scroll = scr
             /\ Len(evs) > HISTORY_CAP => t.dropped # 0
<1> DEFINE l == Len(evs)
           n == Larger(0, l - HISTORY_CAP)
           kept == SubSeq(evs, n + 1, l)
           t == TrimHistory(evs, vis, scr)
<1>1. l \in Nat /\ HISTORY_CAP \in Nat
  BY CapFacts
<1>2. n \in Nat /\ n <= l /\ l - n <= HISTORY_CAP /\ (n = 0 <=> l <= HISTORY_CAP)
  <2> HIDE DEF l
  <2> QED
    BY <1>1 DEF Larger
<1>3. t = IF n = 0 THEN History(evs, vis, scr, 0)
          ELSE History(kept, VisibleOf(kept, filter), 0, n)
  BY DEF TrimHistory
<1> HIDE DEF n, t
<1>4. CASE n = 0
  <2>1. t = [events |-> evs, visible |-> vis, scroll |-> scr, dropped |-> 0]
    BY <1>3, <1>4 DEF History
  <2>2. t.events = evs /\ t.visible = vis /\ t.scroll = scr /\ t.dropped = 0
    BY <2>1
  <2>3. EndsWith(evs, evs)
    BY EndsTrivial
  <2> HIDE DEF l
  <2>4. 0 + l = l /\ l <= HISTORY_CAP /\ ~(l > HISTORY_CAP)
    BY <1>1, <1>2, <1>4
  <2> QED
    BY <1>1, <2>2, <2>3, <2>4 DEF t, l
<1>5. CASE n # 0
  <2>1. kept \in Seq(Entries) /\ Len(kept) = l - n /\ EndsWith(evs, kept)
    BY <1>2, EndsCut
  <2> HIDE DEF kept
  <2>2. t = [events |-> kept, visible |-> VisibleOf(kept, filter), scroll |-> 0, dropped |-> n]
    BY <1>3, <1>5 DEF History
  <2>3. t.events = kept /\ t.visible = VisibleOf(kept, filter) /\ t.scroll = 0 /\ t.dropped = n
    BY <2>2
  <2> HIDE DEF l
  <2>4. n + (l - n) = l /\ l - n \in Nat
    BY <1>1, <1>2
  <2> QED
    BY <1>2, <1>5, <2>1, <2>3, <2>4 DEF t, l
<1> QED
  BY <1>4, <1>5

\* A record written where the writer stands.
LEMMA WriteFacts ==
  ASSUME NEW content \in Seq(Entries), NEW off \in Nat, NEW r \in Entries
  PROVE  /\ WriteAt(content, off, r) \in Seq(Entries)
         /\ off = Len(content) => WriteAt(content, off, r) = Append(content, r)
<1> DEFINE l == Len(content)
           k == Larger(l, off + 1)
           w == WriteAt(content, off, r)
<1>1. l \in Nat
  OBVIOUS
<1>2. k \in Nat /\ (off = l => k = l + 1)
  <2> HIDE DEF l
  <2> QED
    BY <1>1 DEF Larger
<1>3. w = [i \in 1..k |->
             CASE i = off + 1 -> r
               [] i # off + 1 /\ i <= l -> content[i]
               [] OTHER -> Damage]
  BY DEF WriteAt
<1> HIDE DEF w, k
<1>4. ASSUME NEW i \in 1..k
      PROVE  /\ i = off + 1 => w[i] = r
             /\ i # off + 1 /\ i <= l => w[i] = content[i]
             /\ i # off + 1 /\ ~(i <= l) => w[i] = Damage
  BY <1>3
<1>5. \A i \in 1..k : w[i] \in Entries
  <2> SUFFICES ASSUME NEW i \in 1..k PROVE w[i] \in Entries
    OBVIOUS
  <2>1. i <= l => content[i] \in Entries
    <3>1. i <= l => i \in 1..l
      BY <1>1, <1>2
    <3> QED
      BY <3>1, ElementOfSeq
  <2> QED
    BY <1>4, <2>1, DamageIsEntry
<1>6. w \in [1..k -> Entries]
  BY <1>3, <1>5
<1>7. w \in Seq(Entries) /\ Len(w) = k
  BY <1>2, <1>6, FunctionIsSeq
<1>8. ASSUME off = l PROVE w = Append(content, r)
  <2> DEFINE a == Append(content, r)
  <2>1. a \in Seq(Entries) /\ Len(a) = l + 1 /\ a[l + 1] = r /\ \A i \in 1..l : a[i] = content[i]
    BY AppendProperties
  <2> HIDE DEF a
  <2>2. \A i \in 1..(l + 1) : i = l + 1 \/ (i \in 1..l /\ i <= l /\ i # l + 1)
    <3> HIDE DEF l
    <3> QED
      BY <1>1
  <2>3. \A i \in 1..(l + 1) : w[i] = a[i]
    BY <1>2, <1>4, <1>8, <2>1, <2>2
  <2>4. w = a
    BY <1>2, <1>7, <1>8, <2>1, <2>3, SeqEqual
  <2> QED
    BY <2>4 DEF a
<1> QED
  BY <1>7, <1>8 DEF w

\* A record is appended to the file, or the recording ends.
LEMMA RecordFacts ==
  ASSUME Types, NEW r \in Entries, RecordOutput(r)
  PROVE  /\ files' \in [Files -> Seq(Entries)]
         /\ recorder' \in [path : Files \cup {"none"}, off : Nat]
         /\ Recording' =>
               /\ Recording /\ recorder'.path = recorder.path
               /\ recorder.off = Len(files[recorder.path]) =>
                     /\ files'[recorder'.path] = Append(files[recorder.path], r)
                     /\ recorder'.off = Len(files'[recorder'.path])
<1> DEFINE p == recorder.path
           o == recorder.off
           Put(x) == [files EXCEPT ![p] = WriteAt(@, o, x)]
<1>1. /\ files \in [Files -> Seq(Entries)] /\ recorder \in [path : Files \cup {"none"}, off : Nat]
      /\ p \in Files \cup {"none"} /\ o \in Nat /\ recorder = [path |-> p, off |-> o]
  BY DEF Types
<1>2. NoRecorder \in [path : Files \cup {"none"}, off : Nat] /\ NoRecorder.path = "none"
  BY DEF NoRecorder
<1>3. ASSUME Recording, NEW x \in Entries
      PROVE  /\ p \in Files /\ Put(x) \in [Files -> Seq(Entries)]
             /\ Put(x)[p] = WriteAt(files[p], o, x)
             /\ files[p] \in Seq(Entries)
  <2>1. p \in Files /\ files[p] \in Seq(Entries)
    BY <1>1, <1>3 DEF Recording
  <2>2. WriteAt(files[p], o, x) \in Seq(Entries)
    BY <1>1, <2>1, WriteFacts
  <2> HIDE DEF p, o
  <2> QED
    BY <1>1, <2>1, <2>2
<1>4. CASE ~Recording /\ UNCHANGED <<recorder, files>>
  BY <1>1, <1>4 DEF Recording
<1>5. CASE Recording /\ files' = Put(r) /\ recorder' = [recorder EXCEPT !.off = @ + 1]
  <2>1. p \in Files /\ files' \in [Files -> Seq(Entries)] /\ files'[p] = WriteAt(files[p], o, r)
        /\ files[p] \in Seq(Entries)
    BY <1>3, <1>5
  <2>2. recorder' = [path |-> p, off |-> o + 1]
    BY <1>1, <1>5
  <2>3. recorder'.path = p /\ recorder'.off = o + 1
        /\ recorder' \in [path : Files \cup {"none"}, off : Nat]
    BY <1>1, <2>2
  <2>4. ASSUME o = Len(files[p])
        PROVE  files'[p] = Append(files[p], r) /\ Len(files'[p]) = o + 1
    <3>1. files'[p] = Append(files[p], r)
      BY <1>1, <2>1, <2>4, WriteFacts
    <3> QED
      BY <2>1, <2>4, <3>1, AppendProperties
  <2> QED
    BY <1>5, <2>1, <2>3, <2>4
<1>6. CASE /\ Recording
           /\ files' = files \/ files' = Put(r) \/ files' = Put(Damage)
           /\ recorder' = NoRecorder
  <2>1. files' \in [Files -> Seq(Entries)]
    BY <1>1, <1>3, <1>6, DamageIsEntry
  <2>2. ~Recording'
    BY <1>2, <1>6 DEF Recording
  <2> QED
    BY <1>2, <1>6, <2>1, <2>2
<1> QED
  BY <1>4, <1>5, <1>6 DEF RecordOutput

\* The timeline as a sequence.
LEMMA TimelineFacts ==
  ASSUME Types
  PROVE  /\ Timeline \in Seq(Entries) /\ Len(Timeline) \in Nat
         /\ ~accept_source_records => Timeline = opened
         /\ accept_source_records =>
               Len(Timeline) = taken /\ \A i \in 1..taken : Timeline[i] = produced[i]
<1>1. produced \in Seq(Entries) /\ opened \in Seq(Entries) /\ taken \in Nat /\ taken <= Len(produced)
  BY DEF Types
<1>2. /\ SubSeq(produced, 1, taken) \in Seq(Entries) /\ Len(SubSeq(produced, 1, taken)) = taken
      /\ \A i \in 1..taken : SubSeq(produced, 1, taken)[i] = produced[i]
  BY <1>1, FirstFacts
<1> QED
  BY <1>1, <1>2 DEF Timeline

\* What the source sends before it is received does not belong to it.
LEMMA TimelineSame ==
  ASSUME Types, Types', accept_source_records' = accept_source_records,
         opened' = opened, taken' = taken, \A i \in 1..taken : produced'[i] = produced[i]
  PROVE  Timeline' = Timeline
<1>1. CASE accept_source_records
  <2>1. Timeline \in Seq(Entries) /\ Len(Timeline) = taken /\ \A i \in 1..taken : Timeline[i] = produced[i]
    BY <1>1, TimelineFacts
  <2>2. /\ Timeline' \in Seq(Entries) /\ Len(Timeline') = taken'
        /\ \A i \in 1..taken' : Timeline'[i] = produced'[i]
    <3>1. produced' \in Seq(Entries) /\ taken' \in Nat /\ taken' <= Len(produced')
      BY DEF Types
    <3>2. Timeline' = SubSeq(produced', 1, taken')
      BY <1>1 DEF Timeline
    <3> QED
      BY <3>1, <3>2, FirstFacts
  <2> QED
    BY <2>1, <2>2, SeqEqual
<1>2. CASE ~accept_source_records
  BY <1>2 DEF Timeline
<1> QED
  BY <1>1, <1>2

\* A record received extends it, until :open cuts the source off.
LEMMA TimelineGrows ==
  ASSUME Types, Types', accept_source_records' = accept_source_records,
         opened' = opened, taken < Len(produced), taken' = taken + 1, produced' = produced
  PROVE  /\ produced[taken + 1] \in Entries
         /\ Timeline' = IF accept_source_records THEN Append(Timeline, produced[taken + 1])
                        ELSE Timeline
<1>1. produced \in Seq(Entries) /\ taken \in Nat /\ Len(produced) \in Nat
  BY DEF Types
<1>2. taken + 1 \in 1..Len(produced)
  BY <1>1
<1>3. produced[taken + 1] \in Entries
  BY <1>1, <1>2, ElementOfSeq
<1>4. CASE accept_source_records
  <2> DEFINE x == produced[taken + 1]
             a == Append(Timeline, x)
  <2>1. Timeline \in Seq(Entries) /\ Len(Timeline) = taken /\ \A i \in 1..taken : Timeline[i] = produced[i]
    BY <1>4, TimelineFacts
  <2>2. /\ Timeline' \in Seq(Entries) /\ Len(Timeline') = taken + 1
        /\ \A i \in 1..(taken + 1) : Timeline'[i] = produced[i]
    <3>1. taken + 1 \in Nat /\ taken + 1 <= Len(produced)
      BY <1>1
    <3>2. Timeline' = SubSeq(produced, 1, taken + 1)
      BY <1>4 DEF Timeline
    <3> QED
      BY <1>1, <3>1, <3>2, FirstFacts
  <2>3. a \in Seq(Entries) /\ Len(a) = taken + 1 /\ a[taken + 1] = x
        /\ \A i \in 1..taken : a[i] = produced[i]
    <3> HIDE DEF x
    <3>1. x \in Entries
      BY <1>3 DEF x
    <3> QED
      BY <2>1, <3>1, AppendProperties
  <2> HIDE DEF a
  <2>4. \A i \in 1..(taken + 1) : i \in 1..taken \/ i = taken + 1
    BY <1>1
  <2>5. Timeline' = a
    BY <2>2, <2>3, <2>4, SeqEqual
  <2> QED
    BY <1>3, <1>4, <2>5 DEF a
<1>5. CASE ~accept_source_records
  BY <1>3, <1>5 DEF Timeline
<1> QED
  BY <1>4, <1>5

\* A step that leaves the timeline, the history and the recorder alone.
LEMMA TimelineKept ==
  ASSUME IInv, Types', Timeline' = Timeline,
         UNCHANGED <<events, dropped_events, cleared, recorder, files, clobbered>>
  PROVE  TimeInv' /\ RecordInv'
<1> DEFINE t == Timeline
<1>1. Timeline' = t
  OBVIOUS
<1>2. EndsWith(t, events) /\ dropped_events + cleared + Len(events) = Len(t)
  BY DEF IInv, TimeInv
<1>3. Recording /\ ~clobbered =>
        /\ recorder.off = Len(files[recorder.path])
        /\ EndsWith(t, files[recorder.path])
        /\ Len(events) <= Len(files[recorder.path])
  BY DEF IInv, RecordInv
<1> HIDE DEF t
<1>4. TimeInv'
  BY <1>1, <1>2 DEF TimeInv
<1>5. RecordInv'
  BY <1>1, <1>3 DEF RecordInv, Recording
<1> QED
  BY <1>4, <1>5

-----------------------------------------------------------------------------
(* The source thread                                                       *)

\* What feeds the channel keeps the invariant.
LEMMA SourceStep ==
  ASSUME IInv,
         (\E k \in setup.kinds : SendLive(k)) \/ LoadReplay \/ SendReplayed \/ ConnectionOpens
  PROVE  IInv'
<1>1. /\ UNCHANGED <<setup, taken, viewVars, modeVars, filterVars, command_editing, show_splash,
                     dropped_events, cleared, sessVars, loopVars>>
      /\ conns_opened' = conns_opened \/ conns_opened' = TRUE
  BY DEF SendLive, LoadReplay, SendReplayed, ConnectionOpens
<1>2. /\ Types /\ setup \in Setups /\ produced \in Seq(Entries) /\ outputs \in Seq(Entries)
      /\ Len(produced) \in Nat /\ Len(outputs) \in Nat /\ taken \in Nat /\ taken <= Len(produced)
  BY DEF IInv, Types
<1>3. \/ produced' = produced
      \/ \E r \in Entries : produced' = Append(produced, r)
  <2>1. ASSUME NEW k \in setup.kinds, SendLive(k) PROVE \E r \in Entries : produced' = Append(produced, r)
    <3> DEFINE r == [from |-> "live", n |-> Len(produced) + 1, kind |-> k]
    <3>1. k \in Kinds
      BY <1>2, SetupAssumption
    <3>2. r \in Entries
      BY <1>2, <3>1 DEF Entries, Records, Origins
    <3> QED
      BY <2>1, <3>2 DEF SendLive
  <2>2. ASSUME SendReplayed PROVE \E r \in Entries : produced' = Append(produced, r)
    <3>1. Len(produced) < Len(outputs) /\ produced' = Append(produced, outputs[Len(produced) + 1])
      BY <2>2 DEF SendReplayed
    <3>2. Len(produced) + 1 \in 1..Len(outputs)
      BY <1>2, <3>1
    <3>3. outputs[Len(produced) + 1] \in Entries
      BY <1>2, <3>2, ElementOfSeq
    <3> QED
      BY <3>1, <3>3
  <2>3. LoadReplay \/ ConnectionOpens => produced' = produced
    BY DEF LoadReplay, ConnectionOpens
  <2> QED
    BY <2>1, <2>2, <2>3
<1>4. /\ produced' \in Seq(Entries) /\ Len(produced') \in Nat /\ Len(produced) <= Len(produced')
      /\ \A i \in 1..taken : produced'[i] = produced[i]
  <2>1. CASE produced' = produced
    BY <1>2, <2>1
  <2>2. CASE \E r \in Entries : produced' = Append(produced, r)
    <3>1. PICK r \in Entries : produced' = Append(produced, r)
      BY <2>2
    <3>2. produced' \in Seq(Entries) /\ Len(produced') = Len(produced) + 1
          /\ \A i \in 1..Len(produced) : produced'[i] = produced[i]
      BY <1>2, <3>1, AppendProperties
    <3> QED
      BY <1>2, <3>2
  <2> QED
    BY <1>3, <2>1, <2>2
<1>5. outputs' \in Seq(Entries)
  <2>1. LoadReplay => outputs' = ReplayOutputs(files[setup.replay]) /\ setup.replay # "none"
    BY DEF LoadReplay
  <2>2. ~LoadReplay => outputs' = outputs
    BY DEF SendLive, SendReplayed, ConnectionOpens
  <2>3. ASSUME LoadReplay PROVE ReplayOutputs(files[setup.replay]) \in Seq(Entries)
    <3> DEFINE content == files[setup.replay]
               notice == <<[from |-> "replay", n |-> 0, kind |-> "status"]>>
               d == TailDropped(content)
               start == IF d > 0 THEN notice ELSE << >>
    <3>1. content \in Seq(Entries)
      <4>1. setup.replay \in Files
        <5>1. {setup.replay, setup.save} \subseteq Files \cup {"none"}
          BY <1>2, SetupAssumption
        <5> QED
          BY <2>1, <2>3, <5>1
      <4> QED
        BY <1>2, <4>1 DEF Types
    <3>2. notice \in Seq(Entries)
      BY DEF Entries, Records, Origins, Kinds
    <3>3. start \in Seq(Entries)
      BY <3>2
    <3>4. ReadTail(content) \in Seq(Entries)
      <4> HIDE DEF content
      <4>1. d \in Nat /\ d <= Len(content)
        BY <3>1, CapFacts DEF TailDropped, Larger
      <4> QED
        BY <3>1, <4>1, EndsCut DEF ReadTail
    <3> HIDE DEF start, content, notice
    <3>5. start \o ReadTail(content) \in Seq(Entries)
      BY <3>3, <3>4, ConcatProperties
    <3>6. ReplayOutputs(content) = IF ~Readable(content) THEN notice ELSE start \o ReadTail(content)
      BY DEF ReplayOutputs, start, notice
    <3> QED
      BY <3>2, <3>5, <3>6 DEF content
  <2> QED
    BY <1>2, <2>1, <2>2, <2>3
<1>6. Types'
  <2>1. taken <= Len(produced')
    BY <1>2, <1>4
  <2> QED
    BY <1>1, <1>2, <1>4, <1>5, <2>1 DEF Types, viewVars, filterVars, sessVars, loopVars
<1>7. Flags'
  BY <1>1 DEF IInv, Flags, modeVars, filterVars, sessVars
<1>8. HistoryInv'
  BY <1>1 DEF IInv, HistoryInv, viewVars, filterVars, loopVars
<1>9. Timeline' = Timeline
  BY <1>1, <1>2, <1>4, <1>6, TimelineSame DEF sessVars
<1>10. TimeInv' /\ RecordInv'
  BY <1>1, <1>6, <1>9, TimelineKept DEF viewVars, sessVars
<1> QED
  BY <1>6, <1>7, <1>8, <1>10 DEF IInv

-----------------------------------------------------------------------------
(* The main loop                                                           *)

\* push_output: the record joins the history, which is cut when it is far over
\* the cap; the view is what rebuild_visible would make of it.
LEMMA PushFacts ==
  ASSUME IInv, NEW r \in Entries, PushOutput(r)
  PROVE  /\ events' \in Seq(Entries) /\ Len(events') \in Nat
         /\ EndsWith(Append(events, r), events')
         /\ dropped_events' \in Nat
         /\ dropped_events' + Len(events') = dropped_events + (Len(events) + 1)
         /\ Len(events') < HISTORY_CAP + HISTORY_TRIM_CHUNK
         /\ visible' = VisibleOf(events', filter)
         /\ scroll' = scroll \/ scroll' = 0
         /\ dropped_events' = dropped_events =>
               /\ events' = Append(events, r) /\ scroll' = scroll
               /\ visible' = visible \/ visible' = Append(visible, Len(events) + 1)
<1> DEFINE evs == Append(events, r)
           vis == IF Matches(r, filter) THEN Append(visible, Len(evs)) ELSE visible
           t == TrimHistory(evs, vis, scroll)
           l == Len(events)
           limit == HISTORY_CAP + HISTORY_TRIM_CHUNK
           h == IF Len(evs) >= limit THEN t ELSE History(evs, vis, scroll, 0)
<1>1. /\ events \in Seq(Entries) /\ l \in Nat /\ dropped_events \in Nat
      /\ visible = VisibleOf(events, filter)
      /\ HISTORY_CAP \in Nat /\ HISTORY_TRIM_CHUNK \in Nat /\ HISTORY_TRIM_CHUNK > 0
  BY CapFacts DEF IInv, Types, HistoryInv
<1>2. evs \in Seq(Entries) /\ Len(evs) = l + 1
  BY <1>1, AppendProperties
<1>3. vis = VisibleOf(evs, filter)
  BY <1>1, VisibleGrows
<1>4. vis = visible \/ vis = Append(visible, l + 1)
  BY <1>2
<1>5. /\ events' = h.events /\ visible' = h.visible /\ scroll' = h.scroll
      /\ dropped_events' = dropped_events + h.dropped
  BY DEF PushOutput, SetHistory
<1> HIDE DEF vis
<1>6. /\ t.events \in Seq(Entries) /\ Len(t.events) \in Nat /\ t.dropped \in Nat
      /\ t.dropped + Len(t.events) = Len(evs) /\ Len(t.events) <= HISTORY_CAP
      /\ EndsWith(evs, t.events)
      /\ t.visible = VisibleOf(t.events, filter)
      /\ t.scroll = scroll \/ t.scroll = 0
      /\ Len(evs) > HISTORY_CAP => t.dropped # 0
  <2> HIDE DEF evs
  <2> QED
    BY <1>2, <1>3, TrimFacts
<1> HIDE DEF evs, t, l
<1>7. CASE Len(evs) >= limit
  <2>1. /\ events' = t.events /\ visible' = t.visible /\ scroll' = t.scroll
        /\ dropped_events' = dropped_events + t.dropped
    BY <1>5, <1>7
  <2>2. Len(evs) > HISTORY_CAP
    BY <1>1, <1>2, <1>7
  <2> DEFINE n == t.dropped
             k == Len(t.events)
  <2>3. n \in Nat /\ n # 0 /\ k \in Nat /\ n + k = l + 1 /\ k <= HISTORY_CAP
    BY <1>2, <1>6, <2>2
  <2> HIDE DEF n, k
  <2>4. /\ dropped_events + n \in Nat /\ dropped_events + n # dropped_events
        /\ (dropped_events + n) + k = dropped_events + (l + 1) /\ k < limit
    BY <1>1, <2>3
  <2> QED
    BY <1>6, <2>1, <2>4 DEF n, k, evs, l
<1>8. CASE ~(Len(evs) >= limit)
  <2>1. h = [events |-> evs, visible |-> vis, scroll |-> scroll, dropped |-> 0]
    BY <1>8 DEF History
  <2>2. h.events = evs /\ h.visible = vis /\ h.scroll = scroll /\ h.dropped = 0
    BY <2>1
  <2> HIDE DEF h
  <2>3. /\ events' = evs /\ visible' = vis /\ scroll' = scroll /\ dropped_events' = dropped_events
    BY <1>1, <1>5, <2>2
  <2>4. EndsWith(evs, evs)
    BY <1>2, EndsTrivial
  <2>5. l + 1 \in Nat /\ l + 1 < limit
    BY <1>1, <1>2, <1>8
  <2> QED
    BY <1>1, <1>2, <1>3, <1>4, <2>3, <2>4, <2>5 DEF evs, l
<1> QED
  BY <1>7, <1>8

\* A record is received.
LEMMA DrainStep ==
  ASSUME IInv, DrainOne
  PROVE  IInv'
<1> DEFINE r == produced[taken + 1]
<1>1. /\ phase = "drain" /\ taken < Len(produced) /\ taken' = taken + 1
      /\ UNCHANGED <<produced, setup, outputs, loaded, conns_opened, modeVars, filterVars,
                     command_editing, show_splash, cleared, accept_source_records, clobbered,
                     opened, loopVars>>
      /\ \/ accept_source_records /\ PushOutput(r)
         \/ ~accept_source_records /\ UNCHANGED <<viewVars, dropped_events, recorder, files>>
  BY DEF DrainOne
<1>2. /\ Types /\ produced \in Seq(Entries) /\ taken \in Nat /\ Len(produced) \in Nat
      /\ events \in Seq(Entries) /\ Len(events) \in Nat /\ cleared \in Nat /\ dropped_events \in Nat
      /\ scroll \in Nat
      /\ files \in [Files -> Seq(Entries)] /\ recorder \in [path : Files \cup {"none"}, off : Nat]
  BY DEF IInv, Types
<1>3. taken' \in Nat /\ taken' <= Len(produced')
  BY <1>1, <1>2
<1>4. Flags'
  BY <1>1 DEF IInv, Flags, modeVars, filterVars
<1>5. CASE ~accept_source_records
  <2>1. UNCHANGED <<events, visible, scroll, dropped_events, recorder, files>>
    BY <1>1, <1>5 DEF viewVars
  <2>2. Types'
    BY <1>1, <1>2, <1>3, <2>1 DEF Types, filterVars, loopVars
  <2>3. HistoryInv'
    BY <1>1, <2>1 DEF IInv, HistoryInv, filterVars, loopVars
  <2>4. Timeline' = Timeline
    BY <1>1, <1>5 DEF Timeline
  <2>5. TimeInv' /\ RecordInv'
    BY <1>1, <2>1, <2>2, <2>4, TimelineKept
  <2> QED
    BY <1>4, <2>2, <2>3, <2>5 DEF IInv
<1>6. CASE accept_source_records
  <2>1. PushOutput(r) /\ RecordOutput(r)
    BY <1>1, <1>6 DEF PushOutput
  <2>2. r \in Entries
    <3>1. taken + 1 \in 1..Len(produced)
      BY <1>1, <1>2
    <3> QED
      BY <1>2, <3>1, ElementOfSeq
  <2> HIDE DEF r
  <2>3. /\ events' \in Seq(Entries) /\ Len(events') \in Nat
        /\ EndsWith(Append(events, r), events')
        /\ dropped_events' \in Nat
        /\ dropped_events' + Len(events') = dropped_events + (Len(events) + 1)
        /\ Len(events') < HISTORY_CAP + HISTORY_TRIM_CHUNK
        /\ visible' = VisibleOf(events', filter)
        /\ scroll' = scroll \/ scroll' = 0
    BY <2>1, <2>2, PushFacts
  <2>4. /\ files' \in [Files -> Seq(Entries)]
        /\ recorder' \in [path : Files \cup {"none"}, off : Nat]
        /\ Recording' =>
              /\ Recording /\ recorder'.path = recorder.path
              /\ recorder.off = Len(files[recorder.path]) =>
                    /\ files'[recorder'.path] = Append(files[recorder.path], r)
                    /\ recorder'.off = Len(files'[recorder'.path])
    BY <1>2, <2>1, <2>2, RecordFacts
  <2>5. Types'
    <3>1. scroll' \in Nat
      BY <1>2, <2>3
    <3> QED
      BY <1>1, <1>2, <1>3, <2>3, <2>4, <3>1 DEF Types, filterVars, loopVars
  <2>6. HistoryInv'
    <3>1. scroll' <= Larger(MaxScroll, HISTORY_CAP)
      <4>1. 0 <= Larger(MaxScroll, HISTORY_CAP)
        BY CapFacts DEF Larger
      <4> QED
        BY <2>3, <4>1 DEF IInv, HistoryInv
    <3> QED
      BY <1>1, <2>3, <3>1 DEF IInv, HistoryInv, filterVars, loopVars
  <2>7. Timeline' = Append(Timeline, r)
    BY <1>1, <1>2, <1>6, <2>5, TimelineGrows DEF r
  <2>8. /\ Timeline \in Seq(Entries) /\ Len(Timeline) \in Nat /\ EndsWith(Timeline, events)
        /\ dropped_events + cleared + Len(events) = Len(Timeline)
    BY <1>2, TimelineFacts DEF IInv, TimeInv
  <2>9. TimeInv'
    <3>1. EndsWith(Append(Timeline, r), Append(events, r))
      BY <1>2, <2>2, <2>8, EndsAppend
    <3>2. Append(Timeline, r) \in Seq(Entries) /\ Append(events, r) \in Seq(Entries)
          /\ Len(Append(Timeline, r)) = Len(Timeline) + 1
      BY <1>2, <2>2, <2>8, AppendProperties
    <3>3. EndsWith(Append(Timeline, r), events')
      BY <2>3, <3>1, <3>2, EndsWithTrans
    <3>4. dropped_events' + cleared + Len(events') = Len(Timeline) + 1
      <4> DEFINE a == Len(events)
                 b == Len(events')
                 c == Len(Timeline)
      <4>1. a \in Nat /\ b \in Nat /\ c \in Nat /\ dropped_events + cleared + a = c
            /\ dropped_events' + b = dropped_events + (a + 1)
        BY <1>2, <2>3, <2>8
      <4> HIDE DEF a, b, c
      <4>2. \A x, z \in Nat : z + cleared + a = c /\ x + b = z + (a + 1) => x + cleared + b = c + 1
        BY <1>2, <4>1
      <4>3. dropped_events' + cleared + b = c + 1
        BY <1>2, <2>3, <4>1, <4>2
      <4> QED
        BY <4>3 DEF b, c
    <3> QED
      BY <1>1, <2>7, <3>2, <3>3, <3>4 DEF TimeInv
  <2>10. RecordInv'
    <3> SUFFICES ASSUME Recording', ~clobbered'
                 PROVE  /\ recorder'.off = Len(files'[recorder'.path])
                        /\ EndsWith(Timeline', files'[recorder'.path])
                        /\ Len(events') <= Len(files'[recorder'.path])
      BY DEF RecordInv
    <3> DEFINE f == files[recorder.path]
               g == files'[recorder'.path]
    <3>1. Recording /\ ~clobbered
      BY <1>1, <2>4
    <3>2. recorder.off = Len(f) /\ EndsWith(Timeline, f) /\ Len(events) <= Len(f)
      BY <3>1 DEF IInv, RecordInv
    <3>3. g = Append(f, r) /\ recorder'.off = Len(g)
      BY <2>4, <3>2
    <3>4. f \in Seq(Entries) /\ Len(f) \in Nat
      <4>1. recorder.path \in Files
        BY <1>2, <3>1 DEF Recording
      <4> QED
        BY <1>2, <4>1
    <3> HIDE DEF f, g
    <3>5. EndsWith(Timeline', g)
      BY <2>2, <2>7, <2>8, <3>2, <3>3, <3>4, EndsAppend
    <3>6. Len(g) = Len(f) + 1
      BY <2>2, <3>3, <3>4, AppendProperties
    <3>7. Len(events') <= Len(g)
      <4>1. Len(events') <= Len(events) + 1
        <5> DEFINE b == Len(events')
                   s == Append(events, r)
        <5>1. b <= Len(s)
          BY <2>3 DEF EndsWith
        <5>2. Len(s) = Len(events) + 1
          BY <1>2, <2>2, AppendProperties
        <5> QED
          BY <5>1, <5>2
      <4> QED
        BY <1>2, <2>3, <3>2, <3>4, <3>6, <4>1
    <3> QED
      BY <3>3, <3>5, <3>7 DEF g
  <2> QED
    BY <1>4, <2>5, <2>6, <2>9, <2>10 DEF IInv
<1> QED
  BY <1>4, <1>5, <1>6 DEF IInv, Flags

\* Where a frame places the view: within what is visible.
LEMMA PlaceFacts ==
  ASSUME NEW n \in Nat, NEW h \in Nat, NEW s \in Nat
  PROVE  LET max == MaxScrollOf(n, h)
             scr == IF follow THEN max ELSE Smaller(s, max)
         IN  scr \in Nat /\ scr <= n
<1>1. MaxScrollOf(n, h) \in Nat /\ MaxScrollOf(n, h) <= n
  BY DEF MaxScrollOf, Larger
<1> DEFINE max == MaxScrollOf(n, h)
<1> HIDE DEF max
<1>2. max \in Nat /\ max <= n
  BY <1>1 DEF max
<1>3. Smaller(s, max) \in Nat /\ Smaller(s, max) <= n
  BY <1>2 DEF Smaller
<1> QED
  BY <1>2, <1>3 DEF max

\* A frame trims the history to the cap, and no slice or lookup is out of bounds.
LEMMA FrameFacts ==
  ASSUME IInv, NEW h \in setup.heights, Frame(h)
  PROVE  /\ h \in Nat /\ h > 0 /\ log_h' = h
         /\ events' \in Seq(Entries) /\ Len(events') \in Nat /\ Len(events') <= HISTORY_CAP
         /\ EndsWith(events, events')
         /\ dropped_events' \in Nat /\ dropped_events' + Len(events') = dropped_events + Len(events)
         /\ visible' = VisibleOf(events', filter)
         /\ scroll' \in Nat /\ scroll' <= HISTORY_CAP
         /\ phase' = "keys"
         /\ scroll' <= MaxScrollOf(Len(visible'), h)
         /\ follow => scroll' = MaxScrollOf(Len(visible'), h)
         /\ ~show_splash' => screen' = Window(events', visible', scroll', h)
         /\ dropped_events' = dropped_events =>
               /\ events' = events /\ visible' = visible
               /\ ~follow => scroll' = Smaller(scroll, MaxScrollOf(Len(visible), h))
<1> DEFINE t == TrimHistory(events, visible, scroll)
           n == Len(t.visible)
           max == MaxScrollOf(n, h)
           scr == IF follow THEN max ELSE Smaller(t.scroll, max)
           ok == scr <= Len(t.visible) /\ \A i \in 1..Len(t.visible) : t.visible[i] <= Len(t.events)
<1>1. /\ events' = t.events /\ visible' = t.visible /\ dropped_events' = dropped_events + t.dropped
      /\ scroll' = scr /\ log_h' = h
      /\ ok => phase' = "keys" /\ (~show_splash' => screen' = Window(t.events, t.visible, scr, h))
  BY DEF Frame, SetHistory
<1>2. /\ events \in Seq(Entries) /\ dropped_events \in Nat /\ scroll \in Nat /\ Len(events) \in Nat
      /\ visible = VisibleOf(events, filter) /\ setup \in Setups
  BY DEF IInv, Types, HistoryInv
<1>3. h \in Nat /\ h > 0
  <2>1. setup.heights \subseteq Nat \ {0}
    BY <1>2, SetupAssumption
  <2>2. h \in Nat \ {0}
    BY <2>1
  <2> QED
    BY <2>2
<1>4. /\ t.events \in Seq(Entries) /\ Len(t.events) \in Nat /\ t.dropped \in Nat
      /\ t.dropped + Len(t.events) = Len(events) /\ Len(t.events) <= HISTORY_CAP
      /\ EndsWith(events, t.events)
      /\ t.visible = VisibleOf(t.events, filter)
      /\ t.scroll = scroll \/ t.scroll = 0
      /\ t.dropped = 0 => t.events = events /\ t.visible = visible /\ t.scroll = scroll
  BY <1>2, TrimFacts
<1> HIDE DEF t
<1>5. n \in Nat /\ n <= Len(t.events) /\ \A i \in 1..n : t.visible[i] \in 1..Len(t.events)
  BY <1>4, VisibleFacts
<1>6. t.scroll \in Nat
  BY <1>2, <1>4
<1>7. scr \in Nat /\ scr <= n
  <2> HIDE DEF n
  <2> QED
    BY <1>3, <1>5, <1>6, PlaceFacts
<1>8. ok
  <2>1. \A i \in 1..n : t.visible[i] <= Len(t.events)
    <3> DEFINE e == Len(t.events)
    <3>1. e \in Nat /\ \A i \in 1..e : i <= e
      BY <1>4
    <3> HIDE DEF e, n
    <3>2. \A i \in 1..n : t.visible[i] \in 1..e
      BY <1>5 DEF e
    <3>3. \A i \in 1..n : t.visible[i] <= e
      BY <3>1, <3>2
    <3> QED
      BY <3>3 DEF e
  <2> QED
    BY <1>7, <2>1
<1>9. scr <= HISTORY_CAP
  <2> DEFINE e == Len(t.events)
  <2>1. e \in Nat /\ e <= HISTORY_CAP /\ n <= e
    BY <1>4, <1>5
  <2> HIDE DEF scr, n, e
  <2> QED
    BY <1>5, <1>7, <2>1, CapFacts
<1>10. /\ dropped_events + t.dropped \in Nat
       /\ (dropped_events + t.dropped) + Len(t.events) = dropped_events + Len(events)
       /\ (dropped_events + t.dropped = dropped_events => t.dropped = 0)
  <2> DEFINE e == Len(t.events)
             d == t.dropped
             l == Len(events)
  <2>1. e \in Nat /\ d \in Nat /\ l \in Nat /\ d + e = l
    BY <1>2, <1>4
  <2> HIDE DEF e, d, l
  <2>2. dropped_events + d \in Nat /\ (dropped_events + d) + e = dropped_events + l
        /\ (dropped_events + d = dropped_events => d = 0)
    BY <1>2, <2>1
  <2> QED
    BY <2>2 DEF e, d, l
<1>11. ASSUME dropped_events' = dropped_events
       PROVE  /\ events' = events /\ visible' = visible
              /\ ~follow => scroll' = Smaller(scroll, MaxScrollOf(Len(visible), h))
  <2>1. t.events = events /\ t.visible = visible /\ t.scroll = scroll
    BY <1>1, <1>4, <1>10, <1>11
  <2> QED
    BY <1>1, <2>1
<1>12. /\ phase' = "keys"
       /\ ~show_splash' => screen' = Window(events', visible', scroll', h)
  BY <1>1, <1>8
<1>13. scr <= max /\ (follow => scr = max)
  <2>1. max \in Nat
    <3> HIDE DEF n
    <3> QED
      BY <1>3, <1>5 DEF MaxScrollOf, Larger
  <2> HIDE DEF max
  <2> QED
    BY <1>6, <2>1 DEF Smaller
<1>14. scroll' <= MaxScrollOf(Len(visible'), h) /\ (follow => scroll' = MaxScrollOf(Len(visible'), h))
  BY <1>1, <1>13
<1> HIDE DEF scr, ok
<1> QED
  BY <1>1, <1>3, <1>4, <1>7, <1>9, <1>10, <1>11, <1>12, <1>14

\* Drawing a frame, which trims the history and moves the view, keeps the invariant.
LEMMA FrameStep ==
  ASSUME IInv, NEW h \in setup.heights, Frame(h)
  PROVE  IInv'
<1>1. /\ UNCHANGED <<srcVars, modeVars, filterVars, command_editing, cleared, sessVars>>
      /\ show_splash' = (show_splash /\ ~conns_opened)
  BY DEF Frame
<1>2. /\ h \in Nat /\ log_h' = h
      /\ events' \in Seq(Entries) /\ Len(events') \in Nat /\ Len(events') <= HISTORY_CAP
      /\ EndsWith(events, events')
      /\ dropped_events' \in Nat /\ dropped_events' + Len(events') = dropped_events + Len(events)
      /\ visible' = VisibleOf(events', filter)
      /\ scroll' \in Nat /\ scroll' <= HISTORY_CAP
      /\ phase' = "keys"
  BY FrameFacts
<1>3. Types /\ events \in Seq(Entries) /\ Len(events) \in Nat /\ cleared \in Nat /\ dropped_events \in Nat
      /\ files \in [Files -> Seq(Entries)] /\ recorder \in [path : Files \cup {"none"}, off : Nat]
  BY DEF IInv, Types
<1>4. Types'
  BY <1>1, <1>2, <1>3 DEF Types, srcVars, filterVars, sessVars
<1>5. Flags'
  <2>1. show_splash' \in BOOLEAN
    BY <1>1
  <2> QED
    BY <1>1, <2>1 DEF IInv, Flags, srcVars, modeVars, filterVars, sessVars
<1>6. HistoryInv'
  <2>1. /\ scroll' <= Larger(MaxScroll, HISTORY_CAP)
        /\ Len(events') < HISTORY_CAP + HISTORY_TRIM_CHUNK
    BY <1>2, CapFacts DEF Larger
  <2> QED
    BY <1>1, <1>2, <2>1 DEF HistoryInv, filterVars
<1>7. Timeline' = Timeline
  BY <1>1, <1>3, <1>4, TimelineSame DEF srcVars, sessVars
<1>8. /\ Timeline \in Seq(Entries) /\ Len(Timeline) \in Nat /\ EndsWith(Timeline, events)
      /\ dropped_events + cleared + Len(events) = Len(Timeline)
  BY <1>3, TimelineFacts DEF IInv, TimeInv
<1>9. TimeInv'
  <2>1. EndsWith(Timeline, events')
    BY <1>2, <1>3, <1>8, EndsWithTrans
  <2>2. dropped_events' + cleared + Len(events') = Len(Timeline)
    <3> DEFINE a == Len(events)
               b == Len(events')
               c == Len(Timeline)
    <3>1. a \in Nat /\ b \in Nat /\ c \in Nat /\ dropped_events + cleared + a = c
          /\ dropped_events' + b = dropped_events + a
      BY <1>2, <1>3, <1>8
    <3> HIDE DEF a, b, c
    <3>2. \A x, z \in Nat : z + cleared + a = c /\ x + b = z + a => x + cleared + b = c
      BY <1>3, <3>1
    <3>3. dropped_events' + cleared + b = c
      BY <1>2, <1>3, <3>1, <3>2
    <3> QED
      BY <3>3 DEF b, c
  <2> QED
    BY <1>1, <1>7, <2>1, <2>2 DEF TimeInv
<1>10. RecordInv'
  <2> SUFFICES ASSUME Recording', ~clobbered'
               PROVE  /\ recorder'.off = Len(files'[recorder'.path])
                      /\ EndsWith(Timeline', files'[recorder'.path])
                      /\ Len(events') <= Len(files'[recorder'.path])
    BY DEF RecordInv
  <2> DEFINE f == files[recorder.path]
  <2>1. files'[recorder'.path] = f /\ Recording /\ ~clobbered /\ recorder' = recorder
    BY <1>1 DEF sessVars, Recording
  <2>2. recorder.off = Len(f) /\ EndsWith(Timeline, f) /\ Len(events) <= Len(f)
    BY <2>1 DEF IInv, RecordInv
  <2>3. f \in Seq(Entries) /\ Len(f) \in Nat
    BY <1>3, <2>1 DEF Recording
  <2>4. Len(events') <= Len(events)
    BY <1>2 DEF EndsWith
  <2> HIDE DEF f
  <2>5. Len(events') <= Len(f)
    BY <1>2, <1>3, <2>2, <2>3, <2>4
  <2> QED
    BY <1>7, <2>1, <2>2, <2>5
<1> QED
  BY <1>4, <1>5, <1>6, <1>9, <1>10 DEF IInv

-----------------------------------------------------------------------------
(* Keys                                                                    *)

\* PollEnds and the keys that touch neither the history nor the files.
LEMMA ViewStep ==
  ASSUME IInv, PollEnds \/ Quit \/ ScrollKey \/ ModeKey \/ FilterKey \/ OpenCommandBar \/ LeaveCommandBar
  PROVE  IInv'
<1>1. UNCHANGED <<srcVars, events, dropped_events, cleared, sessVars, log_h, show_splash>>
  BY DEF PollEnds, Quit, ScrollKey, ScrollTo, ModeKey, FilterKey, EditFilter, TypeFilter,
         EnterFilter, ClearFilter, OpenCommandBar, LeaveCommandBar, viewVars, loopVars
<1>2. Types /\ events \in Seq(Entries) /\ scroll \in Nat /\ log_h \in Nat
  BY DEF IInv, Types
<1>3. Flags'
  <2>1. UNCHANGED <<accept_source_records, conns_opened, show_splash>>
    BY <1>1 DEF srcVars, sessVars
  <2>2. CASE PollEnds \/ Quit \/ OpenCommandBar \/ LeaveCommandBar
    <3>1. UNCHANGED <<modeVars, filterVars>> /\ command_editing' \in {command_editing, TRUE, FALSE}
      BY <2>2 DEF PollEnds, Quit, OpenCommandBar, LeaveCommandBar
    <3> QED
      BY <2>1, <3>1 DEF IInv, Flags, modeVars, filterVars
  <2>3. CASE ScrollKey
    <3>1. UNCHANGED <<wrap, rich, filterVars, command_editing>> /\ follow' = FALSE
      BY <2>3 DEF ScrollKey, ScrollTo
    <3> QED
      BY <2>1, <3>1 DEF IInv, Flags, filterVars
  <2>4. CASE ModeKey
    <3>1. /\ follow' \in {follow, TRUE, ~follow} /\ wrap' \in {wrap, ~wrap} /\ rich' \in {rich, ~rich}
          /\ UNCHANGED <<filterVars, command_editing>>
      BY <2>4 DEF ModeKey
    <3>2. follow' \in BOOLEAN /\ wrap' \in BOOLEAN /\ rich' \in BOOLEAN
      BY <3>1 DEF IInv, Flags
    <3> QED
      BY <2>1, <3>1, <3>2 DEF IInv, Flags, filterVars
  <2>5. CASE FilterKey
    <3>1. /\ UNCHANGED <<modeVars, command_editing>>
          /\ filter_editing' \in {filter_editing, TRUE, FALSE}
          /\ filter_error' \in {filter_error, TRUE, FALSE}
      BY <2>5 DEF FilterKey, EditFilter, TypeFilter, EnterFilter, ClearFilter, UpdateFilter
    <3> QED
      BY <2>1, <3>1 DEF IInv, Flags, modeVars
  <2> QED
    BY <2>2, <2>3, <2>4, <2>5
<1>4. /\ filter' \in {"all", "query", "row"} /\ filter_text' \in Texts
      /\ visible' = VisibleOf(events, filter')
  <2>1. visible = VisibleOf(events, filter) /\ filter \in {"all", "query", "row"} /\ filter_text \in Texts
    BY DEF IInv, HistoryInv, Types
  <2>2. CASE FilterKey
    <3>1. \A t \in Texts \ {"malformed"} : Parse(t) \in {"all", "query", "row"}
      BY DEF Texts, Parse
    <3>2. CASE EditFilter \/ EnterFilter
      BY <2>1, <3>2 DEF EditFilter, EnterFilter, viewVars
    <3>3. ASSUME NEW t \in Texts, TypeFilter(t)
          PROVE  /\ filter' \in {"all", "query", "row"} /\ filter_text' \in Texts
                 /\ visible' = VisibleOf(events, filter')
      BY <2>1, <3>1, <3>3 DEF TypeFilter, UpdateFilter
    <3>4. CASE ClearFilter
      BY <3>4 DEF ClearFilter, Texts
    <3> QED
      BY <2>2, <3>2, <3>3, <3>4 DEF FilterKey
  <2>3. CASE ~FilterKey
    <3>1. UNCHANGED <<filterVars, visible>>
      BY <2>3 DEF PollEnds, Quit, ScrollKey, ScrollTo, ModeKey, OpenCommandBar, LeaveCommandBar, viewVars
    <3> QED
      BY <2>1, <3>1 DEF filterVars
  <2> QED
    BY <2>2, <2>3
<1>5. scroll' \in Nat /\ scroll' <= Larger(MaxScroll, HISTORY_CAP)
  <2>1. \A s \in Nat : s <= MaxScroll => s <= Larger(MaxScroll, HISTORY_CAP)
    BY CapFacts DEF Larger
  <2>2. CASE ScrollKey
    <3>1. PICK s \in {scroll + 1, Larger(0, scroll - 1), scroll + log_h, Larger(0, scroll - log_h), 0} :
              ScrollTo(s)
      BY <2>2 DEF ScrollKey
    <3>2. s \in Nat
      BY <1>2, <3>1 DEF Larger
    <3> QED
      BY <2>1, <3>1, <3>2 DEF ScrollTo
  <2>3. CASE ~ScrollKey
    <3>1. scroll' = scroll \/ scroll' = 0
      BY <2>3 DEF PollEnds, Quit, ModeKey, FilterKey, EditFilter, TypeFilter, EnterFilter,
                  ClearFilter, UpdateFilter, OpenCommandBar, LeaveCommandBar, viewVars
    <3>2. scroll <= Larger(MaxScroll, HISTORY_CAP)
      BY DEF IInv, HistoryInv
    <3> QED
      BY <1>2, <2>1, <3>1, <3>2, CapFacts
  <2> QED
    BY <2>2, <2>3
<1>6. phase = "keys" /\ phase' \in {"drain", "keys", "quit"}
  BY DEF PollEnds, Quit, ScrollKey, ScrollTo, ModeKey, FilterKey, EditFilter, TypeFilter,
         EnterFilter, ClearFilter, OpenCommandBar, LeaveCommandBar, Viewing, loopVars
<1>7. Types'
  BY <1>1, <1>2, <1>4, <1>5, <1>6 DEF Types, srcVars, sessVars
<1>8. HistoryInv'
  BY <1>1, <1>4, <1>5, <1>6 DEF IInv, HistoryInv
<1>9. Timeline' = Timeline
  BY <1>1, <1>2, <1>7, TimelineSame DEF srcVars, sessVars
<1>10. TimeInv' /\ RecordInv'
  BY <1>1, <1>7, <1>9, TimelineKept DEF sessVars
<1> QED
  BY <1>3, <1>7, <1>8, <1>10 DEF IInv

\* c: the history is emptied and counted.
LEMMA ClearStep ==
  ASSUME IInv, ClearKey
  PROVE  IInv'
<1>1. /\ UNCHANGED <<srcVars, scroll, modeVars, filterVars, command_editing, show_splash,
                     dropped_events, sessVars, loopVars>>
      /\ events' = << >> /\ visible' = << >> /\ cleared' = cleared + Len(events)
  BY DEF ClearKey
<1>2. Types /\ events \in Seq(Entries) /\ Len(events) \in Nat /\ cleared \in Nat /\ dropped_events \in Nat
      /\ files \in [Files -> Seq(Entries)] /\ recorder \in [path : Files \cup {"none"}, off : Nat]
  BY DEF IInv, Types
<1>3. events' \in Seq(Entries) /\ Len(events') = 0
  BY <1>1
<1>4. Types'
  <2>1. cleared' \in Nat
    BY <1>1, <1>2
  <2> QED
    BY <1>1, <1>2, <1>3, <2>1 DEF Types, srcVars, filterVars, sessVars, loopVars
<1>5. Flags'
  BY <1>1 DEF IInv, Flags, srcVars, modeVars, filterVars, sessVars
<1>6. HistoryInv'
  <2>1. VisibleOf(<< >>, filter) = << >>
    <3> DEFINE v == VisibleOf(<< >>, filter)
               e == << >>
    <3>1. e \in Seq(Entries) /\ Len(e) = 0
      OBVIOUS
    <3>2. v \in Seq(1..0) /\ Len(v) \in Nat /\ Len(v) <= 0
      <4>1. /\ VisibleOf(e, filter) \in Seq(1..Len(e))
            /\ Len(VisibleOf(e, filter)) \in Nat /\ Len(VisibleOf(e, filter)) <= Len(e)
        BY <3>1, VisibleFacts
      <4> QED
        BY <3>1, <4>1
    <3> HIDE DEF v, e
    <3>3. Len(v) = 0
      BY <3>2
    <3>4. v = << >>
      BY <3>2, <3>3, EmptySeq
    <3> QED
      BY <3>4 DEF v, e
  <2>2. 0 < HISTORY_CAP + HISTORY_TRIM_CHUNK /\ 0 <= HISTORY_CAP
    BY CapFacts
  <2> QED
    BY <1>1, <1>3, <2>1, <2>2 DEF IInv, HistoryInv, filterVars, loopVars
<1>7. Timeline' = Timeline
  BY <1>1, <1>2, <1>4, TimelineSame DEF srcVars, sessVars
<1>8. /\ Timeline \in Seq(Entries) /\ Len(Timeline) \in Nat
      /\ dropped_events + cleared + Len(events) = Len(Timeline)
  BY <1>2, TimelineFacts DEF IInv, TimeInv
<1>9. TimeInv'
  <2>1. EndsWith(Timeline, << >>)
    BY <1>8, EndsTrivial
  <2>2. dropped_events + (cleared + Len(events)) + 0 = Len(Timeline)
    BY <1>2, <1>8
  <2> QED
    BY <1>1, <1>3, <1>7, <2>1, <2>2 DEF TimeInv
<1>10. RecordInv'
  <2> SUFFICES ASSUME Recording', ~clobbered'
               PROVE  /\ recorder'.off = Len(files'[recorder'.path])
                      /\ EndsWith(Timeline', files'[recorder'.path])
                      /\ Len(events') <= Len(files'[recorder'.path])
    BY DEF RecordInv
  <2> DEFINE f == files[recorder.path]
  <2>1. files'[recorder'.path] = f /\ Recording /\ ~clobbered /\ recorder' = recorder
    BY <1>1 DEF sessVars, Recording
  <2>2. recorder.off = Len(f) /\ EndsWith(Timeline, f)
    BY <2>1 DEF IInv, RecordInv
  <2>3. f \in Seq(Entries) /\ Len(f) \in Nat
    BY <1>2, <2>1 DEF Recording
  <2> HIDE DEF f
  <2>4. 0 <= Len(f)
    BY <2>3
  <2> QED
    BY <1>3, <1>7, <2>1, <2>2, <2>4
<1> QED
  BY <1>4, <1>5, <1>6, <1>9, <1>10 DEF IInv

\* :save: the retained events become the file, or a beginning of them does and
\* the earlier recorder stays.
LEMMA SaveStep ==
  ASSUME IInv, NEW p \in Files, StartRecording(p) \/ StartRecordingFails(p)
  PROVE  IInv'
<1>1. /\ UNCHANGED <<srcVars, viewVars, modeVars, filterVars, show_splash, dropped_events,
                     cleared, accept_source_records, opened, loopVars>>
      /\ command_editing' = FALSE
  BY DEF StartRecording, StartRecordingFails
<1>2. Types /\ events \in Seq(Entries) /\ Len(events) \in Nat
      /\ files \in [Files -> Seq(Entries)] /\ recorder \in [path : Files \cup {"none"}, off : Nat]
  BY DEF IInv, Types
<1>3. Flags'
  BY <1>1 DEF IInv, Flags, srcVars, modeVars, filterVars
<1>4. HistoryInv'
  BY <1>1 DEF IInv, HistoryInv, viewVars, filterVars, loopVars
<1>5. ASSUME Types' PROVE Timeline' = Timeline
  BY <1>1, <1>2, <1>5, TimelineSame DEF srcVars
<1>6. ASSUME Types' PROVE TimeInv'
  <2> DEFINE t == Timeline
  <2>1. Timeline' = t /\ EndsWith(t, events) /\ dropped_events + cleared + Len(events) = Len(t)
    BY <1>5, <1>6 DEF IInv, TimeInv
  <2> HIDE DEF t
  <2> QED
    BY <1>1, <2>1 DEF TimeInv, viewVars
<1>7. CASE StartRecording(p)
  <2>1. /\ files' = [files EXCEPT ![p] = events] /\ recorder' = [path |-> p, off |-> Len(events)]
        /\ clobbered' = FALSE
    BY <1>7 DEF StartRecording
  <2>2. files' \in [Files -> Seq(Entries)] /\ files'[p] = events
    BY <1>2, <2>1
  <2>3. recorder' \in [path : Files \cup {"none"}, off : Nat] /\ recorder'.path = p
        /\ recorder'.off = Len(events)
    BY <1>2, <2>1
  <2>4. Types'
    BY <1>1, <1>2, <2>2, <2>3 DEF Types, srcVars, viewVars, filterVars, loopVars
  <2>5. EndsWith(Timeline', events) /\ events' = events
    BY <1>1, <1>5, <2>4 DEF IInv, TimeInv, viewVars
  <2>6. RecordInv'
    <3>1. Len(events) <= Len(events)
      BY <1>2
    <3> QED
      BY <2>2, <2>3, <2>5, <3>1 DEF RecordInv
  <2> QED
    BY <1>3, <1>4, <1>6, <2>4, <2>6 DEF IInv
<1>8. CASE StartRecordingFails(p)
  <2>1. PICK k \in 0..(Len(events) - 1) :
            \/ files' = [files EXCEPT ![p] = SubSeq(events, 1, k)]
            \/ files' = [files EXCEPT ![p] = Append(SubSeq(events, 1, k), Damage)]
    BY <1>8 DEF StartRecordingFails
  <2>2. recorder' = recorder /\ clobbered' = (clobbered \/ p = recorder.path)
    BY <1>8 DEF StartRecordingFails
  <2> DEFINE c == SubSeq(events, 1, k)
             d == Append(c, Damage)
  <2>3. c \in Seq(Entries) /\ d \in Seq(Entries)
    <3>1. k \in Nat /\ k <= Len(events)
      BY <1>2
    <3>2. c \in Seq(Entries)
      BY <1>2, <3>1, FirstFacts
    <3> HIDE DEF c
    <3> QED
      BY <3>2, DamageIsEntry, AppendProperties
  <2> HIDE DEF c, d
  <2>4. files' = [files EXCEPT ![p] = c] \/ files' = [files EXCEPT ![p] = d]
    BY <2>1 DEF c, d
  <2>5. files' \in [Files -> Seq(Entries)] /\ \A q \in Files : q # p => files'[q] = files[q]
    BY <1>2, <2>3, <2>4
  <2>6. Types'
    BY <1>1, <1>2, <2>2, <2>5 DEF Types, srcVars, viewVars, filterVars, loopVars
  <2>7. Timeline' = Timeline /\ events' = events
    BY <1>1, <1>5, <2>6 DEF viewVars
  <2>8. RecordInv'
    <3> SUFFICES ASSUME Recording', ~clobbered'
                 PROVE  /\ recorder'.off = Len(files'[recorder'.path])
                        /\ EndsWith(Timeline', files'[recorder'.path])
                        /\ Len(events') <= Len(files'[recorder'.path])
      BY DEF RecordInv
    <3> DEFINE f == files[recorder.path]
    <3>1. Recording /\ ~clobbered /\ recorder.path # p /\ recorder.path \in Files
      BY <1>2, <2>2 DEF Recording
    <3>2. files'[recorder'.path] = f
      BY <2>2, <2>5, <3>1
    <3>3. recorder.off = Len(f) /\ EndsWith(Timeline, f) /\ Len(events) <= Len(f)
      BY <3>1 DEF IInv, RecordInv
    <3> HIDE DEF f
    <3> QED
      BY <2>2, <2>7, <3>2, <3>3
  <2> QED
    BY <1>3, <1>4, <1>6, <2>6, <2>8 DEF IInv
<1> QED
  BY <1>7, <1>8

\* What read_tail keeps and counts.
LEMMA TailFacts ==
  ASSUME NEW content \in Seq(Entries)
  PROVE  /\ ReadTail(content) \in Seq(Entries) /\ Len(ReadTail(content)) \in Nat
         /\ Len(ReadTail(content)) <= HISTORY_CAP
         /\ EndsWith(content, ReadTail(content))
         /\ TailDropped(content) \in Nat
         /\ TailDropped(content) + 0 + Len(ReadTail(content)) = Len(content)
<1> DEFINE l == Len(content)
           d == TailDropped(content)
           c == ReadTail(content)
<1>1. l \in Nat
  OBVIOUS
<1>2. d \in Nat /\ d <= l /\ l - d <= HISTORY_CAP
  BY <1>1, CapFacts DEF TailDropped, Larger
<1> HIDE DEF d
<1>3. c \in Seq(Entries) /\ Len(c) = l - d /\ EndsWith(content, c)
  BY <1>2, EndsCut DEF ReadTail, d
<1> HIDE DEF c, l
<1>4. l - d \in Nat /\ d + 0 + (l - d) = l
  BY <1>1, <1>2
<1> QED
  BY <1>2, <1>3, <1>4 DEF c, d, l

\* :open: the file is the timeline from now on.
LEMMA OpenStep ==
  ASSUME IInv, NEW p \in Files, OpenSession(p)
  PROVE  IInv'
<1> DEFINE f == files[p]
<1>1. /\ UNCHANGED <<produced, setup, outputs, taken, wrap, rich, filterVars, files, loopVars>>
      /\ events' = ReadTail(f) /\ visible' = VisibleOf(ReadTail(f), filter)
      /\ dropped_events' = TailDropped(f) /\ scroll' = 0 /\ follow' = TRUE
      /\ recorder' = NoRecorder /\ show_splash' = FALSE /\ accept_source_records' = FALSE
      /\ conns_opened' = FALSE /\ opened' = f /\ cleared' = 0 /\ command_editing' = FALSE
  BY DEF OpenSession
<1>2. Types /\ f \in Seq(Entries) /\ taken \in Nat
  BY DEF IInv, Types
<1> HIDE DEF f
<1>3. /\ events' \in Seq(Entries) /\ Len(events') \in Nat /\ Len(events') <= HISTORY_CAP
      /\ EndsWith(f, events') /\ dropped_events' \in Nat
      /\ dropped_events' + 0 + Len(events') = Len(f)
  BY <1>1, <1>2, TailFacts
<1>4. recorder' \in [path : Files \cup {"none"}, off : Nat] /\ ~Recording'
  BY <1>1 DEF NoRecorder, Recording
<1>5. Types'
  BY <1>1, <1>2, <1>3, <1>4 DEF Types, filterVars, loopVars
<1>6. Flags'
  BY <1>1 DEF IInv, Flags, filterVars
<1>7. HistoryInv'
  <2>1. /\ Len(events') < HISTORY_CAP + HISTORY_TRIM_CHUNK
        /\ 0 <= Larger(MaxScroll, HISTORY_CAP)
    BY <1>3, CapFacts DEF Larger
  <2> QED
    BY <1>1, <1>3, <2>1 DEF HistoryInv, filterVars
<1>8. TimeInv'
  <2>1. Timeline' = f
    BY <1>1 DEF Timeline
  <2> QED
    BY <1>1, <1>3, <2>1 DEF TimeInv
<1>9. RecordInv'
  BY <1>4 DEF RecordInv
<1> QED
  BY <1>5, <1>6, <1>7, <1>8, <1>9 DEF IInv

-----------------------------------------------------------------------------
(* The invariant                                                           *)

\* The invariant holds at the start.
LEMMA InitIInv == Init => IInv
<1> SUFFICES ASSUME Init PROVE IInv
  OBVIOUS
<1> DEFINE e == << >>
<1>1. /\ setup \in Setups /\ setup.filter \in {"", "query", "row"} /\ setup.rich \in BOOLEAN
      /\ setup.save \in Files \cup {"none"} /\ OnDisk \in [Files -> Seq(Entries)] /\ "none" \notin Files
  <2>1. setup \in Setups
    BY DEF Init
  <2>2. {setup.replay, setup.save} \subseteq Files \cup {"none"}
    BY <2>1, SetupAssumption
  <2> QED
    BY <2>1, <2>2, SetupAssumption
<1>2. e \in Seq(Entries) /\ Len(e) = 0
  OBVIOUS
<1>3. Parse(setup.filter) \in {"all", "query", "row"} /\ setup.filter \in Texts
  BY <1>1 DEF Parse, Texts
<1>4. files \in [Files -> Seq(Entries)] /\ (setup.save \in Files => files[setup.save] = << >>)
  <2>1. files = [p \in Files |-> IF p = setup.save THEN e ELSE OnDisk[p]]
    BY DEF Init
  <2> HIDE DEF e
  <2>2. files \in [Files -> Seq(Entries)] /\ (setup.save \in Files => files[setup.save] = e)
    BY <1>1, <1>2, <2>1
  <2> QED
    BY <2>2 DEF e
<1>5. recorder \in [path : Files \cup {"none"}, off : Nat] /\ recorder.path = setup.save /\ recorder.off = 0
  BY <1>1 DEF Init
<1>6. Types
  <2>1. /\ produced = e /\ outputs = e /\ opened = e /\ events = e /\ taken = 0
        /\ dropped_events = 0 /\ cleared = 0 /\ scroll = 0 /\ log_h = 1 /\ phase = "drain"
        /\ filter = Parse(setup.filter) /\ filter_text = setup.filter
    BY DEF Init
  <2> HIDE DEF e
  <2>2. taken <= Len(produced)
    BY <1>2, <2>1
  <2> QED
    BY <1>1, <1>2, <1>3, <1>4, <1>5, <2>1, <2>2 DEF Types
<1>7. Flags
  <2>1. (setup.replay = "none") \in BOOLEAN
    OBVIOUS
  <2> QED
    BY <1>1, <2>1 DEF Init, Flags
<1>8. VisibleOf(e, filter) = << >>
  <2> DEFINE v == VisibleOf(e, filter)
  <2> HIDE DEF e, v
  <2>1. v \in Seq(1..0) /\ Len(v) \in Nat /\ Len(v) <= 0
    BY <1>2, VisibleFacts DEF v
  <2>2. Len(v) = 0
    BY <2>1
  <2>3. v = << >>
    BY <2>1, <2>2, EmptySeq
  <2> QED
    BY <2>3 DEF v
<1>9. HistoryInv
  <2>1. 0 < HISTORY_CAP + HISTORY_TRIM_CHUNK /\ 0 <= Larger(MaxScroll, HISTORY_CAP)
    BY CapFacts DEF Larger
  <2> QED
    BY <1>8, <2>1 DEF Init, HistoryInv
<1>10. Timeline = << >>
  <2>1. accept_source_records /\ taken = 0
    BY DEF Init
  <2>2. Timeline \in Seq(Entries) /\ Len(Timeline) = 0
    BY <1>6, <2>1, TimelineFacts
  <2> QED
    BY <2>2, EmptySeq
<1>11. EndsWith(<< >>, << >>)
  BY <1>2, EndsTrivial
<1>12. TimeInv
  BY <1>10, <1>11 DEF Init, TimeInv
<1>13. RecordInv
  <2> SUFFICES ASSUME Recording
               PROVE  /\ recorder.off = Len(files[recorder.path])
                      /\ EndsWith(Timeline, files[recorder.path])
                      /\ Len(events) <= Len(files[recorder.path])
    BY DEF RecordInv
  <2>1. files[recorder.path] = << >>
    BY <1>1, <1>4, <1>5 DEF Recording
  <2>2. events = << >> /\ 0 <= 0
    BY DEF Init
  <2> QED
    BY <1>2, <1>5, <1>10, <1>11, <2>1, <2>2
<1> QED
  BY <1>6, <1>7, <1>9, <1>12, <1>13 DEF IInv

\* Every step keeps it.
LEMMA NextIInv == IInv /\ [Next]_vars => IInv'
<1> SUFFICES ASSUME IInv, [Next]_vars PROVE IInv'
  OBVIOUS
<1>1. CASE (\E k \in setup.kinds : SendLive(k)) \/ LoadReplay \/ SendReplayed \/ ConnectionOpens
  BY <1>1, SourceStep
<1>2. CASE DrainOne
  BY <1>2, DrainStep
<1>3. CASE Frames
  BY <1>3, FrameStep DEF Frames
<1>4. CASE PollEnds \/ Quit \/ ScrollKey \/ ModeKey \/ FilterKey \/ OpenCommandBar \/ LeaveCommandBar
  BY <1>4, ViewStep
<1>5. CASE ClearKey
  BY <1>5, ClearStep
<1>6. CASE \E p \in Files : StartRecording(p) \/ StartRecordingFails(p) \/ OpenSession(p)
  BY <1>6, SaveStep, OpenStep
<1>7. CASE UNCHANGED vars
  <2>1. UNCHANGED <<srcVars, events, visible, scroll, modeVars, filterVars, command_editing,
                    show_splash, dropped_events, cleared, sessVars, loopVars>>
    BY <1>7 DEF vars, viewVars
  <2>2. Types' /\ Flags'
    BY <2>1 DEF IInv, Types, Flags, srcVars, modeVars, filterVars, sessVars, loopVars
  <2>3. HistoryInv'
    BY <2>1 DEF IInv, HistoryInv, filterVars, loopVars
  <2>4. Timeline' = Timeline
    BY <2>1 DEF Timeline, srcVars, sessVars
  <2> QED
    BY <2>1, <2>2, <2>3, <2>4, TimelineKept DEF IInv, sessVars
<1> QED
  BY <1>1, <1>2, <1>3, <1>4, <1>5, <1>6, <1>7 DEF Next, CommandKey

\* The history invariant holds in every reachable state.
THEOREM HistoryInvariant == Spec => []IInv
  BY InitIInv, NextIInv, PTL DEF Spec

-----------------------------------------------------------------------------
(* The properties                                                          *)

\* Type correctness; the history stays below the cap and the chunk together,
\* within the cap whenever keys are handled, and no frame panics.
THEOREM TypeCorrect == Spec => [](TypeOK /\ phase # "panicked")
<1>1. ASSUME IInv PROVE TypeOK /\ phase # "panicked"
  <2>1. taken \in 0..Len(produced)
    BY <1>1 DEF IInv, Types
  <2>2. scroll \in 0..Larger(MaxScroll, HISTORY_CAP)
    <3>1. Larger(MaxScroll, HISTORY_CAP) \in Nat
      BY CapFacts DEF Larger
    <3> QED
      BY <1>1, <3>1 DEF IInv, Types, HistoryInv
  <2>3. {follow, wrap, rich, filter_error, filter_editing, command_editing, show_splash,
         accept_source_records, conns_opened} \subseteq BOOLEAN
    BY <1>1 DEF IInv, Flags
  <2> QED
    BY <1>1, <2>1, <2>2, <2>3 DEF IInv, Types, HistoryInv, TypeOK
<1> QED
  BY <1>1, HistoryInvariant, PTL

\* visible lists the events that match the filter, through every push, trim,
\* clear, filter edit and :open.
THEOREM ViewIsFiltered == Spec => []VisibleIsFiltered
<1>1. IInv => VisibleIsFiltered
  BY DEF IInv, HistoryInv, VisibleIsFiltered
<1> QED
  BY <1>1, HistoryInvariant, PTL

\* OneTimeline and DroppedIsExact follow from the lengths that TimeInv relates.
LEMMA TimelineKeeps ==
    ASSUME IInv PROVE OneTimeline /\ DroppedIsExact
<1>1. Timeline \in Seq(Entries) /\ events \in Seq(Entries) /\ EndsWith(Timeline, events)
  BY TimelineFacts DEF IInv, Types, TimeInv
<1>2. OneTimeline
  BY <1>1, EndIsSuffix DEF OneTimeline
<1> QED
  BY <1>2 DEF IInv, TimeInv, DroppedIsExact

\* Live and replayed timelines never mix.
THEOREM HistoryIsTimeline == Spec => []OneTimeline
  BY TimelineKeeps, HistoryInvariant, PTL

\* The count of the events that are not retained is exact.
THEOREM DroppedCountExact == Spec => []DroppedIsExact
  BY TimelineKeeps, HistoryInvariant, PTL

\* The file being recorded ends with all that is retained and holds nothing but
\* the timeline, whatever was filtered, trimmed, cleared, saved or opened.
THEOREM RecordingIsTimeline == Spec => []RecordingFollows
<1>1. ASSUME IInv PROVE RecordingFollows
  <2> SUFFICES ASSUME Recording, ~clobbered
               PROVE  /\ IsSuffix(files[recorder.path], Timeline)
                      /\ IsSuffix(events, files[recorder.path])
    BY DEF RecordingFollows
  <2> DEFINE f == files[recorder.path]
  <2>1. Timeline \in Seq(Entries) /\ events \in Seq(Entries) /\ EndsWith(Timeline, events)
    BY <1>1, TimelineFacts DEF IInv, Types, TimeInv
  <2>2. f \in Seq(Entries)
    BY <1>1 DEF IInv, Types, Recording
  <2>3. EndsWith(Timeline, f) /\ Len(events) <= Len(f)
    BY <1>1 DEF IInv, RecordInv
  <2> HIDE DEF f
  <2>4. EndsWith(f, events)
    BY <2>1, <2>2, <2>3, EndsNested
  <2>5. IsSuffix(f, Timeline) /\ IsSuffix(events, f)
    BY <2>1, <2>2, <2>3, <2>4, EndIsSuffix
  <2> QED
    BY <2>5 DEF f
<1> QED
  BY <1>1, HistoryInvariant, PTL

\* A view that does not follow stays on its record while others arrive, unless
\* the history is trimmed or the rest no longer fills the view.
THEOREM PausedViewHolds == Spec => PausedViewStays
<1> DEFINE Paused ==
      /\ ~follow /\ dropped_events' = dropped_events
      /\ scroll < Len(visible) /\ (MultiRow \/ scroll + log_h' <= Len(visible))
<1>1. ASSUME IInv, DrainOne \/ Frames, Paused PROVE Top' = Top
  <2> DEFINE n == Len(visible)
             v == visible[scroll + 1]
  <2>1. /\ events \in Seq(Entries) /\ Len(events) \in Nat /\ scroll \in Nat
        /\ produced \in Seq(Entries) /\ taken \in Nat /\ Len(produced) \in Nat
    BY <1>1 DEF IInv, Types
  <2>2. visible \in Seq(1..Len(events)) /\ n \in Nat /\ \A k \in 1..n : visible[k] \in 1..Len(events)
    <3>1. visible = VisibleOf(events, filter)
      BY <1>1 DEF IInv, HistoryInv
    <3> QED
      BY <2>1, <3>1, VisibleFacts
  <2>3. scroll + 1 \in 1..n /\ v \in 1..Len(events)
    <3>1. scroll + 1 \in 1..n
      BY <1>1, <2>1, <2>2
    <3> QED
      BY <2>2, <3>1
  <2>4. CASE DrainOne
    <3>1. CASE accept_source_records
      <4> DEFINE r == produced[taken + 1]
      <4>1. PushOutput(r) /\ taken < Len(produced)
        BY <2>4, <3>1 DEF DrainOne
      <4>2. r \in Entries
        <5>1. taken + 1 \in 1..Len(produced)
          BY <2>1, <4>1
        <5> QED
          BY <2>1, <5>1, ElementOfSeq
      <4> HIDE DEF r
      <4>3. /\ events' = Append(events, r) /\ scroll' = scroll
            /\ visible' = visible \/ visible' = Append(visible, Len(events) + 1)
        BY <1>1, <4>1, <4>2, PushFacts
      <4>4. \A i \in 1..Len(events) : events'[i] = events[i]
        BY <2>1, <4>2, <4>3, AppendProperties
      <4>5. visible'[scroll + 1] = v
        <5>1. CASE visible' = visible
          BY <5>1
        <5>2. CASE visible' = Append(visible, Len(events) + 1)
          <6>1. visible \in Seq(Nat) /\ Len(events) + 1 \in Nat
            <7>1. 1..Len(events) \subseteq Nat
              BY <2>1
            <7> QED
              BY <2>1, <2>2, <7>1
          <6> QED
            BY <2>3, <5>2, <6>1, AppendProperties
        <5> QED
          BY <4>3, <5>1, <5>2
      <4> QED
        BY <2>3, <4>3, <4>4, <4>5 DEF Top
    <3>2. CASE ~accept_source_records
      BY <2>4, <3>2 DEF DrainOne, Top, viewVars
    <3> QED
      BY <3>1, <3>2
  <2>5. CASE Frames
    <3>1. PICK h \in setup.heights : Frame(h)
      BY <2>5 DEF Frames
    <3>2. /\ h \in Nat /\ log_h' = h /\ events' = events /\ visible' = visible
          /\ scroll' = Smaller(scroll, MaxScrollOf(n, h))
      BY <1>1, <3>1, FrameFacts
    <3>3. scroll < n /\ (MultiRow \/ scroll + h <= n)
      BY <1>1, <3>2
    <3> HIDE DEF n
    <3>4. scroll <= MaxScrollOf(n, h)
      BY <2>1, <2>2, <3>2, <3>3 DEF MaxScrollOf, Larger
    <3>5. scroll' = scroll
      BY <3>2, <3>4 DEF Smaller
    <3> QED
      BY <3>2, <3>5 DEF Top
  <2> QED
    BY <1>1, <2>4, <2>5
<1>2. IInv => [(DrainOne \/ Frames) /\ ~follow /\ dropped_events' = dropped_events
               /\ scroll < Len(visible) /\ (MultiRow \/ scroll + log_h' <= Len(visible))
               => Top' = Top]_vars
  BY <1>1
<1> QED
  BY <1>2, HistoryInvariant, PTL DEF PausedViewStays

-----------------------------------------------------------------------------
(* Folds from the left                                                     *)

Less == {ss \in Nat \X Nat : ss[1] < ss[2]}

\* A set of numbers has a least one.
LEMMA LeastNat ==
    ASSUME NEW T, T \subseteq Nat, T # {}
    PROVE  \E x \in T : \A y \in T : x <= y
<1>1. IsWellFoundedOn(Less, Nat)
  BY NatLessThanWellFounded DEF OpToRel, Less
<1>2. PICK x \in T : \A y \in T : ~(<<y, x>> \in Less)
  BY <1>1, WFMin
<1>3. ASSUME NEW y \in T PROVE x <= y
  <2>1. x \in Nat /\ y \in Nat
    OBVIOUS
  <2>2. ~(<<y, x>> \in Less)
    BY <1>2
  <2> QED
    BY <2>1, <2>2 DEF Less
<1> QED
  BY <1>2, <1>3

\* So a set that has 0, and k + 1 if it has k, has all numbers up to n.
LEMMA Counting ==
    ASSUME NEW n \in Nat, NEW S,
           0 \in S, \A k \in 1..n : k - 1 \in S => k \in S
    PROVE  0..n \subseteq S
<1> DEFINE Bad == (0..n) \ S
<1> SUFFICES ASSUME Bad # {} PROVE FALSE
  OBVIOUS
<1>1. PICK k \in Bad : \A m \in Bad : k <= m
  <2>1. Bad \subseteq Nat
    OBVIOUS
  <2> HIDE DEF Bad
  <2> QED
    BY <2>1, LeastNat
<1>2. k \in 1..n
  OBVIOUS
<1>3. k - 1 \in 0..n /\ k - 1 \notin Bad
  BY <1>1, <1>2
<1> QED
  BY <1>2, <1>3

\* The largest element, which FoldLeft takes off.
LEMMA MaxOfUpTo ==
    ASSUME NEW m \in Nat, m > 0, NEW s \in SUBSET (1..m), m \in s
    PROVE  Max(s) = m
<1>1. \A y \in s : m >= y
  OBVIOUS
<1>2. \A x \in s : (\A y \in s : x >= y) => x = m
  OBVIOUS
<1> QED
  BY <1>1, <1>2 DEF Max

\* Each step of a fold is a function B[i] from values to values.
FoldsBy(g, B, base, D) ==
    \A s \in D : g[s] = IF s = {} THEN base ELSE B[Max(s)][g[s \ {Max(s)}]]

\* The fold over 1..n has a step function for every combination of its values.
LEMMA FoldByExists ==
    ASSUME NEW n \in Nat, NEW V, NEW base \in V, NEW B,
           \A i \in 1..n : \A v \in V : B[i][v] \in V
    PROVE  \E g \in [SUBSET (1..n) -> V] : FoldsBy(g, B, base, SUBSET (1..n))
<1> DEFINE Has(m) == \E g \in [SUBSET (1..m) -> V] : FoldsBy(g, B, base, SUBSET (1..m))
           S == {m \in 0..n : Has(m)}
<1>1. Has(0)
  <2> DEFINE g == [s \in SUBSET (1..0) |-> base]
  <2>1. \A s \in SUBSET (1..0) : s = {}
    OBVIOUS
  <2>2. g \in [SUBSET (1..0) -> V] /\ FoldsBy(g, B, base, SUBSET (1..0))
    BY <2>1 DEF FoldsBy
  <2> QED
    BY <2>2
<1>2. ASSUME NEW m \in 1..n, Has(m - 1) PROVE Has(m)
  <2>1. PICK g \in [SUBSET (1..(m - 1)) -> V] : FoldsBy(g, B, base, SUBSET (1..(m - 1)))
    BY <1>2
  <2> DEFINE h == [s \in SUBSET (1..m) |-> IF m \in s THEN B[m][g[s \ {m}]] ELSE g[s]]
  <2>2. ASSUME NEW s \in SUBSET (1..m)
        PROVE  /\ s \ {m} \in SUBSET (1..(m - 1))
               /\ m \notin s => s \in SUBSET (1..(m - 1))
    OBVIOUS
  <2>3. ASSUME NEW s \in SUBSET (1..m) PROVE h[s] \in V
    BY <2>2
  <2>4. ASSUME NEW s \in SUBSET (1..m)
        PROVE  h[s] = IF s = {} THEN base ELSE B[Max(s)][h[s \ {Max(s)}]]
    <3>1. CASE m \in s
      <4>1. Max(s) = m
        BY <3>1, MaxOfUpTo
      <4>2. h[s \ {m}] = g[s \ {m}]
        BY <2>2
      <4> QED
        BY <3>1, <4>1, <4>2
    <3>2. CASE m \notin s
      <4>1. s \in SUBSET (1..(m - 1)) /\ h[s] = g[s]
        BY <2>2, <3>2
      <4>2. CASE s = {}
        BY <2>1, <4>1, <4>2 DEF FoldsBy
      <4>3. CASE s # {}
        <5>1. g[s] = B[Max(s)][g[s \ {Max(s)}]]
          BY <2>1, <4>1, <4>3 DEF FoldsBy
        <5>2. m \notin s \ {Max(s)} /\ s \ {Max(s)} \in SUBSET (1..m)
          BY <3>2
        <5>3. h[s \ {Max(s)}] = g[s \ {Max(s)}]
          BY <5>2
        <5> QED
          BY <4>1, <4>3, <5>1, <5>3
      <4> QED
        BY <4>2, <4>3
    <3> QED
      BY <3>1, <3>2
  <2>5. h \in [SUBSET (1..m) -> V]
    BY <2>3
  <2> HIDE DEF h
  <2>6. FoldsBy(h, B, base, SUBSET (1..m))
    BY <2>4 DEF FoldsBy
  <2> QED
    BY <2>5, <2>6
<1> HIDE DEF Has
<1>3. 0 \in S
  BY <1>1
<1>4. \A k \in 1..n : k - 1 \in S => k \in S
  BY <1>2
<1>5. n \in S
  <2> HIDE DEF S
  <2> QED
    BY <1>3, <1>4, Counting
<1> QED
  BY <1>5 DEF Has

\* What FoldLeft takes off a set of positions is one of them.
LEMMA MaxFacts ==
    ASSUME NEW n \in Nat, NEW s \in SUBSET (1..n), s # {}
    PROVE  Max(s) \in s
<1> DEFINE T == {k \in 0..n : \A y \in s : y <= k}
<1>1. T \subseteq Nat /\ n \in T
  OBVIOUS
<1>2. PICK k \in T : \A m \in T : k <= m
  <2> HIDE DEF T
  <2> QED
    BY <1>1, LeastNat
<1>3. k \in s
  <2> SUFFICES ASSUME k \notin s PROVE FALSE
    OBVIOUS
  <2>1. k \in Nat /\ k <= n /\ \A y \in s : y \in Nat /\ 1 <= y /\ y <= k - 1
    BY <1>2
  <2>2. PICK y \in s : 1 <= y /\ y <= k - 1 /\ y \in Nat
    BY <2>1
  <2>3. k - 1 \in 0..n
    BY <2>1, <2>2
  <2>4. k - 1 \in T
    BY <2>1, <2>3
  <2> QED
    BY <1>2, <2>1, <2>4
<1>4. \E x \in s : \A y \in s : x >= y
  <2>1. \A y \in s : k >= y
    BY <1>2
  <2> QED
    BY <1>3, <2>1
<1> QED
  BY <1>4 DEF Max

\* Taking the largest off the first k positions.
LEMMA FirstPositions ==
    ASSUME NEW n \in Nat, NEW k \in 1..n
    PROVE  /\ Max(1..k) = k
           /\ (1..k) \ {k} = 1..(k - 1)
           /\ 1..k # {} /\ 1..k \in SUBSET (1..n)
<1>1. 1..k \in SUBSET (1..k) /\ k \in 1..k /\ k \in Nat /\ k > 0 /\ k <= n
  OBVIOUS
<1>2. Max(1..k) = k
  BY <1>1, MaxOfUpTo
<1>3. (1..k) \ {k} = 1..(k - 1)
  BY <1>1
<1>4. 1..k # {} /\ 1..k \in SUBSET (1..n)
  BY <1>1
<1> QED
  BY <1>2, <1>3, <1>4

\* Such a fold takes one step per position.
LEMMA FoldSteps ==
    ASSUME NEW n \in Nat, NEW base, NEW B, NEW g,
           FoldsBy(g, B, base, SUBSET (1..n))
    PROVE  /\ g[1..0] = base
           /\ \A k \in 1..n : g[1..k] = B[k][g[1..(k - 1)]]
<1>1. g[1..0] = base
  <2>1. 1..0 = {} /\ {} \in SUBSET (1..n)
    OBVIOUS
  <2> QED
    BY <2>1 DEF FoldsBy
<1>2. ASSUME NEW k \in 1..n PROVE g[1..k] = B[k][g[1..(k - 1)]]
  <2>1. Max(1..k) = k /\ (1..k) \ {k} = 1..(k - 1) /\ 1..k # {} /\ 1..k \in SUBSET (1..n)
    BY FirstPositions
  <2> QED
    BY <2>1 DEF FoldsBy
<1> QED
  BY <1>1, <1>2

\* The steps of Total are its prefix sums.
LEMMA TotalSteps ==
    ASSUME NEW n \in Nat, NEW s \in [1..n -> Nat]
    PROVE  \E p \in [0..n -> Nat] :
              /\ p[0] = 0
              /\ \A k \in 1..n : p[k] = p[k - 1] + s[k]
              /\ Total(s) = p[n]
<1> DEFINE B == [i \in 1..n |-> [v \in Nat |-> v + s[i]]]
           Body(g) == [x \in SUBSET (1..n) |-> IF x = {} THEN 0 ELSE g[x \ {Max(x)}] + s[Max(x)]]
           iter == CHOOSE g : g = Body(g)
<1>1. \E g : g = Body(g)
  <2>1. \A i \in 1..n : \A v \in Nat : B[i][v] \in Nat
    OBVIOUS
  <2>2. PICK g \in [SUBSET (1..n) -> Nat] : FoldsBy(g, B, 0, SUBSET (1..n))
    <3> HIDE DEF B
    <3> QED
      BY <2>1, FoldByExists
  <2>3. ASSUME NEW x \in SUBSET (1..n)
        PROVE  g[x] = IF x = {} THEN 0 ELSE g[x \ {Max(x)}] + s[Max(x)]
    <3>1. CASE x = {}
      BY <2>2, <3>1 DEF FoldsBy
    <3>2. CASE x # {}
      <4>1. Max(x) \in 1..n /\ x \ {Max(x)} \in SUBSET (1..n)
        BY <3>2, MaxFacts
      <4>2. g[x \ {Max(x)}] \in Nat
        BY <2>2, <4>1
      <4>3. g[x] = B[Max(x)][g[x \ {Max(x)}]]
        BY <2>2, <3>2 DEF FoldsBy
      <4> QED
        BY <3>2, <4>1, <4>2, <4>3
    <3> QED
      BY <3>1, <3>2
  <2>4. g = Body(g)
    BY <2>3
  <2> QED
    BY <2>4
<1>2. iter = Body(iter)
  BY <1>1
<1>3. Total(s) = iter[1..n]
  <2>1. DOMAIN s = 1..n
    OBVIOUS
  <2> QED
    BY <2>1 DEF Total, FoldLeft, MapThenFoldSet
<1> HIDE DEF iter
<1>4. \A x \in SUBSET (1..n) : iter[x] = IF x = {} THEN 0 ELSE iter[x \ {Max(x)}] + s[Max(x)]
  <2>1. \A x \in SUBSET (1..n) :
          Body(iter)[x] = IF x = {} THEN 0 ELSE iter[x \ {Max(x)}] + s[Max(x)]
    OBVIOUS
  <2> HIDE DEF Body
  <2> QED
    BY <1>2, <2>1
<1>5. iter[1..0] = 0
  <2>1. 1..0 = {} /\ {} \in SUBSET (1..n)
    OBVIOUS
  <2> QED
    BY <1>4, <2>1
<1>6. ASSUME NEW k \in 1..n PROVE iter[1..k] = iter[1..(k - 1)] + s[k]
  <2>1. Max(1..k) = k /\ (1..k) \ {k} = 1..(k - 1) /\ 1..k # {} /\ 1..k \in SUBSET (1..n)
    BY FirstPositions
  <2> QED
    BY <1>4, <2>1
<1> DEFINE p == [k \in 0..n |-> iter[1..k]]
<1>7. \A k \in 0..n : p[k] \in Nat
  <2> DEFINE S == {k \in 0..n : p[k] \in Nat}
  <2>1. 0 \in S
    BY <1>5
  <2>2. \A k \in 1..n : k - 1 \in S => k \in S
    BY <1>6
  <2>3. 0..n \subseteq S
    <3> HIDE DEF S
    <3> QED
      BY <2>1, <2>2, Counting
  <2> QED
    BY <2>3
<1>8. p[0] = 0 /\ \A k \in 1..n : p[k] = p[k - 1] + s[k]
  <2>1. \A k \in 1..n : k \in 0..n /\ k - 1 \in 0..n
    OBVIOUS
  <2> QED
    BY <1>5, <1>6, <2>1
<1>9. p \in [0..n -> Nat] /\ Total(s) = p[n]
  BY <1>3, <1>7
<1> HIDE DEF p
<1> QED
  BY <1>8, <1>9

\* Prefix sums are determined by their steps.
LEMMA StepsAgree ==
    ASSUME NEW n \in Nat, NEW p \in [0..n -> Nat], NEW q \in [0..n -> Nat],
           p[0] = q[0], \A k \in 1..n : p[k] - p[k - 1] = q[k] - q[k - 1]
    PROVE  \A k \in 0..n : p[k] = q[k]
<1> DEFINE S == {k \in 0..n : p[k] = q[k]}
<1>1. 0 \in S
  OBVIOUS
<1>2. ASSUME NEW k \in 1..n, k - 1 \in S PROVE k \in S
  <2>1. k \in 0..n /\ k - 1 \in 0..n /\ p[k - 1] = q[k - 1]
    BY <1>2
  <2>2. p[k] \in Nat /\ q[k] \in Nat /\ p[k - 1] \in Nat /\ q[k - 1] \in Nat
    BY <2>1
  <2> QED
    BY <2>1, <2>2
<1>3. 0..n \subseteq S
  <2> HIDE DEF S
  <2> QED
    BY <1>1, <1>2, Counting
<1> QED
  BY <1>3

\* The total of the first c numbers is the c-th prefix sum.
LEMMA TotalPrefix ==
    ASSUME NEW n \in Nat, NEW s \in [1..n -> Nat]
    PROVE  \E p \in [0..n -> Nat] :
              /\ p[0] = 0
              /\ \A k \in 1..n : p[k] = p[k - 1] + s[k]
              /\ \A c \in 0..n : Total([i \in 1..c |-> s[i]]) = p[c]
<1>1. PICK p \in [0..n -> Nat] : p[0] = 0 /\ \A k \in 1..n : p[k] = p[k - 1] + s[k]
  BY TotalSteps
<1>2. ASSUME NEW c \in 0..n PROVE Total([i \in 1..c |-> s[i]]) = p[c]
  <2> DEFINE t == [i \in 1..c |-> s[i]]
             r == [k \in 0..c |-> p[k]]
  <2>1. c \in Nat /\ 1..c \subseteq 1..n /\ 0..c \subseteq 0..n
    OBVIOUS
  <2>2. t \in [1..c -> Nat] /\ r \in [0..c -> Nat] /\ \A k \in 1..c : t[k] = s[k]
    BY <2>1
  <2>3. r[0] = 0 /\ \A k \in 1..c : r[k] = r[k - 1] + t[k]
    BY <1>1, <2>1, <2>2
  <2>4. r[c] = p[c] /\ c \in 0..c
    BY <2>1
  <2> HIDE DEF t, r
  <2>5. PICK q \in [0..c -> Nat] :
          q[0] = 0 /\ (\A k \in 1..c : q[k] = q[k - 1] + t[k]) /\ Total(t) = q[c]
    BY <2>1, <2>2, TotalSteps
  <2>6. ASSUME NEW k \in 1..c PROVE r[k] - r[k - 1] = q[k] - q[k - 1]
    <3>1. k \in 0..c /\ k - 1 \in 0..c
      BY <2>1
    <3>2. r[k - 1] \in Nat /\ q[k - 1] \in Nat /\ t[k] \in Nat
      BY <2>2, <2>5, <3>1
    <3>3. r[k] = r[k - 1] + t[k] /\ q[k] = q[k - 1] + t[k]
      BY <2>3, <2>5
    <3> QED
      BY <3>2, <3>3
  <2>7. r[c] = q[c]
    BY <2>1, <2>2, <2>3, <2>4, <2>5, <2>6, StepsAgree
  <2>8. Total(t) = p[c]
    BY <2>4, <2>5, <2>7
  <2> QED
    BY <2>8 DEF t
<1> QED
  BY <1>1, <1>2

\* The order of the numbers does not matter.
LEMMA TotalReversed ==
    ASSUME NEW n \in Nat, NEW s \in [1..n -> Nat], NEW t \in [1..n -> Nat],
           \A i \in 1..n : t[i] = s[(n + 1) - i]
    PROVE  Total(t) = Total(s)
<1>1. PICK p \in [0..n -> Nat] :
        p[0] = 0 /\ (\A k \in 1..n : p[k] = p[k - 1] + s[k]) /\ Total(s) = p[n]
  BY TotalSteps
<1>2. PICK q \in [0..n -> Nat] :
        q[0] = 0 /\ (\A k \in 1..n : q[k] = q[k - 1] + t[k]) /\ Total(t) = q[n]
  BY TotalSteps
<1> DEFINE S == {k \in 0..n : q[k] + p[n - k] = p[n]}
<1>3. 0 \in S
  BY <1>1, <1>2
<1>4. ASSUME NEW k \in 1..n, k - 1 \in S PROVE k \in S
  <2> DEFINE m == (n + 1) - k
  <2>1. /\ k \in Nat /\ k \in 0..n /\ k - 1 \in 0..n
        /\ m \in 1..n /\ m \in 0..n /\ m - 1 \in 0..n /\ m - 1 = n - k /\ m = n - (k - 1)
    OBVIOUS
  <2>2. q[k - 1] + p[m] = p[n]
    BY <1>4, <2>1
  <2>3. p[m] = p[m - 1] + s[m] /\ q[k] = q[k - 1] + t[k] /\ t[k] = s[m]
    BY <1>1, <1>2, <2>1
  <2>4. /\ p[m] \in Nat /\ p[m - 1] \in Nat /\ s[m] \in Nat
        /\ q[k] \in Nat /\ q[k - 1] \in Nat /\ p[n] \in Nat
    BY <1>1, <1>2, <2>1
  <2> HIDE DEF m
  <2>5. q[k] + p[m - 1] = p[n]
    <3>1. \A a \in Nat, b \in Nat, x \in Nat : (a + x) + b = a + (b + x)
      OBVIOUS
    <3>2. (q[k - 1] + s[m]) + p[m - 1] = q[k - 1] + (p[m - 1] + s[m])
      <4> DEFINE a == q[k - 1]
                 b == p[m - 1]
                 x == s[m]
      <4>1. a \in Nat /\ b \in Nat /\ x \in Nat
        BY <2>4
      <4> HIDE DEF a, b, x
      <4>2. (a + x) + b = a + (b + x)
        BY <3>1, <4>1
      <4> QED
        BY <4>2 DEF a, b, x
    <3>3. q[k] = q[k - 1] + s[m]
      BY <2>3
    <3>4. q[k - 1] + (p[m - 1] + s[m]) = p[n]
      BY <2>2, <2>3
    <3> QED
      BY <3>2, <3>3, <3>4
  <2> QED
    BY <2>1, <2>5
<1>5. n \in S
  <2>1. 0..n \subseteq S
    <3> HIDE DEF S
    <3> QED
      BY <1>3, <1>4, Counting
  <2> QED
    BY <2>1
<1>6. q[n] + p[n - n] = p[n] /\ n - n = 0 /\ q[n] \in Nat
  BY <1>5
<1> QED
  BY <1>1, <1>2, <1>6

-----------------------------------------------------------------------------
(* Filling the view                                                        *)

\* What view_window has taken so far: one turn of its loop.
Taken == [rows : Nat, count : Nat, full : BOOLEAN]
NoneTaken == [rows |-> 0, count |-> 0, full |-> FALSE]

TakeItem(acc, r, h) ==
    IF acc.full \/ (acc.rows # 0 /\ acc.rows + Height(r) > h)
    THEN [acc EXCEPT !.full = TRUE]
    ELSE [rows |-> acc.rows + Height(r), count |-> acc.count + 1,
          full |-> acc.rows + Height(r) >= h]

\* A record takes at least a row.
LEMMA HeightFacts ==
    ASSUME NEW r \in Records
    PROVE  Height(r) \in Nat /\ Height(r) > 0
<1>1. r.kind \in Kinds
  BY DEF Records
<1>2. Tall[r.kind] \in Nat \ {0}
  BY <1>1, HistoryAssumption
<1> QED
  BY <1>2 DEF Height

\* Taking an item gives what the next is added to.
LEMMA TakeFacts ==
    ASSUME NEW acc \in Taken, NEW r \in Records, NEW h \in Nat
    PROVE  TakeItem(acc, r, h) \in Taken
<1>1. Height(r) \in Nat
  BY HeightFacts
<1> DEFINE x == acc.rows + Height(r)
<1>2. acc.rows \in Nat /\ acc.count \in Nat /\ x \in Nat /\ acc.count + 1 \in Nat
  BY <1>1 DEF Taken
<1>3. (x >= h) \in BOOLEAN
  BY <1>2
<1>4. [acc EXCEPT !.full = TRUE] \in Taken
  BY DEF Taken
<1>5. [rows |-> x, count |-> acc.count + 1, full |-> x >= h] \in Taken
  BY <1>2, <1>3 DEF Taken
<1> QED
  BY <1>4, <1>5 DEF TakeItem

\* The steps of Fill.
LEMMA FillSteps ==
    ASSUME NEW n \in Nat, NEW items \in [1..n -> Records], NEW h \in Nat
    PROVE  \E a \in [0..n -> Taken] :
              /\ a[0] = NoneTaken
              /\ \A k \in 1..n : a[k] = TakeItem(a[k - 1], items[k], h)
              /\ Fill(items, h) = a[n].count
<1> DEFINE B == [i \in 1..n |-> [v \in Taken |-> TakeItem(v, items[i], h)]]
           Body(g) == [x \in SUBSET (1..n) |->
                         IF x = {} THEN NoneTaken
                         ELSE TakeItem(g[x \ {Max(x)}], items[Max(x)], h)]
           iter == CHOOSE g : g = Body(g)
<1>1. \E g : g = Body(g)
  <2>1. \A i \in 1..n : \A v \in Taken : B[i][v] \in Taken
    BY TakeFacts
  <2>2. NoneTaken \in Taken
    BY DEF NoneTaken, Taken
  <2>3. PICK g \in [SUBSET (1..n) -> Taken] : FoldsBy(g, B, NoneTaken, SUBSET (1..n))
    <3> HIDE DEF B
    <3> QED
      BY <2>1, <2>2, FoldByExists
  <2>4. ASSUME NEW x \in SUBSET (1..n)
        PROVE  g[x] = IF x = {} THEN NoneTaken
                      ELSE TakeItem(g[x \ {Max(x)}], items[Max(x)], h)
    <3>1. CASE x = {}
      BY <2>3, <3>1 DEF FoldsBy
    <3>2. CASE x # {}
      <4>1. Max(x) \in 1..n /\ x \ {Max(x)} \in SUBSET (1..n)
        BY <3>2, MaxFacts
      <4>2. g[x \ {Max(x)}] \in Taken
        BY <2>3, <4>1
      <4>3. g[x] = B[Max(x)][g[x \ {Max(x)}]]
        BY <2>3, <3>2 DEF FoldsBy
      <4> QED
        BY <3>2, <4>1, <4>2, <4>3
    <3> QED
      BY <3>1, <3>2
  <2>5. g = Body(g)
    BY <2>4
  <2> QED
    BY <2>5
<1>2. iter = Body(iter)
  BY <1>1
<1>3. Fill(items, h) = iter[1..n].count
  <2>1. DOMAIN items = 1..n
    OBVIOUS
  <2> QED
    BY <2>1 DEF Fill, FoldLeft, MapThenFoldSet, TakeItem, NoneTaken
<1> HIDE DEF iter
<1>4. \A x \in SUBSET (1..n) :
        iter[x] = IF x = {} THEN NoneTaken
                  ELSE TakeItem(iter[x \ {Max(x)}], items[Max(x)], h)
  <2>1. \A x \in SUBSET (1..n) :
          Body(iter)[x] = IF x = {} THEN NoneTaken
                          ELSE TakeItem(iter[x \ {Max(x)}], items[Max(x)], h)
    OBVIOUS
  <2> HIDE DEF Body
  <2> QED
    BY <1>2, <2>1
<1>5. iter[1..0] = NoneTaken
  <2>1. 1..0 = {} /\ {} \in SUBSET (1..n)
    OBVIOUS
  <2> QED
    BY <1>4, <2>1
<1>6. ASSUME NEW k \in 1..n PROVE iter[1..k] = TakeItem(iter[1..(k - 1)], items[k], h)
  <2>1. Max(1..k) = k /\ (1..k) \ {k} = 1..(k - 1) /\ 1..k # {} /\ 1..k \in SUBSET (1..n)
    BY FirstPositions
  <2> QED
    BY <1>4, <2>1
<1> DEFINE a == [k \in 0..n |-> iter[1..k]]
<1>7. \A k \in 0..n : a[k] \in Taken
  <2> DEFINE S == {k \in 0..n : a[k] \in Taken}
  <2>1. 0 \in S
    <3>1. NoneTaken \in Taken
      BY DEF NoneTaken, Taken
    <3>2. 0 \in 0..n /\ iter[1..0] \in Taken
      BY <1>5, <3>1
    <3> QED
      BY <3>2
  <2>2. ASSUME NEW k \in 1..n, k - 1 \in S PROVE k \in S
    <3>1. iter[1..(k - 1)] \in Taken /\ k \in 0..n
      BY <2>2
    <3>2. iter[1..k] \in Taken
      BY <1>6, <3>1, TakeFacts
    <3> QED
      BY <3>1, <3>2
  <2>3. 0..n \subseteq S
    <3> HIDE DEF S
    <3> QED
      BY <2>1, <2>2, Counting
  <2> QED
    BY <2>3
<1>8. a[0] = NoneTaken /\ \A k \in 1..n : a[k] = TakeItem(a[k - 1], items[k], h)
  <2>1. \A k \in 1..n : k \in 0..n /\ k - 1 \in 0..n
    OBVIOUS
  <2> QED
    BY <1>5, <1>6, <2>1
<1>9. a \in [0..n -> Taken] /\ Fill(items, h) = a[n].count
  BY <1>3, <1>7
<1> HIDE DEF a
<1> QED
  BY <1>8, <1>9

\* "The viewport is filled with whole items": the items that Fill counts fit,
\* unless it is one that is too tall, and the next one would not.
LEMMA FillFacts ==
    ASSUME NEW n \in Nat, NEW items \in [1..n -> Records], NEW h \in Nat, h > 0
    PROVE  LET c == Fill(items, h)
               rows == Total([i \in 1..c |-> Height(items[i])])
           IN  /\ c \in 0..n
               /\ n > 0 => c > 0
               /\ rows \in Nat
               /\ rows <= h \/ c = 1
               /\ c < n => rows + Height(items[c + 1]) > h
<1> DEFINE s == [i \in 1..n |-> Height(items[i])]
<1>1. s \in [1..n -> Nat] /\ \A i \in 1..n : s[i] > 0 /\ s[i] = Height(items[i])
  BY HeightFacts
<1> HIDE DEF s
<1>2. PICK p \in [0..n -> Nat] :
        /\ p[0] = 0
        /\ \A k \in 1..n : p[k] = p[k - 1] + s[k]
        /\ \A c \in 0..n : Total([i \in 1..c |-> s[i]]) = p[c]
  BY <1>1, TotalPrefix
<1>3. PICK a \in [0..n -> Taken] :
        /\ a[0] = NoneTaken
        /\ \A k \in 1..n : a[k] = TakeItem(a[k - 1], items[k], h)
        /\ Fill(items, h) = a[n].count
  BY FillSteps
<1> DEFINE Good(k) ==
      /\ a[k].count \in 0..k
      /\ a[k].rows = p[a[k].count]
      /\ ~a[k].full => a[k].count = k /\ a[k].rows < h
      /\ a[k].full => /\ a[k].count > 0
                      /\ a[k].rows <= h \/ a[k].count = 1
                      /\ a[k].count < n => p[a[k].count + 1] > h
      S == {k \in 0..n : Good(k)}
<1>4. Good(0)
  BY <1>2, <1>3 DEF NoneTaken
<1>5. ASSUME NEW k \in 1..n, Good(k - 1) PROVE Good(k)
  <2> DEFINE b == a[k - 1]
             e == a[k]
             x == b.rows + s[k]
  <2>1. /\ k \in Nat /\ k > 0 /\ k <= n /\ k - 1 \in 0..n /\ k \in 0..n
        /\ k - 1 \in Nat /\ (k - 1) + 1 = k
    OBVIOUS
  <2>2. /\ b \in Taken /\ b.rows \in Nat /\ b.count \in Nat /\ b.full \in BOOLEAN
        /\ s[k] \in Nat /\ s[k] > 0
    BY <1>1, <1>3, <2>1 DEF Taken
  <2>3. e = TakeItem(b, items[k], h) /\ Height(items[k]) = s[k]
    BY <1>1, <1>3
  <2>4. /\ b.count \in 0..(k - 1) /\ b.rows = p[b.count]
        /\ ~b.full => b.count = k - 1 /\ b.rows < h
        /\ b.full => /\ b.count > 0
                     /\ b.rows <= h \/ b.count = 1
                     /\ b.count < n => p[b.count + 1] > h
    BY <1>5
  <2> HIDE DEF b, e
  <2>5. CASE b.full
    <3>1. e = [b EXCEPT !.full = TRUE]
      BY <2>3, <2>5 DEF TakeItem
    <3>2. e.rows = b.rows /\ e.count = b.count /\ e.full
      BY <2>2, <3>1 DEF Taken
    <3>3. e.count \in 0..k
      BY <2>1, <2>4, <3>2
    <3> QED
      BY <2>4, <2>5, <3>2, <3>3 DEF e
  <2>6. CASE ~b.full /\ b.rows # 0 /\ x > h
    <3>1. e = [b EXCEPT !.full = TRUE]
      BY <2>3, <2>6 DEF TakeItem
    <3>2. e.rows = b.rows /\ e.count = b.count /\ e.full
      BY <2>2, <3>1 DEF Taken
    <3>3. b.count = k - 1 /\ b.rows < h /\ p[k] = x
      BY <1>2, <2>4, <2>6
    <3>4. e.count # 0
      BY <1>2, <2>4, <2>6, <3>2
    <3>5. /\ e.count \in 0..k /\ e.rows = p[e.count] /\ e.count > 0
          /\ e.rows <= h /\ p[e.count + 1] > h
      BY <2>1, <2>2, <2>4, <2>6, <3>2, <3>3, <3>4
    <3> QED
      BY <3>2, <3>5 DEF e
  <2>7. CASE ~b.full /\ ~(b.rows # 0 /\ x > h)
    <3>1. e = [rows |-> x, count |-> b.count + 1, full |-> x >= h]
      BY <2>3, <2>7 DEF TakeItem
    <3>2. e.rows = x /\ e.count = b.count + 1 /\ (e.full <=> x >= h)
      BY <3>1
    <3>3. b.count = k - 1 /\ b.rows < h /\ p[k] = x /\ p[k - 1] = b.rows
      BY <1>2, <2>4, <2>7
    <3>4. e.count = k /\ e.rows = p[k] /\ x \in Nat
      BY <2>1, <2>2, <3>2, <3>3
    <3>5. e.count \in 0..k /\ e.rows = p[e.count] /\ e.count > 0
      BY <2>1, <3>4
    <3>6. ~e.full => e.count = k /\ e.rows < h
      BY <3>2, <3>4
    <3>7. e.rows <= h \/ e.count = 1
      <4>1. CASE b.rows # 0
        BY <2>7, <3>2, <3>4, <4>1
      <4>2. CASE b.rows = 0
        <5>1. CASE k = 1
          BY <3>4, <5>1
        <5>2. CASE k # 1
          <6>1. k - 1 \in 1..n /\ (k - 1) - 1 \in 0..n
            BY <2>1, <5>2
          <6>2. p[k - 1] = p[(k - 1) - 1] + s[k - 1] /\ s[k - 1] \in Nat /\ s[k - 1] > 0
            BY <1>1, <1>2, <6>1
          <6>3. p[(k - 1) - 1] \in Nat
            BY <6>1
          <6> QED
            BY <3>3, <4>2, <6>2, <6>3
        <5> QED
          BY <5>1, <5>2
      <4> QED
        BY <4>1, <4>2
    <3>8. e.full /\ e.count < n => p[e.count + 1] > h
      <4> SUFFICES ASSUME e.full, e.count < n PROVE p[e.count + 1] > h
        OBVIOUS
      <4>1. k < n /\ k + 1 \in 1..n /\ (k + 1) - 1 = k
        BY <2>1, <3>4
      <4>2. p[k + 1] = p[k] + s[k + 1] /\ s[k + 1] \in Nat /\ s[k + 1] > 0
        BY <1>1, <1>2, <4>1
      <4>3. p[k] >= h
        BY <3>2, <3>4
      <4>4. p[k] \in Nat
        BY <3>4
      <4> QED
        BY <3>4, <4>2, <4>3, <4>4
    <3> QED
      BY <3>5, <3>6, <3>7, <3>8 DEF e
  <2> QED
    BY <2>5, <2>6, <2>7
<1>6. Good(n)
  <2>1. 0 \in S
    BY <1>4
  <2>2. \A k \in 1..n : k - 1 \in S => k \in S
    <3> HIDE DEF Good
    <3> QED
      BY <1>5
  <2>3. 0..n \subseteq S
    <3> HIDE DEF S
    <3> QED
      BY <2>1, <2>2, Counting
  <2>4. n \in S
    BY <2>3
  <2> HIDE DEF Good
  <2> QED
    BY <2>4
<1> DEFINE c == a[n].count
           t == [i \in 1..c |-> Height(items[i])]
<1>7. c \in 0..n /\ c \in Nat /\ c <= n
  BY <1>6
<1>8. Total(t) = p[c] /\ p[c] \in Nat
  <2>1. t = [i \in 1..c |-> s[i]]
    BY <1>1, <1>7
  <2> HIDE DEF t, c
  <2> QED
    BY <1>2, <1>7, <2>1
<1>9. n > 0 => c > 0
  BY <1>6
<1>10. p[c] <= h \/ c = 1
  <2>1. a[n].full \/ ~a[n].full
    OBVIOUS
  <2> QED
    BY <1>6, <1>8, <2>1
<1>11. c < n => p[c] + Height(items[c + 1]) > h
  <2> SUFFICES ASSUME c < n PROVE p[c] + Height(items[c + 1]) > h
    OBVIOUS
  <2>1. c + 1 \in 1..n /\ (c + 1) - 1 = c
    BY <1>7
  <2>2. p[c + 1] = p[c] + s[c + 1] /\ s[c + 1] = Height(items[c + 1])
    <3> HIDE DEF c
    <3> QED
      BY <1>1, <1>2, <2>1
  <2>3. p[c + 1] > h
    BY <1>6, <1>7
  <2> QED
    BY <2>2, <2>3
<1> HIDE DEF c, Good
<1> QED
  BY <1>3, <1>7, <1>8, <1>9, <1>10, <1>11 DEF c

\* FillsView, of any events, visible positions and window.
RowsOf(r, multi) == IF multi THEN Tall[r.kind] ELSE 1

ViewFilled(evs, vis, w, fol, multi, h) ==
    LET n       == Len(vis)
        Rows(i) == RowsOf(evs[vis[i]], multi)
        drawn   == Total([i \in 1..(w.end - w.start) |-> Rows(w.start + i)])
    IN  /\ 0 <= w.start /\ w.start <= w.end /\ w.end <= n
        /\ drawn <= h \/ w.end = w.start + 1
        /\ n > 0 => w.start < w.end
        /\ fol => /\ w.end = n
                  /\ w.start > 0 => drawn + Rows(w.start) > h
        /\ ~fol /\ w.end < n => drawn + Rows(w.end + 1) > h

\* A frame that is filled by what the next state holds fills the view.
LEMMA FilledNext ==
    ASSUME ViewFilled(events', visible', screen', follow', MultiRow', log_h')
    PROVE  FillsView'
BY DEF FillsView, ViewFilled, RowsOf, Height, MultiRow

\* Items of one row each take as many rows as there are items.
LEMMA TotalOfOnes ==
    ASSUME NEW n \in Nat
    PROVE  Total([i \in 1..n |-> 1]) = n
<1> DEFINE s == [i \in 1..n |-> 1]
           q == [k \in 0..n |-> k]
<1>1. s \in [1..n -> Nat] /\ (\A k \in 1..n : s[k] = 1) /\ n \in 0..n
  OBVIOUS
<1>2. q \in [0..n -> Nat] /\ \A k \in 0..n : q[k] = k
  OBVIOUS
<1> HIDE DEF s, q
<1>3. PICK p \in [0..n -> Nat] :
        p[0] = 0 /\ (\A k \in 1..n : p[k] = p[k - 1] + s[k]) /\ Total(s) = p[n]
  BY <1>1, TotalSteps
<1>4. p[0] = q[0]
  BY <1>2, <1>3
<1>5. ASSUME NEW k \in 1..n PROVE p[k] - p[k - 1] = q[k] - q[k - 1]
  <2>1. k \in Nat /\ k \in 0..n /\ k - 1 \in 0..n
    OBVIOUS
  <2>2. p[k - 1] \in Nat /\ p[k] = p[k - 1] + 1 /\ q[k] = k /\ q[k - 1] = k - 1
    BY <1>1, <1>2, <1>3, <2>1
  <2> QED
    BY <2>1, <2>2
<1>6. p[n] = n
  BY <1>1, <1>2, <1>4, <1>5, StepsAgree
<1>7. Total(s) = n
  BY <1>3, <1>6
<1> QED
  BY <1>7 DEF s

\* The parts of ViewFilled for the window from a to b that shows d rows.
LEMMA FilledBy ==
    ASSUME NEW evs, NEW vis, NEW w, NEW fol, NEW multi, NEW h, NEW a, NEW b, NEW d,
           w.start = a, w.end = b,
           Total([i \in 1..(b - a) |-> RowsOf(evs[vis[a + i]], multi)]) = d,
           0 <= a, a <= b, b <= Len(vis),
           d <= h \/ b = a + 1,
           Len(vis) > 0 => a < b,
           fol => b = Len(vis) /\ (a > 0 => d + RowsOf(evs[vis[a]], multi) > h),
           ~fol /\ b < Len(vis) => d + RowsOf(evs[vis[b + 1]], multi) > h
    PROVE  ViewFilled(evs, vis, w, fol, multi, h)
BY DEF ViewFilled

\* The window that draw shows is filled, wherever the view may be placed.
LEMMA WindowFills ==
    ASSUME NEW evs \in Seq(Records), NEW vis \in Seq(1..Len(evs)),
           NEW h \in Nat, h > 0, NEW scr \in Nat, scr <= MaxScrollOf(Len(vis), h),
           follow => scr = MaxScrollOf(Len(vis), h)
    PROVE  ViewFilled(evs, vis, Window(evs, vis, scr, h), follow, MultiRow, h)
<1> DEFINE n == Len(vis)
           items == [i \in 1..n |-> evs[vis[i]]]
           w == Window(evs, vis, scr, h)
           rows(i) == RowsOf(evs[vis[i]], MultiRow)
<1>1. n \in Nat /\ \A i \in 1..n : vis[i] \in 1..Len(evs) /\ evs[vis[i]] \in Records
  <2>1. n \in Nat /\ \A i \in 1..n : vis[i] \in 1..Len(evs)
    BY ElementOfSeq
  <2> QED
    BY <2>1, ElementOfSeq
<1>2. /\ items \in [1..n -> Records]
      /\ \A i \in 1..n : items[i] = evs[vis[i]] /\ Height(items[i]) = rows(i)
  BY <1>1 DEF Height, RowsOf
<1>3. CASE ~MultiRow
  <2> DEFINE e == Smaller(scr + h, n)
             m == e - scr
  <2>1. w.start = scr /\ w.end = e
    BY <1>3 DEF Window
  <2>2. \A i : rows(i) = 1
    BY <1>3 DEF RowsOf
  <2>3. scr <= Larger(0, n - h) /\ (follow => scr = Larger(0, n - h))
    BY <1>3 DEF MaxScrollOf
  <2>4. /\ e \in Nat /\ scr <= e /\ e <= n /\ m \in Nat /\ m <= h
        /\ n > 0 => scr < e
        /\ follow => e = n /\ (scr > 0 => m + 1 > h)
        /\ e < n => m + 1 > h
    <3> HIDE DEF n, items, w, rows
    <3> QED
      BY <1>1, <2>3 DEF Larger, Smaller
  <2>5. Total([i \in 1..m |-> rows(scr + i)]) = m
    <3>1. [i \in 1..m |-> rows(scr + i)] = [i \in 1..m |-> 1]
      BY <2>2
    <3>2. Total([i \in 1..m |-> 1]) = m
      <4> HIDE DEF m
      <4> QED
        BY <2>4, TotalOfOnes
    <3> QED
      BY <3>1, <3>2
  <2> HIDE DEF e
  <2>6. /\ m <= h \/ e = scr + 1
        /\ follow => e = n /\ (scr > 0 => m + rows(scr) > h)
        /\ ~follow /\ e < n => m + rows(e + 1) > h
    BY <2>2, <2>4
  <2>7. w.start = scr /\ w.end = e /\ 0 <= scr
    BY <2>1
  <2> HIDE DEF w
  <2>8. ViewFilled(evs, vis, w, follow, MultiRow, h)
    BY <2>4, <2>5, <2>6, <2>7, FilledBy
  <2> QED
    BY <2>8 DEF w
<1>4. CASE MultiRow /\ n = 0
  <2>1. w.start = 0 /\ w.end = 0
    BY <1>4 DEF Window
  <2>2. Total([i \in 1..0 |-> rows(0 + i)]) = 0
    <3>1. [i \in 1..0 |-> rows(0 + i)] = [i \in 1..0 |-> 1]
      OBVIOUS
    <3> QED
      BY <3>1, TotalOfOnes
  <2>3. Total([i \in 1..(0 - 0) |-> rows(0 + i)]) = 0
    BY <2>2
  <2> HIDE DEF w
  <2>4. ViewFilled(evs, vis, w, follow, MultiRow, h)
    <3>1. ~(0 > 0) /\ 0 <= 0 /\ 0 <= h /\ ~(0 < n) /\ ~(n > 0) /\ 0 <= n
      BY <1>4
    <3> QED
      BY <1>4, <2>1, <2>3, <3>1, FilledBy
  <2> QED
    BY <2>4 DEF w
<1>5. CASE MultiRow /\ n # 0 /\ follow
  <2> DEFINE rev == Reverse(items)
             c == Fill(rev, h)
             down == [i \in 1..c |-> Height(rev[i])]
             up == [i \in 1..c |-> rows((n - c) + i)]
  <2>1. Len(items) = n
    BY <1>1, <1>2
  <2>2. rev \in [1..n -> Records] /\ \A i \in 1..n : rev[i] = items[(n - i) + 1]
    <3>1. \A i \in 1..n : (n - i) + 1 \in 1..n
      BY <1>1
    <3>2. rev = [i \in 1..n |-> items[(n - i) + 1]]
      BY <2>1 DEF Reverse
    <3> HIDE DEF rev, items, n
    <3> QED
      BY <1>2, <3>1, <3>2
  <2>3. w.start = n - c /\ w.end = n
    BY <1>5 DEF Window
  <2>4. /\ c \in 0..n /\ c > 0
        /\ Total(down) \in Nat
        /\ Total(down) <= h \/ c = 1
        /\ c < n => Total(down) + Height(rev[c + 1]) > h
    <3>1. n \in Nat /\ n > 0
      BY <1>1, <1>5
    <3>2. rev \in [1..n -> Records]
      BY <2>2
    <3> HIDE DEF n, rev
    <3> QED
      BY <3>1, <3>2, FillFacts
  <2> HIDE DEF c, rev
  <2>5. ASSUME NEW i \in 1..n PROVE Height(rev[i]) = rows((n + 1) - i) /\ Height(rev[i]) \in Nat
    <3>1. (n - i) + 1 \in 1..n /\ (n - i) + 1 = (n + 1) - i
      BY <1>1
    <3>2. Height(items[(n - i) + 1]) = rows((n - i) + 1)
      BY <1>2, <3>1
    <3>3. Height(rev[i]) \in Nat
      BY <2>2, HeightFacts
    <3> HIDE DEF n, items
    <3> QED
      BY <2>2, <3>1, <3>2, <3>3
  <2>6. Total(up) = Total(down)
    <3>1. c \in Nat /\ c <= n /\ 1..c \subseteq 1..n
      BY <1>1, <2>4
    <3>2. down \in [1..c -> Nat]
      BY <2>5, <3>1
    <3>3. ASSUME NEW i \in 1..c
          PROVE  up[i] = down[(c + 1) - i] /\ up[i] \in Nat
      <4>1. (c + 1) - i \in 1..c /\ (n + 1) - ((c + 1) - i) = (n - c) + i
        BY <1>1, <3>1
      <4>2. (c + 1) - i \in 1..n
        BY <3>1, <4>1
      <4> HIDE DEF n
      <4> QED
        BY <2>5, <4>1, <4>2
    <3>4. up \in [1..c -> Nat]
      BY <3>3
    <3> HIDE DEF up, down
    <3> QED
      BY <3>1, <3>2, <3>3, <3>4, TotalReversed
  <2>7. c < n => Height(rev[c + 1]) = rows(n - c)
    <3>1. c < n => c + 1 \in 1..n /\ (n + 1) - (c + 1) = n - c
      BY <1>1, <2>4
    <3> HIDE DEF n
    <3> QED
      BY <2>5, <3>1
  <2>8. n - c \in Nat /\ n - c < n /\ n - (n - c) = c /\ (n - c > 0 => c < n)
        /\ (c = 1 => n = (n - c) + 1)
    BY <1>1, <2>4
  <2> HIDE DEF w, up, down, n
  <2>9. Total([i \in 1..(n - (n - c)) |-> rows((n - c) + i)]) = Total(up)
    BY <2>8 DEF up
  <2>10. /\ Total(up) <= h \/ n = (n - c) + 1
         /\ n - c > 0 => Total(up) + rows(n - c) > h
    BY <2>4, <2>6, <2>7, <2>8
  <2>11. ViewFilled(evs, vis, w, follow, MultiRow, h)
    <3>1. 0 <= n - c /\ n - c <= n /\ n <= n /\ n - c < n /\ ~(n < n)
      BY <1>1, <2>8
    <3> QED
      BY <1>5, <2>3, <2>9, <2>10, <3>1, FilledBy DEF n
  <2> QED
    BY <2>11 DEF w
<1>6. CASE MultiRow /\ n # 0 /\ ~follow
  <2> DEFINE sub == SubSeq(items, scr + 1, n)
             k == n - scr
             c == Fill(sub, h)
             down == [i \in 1..c |-> Height(sub[i])]
  <2>1. scr <= n - 1 /\ scr + 1 \in 1..n /\ k \in Nat /\ k > 0 /\ scr + k = n
    <3>1. scr <= Larger(0, n - 1)
      BY <1>6 DEF MaxScrollOf
    <3> HIDE DEF n
    <3> QED
      BY <1>1, <1>6, <3>1 DEF Larger
  <2>2. sub \in [1..k -> Records] /\ \A i \in 1..k : sub[i] = items[scr + i]
    <3>1. items \in Seq(Records) /\ Len(items) = n
      BY <1>1, <1>2, FunctionIsSeq
    <3>2. /\ sub \in Seq(Records)
          /\ Len(sub) = IF scr + 1 <= n THEN (n - (scr + 1)) + 1 ELSE 0
          /\ \A i \in 1..((n - (scr + 1)) + 1) : sub[i] = items[((scr + 1) + i) - 1]
      <4> HIDE DEF items, n
      <4> QED
        BY <1>1, <2>1, <3>1, SubSeqProperties
    <3>3. (n - (scr + 1)) + 1 = k /\ scr + 1 <= n /\ \A i \in 1..k : ((scr + 1) + i) - 1 = scr + i
      BY <1>1, <2>1
    <3>4. Len(sub) = k
      BY <3>2, <3>3
    <3>5. sub \in [1..k -> Records]
      <4> HIDE DEF sub
      <4> QED
        BY <3>2, <3>4
    <3> HIDE DEF sub, k, items
    <3> QED
      BY <3>2, <3>3, <3>5
  <2>3. w.start = scr /\ w.end = scr + c
    BY <1>6 DEF Window
  <2>4. /\ c \in 0..k /\ c > 0
        /\ Total(down) \in Nat
        /\ Total(down) <= h \/ c = 1
        /\ c < k => Total(down) + Height(sub[c + 1]) > h
    <3> HIDE DEF k, sub
    <3> QED
      BY <2>1, <2>2, FillFacts
  <2> HIDE DEF c, sub
  <2>5. ASSUME NEW i \in 1..k PROVE Height(sub[i]) = rows(scr + i)
    <3>1. scr + i \in 1..n
      BY <1>1, <2>1
    <3> HIDE DEF n, items, k
    <3> QED
      BY <1>2, <2>2, <3>1
  <2>6. /\ c \in Nat /\ c <= k /\ (scr + c) - scr = c /\ scr + c <= n
        /\ (scr + c < n => c < k) /\ scr + (c + 1) = (scr + c) + 1
    BY <1>1, <2>1, <2>4
  <2>7. down = [i \in 1..c |-> rows(scr + i)]
    <3>1. \A i \in 1..c : i \in 1..k
      BY <2>1, <2>6
    <3> HIDE DEF k
    <3> QED
      BY <2>5, <3>1
  <2>8. c < k => Height(sub[c + 1]) = rows((scr + c) + 1)
    <3>1. c < k => c + 1 \in 1..k
      BY <2>1, <2>6
    <3> HIDE DEF k
    <3> QED
      BY <2>5, <2>6, <3>1
  <2> HIDE DEF w, down, k, n
  <2>9. Total([i \in 1..((scr + c) - scr) |-> rows(scr + i)]) = Total(down)
    BY <2>6, <2>7
  <2>10. /\ Total(down) <= h \/ scr + c = scr + 1
         /\ scr + c < n => Total(down) + rows((scr + c) + 1) > h
    BY <2>4, <2>6, <2>8
  <2>11. 0 <= scr /\ scr < scr + c
    BY <2>4, <2>6
  <2>12. ViewFilled(evs, vis, w, follow, MultiRow, h)
    <3>1. scr <= scr + c
      BY <2>6
    <3> QED
      BY <1>6, <2>3, <2>6, <2>9, <2>10, <2>11, <3>1, FilledBy DEF n
  <2> QED
    BY <2>12 DEF w
<1> QED
  BY <1>3, <1>4, <1>5, <1>6

-----------------------------------------------------------------------------
(* What the timeline holds                                                 *)

\* Every record of the source, or of an opened file, can be read.
SourceInv == Readable(produced) /\ Readable(outputs) /\ Readable(opened)

\* A sequence without a damaged line holds records only.
LEMMA ReadableIsRecords ==
    ASSUME NEW s \in Seq(Entries), Readable(s)
    PROVE  s \in Seq(Records)
<1>1. Len(s) \in Nat /\ s \in [1..Len(s) -> Entries] /\ \A i \in 1..Len(s) : s[i] # Damage
  BY DEF Readable
<1>2. \A i \in 1..Len(s) : s[i] \in Records
  BY <1>1 DEF Entries
<1>3. s \in [1..Len(s) -> Records]
  BY <1>1, <1>2
<1> QED
  BY <1>1, <1>3, FunctionIsSeq

\* What a replay hands over is readable: it stops at a damaged line.
LEMMA ReplayReadable ==
    ASSUME NEW content \in Seq(Entries)
    PROVE  Readable(ReplayOutputs(content))
<1> DEFINE r == [from |-> "replay", n |-> 0, kind |-> "status"]
           start == IF TailDropped(content) > 0 THEN <<r>> ELSE << >>
           tail == ReadTail(content)
<1>1. r \in Entries /\ r # Damage
  BY DEF Entries, Records, Origins, Kinds, Damage
<1> HIDE DEF r
<1>2. Readable(<<r>>) /\ Readable(<< >>) /\ <<r>> \in Seq(Entries) /\ << >> \in Seq(Entries)
  BY <1>1 DEF Readable
<1>3. Readable(start) /\ start \in Seq(Entries)
  BY <1>2
<1>4. /\ tail \in Seq(Entries) /\ Len(tail) \in Nat /\ Len(tail) <= Len(content)
      /\ \A i \in 1..Len(tail) : tail[i] = content[(Len(content) - Len(tail)) + i]
  BY TailFacts DEF EndsWith
<1> HIDE DEF start, tail
<1>5. ASSUME Readable(content) PROVE Readable(start \o tail)
  <2>1. Readable(tail)
    <3>1. Len(content) \in Nat
      OBVIOUS
    <3>2. \A i \in 1..Len(tail) : (Len(content) - Len(tail)) + i \in 1..Len(content)
      BY <1>4, <3>1
    <3> QED
      BY <1>4, <1>5, <3>2 DEF Readable
  <2>2. /\ Len(start \o tail) = Len(start) + Len(tail) /\ Len(start) \in Nat
        /\ \A i \in 1..(Len(start) + Len(tail)) :
              (start \o tail)[i] = IF i <= Len(start) THEN start[i] ELSE tail[i - Len(start)]
    BY <1>3, <1>4, ConcatProperties
  <2>3. ASSUME NEW i \in 1..(Len(start) + Len(tail)) PROVE (start \o tail)[i] # Damage
    <3>1. CASE i <= Len(start)
      <4>1. i \in 1..Len(start)
        BY <2>2, <3>1, <1>4
      <4> QED
        BY <1>3, <2>2, <3>1, <4>1 DEF Readable
    <3>2. CASE ~(i <= Len(start))
      <4>1. i - Len(start) \in 1..Len(tail)
        BY <1>4, <2>2, <3>2
      <4> QED
        BY <2>1, <2>2, <3>2, <4>1 DEF Readable
    <3> QED
      BY <3>1, <3>2
  <2> QED
    BY <2>2, <2>3 DEF Readable
<1>6. ReplayOutputs(content) = IF ~Readable(content) THEN <<r>> ELSE start \o tail
  BY DEF ReplayOutputs, r, start, tail
<1> QED
  BY <1>2, <1>5, <1>6

\* A record added to a readable sequence leaves it readable.
LEMMA AppendReadable ==
    ASSUME NEW s \in Seq(Entries), Readable(s), NEW r \in Entries, r # Damage
    PROVE  Readable(Append(s, r))
<1>1. /\ Len(s) \in Nat /\ Len(Append(s, r)) = Len(s) + 1
      /\ Append(s, r)[Len(s) + 1] = r /\ \A i \in 1..Len(s) : Append(s, r)[i] = s[i]
  BY AppendProperties
<1>2. ASSUME NEW i \in 1..(Len(s) + 1) PROVE i = Len(s) + 1 \/ i \in 1..Len(s)
  BY <1>1
<1> QED
  BY <1>1, <1>2 DEF Readable

\* Nothing unreadable is under way at the start.
LEMMA SourceInit == Init => SourceInv
<1>1. Readable(<< >>)
  BY DEF Readable
<1> QED
  BY <1>1 DEF Init, SourceInv

\* Every step keeps the timeline readable.
LEMMA SourceNext == IInv /\ SourceInv /\ [Next]_vars => SourceInv'
<1> SUFFICES ASSUME IInv, SourceInv, [Next]_vars PROVE SourceInv'
  OBVIOUS
<1>1. /\ produced \in Seq(Entries) /\ Len(produced) \in Nat /\ setup \in Setups
      /\ outputs \in Seq(Entries) /\ Len(outputs) \in Nat /\ files \in [Files -> Seq(Entries)]
  BY DEF IInv, Types
<1>2. Readable(produced) /\ Readable(outputs) /\ Readable(opened)
  BY DEF SourceInv
<1>3. ASSUME NEW k \in setup.kinds, SendLive(k) PROVE SourceInv'
  <2> DEFINE r == [from |-> "live", n |-> Len(produced) + 1, kind |-> k]
  <2>1. k \in Kinds
    BY <1>1, SetupAssumption
  <2>2. r \in Entries /\ r # Damage
    BY <1>1, <2>1 DEF Entries, Records, Origins, Damage
  <2>3. produced' = Append(produced, r) /\ outputs' = outputs /\ opened' = opened
    BY <1>3 DEF SendLive, sessVars
  <2> HIDE DEF r
  <2> QED
    BY <1>1, <1>2, <2>2, <2>3, AppendReadable DEF SourceInv, Readable
<1>4. ASSUME LoadReplay PROVE SourceInv'
  <2>1. /\ setup.replay # "none" /\ outputs' = ReplayOutputs(files[setup.replay])
        /\ produced' = produced /\ opened' = opened
    BY <1>4 DEF LoadReplay, sessVars
  <2>2. {setup.replay, setup.save} \subseteq Files \cup {"none"}
    BY <1>1, SetupAssumption
  <2>3. files[setup.replay] \in Seq(Entries)
    BY <1>1, <2>1, <2>2
  <2>4. Readable(ReplayOutputs(files[setup.replay]))
    BY <2>3, ReplayReadable
  <2> QED
    BY <1>2, <2>1, <2>4 DEF SourceInv, Readable
<1>5. ASSUME SendReplayed PROVE SourceInv'
  <2> DEFINE r == outputs[Len(produced) + 1]
  <2>1. /\ Len(produced) < Len(outputs) /\ produced' = Append(produced, r)
        /\ outputs' = outputs /\ opened' = opened
    BY <1>5 DEF SendReplayed, sessVars
  <2>2. Len(produced) + 1 \in 1..Len(outputs)
    BY <1>1, <2>1
  <2>3. r \in Entries /\ r # Damage
    BY <1>1, <1>2, <2>2, ElementOfSeq DEF Readable
  <2> HIDE DEF r
  <2> QED
    BY <1>1, <1>2, <2>1, <2>3, AppendReadable DEF SourceInv, Readable
<1>6. ASSUME NEW p \in Files, OpenSession(p) PROVE SourceInv'
  BY <1>2, <1>6 DEF OpenSession, SourceInv, Readable
<1>7. ASSUME UNCHANGED <<produced, outputs, opened>> PROVE SourceInv'
  BY <1>2, <1>7 DEF SourceInv, Readable
<1>8. CASE ConnectionOpens
  BY <1>7, <1>8 DEF ConnectionOpens, sessVars
<1>9. CASE DrainOne \/ Frames
  BY <1>7, <1>9 DEF DrainOne, Frames, Frame, srcVars, sessVars
<1>10. CASE PollEnds \/ Quit \/ ScrollKey \/ ModeKey \/ ClearKey
  BY <1>7, <1>10 DEF PollEnds, Quit, ScrollKey, ScrollTo, ModeKey, ClearKey, srcVars, sessVars
<1>11. CASE FilterKey
  BY <1>7, <1>11 DEF FilterKey, EditFilter, TypeFilter, EnterFilter, ClearFilter, srcVars, sessVars
<1>12. CASE OpenCommandBar \/ LeaveCommandBar \/ \E p \in Files : StartRecording(p) \/ StartRecordingFails(p)
  BY <1>7, <1>12 DEF OpenCommandBar, LeaveCommandBar, StartRecording, StartRecordingFails,
                     srcVars, sessVars
<1>13. CASE UNCHANGED vars
  BY <1>7, <1>13 DEF vars, srcVars, sessVars
<1> QED
  BY <1>3, <1>4, <1>5, <1>6, <1>8, <1>9, <1>10, <1>11, <1>12, <1>13 DEF Next, CommandKey

\* The history holds records only.
LEMMA HistoryReadable ==
    ASSUME IInv, SourceInv
    PROVE  events \in Seq(Records)
<1>1. /\ Types /\ events \in Seq(Entries) /\ Len(events) \in Nat
      /\ Timeline \in Seq(Entries) /\ Len(Timeline) \in Nat /\ EndsWith(Timeline, events)
  BY TimelineFacts DEF IInv, Types, TimeInv
<1>2. Readable(Timeline)
  <2>1. CASE accept_source_records
    <3>1. taken \in Nat /\ Len(produced) \in Nat /\ taken <= Len(produced)
      BY <1>1 DEF Types
    <3>2. \A i \in 1..taken : i \in 1..Len(produced)
      BY <3>1
    <3> QED
      BY <1>1, <2>1, <3>2, TimelineFacts DEF SourceInv, Readable
  <2>2. CASE ~accept_source_records
    BY <1>1, <2>2, TimelineFacts DEF SourceInv
  <2> QED
    BY <2>1, <2>2
<1>3. Readable(events)
  <2>1. \A i \in 1..Len(events) : (Len(Timeline) - Len(events)) + i \in 1..Len(Timeline)
    BY <1>1 DEF EndsWith
  <2> QED
    BY <1>1, <1>2, <2>1 DEF EndsWith, Readable
<1> QED
  BY <1>1, <1>3, ReadableIsRecords

\* No frame slices or looks up out of bounds, and one that shows the messages
\* fills the view with whole items, whatever was pushed, trimmed, cleared,
\* filtered, opened, scrolled or resized before it.
THEOREM FramesFill == Spec => FramesFillView
<1>1. ASSUME IInv, SourceInv, Frames
      PROVE  phase' # "panicked" /\ (~show_splash' => FillsView')
  <2>1. PICK h \in setup.heights : Frame(h)
    BY <1>1 DEF Frames
  <2>2. UNCHANGED modeVars /\ log_h' = h /\ MultiRow' = MultiRow
    BY <2>1 DEF Frame, modeVars, MultiRow
  <2>3. /\ h \in Nat /\ h > 0 /\ phase' = "keys"
        /\ events' \in Seq(Entries) /\ EndsWith(events, events')
        /\ visible' = VisibleOf(events', filter)
        /\ scroll' \in Nat /\ scroll' <= MaxScrollOf(Len(visible'), h)
        /\ follow => scroll' = MaxScrollOf(Len(visible'), h)
        /\ ~show_splash' => screen' = Window(events', visible', scroll', h)
    BY <1>1, <2>1, FrameFacts
  <2>4. events' \in Seq(Records)
    <3>1. events \in Seq(Records) /\ Len(events) \in Nat /\ Len(events') \in Nat
      BY <1>1, <2>3, HistoryReadable
    <3>2. \A i \in 1..Len(events') : events'[i] \in Records
      <4>1. \A i \in 1..Len(events') :
              /\ (Len(events) - Len(events')) + i \in 1..Len(events)
              /\ events'[i] = events[(Len(events) - Len(events')) + i]
        BY <2>3, <3>1 DEF EndsWith
      <4> QED
        BY <3>1, <4>1, ElementOfSeq
    <3>3. events' \in [1..Len(events') -> Records]
      BY <2>3, <3>2
    <3> QED
      BY <3>1, <3>3, FunctionIsSeq
  <2>5. visible' \in Seq(1..Len(events'))
    BY <2>3, VisibleFacts
  <2>6. ASSUME ~show_splash' PROVE FillsView'
    <3>1. ViewFilled(events', visible', Window(events', visible', scroll', h), follow, MultiRow, h)
      BY <2>3, <2>4, <2>5, WindowFills
    <3>2. ViewFilled(events', visible', screen', follow', MultiRow', log_h')
      BY <2>2, <2>3, <2>6, <3>1 DEF modeVars
    <3> QED
      BY <3>2, FilledNext
  <2> QED
    BY <2>3, <2>6
<1>2. IInv /\ SourceInv
      => [Frames => phase' # "panicked" /\ (~show_splash' => FillsView')]_vars
  BY <1>1
<1>3. Spec => []SourceInv
  BY HistoryInvariant, SourceInit, SourceNext, PTL DEF Spec
<1> QED
  BY <1>2, <1>3, HistoryInvariant, PTL DEF FramesFillView
===============================================================================
