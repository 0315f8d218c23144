-------------------------- MODULE ConnRegistryProofs --------------------------
(***************************************************************************)
(* Proofs about ConnRegistry, for every set of connections and every Cap.  *)
(*                                                                         *)
(* An evicted id is one that was queued as closed.  That it is not also    *)
(* the id of an open connection needs more than the properties themselves: *)
(* ids are never shared, and a queued id belongs to a connection whose     *)
(* close has finished.  IInv adds exactly that.                            *)
(***************************************************************************)
EXTENDS ConnRegistry, FiniteSetTheorems, SequenceTheorems, TLAPS

\* Stages in which the lifecycle is Closed.
ClosedStages == {"marked", "uncounted", "closed", "reclosing", "done"}

\* Stages after Retire.
RetiredStages == {"closed", "reclosing", "done"}

\* TypeOK without the claim that conns_live is not negative.
Types ==
    /\ next_conn_id \in Nat \ {0}
    /\ id \in [Conns -> Nat]
    /\ lifecycle \in [Conns -> {"open", "closed"}]
    /\ life_lock \in [Conns -> BOOLEAN]
    /\ entries \in SUBSET Nat
    /\ closed \in Seq(Nat)
    /\ registry_lock \in {"free", "source", "tui"}
    /\ conns_opened \in Nat
    /\ pc \in [Conns -> Stages]
    /\ todo \in SUBSET Nat
    /\ listed \in SUBSET (Nat \X {"open", "closed"})
    /\ views \in Nat

\* Ids are handed out once.
FreshIds == \A c \in Conns : id[c] < next_conn_id
UniqueIds ==
    \A c, d \in Conns :
        pc[c] # "new" /\ pc[d] # "new" /\ id[c] = id[d] => c = d

\* The lifecycle follows the stage of the source thread.
LifecycleByStage ==
    \A c \in Conns : lifecycle[c] = "closed" <=> pc[c] \in ClosedStages

\* A queued id belongs to a connection that was retired.
QueuedAreRetired ==
    \A i \in 1..Len(closed) :
        \E c \in Conns : id[c] = closed[i] /\ pc[c] \in RetiredStages

\* An id is queued once, and only while its record is retained.
QueueDistinct == \A i, j \in 1..Len(closed) : closed[i] = closed[j] => i = j
QueueRetained == \A i \in 1..Len(closed) : closed[i] \in entries

QueueInv ==
    /\ QueuedAreRetired
    /\ OpenNeverEvicted
    /\ QueueDistinct
    /\ QueueRetained
    /\ IsFiniteSet(entries)
    /\ Len(closed) <= Cap

IInv ==
    /\ Types
    /\ FreshIds
    /\ UniqueIds
    /\ LifecycleByStage
    /\ QueueInv
    /\ LiveCount

-----------------------------------------------------------------------------
\* The initial state satisfies the inductive invariant.
LEMMA InitIInv == Init => IInv
<1> SUFFICES ASSUME Init PROVE IInv
  OBVIOUS
<1>1. Types
  BY DEF Init, Types, Stages
<1>2. FreshIds /\ UniqueIds /\ LifecycleByStage
  BY DEF Init, FreshIds, UniqueIds, LifecycleByStage, ClosedStages
<1>4. QueueInv
  BY RegistryAssumption, FS_EmptySet
     DEF Init, QueueInv, QueuedAreRetired, OpenNeverEvicted, QueueDistinct, QueueRetained
<1>3. LiveCount
  <2>1. CountedLive = {}
    BY DEF Init, CountedLive
  <2> QED
    BY <2>1, FS_EmptySet DEF Init, LiveCount
<1> QED
  BY <1>1, <1>2, <1>3, <1>4 DEF IInv

\* Every step keeps the types.
LEMMA NextTypes == IInv /\ [Next]_vars => Types'
<1> SUFFICES ASSUME IInv, [Next]_vars PROVE Types'
  OBVIOUS
<1> USE DEF Types, Stages
<1>t. Types
  BY DEF IInv
<1>1. ASSUME NEW c \in Conns, AllocId(c) PROVE Types'
  BY <1>t, <1>1 DEF AllocId, viewVars
<1>2. ASSUME NEW c \in Conns, InsertEntry(c) PROVE Types'
  <2>1. id[c] \in Nat
    BY <1>t
  <2>2. entries' \in SUBSET Nat
    BY <1>t, <1>2, <2>1 DEF InsertEntry
  <2> QED
    BY <1>t, <1>2, <2>2 DEF InsertEntry, viewVars
<1>3. ASSUME NEW c \in Conns, CountLive(c) PROVE Types'
  BY <1>t, <1>3 DEF CountLive, viewVars
<1>4. ASSUME NEW c \in Conns, LockLifecycle(c) PROVE Types'
  BY <1>t, <1>4 DEF LockLifecycle, viewVars
<1>5. ASSUME NEW c \in Conns, MarkClosed(c) PROVE Types'
  BY <1>t, <1>5 DEF MarkClosed, viewVars
<1>6. ASSUME NEW c \in Conns, AlreadyClosed(c) PROVE Types'
  BY <1>t, <1>6 DEF AlreadyClosed, viewVars
<1>7. ASSUME NEW c \in Conns, UncountLive(c) PROVE Types'
  BY <1>t, <1>7 DEF UncountLive, viewVars
<1>8. ASSUME NEW c \in Conns, Retire(c) PROVE Types'
  <2> DEFINE q == Append(closed, id[c])
  <2>1. q \in Seq(Nat)
    BY <1>t
  <2>2. PICK k \in 0..Len(q) :
           closed' = SubSeq(q, k + 1, Len(q)) /\ entries' = entries \ Oldest(q, k)
    BY <1>8 DEF Retire
  <2> HIDE DEF q
  <2>3. closed' \in Seq(Nat)
    BY <2>1, <2>2
  <2>4. entries' \in SUBSET Nat
    BY <1>t, <2>2
  <2> QED
    BY <1>t, <1>8, <2>3, <2>4 DEF Retire, viewVars
<1>9. CASE StartListing
  BY <1>t, <1>9 DEF StartListing, sourceVars
<1>10. ASSUME NEW c \in Conns, ListEntry(c) PROVE Types'
  <2>1. listed' \in SUBSET (Nat \X {"open", "closed"})
    BY <1>t, <1>10 DEF ListEntry
  <2>2. todo' \in SUBSET Nat
    BY <1>t, <1>10 DEF ListEntry
  <2> QED
    BY <1>t, <1>10, <2>1, <2>2 DEF ListEntry, sourceVars
<1>11. CASE EndListing
  BY <1>t, <1>11 DEF EndListing, sourceVars
<1>12. CASE UNCHANGED vars
  BY <1>t, <1>12 DEF vars, sourceVars, viewVars
<1> QED
  BY <1>1, <1>2, <1>3, <1>4, <1>5, <1>6, <1>7, <1>8, <1>9, <1>10, <1>11, <1>12
     DEF Next, Opening, Closing, Listing

\* Ids stay unique, and the lifecycle follows the stage.
LEMMA NextIds == IInv /\ [Next]_vars => FreshIds' /\ UniqueIds' /\ LifecycleByStage'
<1> SUFFICES ASSUME IInv, [Next]_vars PROVE FreshIds' /\ UniqueIds' /\ LifecycleByStage'
  OBVIOUS
<1> USE DEF Types, FreshIds, UniqueIds, LifecycleByStage, ClosedStages, Stages
<1>i. Types /\ FreshIds /\ UniqueIds /\ LifecycleByStage
  BY DEF IInv
<1> DEFINE Goal == FreshIds' /\ UniqueIds' /\ LifecycleByStage'
<1>1. ASSUME NEW c \in Conns, AllocId(c) PROVE Goal
  BY <1>i, <1>1 DEF AllocId
<1>2. ASSUME NEW c \in Conns, InsertEntry(c) PROVE Goal
  BY <1>i, <1>2 DEF InsertEntry
<1>3. ASSUME NEW c \in Conns, CountLive(c) PROVE Goal
  BY <1>i, <1>3 DEF CountLive
<1>4. ASSUME NEW c \in Conns, LockLifecycle(c) PROVE Goal
  BY <1>i, <1>4 DEF LockLifecycle
<1>5. ASSUME NEW c \in Conns, MarkClosed(c) PROVE Goal
  BY <1>i, <1>5 DEF MarkClosed
<1>6. ASSUME NEW c \in Conns, AlreadyClosed(c) PROVE Goal
  BY <1>i, <1>6 DEF AlreadyClosed
<1>7. ASSUME NEW c \in Conns, UncountLive(c) PROVE Goal
  BY <1>i, <1>7 DEF UncountLive
<1>8. ASSUME NEW c \in Conns, Retire(c) PROVE Goal
  BY <1>i, <1>8 DEF Retire
<1>9. CASE UNCHANGED sourceVars
  BY <1>i, <1>9 DEF sourceVars
<1> QED
  BY <1>1, <1>2, <1>3, <1>4, <1>5, <1>6, <1>7, <1>8, <1>9
     DEF Next, Opening, Closing, Listing, StartListing, ListEntry, EndListing, vars

\* A sequence without repetitions is no longer than a set it lies in.
LEMMA DistinctFits ==
  ASSUME NEW S, IsFiniteSet(S), NEW s, Len(s) \in Nat,
         \A i \in 1..Len(s) : s[i] \in S,
         \A i, j \in 1..Len(s) : s[i] = s[j] => i = j
  PROVE  Len(s) <= Cardinality(S)
<1> DEFINE f == [i \in 1..Len(s) |-> s[i]]
<1>1. f \in [1..Len(s) -> S] /\ IsInjective(f)
  BY DEF IsInjective
<1>2. f \in Injection(1..Len(s), S)
  BY <1>1 DEF Injection
<1>3. Cardinality(1..Len(s)) = Len(s)
  <2> DEFINE n == Len(s)
  <2>1. n \in Nat /\ 1 \in Int /\ n \in Int
    OBVIOUS
  <2> HIDE DEF n
  <2>2. Cardinality(1..n) = IF 1 > n THEN 0 ELSE n - 1 + 1
    BY <2>1, FS_Interval
  <2>3. Cardinality(1..n) = n
    BY <2>1, <2>2
  <2> QED
    BY <2>3 DEF n
<1>4. Cardinality(1..Len(s)) <= Cardinality(S)
  BY <1>2, FS_Injection
<1> QED
  BY <1>3, <1>4

\* Retire evicts no connection whose close has not reached the registry, what
\* it leaves in the queue was retired and is retained, and that is at most Cap.
LEMMA RetireQueue ==
  ASSUME IInv, NEW c \in Conns, Retire(c)
  PROVE  QueueInv'
<1> DEFINE q == Append(closed, id[c])
<1>i. Types /\ UniqueIds /\ QueueInv
  BY DEF IInv
<1>1. PICK k \in 0..Len(q) :
         /\ Evicts(q, k)
         /\ closed' = SubSeq(q, k + 1, Len(q))
         /\ entries' = entries \ Oldest(q, k)
  BY DEF Retire
<1>2. /\ pc' = [pc EXCEPT ![c] = "closed"]
      /\ id' = id
      /\ pc[c] = "uncounted"
  BY DEF Retire
<1>3. /\ q \in Seq(Nat)
      /\ Len(closed) \in Nat
      /\ Len(q) = Len(closed) + 1
      /\ \A i \in 1..Len(closed) : q[i] = closed[i]
      /\ q[Len(q)] = id[c]
  BY <1>i DEF Types
<1> HIDE DEF q
<1>4. ASSUME NEW i \in 1..Len(q), i # Len(q)
      PROVE  \E d \in Conns : id[d] = q[i] /\ pc[d] \in RetiredStages
  <2>1. i \in 1..Len(closed)
    BY <1>3, <1>4
  <2> QED
    BY <1>3, <1>i, <2>1 DEF QueueInv, QueuedAreRetired
<1>5. ASSUME NEW i \in 1..Len(q)
      PROVE  \E d \in Conns : id[d] = q[i] /\ pc'[d] \in RetiredStages
  <2>1. CASE i = Len(q)
    <3>1. pc'[c] = "closed"
      BY <1>2, <1>i DEF Types
    <3> QED
      BY <1>3, <2>1, <3>1 DEF RetiredStages
  <2>2. CASE i # Len(q)
    <3>1. PICK d \in Conns : id[d] = q[i] /\ pc[d] \in RetiredStages
      BY <1>4, <2>2
    <3>2. pc'[d] = pc[d]
      BY <1>2, <1>i, <3>1 DEF RetiredStages, Types
    <3> QED
      BY <3>1, <3>2
  <2> QED
    BY <2>1, <2>2
<1>6. ASSUME NEW i \in 1..Len(q), i # Len(q) PROVE q[i] # id[c]
  <2> SUFFICES ASSUME q[i] = id[c] PROVE FALSE
    OBVIOUS
  <2>1. PICK d \in Conns : id[d] = q[i] /\ pc[d] \in RetiredStages
    BY <1>4, <1>6
  <2>2. d = c
    BY <1>2, <1>i, <2>1 DEF UniqueIds, RetiredStages
  <2> QED
    BY <1>2, <2>1, <2>2 DEF RetiredStages
<1>7. \A i, j \in 1..Len(q) : q[i] = q[j] => i = j
  <2> SUFFICES ASSUME NEW i \in 1..Len(q), NEW j \in 1..Len(q), q[i] = q[j], i # j
               PROVE  FALSE
    OBVIOUS
  <2>1. i # Len(q) /\ j # Len(q)
    BY <1>3, <1>6
  <2>2. i \in 1..Len(closed) /\ j \in 1..Len(closed)
    BY <1>3, <2>1
  <2> QED
    BY <1>3, <1>i, <2>2 DEF QueueInv, QueueDistinct
<1>8. \A i \in 1..Len(q) : q[i] \in entries
  <2> SUFFICES ASSUME NEW i \in 1..Len(q) PROVE q[i] \in entries
    OBVIOUS
  <2>1. CASE i = Len(q)
    BY <1>2, <1>3, <1>i, <2>1 DEF QueueInv, OpenNeverEvicted
  <2>2. CASE i # Len(q)
    <3>1. i \in 1..Len(closed)
      BY <1>3, <2>2
    <3> QED
      BY <1>3, <1>i, <3>1 DEF QueueInv, QueueRetained
  <2> QED
    BY <2>1, <2>2
<1>9. /\ Len(closed') = Len(q) - k
      /\ \A i \in 1..Len(closed') : closed'[i] = q[k + i] /\ k + i \in 1..Len(q)
  <2>1. \A i \in (k + 1)..Len(q) : q[i] \in Nat
    BY <1>1, <1>3
  <2>2. /\ Len(closed') = IF k + 1 <= Len(q) THEN Len(q) - (k + 1) + 1 ELSE 0
        /\ \A i \in 1..(Len(q) - (k + 1) + 1) : closed'[i] = q[(k + 1) + i - 1]
    BY <1>1, <1>3, <2>1, SubSeqProperties
  <2>3. Len(closed') = Len(q) - k
    BY <1>1, <1>3, <2>2
  <2> QED
    BY <1>1, <1>3, <2>2, <2>3
<1>10. QueuedAreRetired'
  BY <1>2, <1>5, <1>9 DEF QueuedAreRetired
<1>11. QueueDistinct'
  <2> SUFFICES ASSUME NEW i \in 1..Len(closed'), NEW j \in 1..Len(closed'),
                      closed'[i] = closed'[j]
               PROVE  i = j
    BY DEF QueueDistinct
  <2>1. k + i = k + j
    BY <1>7, <1>9
  <2> QED
    BY <1>1, <1>3, <1>9, <2>1
<1>12. QueueRetained'
  <2> SUFFICES ASSUME NEW i \in 1..Len(closed') PROVE closed'[i] \in entries'
    BY DEF QueueRetained
  <2>1. closed'[i] = q[k + i] /\ k + i \in 1..Len(q) /\ i \in Nat /\ i > 0
    BY <1>3, <1>9
  <2>2. ASSUME NEW j \in 1..k, q[k + i] = q[j] PROVE FALSE
    <3>1. j \in 1..Len(q)
      BY <1>3
    <3>2. k + i = j
      BY <1>7, <2>1, <2>2, <3>1
    <3> QED
      BY <2>1, <3>2
  <2>3. closed'[i] \notin Oldest(q, k)
    BY <2>1, <2>2 DEF Oldest
  <2> QED
    BY <1>1, <1>8, <2>1, <2>3
<1>13. OpenNeverEvicted'
  <2> SUFFICES ASSUME NEW d \in Conns,
                      pc'[d] \in {"inserted", "open", "closing", "marked", "uncounted"}
               PROVE  id[d] \in entries'
    BY <1>2 DEF OpenNeverEvicted
  <2>1. d # c /\ pc'[d] = pc[d]
    BY <1>2, <1>i DEF Types
  <2>2. id[d] \in entries
    BY <1>i, <2>1 DEF QueueInv, OpenNeverEvicted
  <2>3. ASSUME NEW i \in 1..k, id[d] = q[i] PROVE FALSE
    <3>1. i \in 1..Len(q)
      BY <1>3
    <3>2. PICK e \in Conns : id[e] = q[i] /\ pc'[e] \in RetiredStages
      BY <1>5, <3>1
    <3>3. pc[e] # "new" /\ pc[d] # "new"
      BY <1>2, <1>i, <2>1, <3>2 DEF RetiredStages, Types
    <3>4. d = e
      BY <1>i, <2>3, <3>2, <3>3 DEF UniqueIds
    <3> QED
      BY <3>2, <3>4 DEF RetiredStages
  <2>4. id[d] \notin Oldest(q, k)
    BY <2>3 DEF Oldest
  <2> QED
    BY <1>1, <2>2, <2>4
<1>14. IsFiniteSet(entries')
  <2>1. entries' \subseteq entries
    BY <1>1
  <2> QED
    BY <1>i, <2>1, FS_Subset DEF QueueInv
<1>15. Len(closed') <= Cap
  <2>1. CASE k = Len(q)
    BY <1>3, <1>9, <2>1, RegistryAssumption
  <2>2. CASE k # Len(q)
    <3>1. Cardinality(entries') <= Cap
      BY <1>1, <2>2 DEF Evicts
    <3>2. Len(closed') \in Nat
      BY <1>1, <1>3, <1>9
    <3>3. \A i, j \in 1..Len(closed') : closed'[i] = closed'[j] => i = j
      BY <1>11 DEF QueueDistinct
    <3>4. \A i \in 1..Len(closed') : closed'[i] \in entries'
      BY <1>12 DEF QueueRetained
    <3>5. Len(closed') <= Cardinality(entries')
      BY <1>14, <3>2, <3>3, <3>4, DistinctFits
    <3> QED
      BY <1>14, <3>1, <3>2, <3>5, FS_CardinalityType, RegistryAssumption
  <2> QED
    BY <2>1, <2>2
<1> QED
  BY <1>10, <1>11, <1>12, <1>13, <1>14, <1>15 DEF QueueInv

\* A step that leaves the queue alone, takes no record out, keeps retired
\* connections retired and the others recorded.
LEMMA QueueStays ==
  ASSUME IInv, closed' = closed, entries \subseteq entries', IsFiniteSet(entries'),
         \A d \in Conns : pc[d] \in RetiredStages =>
             pc'[d] \in RetiredStages /\ id'[d] = id[d],
         \A d \in Conns :
             pc'[d] \in {"inserted", "open", "closing", "marked", "uncounted"} =>
                 id'[d] \in entries'
  PROVE  QueueInv'
<1>i. QueueInv
  BY DEF IInv
<1>1. QueuedAreRetired'
  <2> SUFFICES ASSUME NEW i \in 1..Len(closed)
               PROVE  \E d \in Conns : id'[d] = closed[i] /\ pc'[d] \in RetiredStages
    BY DEF QueuedAreRetired
  <2> QED
    BY <1>i DEF QueueInv, QueuedAreRetired
<1>2. OpenNeverEvicted'
  BY DEF OpenNeverEvicted
<1>3. QueueDistinct' /\ QueueRetained'
  BY <1>i DEF QueueInv, QueueDistinct, QueueRetained
<1> QED
  BY <1>i, <1>1, <1>2, <1>3 DEF QueueInv

\* In particular one that moves connection c on, and changes neither records
\* nor ids.
LEMMA QueueMoves ==
  ASSUME IInv, NEW c \in Conns, NEW stage, UNCHANGED <<closed, entries, id>>,
         pc' = [pc EXCEPT ![c] = stage],
         pc[c] \in RetiredStages => stage \in RetiredStages,
         stage \in {"inserted", "open", "closing", "marked", "uncounted"} =>
             pc[c] \in {"inserted", "open", "closing", "marked", "uncounted"}
  PROVE  QueueInv'
<1>i. QueueInv /\ pc \in [Conns -> Stages]
  BY DEF IInv, Types
<1>1. \A d \in Conns : pc[d] \in RetiredStages => pc'[d] \in RetiredStages /\ id'[d] = id[d]
  BY <1>i
<1>2. \A d \in Conns : pc'[d] \in {"inserted", "open", "closing", "marked", "uncounted"} =>
                            id'[d] \in entries'
  BY <1>i DEF QueueInv, OpenNeverEvicted
<1>3. IsFiniteSet(entries')
  BY <1>i DEF QueueInv
<1> QED
  BY <1>1, <1>2, <1>3, QueueStays

\* Every step keeps the queue and the records of open connections.
LEMMA NextQueue == IInv /\ [Next]_vars => QueueInv'
<1> SUFFICES ASSUME IInv, [Next]_vars PROVE QueueInv'
  OBVIOUS
<1>i. QueueInv /\ pc \in [Conns -> Stages] /\ id \in [Conns -> Nat] /\ LifecycleByStage
  BY DEF IInv, Types
<1>1. ASSUME NEW c \in Conns, AllocId(c) PROVE QueueInv'
  <2>1. \A d \in Conns : pc[d] \in RetiredStages => pc'[d] \in RetiredStages /\ id'[d] = id[d]
    BY <1>i, <1>1 DEF AllocId, RetiredStages
  <2>2. \A d \in Conns : pc'[d] \in {"inserted", "open", "closing", "marked", "uncounted"} =>
                              id'[d] \in entries'
    BY <1>i, <1>1 DEF AllocId, QueueInv, OpenNeverEvicted
  <2>3. closed' = closed /\ entries' = entries /\ IsFiniteSet(entries')
    BY <1>i, <1>1 DEF AllocId, QueueInv
  <2> QED
    BY <2>1, <2>2, <2>3, QueueStays
<1>2. ASSUME NEW c \in Conns, InsertEntry(c) PROVE QueueInv'
  <2>1. \A d \in Conns : pc[d] \in RetiredStages => pc'[d] \in RetiredStages /\ id'[d] = id[d]
    BY <1>i, <1>2 DEF InsertEntry, RetiredStages
  <2>2. \A d \in Conns : pc'[d] \in {"inserted", "open", "closing", "marked", "uncounted"} =>
                              id'[d] \in entries'
    BY <1>i, <1>2 DEF InsertEntry, QueueInv, OpenNeverEvicted
  <2>3. closed' = closed /\ entries' = entries \cup {id[c]}
    BY <1>2 DEF InsertEntry
  <2>4. IsFiniteSet(entries')
    BY <1>i, <2>3, FS_AddElement DEF QueueInv
  <2> QED
    BY <2>1, <2>2, <2>3, <2>4, QueueStays
<1>3. ASSUME NEW c \in Conns, CountLive(c) PROVE QueueInv'
  BY <1>3, QueueMoves DEF CountLive, RetiredStages
<1>4. ASSUME NEW c \in Conns, LockLifecycle(c) PROVE QueueInv'
  <2>1. CASE pc[c] = "open"
    BY <1>4, <2>1, QueueMoves DEF LockLifecycle, RetiredStages
  <2>2. CASE pc[c] = "closed"
    BY <1>4, <2>2, QueueMoves DEF LockLifecycle, RetiredStages
  <2> QED
    BY <1>4, <2>1, <2>2 DEF LockLifecycle
<1>5. ASSUME NEW c \in Conns, MarkClosed(c) PROVE QueueInv'
  <2>1. pc[c] = "closing"
    BY <1>i, <1>5 DEF MarkClosed, LifecycleByStage, ClosedStages
  <2> QED
    BY <1>5, <2>1, QueueMoves DEF MarkClosed, RetiredStages
<1>6. ASSUME NEW c \in Conns, AlreadyClosed(c) PROVE QueueInv'
  <2>1. pc[c] = "reclosing"
    BY <1>i, <1>6 DEF AlreadyClosed, LifecycleByStage, ClosedStages
  <2> QED
    BY <1>6, <2>1, QueueMoves DEF AlreadyClosed, RetiredStages
<1>7. ASSUME NEW c \in Conns, UncountLive(c) PROVE QueueInv'
  BY <1>7, QueueMoves DEF UncountLive, RetiredStages
<1>8. ASSUME NEW c \in Conns, Retire(c) PROVE QueueInv'
  BY <1>8, RetireQueue
<1>9. CASE UNCHANGED sourceVars
  BY <1>i, <1>9 DEF sourceVars, QueueInv, QueuedAreRetired, OpenNeverEvicted,
                    QueueDistinct, QueueRetained
<1> QED
  BY <1>1, <1>2, <1>3, <1>4, <1>5, <1>6, <1>7, <1>8, <1>9
     DEF Next, Opening, Closing, Listing, StartListing, ListEntry, EndListing, vars

\* conns_live follows the set of counted connections: CountLive adds one that
\* was not in it, UncountLive removes one that was, and no other step moves a
\* connection into or out of it.
LEMMA NextLive == IInv /\ [Next]_vars => LiveCount'
<1> SUFFICES ASSUME IInv, [Next]_vars PROVE LiveCount'
  OBVIOUS
<1> USE DEF Types, Stages
<1>i. Types /\ LiveCount /\ LifecycleByStage
  BY DEF IInv
<1>f. IsFiniteSet(CountedLive)
  BY RegistryAssumption, FS_Subset DEF CountedLive
<1>s. ASSUME CountedLive' = CountedLive, conns_live' = conns_live PROVE LiveCount'
  BY <1>i, <1>s DEF LiveCount
<1>1. ASSUME NEW c \in Conns, AllocId(c) PROVE LiveCount'
  <2>1. CountedLive' = CountedLive
    BY <1>i, <1>1 DEF AllocId, CountedLive
  <2> QED
    BY <1>1, <1>s, <2>1 DEF AllocId
<1>2. ASSUME NEW c \in Conns, InsertEntry(c) PROVE LiveCount'
  <2>1. CountedLive' = CountedLive
    BY <1>i, <1>2 DEF InsertEntry, CountedLive
  <2> QED
    BY <1>2, <1>s, <2>1 DEF InsertEntry
<1>3. ASSUME NEW c \in Conns, CountLive(c) PROVE LiveCount'
  <2>1. CountedLive' = CountedLive \cup {c} /\ c \notin CountedLive
    BY <1>i, <1>3 DEF CountLive, CountedLive
  <2>2. Cardinality(CountedLive') = Cardinality(CountedLive) + 1
    BY <1>f, <2>1, FS_AddElement
  <2> QED
    BY <1>i, <1>3, <2>2 DEF CountLive, LiveCount
<1>4. ASSUME NEW c \in Conns, LockLifecycle(c) PROVE LiveCount'
  <2>1. CountedLive' = CountedLive
    BY <1>i, <1>4 DEF LockLifecycle, CountedLive
  <2> QED
    BY <1>4, <1>s, <2>1 DEF LockLifecycle
<1>5. ASSUME NEW c \in Conns, MarkClosed(c) PROVE LiveCount'
  <2>1. pc[c] = "closing"
    BY <1>i, <1>5 DEF MarkClosed, LifecycleByStage, ClosedStages
  <2>2. CountedLive' = CountedLive
    BY <1>i, <1>5, <2>1 DEF MarkClosed, CountedLive
  <2> QED
    BY <1>5, <1>s, <2>2 DEF MarkClosed
<1>6. ASSUME NEW c \in Conns, AlreadyClosed(c) PROVE LiveCount'
  <2>1. pc[c] = "reclosing"
    BY <1>i, <1>6 DEF AlreadyClosed, LifecycleByStage, ClosedStages
  <2>2. CountedLive' = CountedLive
    BY <1>i, <1>6, <2>1 DEF AlreadyClosed, CountedLive
  <2> QED
    BY <1>6, <1>s, <2>2 DEF AlreadyClosed
<1>7. ASSUME NEW c \in Conns, UncountLive(c) PROVE LiveCount'
  <2>1. CountedLive' = CountedLive \ {c} /\ c \in CountedLive
    BY <1>i, <1>7 DEF UncountLive, CountedLive
  <2>2. Cardinality(CountedLive') = Cardinality(CountedLive) - 1
    BY <1>f, <2>1, FS_RemoveElement
  <2> QED
    BY <1>i, <1>7, <2>2 DEF UncountLive, LiveCount
<1>8. ASSUME NEW c \in Conns, Retire(c) PROVE LiveCount'
  <2>1. CountedLive' = CountedLive
    BY <1>i, <1>8 DEF Retire, CountedLive
  <2> QED
    BY <1>8, <1>s, <2>1 DEF Retire
<1>9. CASE UNCHANGED sourceVars
  <2>1. CountedLive' = CountedLive
    BY <1>9 DEF sourceVars, CountedLive
  <2> QED
    BY <1>9, <1>s, <2>1 DEF sourceVars
<1> QED
  BY <1>1, <1>2, <1>3, <1>4, <1>5, <1>6, <1>7, <1>8, <1>9
     DEF Next, Opening, Closing, Listing, StartListing, ListEntry, EndListing, vars

\* IInv is an invariant of the registry.
LEMMA IInvInvariant == Spec => []IInv
<1>1. IInv /\ [Next]_vars => IInv'
  BY NextTypes, NextIds, NextQueue, NextLive DEF IInv
<1> QED
  BY InitIInv, <1>1, PTL DEF Spec

-----------------------------------------------------------------------------
\* Type correctness, with conns_live never below zero: close_connection
\* subtracts only what open_connection added.
THEOREM TypeCorrect == Spec => []TypeOK
<1>1. IInv => TypeOK
  <2> SUFFICES ASSUME IInv PROVE TypeOK
    OBVIOUS
  <2>1. IsFiniteSet(CountedLive)
    BY RegistryAssumption, FS_Subset DEF CountedLive
  <2>2. conns_live \in Nat
    BY <2>1, FS_CardinalityType DEF IInv, LiveCount
  <2> QED
    BY <2>2 DEF IInv, Types, TypeOK
<1> QED
  BY IInvInvariant, <1>1, PTL

\* open_connection and close_connection, for any number of connections closing
\* at once, keep conns_live equal to the number of connections counted.
THEOREM LiveCountInvariant == Spec => []LiveCount
<1>1. IInv => LiveCount
  BY DEF IInv
<1> QED
  BY IInvInvariant, <1>1, PTL

\* close_connection evicts no record of a connection that is still open.
THEOREM OpenNeverEvictedInvariant == Spec => []OpenNeverEvicted
<1>1. IInv => OpenNeverEvicted
  BY DEF IInv, QueueInv
<1> QED
  BY IInvInvariant, <1>1, PTL

\* However many connections close at once, the eviction queue of
\* close_connection lists closed connections that still have a record, each
\* once, and at most Cap of them.
THEOREM ClosedQueueInvariant == Spec => []ClosedQueue
<1>1. IInv => ClosedQueue
  <2> SUFFICES ASSUME IInv PROVE ClosedQueue
    OBVIOUS
  <2>1. \A c \in Conns : pc[c] \in RetiredStages => lifecycle[c] = "closed"
    BY DEF IInv, LifecycleByStage, RetiredStages, ClosedStages
  <2>2. \A i \in 1..Len(closed) : \E c \in Conns : id[c] = closed[i] /\ lifecycle[c] = "closed"
    BY <2>1 DEF IInv, QueueInv, QueuedAreRetired
  <2> QED
    BY <2>2 DEF IInv, QueueInv, QueueDistinct, QueueRetained, ClosedQueue
<1> QED
  BY IInvInvariant, <1>1, PTL
===============================================================================
