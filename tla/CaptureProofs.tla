------------------------------ MODULE CaptureProofs ------------------------------
(***************************************************************************)
(* Proofs about the pcap source.  About the connection table (ConnTable),  *)
(* for every set of endpoints and any sequence of segments: no record      *)
(* leaks.  About the parser (NetParse), for frames of any bytes and any    *)
(* length: a frame cannot make it slice out of bounds, nor keep it in a    *)
(* loop, and the segment read is the one the frame carries.  About the     *)
(* capture loop (Capture): it does to the table only what segments may do, *)
(* and so has the properties proved of the table.                          *)
(***************************************************************************)
EXTENDS Capture, FiniteSetTheorems, TLAPS

-----------------------------------------------------------------------------
(* The connection table.  That no record leaks rests on three facts the    *)
(* properties do not state: two entries never share a record, an entry's   *)
(* record was opened for its key and is the latest one of that key, and a  *)
(* key without an entry that ever had one was reset.                       *)

\* TypeOK without the claim that conns_live is not negative.
Types ==
    /\ DOMAIN map \subseteq Keys
    /\ map = [k \in DOMAIN map |-> map[k]]
    /\ \A k \in DOMAIN map : map[k] \in [stats : 1..opened, metrics_closed : BOOLEAN]
    /\ opened \in Nat
    /\ ended \subseteq 1..opened
    /\ origin \in [1..opened -> [key : Keys, syn : BOOLEAN]]
    /\ reset \subseteq Keys

\* Two entries never share a record.
StatsUnique == \A k, l \in DOMAIN map : map[k].stats = map[l].stats => k = l

\* The record of an entry is the latest that was opened for its key.
StatsOfKey ==
    \A k \in DOMAIN map :
        /\ origin[map[k].stats].key = k
        /\ \A j \in 1..opened : origin[j].key = k => j <= map[k].stats

\* A key that had a record has an entry, or was reset.
GoneWereReset == \A i \in 1..opened : origin[i].key \in DOMAIN map \cup reset

IInv ==
    /\ Types
    /\ StatsUnique
    /\ StatsOfKey
    /\ GoneWereReset
    /\ OpenRecordsHaveEntries
    /\ LiveIsUnclosed
    /\ TrailingAbsorbed

\* The part of IInv that does not speak of conns_live.
Structure ==
    /\ Types
    /\ StatsUnique
    /\ StatsOfKey
    /\ GoneWereReset
    /\ OpenRecordsHaveEntries
    /\ TrailingAbsorbed

-----------------------------------------------------------------------------
\* There are finitely many unclosed entries.
LEMMA UnclosedFinite == Types => IsFiniteSet(Unclosed)
<1> SUFFICES ASSUME Types PROVE IsFiniteSet(Unclosed)
  OBVIOUS
<1>1. IsFiniteSet(Keys)
  BY TableAssumption, FS_Product DEF Keys
<1>2. Unclosed \subseteq Keys
  BY DEF Types, Unclosed
<1> QED
  BY <1>1, <1>2, FS_Subset

\* The initial state satisfies the inductive invariant.
LEMMA InitIInv == Init => IInv
<1> SUFFICES ASSUME Init PROVE IInv
  OBVIOUS
<1>1. DOMAIN map = {} /\ opened = 0 /\ ended = {} /\ reset = {} /\ conns_live = 0
  BY DEF Init
<1>2. Unclosed = {}
  BY <1>1 DEF Unclosed
<1>3. LiveIsUnclosed
  BY <1>1, <1>2, FS_EmptySet DEF LiveIsUnclosed
<1>4. Types
  BY <1>1 DEF Init, Types
<1> QED
  BY <1>1, <1>2, <1>3, <1>4 DEF IInv, StatsUnique, StatsOfKey, GoneWereReset,
        OpenRecordsHaveEntries, TrailingAbsorbed

\* What Connection a segment is handled by: either the entry of its key, or a
\* fresh record that is the only one of its key that may be open.
LEMMA EntryFacts ==
  ASSUME Structure, NEW k \in Keys, NEW flags \in Flags
  PROVE  LET e == Entry(k, flags) IN
         /\ e \in [stats : 1..Opened(k, flags), metrics_closed : BOOLEAN]
         /\ Opened(k, flags) \in Nat /\ opened <= Opened(k, flags)
         /\ ShouldOpen(k, flags) => /\ e.stats = opened + 1
                                  /\ ~e.metrics_closed
                                  /\ Opened(k, flags) = opened + 1
                                  /\ e.stats \notin ended
         /\ ~ShouldOpen(k, flags) => /\ k \in DOMAIN map
                                   /\ e = map[k]
                                   /\ Opened(k, flags) = opened
         /\ k \in Unclosed => ~ShouldOpen(k, flags)
  BY DEF Structure, Types, Entry, Opened, ShouldOpen, Unclosed, Flags

\* A closed entry's record is closed.
LEMMA ClosedIsEnded ==
  ASSUME Structure, NEW k \in DOMAIN map
  PROVE  map[k].stats \in ended <=> map[k].metrics_closed
  BY DEF Structure, Types, StatsUnique, OpenRecordsHaveEntries, Unclosed

-----------------------------------------------------------------------------
\* What every handled segment does to the records, by whether it opens one.
Grown(k, flags) ==
    /\ opened' \in Nat /\ opened <= opened' /\ opened' <= opened + 1
    /\ origin' \in [1..opened' -> [key : Keys, syn : BOOLEAN]]
    /\ \A i \in 1..opened : origin'[i] = origin[i]
    /\ ShouldOpen(k, flags) =>
          opened' = opened + 1 /\ origin'[opened + 1] = [key |-> k, syn |-> flags.syn]
    /\ ~ShouldOpen(k, flags) => opened' = opened /\ k \in DOMAIN map
    /\ reset' \in SUBSET Keys /\ reset \subseteq reset' /\ (flags.rst => k \in reset')
    /\ Entry(k, flags).stats \in 1..opened'
    /\ opened' = opened + 1 => Entry(k, flags).stats = opened + 1
    /\ origin'[Entry(k, flags).stats].key = k
    /\ \A j \in 1..opened' : origin'[j].key = k => j <= Entry(k, flags).stats
    /\ \A l \in DOMAIN map \ {k} : map[l].stats # Entry(k, flags).stats

\* Every handled segment does that.
LEMMA RecordsGrow ==
  ASSUME Structure, NEW k \in Keys, NEW flags \in Flags, Handled(k, flags)
  PROVE  Grown(k, flags)
<1> DEFINE e == Entry(k, flags)
<1>1. /\ opened' \in Nat /\ opened <= opened' /\ opened' <= opened + 1
      /\ ShouldOpen(k, flags) => opened' = opened + 1
      /\ ~ShouldOpen(k, flags) => opened' = opened /\ k \in DOMAIN map
  BY DEF Structure, Types, Handled, Opened, ShouldOpen
<1>2. DOMAIN origin = 1..opened
  BY DEF Structure, Types
<1>3. /\ DOMAIN origin' = 1..opened'
      /\ origin' = [i \in 1..opened' |->
            IF i \in 1..opened THEN origin[i] ELSE [key |-> k, syn |-> flags.syn]]
  BY <1>2 DEF Handled, OriginThen
<1>4. \A i \in 1..opened : origin[i] \in [key : Keys, syn : BOOLEAN]
  BY DEF Structure, Types
<1>5. origin' \in [1..opened' -> [key : Keys, syn : BOOLEAN]]
  BY <1>3, <1>4 DEF Flags
<1>6. \A i \in 1..opened : origin'[i] = origin[i]
  BY <1>1, <1>3 DEF Structure, Types
<1>7. ShouldOpen(k, flags) => origin'[opened + 1] = [key |-> k, syn |-> flags.syn]
  BY <1>1, <1>3 DEF Structure, Types
<1>8. /\ reset' \in SUBSET Keys /\ reset \subseteq reset' /\ (flags.rst => k \in reset')
  BY DEF Structure, Types, Handled
<1>9. CASE ShouldOpen(k, flags)
  <2>1. e.stats = opened + 1
    BY <1>9 DEF Entry
  <2>2. \A l \in DOMAIN map : map[l].stats <= opened /\ map[l].stats \in Nat
    BY DEF Structure, Types
  <2>3. \A j \in 1..opened' : j <= opened + 1
    BY <1>1 DEF Structure, Types
  <2> QED
    BY <1>1, <1>5, <1>6, <1>7, <1>8, <1>9, <2>1, <2>2, <2>3 DEF Structure, Types, Grown
<1>10. CASE ~ShouldOpen(k, flags)
  <2>1. e = map[k] /\ k \in DOMAIN map /\ opened' = opened
    BY <1>1, <1>10 DEF Entry
  <2>2. e.stats \in 1..opened
    BY <2>1 DEF Structure, Types
  <2>3. origin[e.stats].key = k /\ \A j \in 1..opened : origin[j].key = k => j <= e.stats
    BY <2>1 DEF Structure, StatsOfKey
  <2>4. \A l \in DOMAIN map \ {k} : map[l].stats # e.stats
    BY <2>1 DEF Structure, StatsUnique
  <2> QED
    BY <1>1, <1>5, <1>6, <1>8, <1>10, <2>1, <2>2, <2>3, <2>4 DEF Structure, Types, Grown
<1> QED
  BY <1>9, <1>10

\* A record of the key that is not the entry's is closed.
LEMMA OthersOfKeyEnded ==
  ASSUME Structure, NEW k \in Keys, NEW flags \in Flags, Handled(k, flags),
         NEW i \in 1..opened, i \notin ended, i # Entry(k, flags).stats
  PROVE  \E l \in DOMAIN map \ {k} : ~map[l].metrics_closed /\ map[l].stats = i
<1>1. PICK l \in Unclosed : map[l].stats = i
  BY DEF Structure, OpenRecordsHaveEntries
<1>2. l # k
  BY <1>1 DEF Unclosed, Entry, ShouldOpen
<1> QED
  BY <1>1, <1>2 DEF Unclosed

\* A later record of a key needed a SYN or a reset: one more record keeps it.
LEMMA AbsorbedStep ==
  ASSUME Structure, NEW k \in Keys, NEW flags \in Flags, Handled(k, flags)
  PROVE  TrailingAbsorbed'
<1>g. Grown(k, flags)
  BY RecordsGrow
<1> SUFFICES ASSUME NEW i \in 1..opened', NEW j \in 1..opened', i < j,
                    origin'[i].key = origin'[j].key
             PROVE  origin'[j].syn \/ origin'[j].key \in reset'
  BY DEF TrailingAbsorbed
<1>0. /\ opened \in Nat /\ opened' \in Nat /\ opened <= opened' /\ opened' <= opened + 1
      /\ \A x \in 1..opened : origin'[x] = origin[x]
      /\ reset \subseteq reset'
  BY <1>g DEF Grown, Structure, Types
<1>1. CASE j \in 1..opened
  <2>1. i \in 1..opened
    BY <1>0, <1>1
  <2> QED
    BY <1>0, <1>1, <2>1 DEF Structure, TrailingAbsorbed
<1>2. CASE j \notin 1..opened
  <2>1. j = opened + 1 /\ i \in 1..opened /\ opened' = opened + 1
    BY <1>0, <1>2
  <2>2. ShouldOpen(k, flags) /\ origin'[j] = [key |-> k, syn |-> flags.syn]
    BY <2>1, <1>0, <1>g DEF Grown
  <2>3. origin[i].key = k
    BY <2>1, <2>2, <1>0
  <2>4. k \in DOMAIN map \cup reset
    BY <2>1, <2>3 DEF Structure, GoneWereReset
  <2> QED
    BY <2>2, <2>4, <1>0 DEF ShouldOpen
<1> QED
  BY <1>1, <1>2

-----------------------------------------------------------------------------
\* Storing an entry whose closed flag agrees with its record keeps the structure.
LEMMA StoreStructure ==
  ASSUME Structure, NEW k \in Keys, NEW flags \in Flags, Handled(k, flags),
         NEW closed \in BOOLEAN,
         map' = Put(k, [stats |-> Entry(k, flags).stats, metrics_closed |-> closed]),
         ended' = ended \/ ended' = ended \cup {Entry(k, flags).stats},
         Entry(k, flags).stats \in ended' <=> closed
  PROVE  Structure'
<1>g. Grown(k, flags)
  BY RecordsGrow
<1> DEFINE i0 == Entry(k, flags).stats
<1>1. /\ opened \in Nat /\ opened' \in Nat /\ opened <= opened' /\ opened' <= opened + 1
      /\ i0 \in 1..opened'
  BY <1>g DEF Grown, Structure, Types
<1>2. /\ DOMAIN map' = DOMAIN map \cup {k}
      /\ map'[k] = [stats |-> i0, metrics_closed |-> closed]
      /\ \A l \in DOMAIN map \ {k} : map'[l] = map[l]
      /\ map' = [l \in DOMAIN map' |-> map'[l]]
  BY DEF Put
<1>3. /\ \A l \in DOMAIN map : map[l] \in [stats : 1..opened, metrics_closed : BOOLEAN]
      /\ DOMAIN map \subseteq Keys
      /\ ended \subseteq 1..opened
  BY DEF Structure, Types
<1>4. \A l \in DOMAIN map' : map'[l] \in [stats : 1..opened', metrics_closed : BOOLEAN]
  BY <1>1, <1>2, <1>3
<1>5. Types'
  <2>0. \A i \in ended' : i \in ended \/ i = i0
    OBVIOUS
  <2>1. ended' \subseteq 1..opened'
    <3>1. \A i \in ended : i \in 1..opened'
      BY <1>1, <1>3
    <3> QED
      BY <1>1, <2>0, <3>1
  <2> QED
    BY <1>1, <1>2, <1>3, <1>4, <2>1, <1>g DEF Grown, Types
<1>6. StatsUnique'
  <2>1. \A l \in DOMAIN map \ {k} : map[l].stats # i0
    BY <1>g DEF Grown
  <2> QED
    BY <1>2, <2>1 DEF Structure, StatsUnique
<1>7. StatsOfKey'
  <2> SUFFICES ASSUME NEW l \in DOMAIN map'
               PROVE  /\ origin'[map'[l].stats].key = l
                      /\ \A j \in 1..opened' : origin'[j].key = l => j <= map'[l].stats
    BY DEF StatsOfKey
  <2>1. CASE l = k
    BY <1>2, <2>1, <1>g DEF Grown
  <2>2. CASE l # k
    <3>1. l \in DOMAIN map /\ map'[l] = map[l] /\ map[l].stats \in 1..opened
      BY <1>2, <1>3, <2>2
    <3>2. origin'[map[l].stats].key = l
      BY <3>1, <1>g DEF Grown, Structure, StatsOfKey
    <3>3. ASSUME NEW j \in 1..opened', origin'[j].key = l PROVE j <= map[l].stats
      <4>1. j \in 1..opened
        BY <1>1, <2>2, <3>3, <1>g DEF Grown
      <4> QED
        BY <3>1, <3>3, <4>1, <1>g DEF Grown, Structure, StatsOfKey
    <3> QED
      BY <3>1, <3>2, <3>3
  <2> QED
    BY <2>1, <2>2
<1>8. GoneWereReset'
  <2> SUFFICES ASSUME NEW i \in 1..opened' PROVE origin'[i].key \in DOMAIN map' \cup reset'
    BY DEF GoneWereReset
  <2>1. CASE i \in 1..opened
    BY <1>2, <2>1, <1>g DEF Grown, Structure, GoneWereReset
  <2>2. CASE i \notin 1..opened
    <3>1. i = opened + 1 /\ opened' = opened + 1
      BY <1>1, <2>2
    <3> QED
      BY <1>1, <1>2, <3>1, <1>g DEF Grown
  <2> QED
    BY <2>1, <2>2
<1>9. OpenRecordsHaveEntries'
  <2> SUFFICES ASSUME NEW i \in 1..opened'
               PROVE  i \notin ended' <=> \E l \in Unclosed' : map'[l].stats = i
    BY DEF OpenRecordsHaveEntries
  <2>0. Unclosed' = {l \in DOMAIN map' : ~map'[l].metrics_closed}
    BY DEF Unclosed
  <2>1. CASE i = i0
    <3>1. \A l \in DOMAIN map' : map'[l].stats = i0 => l = k
      BY <1>2, <1>g DEF Grown
    <3> QED
      BY <1>2, <2>0, <2>1, <3>1
  <2>2. CASE i # i0
    <3>1. i \in 1..opened
      <4>1. opened' = opened + 1 => i0 = opened + 1
        BY <1>1, <1>g DEF Grown, Entry
      <4> QED
        BY <1>1, <2>2, <4>1
    <3>2. i \notin ended' <=> i \notin ended
      BY <2>2
    <3>3. i \notin ended => \E l \in DOMAIN map \ {k} : ~map[l].metrics_closed /\ map[l].stats = i
      BY <2>2, <3>1, OthersOfKeyEnded
    <3>4. ASSUME NEW l \in Unclosed', map'[l].stats = i PROVE i \notin ended
      <4>1. l # k /\ l \in DOMAIN map /\ l \in Unclosed /\ map[l].stats = i
        BY <1>2, <2>0, <2>2, <3>4 DEF Unclosed
      <4> QED
        BY <3>1, <4>1 DEF Structure, OpenRecordsHaveEntries
    <3> QED
      BY <1>2, <2>0, <3>2, <3>3, <3>4
  <2> QED
    BY <2>1, <2>2
<1> QED
  BY <1>5, <1>6, <1>7, <1>8, <1>9, AbsorbedStep DEF Structure

\* Removing the entry and closing its record keeps the structure.
LEMMA DropStructure ==
  ASSUME Structure, NEW k \in Keys, NEW flags \in Flags, flags.rst, Handled(k, flags),
         map' = Drop(k), ended' = ended \cup {Entry(k, flags).stats}
  PROVE  Structure'
<1>g. Grown(k, flags)
  BY RecordsGrow
<1> DEFINE i0 == Entry(k, flags).stats
<1>1. /\ opened \in Nat /\ opened' \in Nat /\ opened <= opened' /\ opened' <= opened + 1
      /\ i0 \in 1..opened'
  BY <1>g DEF Grown, Structure, Types
<1>2. /\ DOMAIN map' = DOMAIN map \ {k}
      /\ \A l \in DOMAIN map \ {k} : map'[l] = map[l]
      /\ map' = [l \in DOMAIN map' |-> map'[l]]
  BY DEF Drop
<1>3. /\ \A l \in DOMAIN map : map[l] \in [stats : 1..opened, metrics_closed : BOOLEAN]
      /\ DOMAIN map \subseteq Keys
      /\ ended \subseteq 1..opened
  BY DEF Structure, Types
<1>4. \A l \in DOMAIN map' : map'[l] \in [stats : 1..opened', metrics_closed : BOOLEAN]
  BY <1>1, <1>2, <1>3
<1>5. Types'
  <2>0. \A i \in ended' : i \in ended \/ i = i0
    OBVIOUS
  <2>1. ended' \subseteq 1..opened'
    <3>1. \A i \in ended : i \in 1..opened'
      BY <1>1, <1>3
    <3> QED
      BY <1>1, <2>0, <3>1
  <2> QED
    BY <1>1, <1>2, <1>3, <1>4, <2>1, <1>g DEF Grown, Types
<1>6. StatsUnique'
  BY <1>2 DEF Structure, StatsUnique
<1>7. StatsOfKey'
  <2> SUFFICES ASSUME NEW l \in DOMAIN map'
               PROVE  /\ origin'[map'[l].stats].key = l
                      /\ \A j \in 1..opened' : origin'[j].key = l => j <= map'[l].stats
    BY DEF StatsOfKey
  <2>1. l # k /\ l \in DOMAIN map /\ map'[l] = map[l] /\ map[l].stats \in 1..opened
    BY <1>2, <1>3
  <2>2. origin'[map[l].stats].key = l
    BY <2>1, <1>g DEF Grown, Structure, StatsOfKey
  <2>3. ASSUME NEW j \in 1..opened', origin'[j].key = l PROVE j <= map[l].stats
    <3>1. j \in 1..opened
      BY <1>1, <2>1, <2>3, <1>g DEF Grown
    <3> QED
      BY <2>1, <2>3, <3>1, <1>g DEF Grown, Structure, StatsOfKey
  <2> QED
    BY <2>1, <2>2, <2>3
<1>8. GoneWereReset'
  <2> SUFFICES ASSUME NEW i \in 1..opened' PROVE origin'[i].key \in DOMAIN map' \cup reset'
    BY DEF GoneWereReset
  <2>1. CASE i \in 1..opened
    BY <1>2, <2>1, <1>g DEF Grown, Structure, GoneWereReset
  <2>2. CASE i \notin 1..opened
    <3>1. i = opened + 1 /\ opened' = opened + 1
      BY <1>1, <2>2
    <3> QED
      BY <1>1, <1>2, <3>1, <1>g DEF Grown
  <2> QED
    BY <2>1, <2>2
<1>9. OpenRecordsHaveEntries'
  <2> SUFFICES ASSUME NEW i \in 1..opened'
               PROVE  i \notin ended' <=> \E l \in Unclosed' : map'[l].stats = i
    BY DEF OpenRecordsHaveEntries
  <2>0. Unclosed' = {l \in DOMAIN map' : ~map'[l].metrics_closed}
    BY DEF Unclosed
  <2>1. CASE i = i0
    <3>1. \A l \in DOMAIN map' : map'[l].stats # i0
      BY <1>2, <1>g DEF Grown
    <3> QED
      BY <2>0, <2>1, <3>1
  <2>2. CASE i # i0
    <3>1. i \in 1..opened
      <4>1. opened' = opened + 1 => i0 = opened + 1
        BY <1>1, <1>g DEF Grown, Entry
      <4> QED
        BY <1>1, <2>2, <4>1
    <3>2. i \notin ended => \E l \in DOMAIN map \ {k} : ~map[l].metrics_closed /\ map[l].stats = i
      BY <2>2, <3>1, OthersOfKeyEnded
    <3>3. ASSUME NEW l \in Unclosed', map'[l].stats = i PROVE i \notin ended
      <4>1. l \in Unclosed /\ map[l].stats = i
        BY <1>2, <2>0, <3>3 DEF Unclosed
      <4> QED
        BY <3>1, <4>1 DEF Structure, OpenRecordsHaveEntries
    <3> QED
      BY <1>2, <2>0, <2>2, <3>2, <3>3
  <2> QED
    BY <2>1, <2>2
<1> QED
  BY <1>5, <1>6, <1>7, <1>8, <1>9, AbsorbedStep DEF Structure

-----------------------------------------------------------------------------
\* Closing the entry of a segment counts it down exactly once.
LEMMA LiveAfterClose ==
  ASSUME IInv, NEW k \in Keys, NEW flags \in Flags,
         ~Entry(k, flags).metrics_closed,
         Unclosed' = Unclosed \ {k},
         conns_live' = LiveThen(k, flags) - 1
  PROVE  LiveIsUnclosed'
<1>1. IsFiniteSet(Unclosed)
  BY UnclosedFinite DEF IInv
<1>2. /\ ShouldOpen(k, flags) => k \notin Unclosed
      /\ ~ShouldOpen(k, flags) => k \in Unclosed
  BY DEF ShouldOpen, Unclosed, Entry
<1>3. Cardinality(Unclosed) \in Nat
  BY <1>1, FS_CardinalityType
<1>4. CASE ShouldOpen(k, flags)
  <2>1. Unclosed' = Unclosed
    BY <1>2, <1>4
  <2>2. conns_live = Cardinality(Unclosed)
    BY DEF IInv, LiveIsUnclosed
  <2>3. conns_live' = conns_live
    BY <1>3, <1>4, <2>2 DEF LiveThen
  <2> QED
    BY <2>1, <2>2, <2>3 DEF LiveIsUnclosed
<1>5. CASE ~ShouldOpen(k, flags)
  <2>1. Cardinality(Unclosed \ {k}) = Cardinality(Unclosed) - 1
    BY <1>1, <1>2, <1>5, FS_RemoveElement
  <2> QED
    BY <1>5, <2>1 DEF IInv, LiveIsUnclosed, LiveThen
<1> QED
  BY <1>4, <1>5

\* A segment that closes nothing counts up exactly if it opens a record.
LEMMA LiveAfterOther ==
  ASSUME IInv, NEW k \in Keys, NEW flags \in Flags,
         Unclosed' = IF ShouldOpen(k, flags) THEN Unclosed \cup {k} ELSE Unclosed,
         conns_live' = LiveThen(k, flags)
  PROVE  LiveIsUnclosed'
<1>1. IsFiniteSet(Unclosed)
  BY UnclosedFinite DEF IInv
<1>2. ShouldOpen(k, flags) => k \notin Unclosed
  BY DEF ShouldOpen, Unclosed
<1>3. Cardinality(Unclosed) \in Nat
  BY <1>1, FS_CardinalityType
<1>4. CASE ShouldOpen(k, flags)
  <2>1. Cardinality(Unclosed \cup {k}) = Cardinality(Unclosed) + 1
    BY <1>1, <1>2, <1>4, FS_AddElement
  <2> QED
    BY <1>4, <2>1 DEF IInv, LiveIsUnclosed, LiveThen
<1>5. CASE ~ShouldOpen(k, flags)
  BY <1>5 DEF IInv, LiveIsUnclosed, LiveThen
<1> QED
  BY <1>4, <1>5

\* RST.
LEMMA ResetStep ==
  ASSUME IInv, NEW k \in Keys, NEW flags \in Flags, HandleReset(k, flags)
  PROVE  IInv'
<1>0. Structure /\ flags.rst /\ Handled(k, flags) /\ map' = Drop(k)
      /\ ended' = ended \cup {Entry(k, flags).stats}
  BY DEF IInv, Structure, HandleReset, CloseConnection
<1>1. Structure'
  BY <1>0, DropStructure
<1>2. Unclosed' = Unclosed \ {k}
  BY <1>0 DEF Unclosed, Drop
<1>3. Entry(k, flags).stats \in ended <=> Entry(k, flags).metrics_closed
  <2>1. CASE ShouldOpen(k, flags)
    BY <1>0, <2>1, EntryFacts
  <2>2. CASE ~ShouldOpen(k, flags)
    BY <1>0, <2>2, EntryFacts, ClosedIsEnded
  <2> QED
    BY <2>1, <2>2
<1>4. LiveIsUnclosed'
  <2>1. CASE Entry(k, flags).metrics_closed
    <3>1. ~ShouldOpen(k, flags) /\ k \notin Unclosed
      BY <1>0, <2>1, EntryFacts DEF Unclosed
    <3>2. conns_live' = conns_live
      BY <1>3, <2>1, <3>1 DEF HandleReset, CloseConnection, LiveThen
    <3> QED
      BY <1>2, <3>1, <3>2 DEF IInv, LiveIsUnclosed
  <2>2. CASE ~Entry(k, flags).metrics_closed
    <3>1. conns_live' = LiveThen(k, flags) - 1
      BY <1>3, <2>2 DEF HandleReset, CloseConnection
    <3> QED
      BY <1>2, <2>2, <3>1, LiveAfterClose
  <2> QED
    BY <2>1, <2>2
<1> QED
  BY <1>1, <1>4 DEF IInv, Structure

\* The first FIN.
LEMMA FinStep ==
  ASSUME IInv, NEW k \in Keys, NEW flags \in Flags, HandleFin(k, flags)
  PROVE  IInv'
<1> DEFINE e == Entry(k, flags)
<1>0. Structure /\ Handled(k, flags) /\ ~e.metrics_closed
      /\ map' = Put(k, [stats |-> e.stats, metrics_closed |-> TRUE])
      /\ ended' = ended \cup {e.stats}
  BY DEF IInv, Structure, HandleFin, CloseConnection
<1>3. Structure'
  <2>1. e.stats \in ended' <=> TRUE
    BY <1>0
  <2> QED
    BY <1>0, <2>1, StoreStructure
<1>4. Unclosed' = Unclosed \ {k}
  BY <1>0 DEF Unclosed, Put
<1>5. e.stats \notin ended
  <2>1. CASE ShouldOpen(k, flags)
    BY <1>0, <2>1, EntryFacts
  <2>2. CASE ~ShouldOpen(k, flags)
    BY <1>0, <2>2, EntryFacts, ClosedIsEnded
  <2> QED
    BY <2>1, <2>2
<1>6. LiveIsUnclosed'
  <2>1. conns_live' = LiveThen(k, flags) - 1
    BY <1>5 DEF HandleFin, CloseConnection
  <2> QED
    BY <1>0, <1>4, <2>1, LiveAfterClose
<1> QED
  BY <1>3, <1>6 DEF IInv, Structure

\* Any other segment.
LEMMA OtherStep ==
  ASSUME IInv, NEW k \in Keys, NEW flags \in Flags, HandleOther(k, flags)
  PROVE  IInv'
<1> DEFINE e == Entry(k, flags)
<1>0. Structure /\ Handled(k, flags) /\ map' = Put(k, e) /\ ended' = ended
      /\ conns_live' = LiveThen(k, flags)
  BY DEF IInv, Structure, HandleOther
<1>1. e \in [stats : 1..Opened(k, flags), metrics_closed : BOOLEAN]
  BY <1>0, EntryFacts
<1>2. map' = Put(k, [stats |-> e.stats, metrics_closed |-> e.metrics_closed])
  BY <1>0, <1>1
<1>3. e.stats \in ended <=> e.metrics_closed
  <2>1. CASE ShouldOpen(k, flags)
    BY <1>0, <2>1, EntryFacts
  <2>2. CASE ~ShouldOpen(k, flags)
    BY <1>0, <2>2, EntryFacts, ClosedIsEnded
  <2> QED
    BY <2>1, <2>2
<1>4. Structure'
  BY <1>0, <1>1, <1>2, <1>3, StoreStructure
<1>5. Unclosed' = IF ShouldOpen(k, flags) THEN Unclosed \cup {k} ELSE Unclosed
  <2>1. CASE ShouldOpen(k, flags)
    <3>1. ~e.metrics_closed
      BY <1>0, <2>1, EntryFacts
    <3> QED
      BY <1>0, <2>1, <3>1 DEF Unclosed, Put
  <2>2. CASE ~ShouldOpen(k, flags)
    <3>1. k \in DOMAIN map /\ e = map[k]
      BY <1>0, <2>2, EntryFacts
    <3> QED
      BY <1>0, <2>2, <3>1 DEF Unclosed, Put
  <2> QED
    BY <2>1, <2>2
<1>6. LiveIsUnclosed'
  BY <1>0, <1>5, LiveAfterOther
<1> QED
  BY <1>4, <1>6 DEF IInv, Structure

\* Every step keeps the inductive invariant.
LEMMA NextIInv == IInv /\ [Next]_vars => IInv'
<1> SUFFICES ASSUME IInv, [Next]_vars PROVE IInv'
  OBVIOUS
<1>1. CASE Next
  <2>1. PICK src, dst \in Endpoints, flags \in Flags :
           \/ HandleReset(KeyOf(src, dst), flags)
           \/ HandleFin(KeyOf(src, dst), flags)
           \/ HandleOther(KeyOf(src, dst), flags)
    BY <1>1 DEF Next
  <2>2. KeyOf(src, dst) \in Keys
    BY DEF KeyOf, Keys
  <2> QED
    BY <2>1, <2>2, ResetStep, FinStep, OtherStep
<1>2. CASE UNCHANGED vars
  BY <1>2 DEF vars, IInv, Types, StatsUnique, StatsOfKey, GoneWereReset, Unclosed,
        OpenRecordsHaveEntries, LiveIsUnclosed, TrailingAbsorbed
<1> QED
  BY <1>1, <1>2

\* The inductive invariant holds throughout.
LEMMA IInvInvariant == Spec => []IInv
  BY InitIInv, NextIInv, PTL DEF Spec

-----------------------------------------------------------------------------
\* Type correctness of ConnTable::handle; conns_live is never taken below zero.
THEOREM TypeCorrect == Spec => []TypeOK
<1>1. IInv => TypeOK
  <2> SUFFICES ASSUME IInv PROVE TypeOK
    OBVIOUS
  <2>1. conns_live \in Nat
    BY UnclosedFinite, FS_CardinalityType DEF IInv, LiveIsUnclosed
  <2> QED
    BY <2>1 DEF IInv, Types, TypeOK
<1> QED
  BY <1>1, IInvInvariant, PTL

\* No connection record leaks (open_connection without its close_connection),
\* whatever segments are lost, repeated or reordered.
THEOREM NoRecordLeaks == Spec => []OpenRecordsHaveEntries
  BY IInvInvariant, PTL DEF IInv

\* The live count is the number of entries whose close was not seen.
THEOREM LiveCountExact == Spec => []LiveIsUnclosed
  BY IInvInvariant, PTL DEF IInv

\* A reused 4-tuple never has two open records.
THEOREM OneLiveRecord == Spec => []OneLiveRecordPerKey
<1>1. IInv => OneLiveRecordPerKey
  <2> SUFFICES ASSUME IInv, NEW i \in 1..opened, NEW j \in 1..opened, i < j,
                      origin[i].key = origin[j].key, i \notin ended
               PROVE  FALSE
    BY DEF OneLiveRecordPerKey
  <2>1. PICK k \in DOMAIN map : map[k].stats = i
    BY DEF IInv, OpenRecordsHaveEntries, Unclosed
  <2>2. origin[j].key = k
    BY <2>1 DEF IInv, StatsOfKey
  <2>3. j <= i
    BY <2>1, <2>2 DEF IInv, StatsOfKey
  <2> QED
    BY <2>3 DEF IInv, Types
<1> QED
  BY <1>1, IInvInvariant, PTL

\* Segments that trail a close never open a record.
THEOREM TrailingSegmentsAbsorbed == Spec => []TrailingAbsorbed
  BY IInvInvariant, PTL DEF IInv

-----------------------------------------------------------------------------
(* The parser.                                                              *)

Steps == {"idle", "link", "ether", "ip", "ipv4", "ipv6", "extension", "tcp", "done"}

\* IPv4 and IPv6 addresses, and an address with a port.
Addresses   == [1..4 -> Byte] \cup [1..16 -> Byte]
Ports       == {n \in Nat : n < 65536}
AnyEndpoint == Addresses \X Ports

\* The slice lies in the frame.
SliceInv ==
    /\ pc \in Steps
    /\ lo \in Nat /\ hi \in Nat /\ lo <= hi
    /\ pc # "idle" => frame \in Frames /\ hi <= Len(frame.bytes)

\* What is read from it has its type.
ResultInv ==
    /\ pc \in {"extension", "tcp"} => addr[1] \in Addresses /\ addr[2] \in Addresses
    /\ seg # NoSegment =>
          /\ seg.src \in AnyEndpoint /\ seg.dst \in AnyEndpoint
          /\ seg.syn \in BOOLEAN /\ seg.fin \in BOOLEAN /\ seg.rst \in BOOLEAN

FrameInv == SliceInv /\ ResultInv

-----------------------------------------------------------------------------
(* Reading from the slice.                                                 *)

\* Indexing inside the slice yields a byte.
LEMMA AtIsByte ==
    ASSUME SliceInv, pc # "idle", NEW i \in Nat, i < Left
    PROVE  At(i) \in Byte
<1>1. frame.bytes \in Seq(Byte)
  BY FramesAssumption DEF SliceInv
<1>2. lo + i + 1 \in 1..Len(frame.bytes)
  BY <1>1 DEF SliceInv, Left
<1> QED
  BY <1>1, <1>2 DEF At

\* A pair of bytes is a 16-bit number.
LEMMA U16IsPort ==
    ASSUME SliceInv, pc # "idle", NEW i \in Nat, i + 1 < Left
    PROVE  U16(i) \in Nat /\ U16(i) < 65536
<1>1. At(i) \in Byte /\ At(i + 1) \in Byte
  <2>1. i < Left
    BY DEF SliceInv, Left
  <2> QED
    BY <2>1, AtIsByte
<1>2. \A x, y \in Byte : 256 * x + y \in Nat /\ 256 * x + y < 65536
  BY DEF Byte
<1> QED
  BY <1>1, <1>2 DEF U16

\* A run of bytes inside the slice.
LEMMA FieldIsBytes ==
    ASSUME SliceInv, pc # "idle", NEW i \in Nat, NEW n \in Nat, i + n <= Left
    PROVE  Field(i, n) \in [1..n -> Byte]
<1> DEFINE s == frame.bytes
           a == lo + i + 1
           b == lo + i + n
<1>1. s \in Seq(Byte)
  BY FramesAssumption DEF SliceInv
<1>2. a \in Nat /\ b \in Nat /\ a >= 1 /\ b <= Len(s) /\ b - a + 1 = n
  BY <1>1 DEF SliceInv, Left
<1> HIDE DEF s, a, b
<1>3. SubSeq(s, a, b) = [j \in 1..(b - a + 1) |-> s[j + a - 1]]
  BY <1>1, <1>2
<1>4. \A j \in 1..n : j + a - 1 \in 1..Len(s)
  BY <1>1, <1>2
<1>5. \A j \in 1..n : s[j + a - 1] \in Byte
  BY <1>1, <1>4
<1>6. SubSeq(s, a, b) \in [1..n -> Byte]
  BY <1>2, <1>3, <1>5
<1> QED
  BY <1>6 DEF Field, s, a, b

\* The end of a packet, whatever length it claims, is in the slice.
LEMMA EndInSlice ==
    ASSUME SliceInv, NEW total \in Nat
    PROVE  EndOf(total) \in Nat /\ EndOf(total) <= hi /\ EndOf(total) >= lo
  BY DEF SliceInv, EndOf, Left

\* An extension header has at least eight bytes.
LEMMA ExtensionIsLong ==
    ASSUME SliceInv, pc # "idle", Left >= 8
    PROVE  ExtensionHeaderLen(next) \in Nat /\ ExtensionHeaderLen(next) >= 8
<1>1. At(1) \in Byte
  BY AtIsByte DEF SliceInv, Left
<1> QED
  BY <1>1 DEF ExtensionHeaderLen, Byte

-----------------------------------------------------------------------------
(* The slice.                                                              *)

\* A step that only narrows the slice keeps it in the frame.
LEMMA NarrowedSlice ==
    ASSUME SliceInv, pc # "idle", pc' \in Steps, frame' = frame,
           lo' \in Nat, hi' \in Nat, lo' <= hi', hi' <= hi
    PROVE  SliceInv'
<1>1. Len(frame.bytes) \in Nat
  BY FramesAssumption DEF SliceInv
<1> QED
  BY <1>1 DEF SliceInv

\* In particular one that returns.
LEMMA ReturnSlice ==
    ASSUME SliceInv, pc # "idle", NEW s, Return(s)
    PROVE  SliceInv'
  BY NarrowedSlice DEF SliceInv, Return, Steps

\* And one that goes on with a part of it.
LEMMA ContinueSlice ==
    ASSUME SliceInv, pc # "idle", NEW step \in Steps, NEW from \in Nat, NEW to \in Nat, NEW n,
           from <= to, to <= hi, Continue(step, from, to, n)
    PROVE  SliceInv'
  BY NarrowedSlice DEF Continue

\* Every step of the parser keeps the slice in the frame.
LEMMA ParseStepSlice == SliceInv /\ ParseStep => SliceInv'
<1> SUFFICES ASSUME SliceInv, ParseStep PROVE SliceInv'
  OBVIOUS
<1>1. CASE StripLink
  <2>1. CASE frame.dlt \in Datalinks /\ Left >= LinkHeader(frame.dlt)
    <3>1. LinkHeader(frame.dlt) \in Nat
      BY <2>1 DEF LinkHeader, Datalinks, Bare, DLT_NULL, DLT_EN10MB, DLT_LINUX_SLL, DLT_LINUX_SLL2
    <3>2. LinkHeader(frame.dlt) <= hi
      BY <2>1, <3>1 DEF Left, SliceInv
    <3>3. \E n : \E step \in Steps : Continue(step, LinkHeader(frame.dlt), hi, n)
      BY <1>1, <2>1 DEF StripLink, Steps
    <3> QED
      BY <1>1, <3>1, <3>2, <3>3, ContinueSlice DEF SliceInv, StripLink
  <2>2. CASE ~(frame.dlt \in Datalinks /\ Left >= LinkHeader(frame.dlt))
    BY <1>1, <2>2, ReturnSlice DEF StripLink
  <2> QED
    BY <2>1, <2>2
<1>2. CASE SkipTag
  BY <1>2, ContinueSlice DEF SkipTag, SliceInv, Left, Steps
<1>3. CASE Ethertype
  BY <1>3, ContinueSlice, ReturnSlice DEF Ethertype, SliceInv, Steps
<1>4. CASE ParseIp
  BY <1>4, ContinueSlice, ReturnSlice DEF ParseIp, SliceInv, Steps
<1>5. CASE ParseIpv4
  <2>1. CASE Left >= 20 /\ Ihl >= 20 /\ Left >= Ihl /\ At(9) = TCP /\ EndOf(U16(2)) >= lo + Ihl
    <3>1. U16(2) \in Nat
      <4>1. pc # "idle"
        BY <1>5 DEF ParseIpv4
      <4>2. 2 + 1 < Left
        BY <2>1 DEF Left, SliceInv
      <4> QED
        BY <4>1, <4>2, U16IsPort
    <3>2. Ihl \in Nat
      <4>1. At(0) \in Byte
        BY <1>5, <2>1, AtIsByte DEF ParseIpv4, SliceInv, Left
      <4>2. \A x \in Byte : 4 * (x % 16) \in Nat
        BY DEF Byte
      <4> QED
        BY <4>1, <4>2 DEF Ihl
    <3>3. EndOf(U16(2)) \in Nat /\ EndOf(U16(2)) <= hi
      BY <3>1, EndInSlice
    <3>4. Continue("tcp", lo + Ihl, EndOf(U16(2)), next)
      BY <1>5, <2>1 DEF ParseIpv4
    <3>5. lo + Ihl \in Nat
      BY <3>2 DEF SliceInv
    <3> QED
      BY <1>5, <2>1, <3>3, <3>4, <3>5, ContinueSlice DEF ParseIpv4, Steps
  <2> QED
    BY <1>5, <2>1, ReturnSlice DEF ParseIpv4
<1>6. CASE ParseIpv6
  <2>1. CASE Left >= 40
    <3>0. U16(4) \in Nat
      <4>1. pc # "idle"
        BY <1>6 DEF ParseIpv6
      <4>2. 4 + 1 < Left
        BY <2>1 DEF Left, SliceInv
      <4> QED
        BY <4>1, <4>2, U16IsPort
    <3>1. 40 + U16(4) \in Nat
      BY <3>0
    <3>2. EndOf(40 + U16(4)) \in Nat /\ EndOf(40 + U16(4)) <= hi
      BY <3>1, EndInSlice
    <3>3. lo + 40 <= EndOf(40 + U16(4))
      BY <2>1, <3>0 DEF EndOf, Left, SliceInv
    <3>4. Continue("extension", lo + 40, EndOf(40 + U16(4)), At(6))
      BY <1>6, <2>1 DEF ParseIpv6
    <3> QED
      BY <1>6, <3>2, <3>3, <3>4, ContinueSlice DEF ParseIpv6, Steps, SliceInv
  <2> QED
    BY <1>6, <2>1, ReturnSlice DEF ParseIpv6
<1>7. CASE WalkExtension
  <2>1. CASE ExtensionHeaderLen(next) <= Left
    <3>1. ExtensionHeaderLen(next) \in Nat
      BY <1>7, ExtensionIsLong DEF WalkExtension, WalksOn
    <3>2. lo + ExtensionHeaderLen(next) \in Nat /\ lo + ExtensionHeaderLen(next) <= hi
      BY <2>1, <3>1 DEF SliceInv, Left
    <3>3. Continue("extension", lo + ExtensionHeaderLen(next), hi, At(0))
      BY <1>7, <2>1 DEF WalkExtension
    <3> QED
      BY <1>7, <3>2, <3>3, ContinueSlice DEF WalkExtension, Steps, SliceInv
  <2> QED
    BY <1>7, <2>1, ReturnSlice DEF WalkExtension
<1>8. CASE LastHeader
  BY <1>8, ContinueSlice, ReturnSlice DEF LastHeader, SliceInv, Steps
<1>9. CASE ParseTcp
  BY <1>9, ReturnSlice DEF ParseTcp
<1> QED
  BY <1>1, <1>2, <1>3, <1>4, <1>5, <1>6, <1>7, <1>8, <1>9 DEF ParseStep

-----------------------------------------------------------------------------
(* What is read.                                                           *)

\* The segment has endpoints and flags.
LEMMA TcpResult ==
    ASSUME SliceInv, ResultInv, ParseTcp
    PROVE  ResultInv'
<1> DEFINE s == [src |-> <<addr[1], U16(0)>>, dst |-> <<addr[2], U16(2)>>,
                 seq |-> Field(4, 4), ack |-> Field(8, 4),
                 fin |-> Flag(1), syn |-> Flag(2), rst |-> Flag(4),
                 payload |-> Field(DataOffset, Left - DataOffset)]
<1>1. pc = "tcp" /\ pc' = "done"
  BY DEF ParseTcp, Return
<1>2. CASE Left >= 20 /\ seg' = s
  <2>1. U16(0) \in Ports /\ U16(2) \in Ports
    <3>1. 1 < Left /\ 3 < Left
      BY <1>2 DEF SliceInv, Left
    <3> QED
      BY <1>1, <3>1, U16IsPort DEF Ports
  <2>2. addr[1] \in Addresses /\ addr[2] \in Addresses
    BY <1>1 DEF ResultInv
  <2>3. s.src \in AnyEndpoint /\ s.dst \in AnyEndpoint
    BY <2>1, <2>2 DEF AnyEndpoint
  <2>4. s.fin \in BOOLEAN /\ s.syn \in BOOLEAN /\ s.rst \in BOOLEAN
    BY DEF Flag
  <2> HIDE DEF s
  <2> QED
    BY <1>1, <1>2, <2>3, <2>4 DEF ResultInv
<1>3. CASE seg' = NoSegment
  BY <1>1, <1>3 DEF ResultInv
<1> QED
  BY <1>2, <1>3 DEF ParseTcp, Return

\* The addresses are read before a step that needs them.
LEMMA ParseStepResult == SliceInv /\ ResultInv /\ ParseStep => ResultInv'
<1> SUFFICES ASSUME SliceInv, ResultInv, ParseStep PROVE ResultInv'
  OBVIOUS
<1>1. CASE ParseIpv4 /\ pc' = "tcp"
  <2>1. Left >= 20 /\ addr' = <<Field(12, 4), Field(16, 4)>> /\ seg' = seg /\ pc = "ipv4"
    BY <1>1 DEF ParseIpv4, Continue, Return
  <2>2. 12 + 4 <= Left /\ 16 + 4 <= Left
    BY <2>1 DEF SliceInv, Left
  <2>3. Field(12, 4) \in [1..4 -> Byte] /\ Field(16, 4) \in [1..4 -> Byte]
    BY <2>1, <2>2, FieldIsBytes
  <2>4. addr'[1] \in Addresses /\ addr'[2] \in Addresses
    BY <2>1, <2>3 DEF Addresses
  <2> QED
    BY <1>1, <2>1, <2>4 DEF ResultInv
<1>2. CASE ParseIpv6 /\ pc' = "extension"
  <2>1. Left >= 40 /\ addr' = <<Field(8, 16), Field(24, 16)>> /\ seg' = seg /\ pc = "ipv6"
    BY <1>2 DEF ParseIpv6, Continue, Return
  <2>2. 8 + 16 <= Left /\ 24 + 16 <= Left
    BY <2>1 DEF SliceInv, Left
  <2>3. Field(8, 16) \in [1..16 -> Byte] /\ Field(24, 16) \in [1..16 -> Byte]
    BY <2>1, <2>2, FieldIsBytes
  <2>4. addr'[1] \in Addresses /\ addr'[2] \in Addresses
    BY <2>1, <2>3 DEF Addresses
  <2> QED
    BY <1>2, <2>1, <2>4 DEF ResultInv
<1>3. CASE ParseTcp
  BY <1>3, TcpResult
<1>4. CASE WalkExtension \/ LastHeader
  BY <1>4 DEF WalkExtension, LastHeader, Continue, Return, ResultInv
<1>5. CASE StripLink \/ SkipTag \/ Ethertype \/ ParseIp
  BY <1>5 DEF StripLink, SkipTag, Ethertype, ParseIp, Continue, Return, ResultInv
<1>6. CASE ParseIpv4 /\ pc' # "tcp"
  BY <1>6 DEF ParseIpv4, Continue, Return, ResultInv
<1>7. CASE ParseIpv6 /\ pc' # "extension"
  BY <1>7 DEF ParseIpv6, Continue, Return, ResultInv
<1> QED
  BY <1>1, <1>2, <1>3, <1>4, <1>5, <1>6, <1>7 DEF ParseStep

-----------------------------------------------------------------------------
\* Nothing is read before the first frame.
LEMMA InitFrameInv == FrameInit => FrameInv
  BY DEF FrameInit, FrameInv, SliceInv, ResultInv, Steps

\* A frame starts with the whole of it as the slice.
LEMMA ReceiveInv ==
    ASSUME FrameInv, NEW f \in Frames, Receive(f)
    PROVE  FrameInv'
<1>1. Len(f.bytes) \in Nat
  BY FramesAssumption
<1> QED
  BY <1>1 DEF FrameInv, SliceInv, ResultInv, Receive, Steps

\* The caller takes the result.
LEMMA ForgetInv == FrameInv /\ Forget => FrameInv'
  BY DEF FrameInv, SliceInv, ResultInv, Forget, Steps

\* Every step of the parser keeps the invariant.
LEMMA ParseStepInv == FrameInv /\ ParseStep => FrameInv'
  BY ParseStepSlice, ParseStepResult DEF FrameInv

\* So does a step of something else.
LEMMA StutterFrameInv == FrameInv /\ UNCHANGED frameVars => FrameInv'
  BY DEF FrameInv, SliceInv, ResultInv, frameVars

\* The inductive invariant holds throughout.
LEMMA FrameInvInvariant == FrameSpec => []FrameInv
<1>1. FrameInv /\ [FrameNext]_frameVars => FrameInv'
  BY ReceiveInv, ForgetInv, ParseStepInv, StutterFrameInv DEF FrameNext
<1> QED
  BY <1>1, InitFrameInv, PTL DEF FrameSpec

\* Whatever bytes are captured, no length in them carries parse_frame and what it
\* calls past the end of the frame.
THEOREM SlicesStayInBounds == FrameSpec => []SlicesInBounds
<1>1. FrameInv => SlicesInBounds
  BY DEF FrameInv, SliceInv, SlicesInBounds
<1> QED
  BY <1>1, FrameInvInvariant, PTL

\* A step of the parser that stays at its stage, which is a turn of one of its two
\* loops, uses up bytes of the slice and leaves its end alone: with
\* SlicesStayInBounds, the loops over VLAN tags and extension headers end.
LoopsAdvance == [][pc' = pc => lo' > lo /\ hi' = hi]_frameVars

\* The VLAN loop of strip_link and the extension header loop of parse_ipv6 make
\* progress on every turn.
THEOREM LoopsUseUpTheFrame == FrameSpec => LoopsAdvance
<1>1. FrameInv /\ FrameNext /\ pc' = pc => lo' > lo /\ hi' = hi
  <2> SUFFICES ASSUME FrameInv, FrameNext, pc' = pc PROVE lo' > lo /\ hi' = hi
    OBVIOUS
  <2>1. CASE SkipTag
    BY <2>1 DEF SkipTag, Continue, FrameInv, SliceInv
  <2>2. CASE WalkExtension
    <3>1. SliceInv /\ pc = "extension" /\ Left >= 8
      BY <2>2 DEF WalkExtension, WalksOn, FrameInv
    <3>2. ExtensionHeaderLen(next) \in Nat /\ ExtensionHeaderLen(next) >= 8
      BY <3>1, ExtensionIsLong
    <3>3. lo' = lo + ExtensionHeaderLen(next) /\ hi' = hi
      BY <2>2, <3>1 DEF WalkExtension, Continue, Return
    <3> QED
      BY <3>1, <3>2, <3>3 DEF SliceInv
  <2>3. CASE FrameNext /\ ~SkipTag /\ ~WalkExtension
    BY <2>3 DEF FrameNext, Receive, Forget, ParseStep, StripLink, Ethertype, ParseIp, ParseIpv4,
          ParseIpv6, LastHeader, ParseTcp, Continue, Return
  <2> QED
    BY <2>1, <2>2, <2>3
<1> QED
  BY <1>1, FrameInvInvariant, PTL DEF FrameSpec, LoopsAdvance

-----------------------------------------------------------------------------
(* The segment read is the one that the frame carries.                     *)

\* The parser's reads, as offsets in the frame.
LEMMA ReadsOfFrame ==
    ASSUME SliceInv, NEW i \in Nat, NEW n
    PROVE  /\ At(i) = Octet(frame, lo + i)
           /\ U16(i) = Pair(frame, lo + i)
           /\ Field(i, n) = Octets(frame, lo + i, n)
<1>1. lo + (i + 1) + 1 = lo + i + 1 + 1
  BY DEF SliceInv
<1> QED
  BY <1>1 DEF At, U16, Field, Octet, Pair, Octets

\* The slice is what follows the link header, and is taken for IP.
LinkIsKnown ==
    /\ frame.dlt \in Datalinks
    /\ frame.dlt = DLT_EN10MB => Pair(frame, 12) \in IPTypes

AtIp == LinkIsKnown /\ lo = IpAt(frame) /\ hi = Len(frame.bytes)

\* The IP header is read: the slice ends with the packet, and the addresses are those
\* of its header.
PastIp(f, end, addresses) ==
    LET n == IF Version(f) = 4 THEN 4 ELSE 16
        a == IpAt(f) + (IF Version(f) = 4 THEN 12 ELSE 8)
    IN  /\ CarriesIp(f)
        /\ end = PacketEnd(f)
        /\ addresses = <<Octets(f, a, n), Octets(f, a + n, n)>>

\* Where in the frame each step finds the slice. After a tag the ethertype is one that
\* ends the parse.
PlaceInv ==
    /\ pc = "link" => lo = 0 /\ hi = Len(frame.bytes)
    /\ pc = "ether" =>
          /\ frame.dlt = DLT_EN10MB
          /\ \/ lo = 14 /\ hi = Len(frame.bytes) /\ next = Pair(frame, 12)
             \/ Pair(frame, 12) = VLAN /\ next \notin IPTypes \cup {VLAN}
    /\ pc = "ip" => AtIp
    /\ pc = "ipv4" => AtIp /\ lo < hi /\ Version(frame) = 4
    /\ pc = "ipv6" => AtIp /\ lo < hi /\ Version(frame) = 6
    /\ pc = "extension" => PastIp(frame, hi, addr) /\ Version(frame) = 6
    /\ pc = "tcp" => PastIp(frame, hi, addr)

\* The headers w have been walked, up to one of this kind at lo.
Reached(w, kind) ==
    /\ Chain(frame, w) /\ lo = TcpAt(w) /\ HeaderKind(frame, w, Len(w)) = kind
    /\ \A i \in 1..Len(w) : w[i] <= lo

\* No header is passed over, and a segment comes of a frame that carries one.
SoundInv ==
    /\ pc = "extension" => \E w \in Seq(Nat) : Reached(w, next)
    /\ pc = "tcp" => \E w \in Seq(Nat) : Reached(w, TCP)
    /\ pc = "done" /\ seg # NoSegment => \E w \in Seq(Nat) : CarriesTcp(frame, w)

\* The parser follows the headers w, and returns the segment after them.
Follows(w) ==
    /\ pc = "extension" =>
          \E i \in 1..Len(w) : lo = w[i] /\ next = HeaderKind(frame, w, i)
    /\ pc = "tcp" => lo = TcpAt(w)
    /\ pc = "done" => seg = SegmentAt(frame, w)

\* Whatever headers a frame carries TCP after, the parser follows them.
CompleteInv == \A w \in Seq(Nat) : CarriesTcp(frame, w) => Follows(w)

WireInv == PlaceInv /\ SoundInv /\ CompleteInv

-----------------------------------------------------------------------------
(* A step at a time.                                                       *)

\* A frame is given up only if it does not carry TCP.
LEMMA GivenUp ==
    ASSUME Return(NoSegment), \A w \in Seq(Nat) : ~CarriesTcp(frame, w)
    PROVE  WireInv'
<1>1. pc' = "done" /\ seg' = NoSegment /\ frame' = frame
  BY DEF Return
<1>2. PlaceInv' /\ SoundInv'
  BY <1>1 DEF PlaceInv, SoundInv
<1>3. CompleteInv'
  BY <1>1 DEF CompleteInv
<1> QED
  BY <1>2, <1>3 DEF WireInv

\* The steps up to the IP header only have a place.
LEMMA PlacedOnly ==
    ASSUME pc' \in {"idle", "link", "ether", "ip", "ipv4", "ipv6"}, PlaceInv'
    PROVE  WireInv'
  BY DEF WireInv, SoundInv, CompleteInv, Follows

\* The link header is as long as its type says.
LEMMA LinkHeaderLong ==
    ASSUME NEW d \in Datalinks
    PROVE  LinkHeader(d) \in Nat /\ (d = DLT_EN10MB => LinkHeader(d) = 14)
  BY DEF LinkHeader, Datalinks, Bare, DLT_NULL, DLT_EN10MB, DLT_LINUX_SLL, DLT_LINUX_SLL2

\* A known link header that is captured is stripped.
LEMMA StripLinkWire ==
    ASSUME SliceInv, PlaceInv, StripLink
    PROVE  WireInv'
<1>1. pc = "link" /\ lo = 0 /\ hi = Len(frame.bytes) /\ Len(frame.bytes) \in Nat
  BY FramesAssumption DEF StripLink, PlaceInv, SliceInv
<1>2. CASE frame.dlt \in Datalinks /\ Left >= LinkHeader(frame.dlt)
  <2>1. LinkHeader(frame.dlt) \in Nat
    BY <1>2, LinkHeaderLong
  <2>2. CASE frame.dlt = DLT_EN10MB
    <3>1. /\ pc' = "ether" /\ lo' = 14 /\ hi' = hi /\ next' = U16(12) /\ frame' = frame
      BY <1>2, <2>2, LinkHeaderLong DEF StripLink, Continue
    <3>2. U16(12) = Pair(frame, 0 + 12)
      BY <1>1, ReadsOfFrame
    <3>3. next' = Pair(frame, 12)
      BY <3>1, <3>2
    <3>4. PlaceInv'
      BY <1>1, <2>2, <3>1, <3>3 DEF PlaceInv
    <3> QED
      BY <3>1, <3>4, PlacedOnly
  <2>3. CASE frame.dlt # DLT_EN10MB
    <3>1. pc' = "ip" /\ lo' = LinkHeader(frame.dlt) /\ hi' = hi /\ frame' = frame
      BY <1>2, <2>3 DEF StripLink, Continue
    <3>2. PlaceInv'
      BY <1>1, <1>2, <2>3, <3>1 DEF PlaceInv, AtIp, LinkIsKnown, IpAt
    <3> QED
      BY <3>1, <3>2, PlacedOnly
  <2> QED
    BY <2>2, <2>3
<1>3. CASE ~(frame.dlt \in Datalinks /\ Left >= LinkHeader(frame.dlt))
  <2>1. ~CarriesIp(frame)
    <3>1. SUFFICES ASSUME CarriesIp(frame) PROVE FALSE
      OBVIOUS
    <3>2. LinkHeader(frame.dlt) \in Nat /\ Len(frame.bytes) >= LinkHeader(frame.dlt) + 20
      BY <3>1, LinkHeaderLong DEF CarriesIp, IpAt
    <3> QED
      BY <1>1, <1>3, <3>1, <3>2 DEF CarriesIp, Left
  <2> QED
    BY <1>3, <2>1, GivenUp DEF StripLink, CarriesTcp
<1> QED
  BY <1>2, <1>3

\* What follows a tag is no type of IP: the next turn or the one after gives up.
LEMMA SkipTagWire ==
    ASSUME WireIsCarried, SliceInv, PlaceInv, SkipTag
    PROVE  WireInv'
<1>1. /\ pc = "ether" /\ next = VLAN /\ Left >= 4
      /\ pc' = "ether" /\ next' = U16(0) /\ frame' = frame
  BY DEF SkipTag, Continue
<1>2. /\ frame.dlt = DLT_EN10MB /\ lo = 14 /\ hi = Len(frame.bytes)
      /\ Pair(frame, 12) = VLAN
  BY <1>1 DEF PlaceInv
<1>3. U16(0) = Pair(frame, 14)
  <2>1. U16(0) = Pair(frame, lo + 0)
    BY ReadsOfFrame
  <2> QED
    BY <1>2, <2>1
<1>4. Len(frame.bytes) >= 18
  BY <1>1, <1>2 DEF Left, SliceInv
<1>5. TagHarmless(frame)
  BY <1>1 DEF WireIsCarried, SliceInv
<1>6. U16(0) \notin IPTypes \cup {VLAN}
  BY <1>2, <1>3, <1>4, <1>5 DEF TagHarmless
<1>7. PlaceInv'
  BY <1>1, <1>2, <1>6 DEF PlaceInv
<1> QED
  BY <1>1, <1>7, PlacedOnly

\* An ethertype of IP is told from any other.
LEMMA EthertypeWire ==
    ASSUME SliceInv, PlaceInv, Ethertype
    PROVE  WireInv'
<1>1. pc = "ether" /\ frame.dlt = DLT_EN10MB
  BY DEF Ethertype, PlaceInv
<1>2. frame.dlt \in Datalinks /\ IpAt(frame) = 14
  BY <1>1, LinkHeaderLong DEF IpAt, Datalinks
<1>3. VLAN \notin IPTypes
  BY DEF VLAN, IPTypes
<1>4. CASE next \in IPTypes
  <2>1. pc' = "ip" /\ lo' = lo /\ hi' = hi /\ frame' = frame
    BY <1>4 DEF Ethertype, Continue
  <2>2. lo = 14 /\ hi = Len(frame.bytes) /\ Pair(frame, 12) \in IPTypes
    BY <1>1, <1>4 DEF PlaceInv
  <2>3. AtIp'
    BY <1>2, <2>1, <2>2 DEF AtIp, LinkIsKnown, IpAt
  <2>4. PlaceInv'
    BY <2>1, <2>3 DEF PlaceInv
  <2> QED
    BY <2>1, <2>4, PlacedOnly
<1>5. CASE next \notin IPTypes
  <2>1. ~CarriesIp(frame)
    BY <1>1, <1>3, <1>5 DEF PlaceInv, CarriesIp
  <2> QED
    BY <1>5, <2>1, GivenUp DEF Ethertype, CarriesTcp
<1> QED
  BY <1>4, <1>5

\* The version is that of the packet.
LEMMA ParseIpWire ==
    ASSUME SliceInv, PlaceInv, ParseIp
    PROVE  WireInv'
<1>1. pc = "ip" /\ AtIp /\ Len(frame.bytes) \in Nat
  BY FramesAssumption DEF ParseIp, PlaceInv, SliceInv
<1>2. At(0) \div 16 = Version(frame)
  <2>1. At(0) = Octet(frame, lo + 0) /\ lo + 0 = IpAt(frame)
    BY <1>1, ReadsOfFrame DEF AtIp, SliceInv
  <2> QED
    BY <2>1 DEF Version
<1>3. CASE Left > 0 /\ At(0) \div 16 \in {4, 6}
  <2>1. /\ pc' = IF Version(frame) = 4 THEN "ipv4" ELSE "ipv6"
        /\ lo' = lo /\ hi' = hi /\ frame' = frame
    BY <1>2, <1>3 DEF ParseIp, Continue
  <2>2. AtIp' /\ lo' < hi' /\ Version(frame)' = Version(frame) /\ Version(frame) \in {4, 6}
    BY <1>1, <1>2, <1>3, <2>1 DEF AtIp, LinkIsKnown, IpAt, Version, Left, SliceInv
  <2>3. PlaceInv'
    BY <2>1, <2>2 DEF PlaceInv
  <2> QED
    BY <2>1, <2>3, PlacedOnly
<1>4. CASE ~(Left > 0 /\ At(0) \div 16 \in {4, 6})
  <2>1. ~CarriesIp(frame)
    BY <1>1, <1>2, <1>4 DEF CarriesIp, AtIp, Left, SliceInv
  <2> QED
    BY <1>4, <2>1, GivenUp DEF ParseIp, CarriesTcp
<1> QED
  BY <1>3, <1>4

\* What the IPv4 header says.
LEMMA Ipv4Header ==
    ASSUME SliceInv, PlaceInv, pc = "ipv4", Left >= 20
    PROVE  /\ Ihl \in Nat /\ FirstHeader(frame) = lo + Ihl
           /\ PacketEnd(frame) = EndOf(U16(2)) /\ EndOf(U16(2)) \in Nat /\ EndOf(U16(2)) <= hi
           /\ \A w : HeaderKind(frame, w, 1) = At(9)
<1>1. AtIp /\ Version(frame) = 4 /\ Len(frame.bytes) \in Nat
  BY FramesAssumption DEF PlaceInv, SliceInv
<1>2. lo + 0 = IpAt(frame) /\ lo = IpAt(frame) /\ hi = Len(frame.bytes)
  BY <1>1 DEF AtIp, SliceInv
<1>3. At(0) = Octet(frame, IpAt(frame)) /\ At(9) = Octet(frame, IpAt(frame) + 9)
  <2>1. At(0) = Octet(frame, lo + 0) /\ At(9) = Octet(frame, lo + 9)
    BY ReadsOfFrame
  <2> QED
    BY <1>2, <2>1
<1>4. U16(2) = Pair(frame, IpAt(frame) + 2)
  <2>1. U16(2) = Pair(frame, lo + 2)
    BY ReadsOfFrame
  <2> QED
    BY <1>2, <2>1
<1>5. Ihl \in Nat
  <2>1. At(0) \in Byte
    BY AtIsByte DEF Left, SliceInv
  <2>2. \A x \in Byte : 4 * (x % 16) \in Nat
    BY DEF Byte
  <2> QED
    BY <2>1, <2>2 DEF Ihl
<1>6. FirstHeader(frame) = lo + Ihl
  BY <1>1, <1>2, <1>3 DEF FirstHeader, Ihl
<1>7. U16(2) \in Nat
  <2>1. 2 + 1 < Left
    BY DEF Left, SliceInv
  <2> QED
    BY <2>1, U16IsPort
<1>8. PacketEnd(frame) = EndOf(U16(2))
  <2>1. PacketEnd(frame) =
          IF lo + U16(2) < Len(frame.bytes) THEN lo + U16(2) ELSE Len(frame.bytes)
    BY <1>1, <1>2, <1>4 DEF PacketEnd
  <2>2. lo + U16(2) < Len(frame.bytes) <=> U16(2) < Left
    BY <1>1, <1>2, <1>7 DEF Left, SliceInv
  <2> QED
    BY <1>2, <2>1, <2>2 DEF EndOf
<1>9. EndOf(U16(2)) \in Nat /\ EndOf(U16(2)) <= hi
  BY <1>7, EndInSlice
<1>10. \A w : HeaderKind(frame, w, 1) = At(9)
  BY <1>1, <1>3 DEF HeaderKind
<1> QED
  BY <1>5, <1>6, <1>8, <1>9, <1>10

\* A header chain is not empty.
LEMMA ChainLength ==
    ASSUME NEW f, NEW w \in Seq(Nat), Chain(f, w)
    PROVE  Len(w) \in Nat /\ Len(w) >= 1 /\ w[1] = FirstHeader(f)
<1>1. w # << >>
  BY DEF Chain
<1>2. Len(w) \in Nat /\ Len(w) >= 1
  BY <1>1
<1> QED
  BY <1>2 DEF Chain

\* Over IPv4 the TCP header is the only one.
LEMMA OneHeader ==
    ASSUME NEW f, Version(f) = 4, NEW w \in Seq(Nat), Chain(f, w)
    PROVE  Len(w) = 1 /\ w[1] = FirstHeader(f) /\ TcpAt(w) = w[1]
<1>1. Len(w) \in Nat /\ Len(w) >= 1 /\ w[1] = FirstHeader(f)
  BY ChainLength
<1>2. Len(w) = 1
  <2>1. 1 \notin 1..Len(w) - 1
    BY DEF Chain
  <2>2. \A n \in Nat : n >= 1 /\ 1 \notin 1..n - 1 => n = 1
    OBVIOUS
  <2> QED
    BY <1>1, <2>1, <2>2
<1> QED
  BY <1>1, <1>2 DEF TcpAt

\* An IPv4 header of TCP is read.
LEMMA ParseIpv4Wire ==
    ASSUME SliceInv, PlaceInv, ParseIpv4
    PROVE  WireInv'
<1> DEFINE found == Left >= 20 /\ Ihl >= 20 /\ Left >= Ihl /\ At(9) = TCP /\ EndOf(U16(2)) >= lo + Ihl
           first == FirstHeader(frame)
<1>1. /\ pc = "ipv4" /\ AtIp /\ Version(frame) = 4 /\ Len(frame.bytes) \in Nat
      /\ lo = IpAt(frame) /\ hi = Len(frame.bytes) /\ lo \in Nat /\ hi \in Nat
  BY FramesAssumption DEF ParseIpv4, PlaceInv, SliceInv, AtIp
<1>2. CASE found
  <2>1. /\ pc' = "tcp" /\ lo' = lo + Ihl /\ hi' = EndOf(U16(2)) /\ frame' = frame
        /\ addr' = <<Field(12, 4), Field(16, 4)>>
    BY <1>2 DEF ParseIpv4, Continue
  <2>2. /\ Ihl \in Nat /\ first = lo + Ihl /\ PacketEnd(frame) = EndOf(U16(2))
        /\ \A w : HeaderKind(frame, w, 1) = TCP
    BY <1>1, <1>2, Ipv4Header
  <2>3. CarriesIp(frame)
    <3>1. Len(frame.bytes) >= IpAt(frame) + 20
      BY <1>1, <1>2 DEF Left
    <3>2. first >= IpAt(frame) + 20
      BY <1>1, <1>2, <2>2
    <3> QED
      BY <1>1, <3>1, <3>2 DEF CarriesIp, AtIp, LinkIsKnown
  <2>4. addr' = <<Octets(frame, IpAt(frame) + 12, 4), Octets(frame, IpAt(frame) + 12 + 4, 4)>>
    <3>1. Field(12, 4) = Octets(frame, lo + 12, 4) /\ Field(16, 4) = Octets(frame, lo + 16, 4)
      BY ReadsOfFrame
    <3>2. lo + 12 + 4 = lo + 16
      BY <1>1
    <3> QED
      BY <1>1, <2>1, <3>1, <3>2
  <2>5. PastIp(frame, hi', addr')
    BY <1>1, <2>1, <2>2, <2>3, <2>4 DEF PastIp
  <2>6. PlaceInv'
    BY <2>1, <2>5 DEF PlaceInv
  <2>7. SoundInv'
    <3>1. PICK w \in Seq(Nat) : w # << >> /\ Len(w) = 1 /\ w[1] = first
      <4>1. first \in Nat
        BY <1>1, <2>2
      <4> HIDE DEF first
      <4>2. <<first>> \in Seq(Nat) /\ <<first>> # << >> /\ Len(<<first>>) = 1 /\ <<first>>[1] = first
        BY <4>1
      <4> QED
        BY <4>2
    <3>2. Chain(frame, w)
      BY <3>1 DEF Chain
    <3>3. Reached(w, TCP)'
      BY <1>1, <2>1, <2>2, <3>1, <3>2 DEF Reached, TcpAt
    <3> QED
      BY <2>1, <3>1, <3>3 DEF SoundInv
  <2>8. CompleteInv'
    <3>1. ASSUME NEW w \in Seq(Nat), CarriesTcp(frame, w) PROVE lo' = TcpAt(w)
      BY <1>1, <2>1, <2>2, <3>1, OneHeader DEF CarriesTcp
    <3> QED
      BY <2>1, <3>1 DEF CompleteInv, Follows
  <2> QED
    BY <2>6, <2>7, <2>8 DEF WireInv
<1>3. CASE ~found
  <2>1. ASSUME NEW w \in Seq(Nat), CarriesTcp(frame, w) PROVE FALSE
    <3>1. CarriesIp(frame) /\ Chain(frame, w) /\ HeaderKind(frame, w, Len(w)) = TCP
      BY <2>1 DEF CarriesTcp
    <3>2. Left >= 20
      BY <1>1, <3>1 DEF CarriesIp, Left
    <3>3. /\ Ihl \in Nat /\ first = lo + Ihl /\ PacketEnd(frame) = EndOf(U16(2))
          /\ EndOf(U16(2)) \in Nat /\ EndOf(U16(2)) <= hi
          /\ HeaderKind(frame, w, 1) = At(9)
      BY <1>1, <3>2, Ipv4Header
    <3>4. Len(w) = 1 /\ w[1] = first
      BY <1>1, <3>1, OneHeader
    <3>5. At(9) = TCP
      BY <3>1, <3>3, <3>4
    <3>6. first + 20 <= PacketEnd(frame)
      BY <2>1, <3>4 DEF CarriesTcp
    <3>7. Ihl >= 20
      BY <1>1, <3>1, <3>3 DEF CarriesIp
    <3> HIDE DEF first
    <3>8. EndOf(U16(2)) >= lo + Ihl /\ Left >= Ihl
      BY <1>1, <3>3, <3>6 DEF Left
    <3> QED
      BY <1>3, <3>2, <3>5, <3>7, <3>8
  <2> QED
    BY <1>3, <2>1, GivenUp DEF ParseIpv4
<1> QED
  BY <1>2, <1>3

\* What the IPv6 header says.
LEMMA Ipv6Header ==
    ASSUME SliceInv, PlaceInv, pc = "ipv6", Left >= 40
    PROVE  /\ FirstHeader(frame) = lo + 40
           /\ PacketEnd(frame) = EndOf(40 + U16(4))
           /\ \A w : HeaderKind(frame, w, 1) = At(6)
<1>1. AtIp /\ Version(frame) = 6 /\ Len(frame.bytes) \in Nat
  BY FramesAssumption DEF PlaceInv, SliceInv
<1>2. lo = IpAt(frame) /\ hi = Len(frame.bytes)
  BY <1>1 DEF AtIp
<1>3. At(6) = Octet(frame, IpAt(frame) + 6)
  <2>1. At(6) = Octet(frame, lo + 6)
    BY ReadsOfFrame
  <2> QED
    BY <1>2, <2>1
<1>4. U16(4) = Pair(frame, IpAt(frame) + 4)
  <2>1. U16(4) = Pair(frame, lo + 4)
    BY ReadsOfFrame
  <2> QED
    BY <1>2, <2>1
<1>5. FirstHeader(frame) = lo + 40
  BY <1>1, <1>2 DEF FirstHeader
<1>6. U16(4) \in Nat
  <2>1. 4 + 1 < Left
    BY DEF Left, SliceInv
  <2> QED
    BY <2>1, U16IsPort
<1>7. PacketEnd(frame) = EndOf(40 + U16(4))
  <2>1. PacketEnd(frame) =
          IF lo + (40 + U16(4)) < Len(frame.bytes) THEN lo + (40 + U16(4)) ELSE Len(frame.bytes)
    BY <1>1, <1>2, <1>4 DEF PacketEnd
  <2>2. lo + (40 + U16(4)) < Len(frame.bytes) <=> 40 + U16(4) < Left
    BY <1>1, <1>2, <1>6 DEF Left, SliceInv
  <2> QED
    BY <1>2, <2>1, <2>2 DEF EndOf
<1>8. \A w : HeaderKind(frame, w, 1) = At(6)
  BY <1>1, <1>3 DEF HeaderKind
<1> QED
  BY <1>5, <1>7, <1>8

\* An IPv6 header is read, whatever follows it.
LEMMA ParseIpv6Wire ==
    ASSUME SliceInv, PlaceInv, ParseIpv6
    PROVE  WireInv'
<1> DEFINE first == FirstHeader(frame)
<1>1. /\ pc = "ipv6" /\ AtIp /\ Version(frame) = 6 /\ Len(frame.bytes) \in Nat
      /\ lo = IpAt(frame) /\ hi = Len(frame.bytes) /\ lo \in Nat /\ hi \in Nat
  BY FramesAssumption DEF ParseIpv6, PlaceInv, SliceInv, AtIp
<1>2. CASE Left >= 40
  <2>1. /\ pc' = "extension" /\ lo' = lo + 40 /\ hi' = EndOf(40 + U16(4)) /\ frame' = frame
        /\ next' = At(6) /\ addr' = <<Field(8, 16), Field(24, 16)>>
    BY <1>2 DEF ParseIpv6, Continue
  <2>2. /\ first = lo + 40 /\ PacketEnd(frame) = EndOf(40 + U16(4))
        /\ \A w : HeaderKind(frame, w, 1) = At(6)
    BY <1>1, <1>2, Ipv6Header
  <2>3. CarriesIp(frame)
    <3>1. Len(frame.bytes) >= IpAt(frame) + 20 /\ Len(frame.bytes) >= IpAt(frame) + 40
      BY <1>1, <1>2 DEF Left
    <3> QED
      BY <1>1, <3>1 DEF CarriesIp, AtIp, LinkIsKnown
  <2>4. addr' = <<Octets(frame, IpAt(frame) + 8, 16), Octets(frame, IpAt(frame) + 8 + 16, 16)>>
    <3>1. Field(8, 16) = Octets(frame, lo + 8, 16) /\ Field(24, 16) = Octets(frame, lo + 24, 16)
      BY ReadsOfFrame
    <3>2. lo + 8 + 16 = lo + 24
      BY <1>1
    <3> QED
      BY <1>1, <2>1, <3>1, <3>2
  <2>5. PastIp(frame, hi', addr')
    BY <1>1, <2>1, <2>2, <2>3, <2>4 DEF PastIp
  <2>6. PlaceInv'
    <3>1. Version(frame)' = 6
      BY <1>1, <2>1 DEF Version, Octet, IpAt
    <3> QED
      BY <2>1, <2>5, <3>1 DEF PlaceInv
  <2>7. SoundInv'
    <3>1. PICK w \in Seq(Nat) : w # << >> /\ Len(w) = 1 /\ w[1] = first
      <4>1. first \in Nat
        BY <1>1, <2>2
      <4> HIDE DEF first
      <4>2. <<first>> \in Seq(Nat) /\ <<first>> # << >> /\ Len(<<first>>) = 1 /\ <<first>>[1] = first
        BY <4>1
      <4> QED
        BY <4>2
    <3>2. Chain(frame, w)
      BY <3>1 DEF Chain
    <3>3. Reached(w, next)'
      BY <1>1, <2>1, <2>2, <3>1, <3>2 DEF Reached, TcpAt
    <3> QED
      BY <2>1, <3>1, <3>3 DEF SoundInv
  <2>8. CompleteInv'
    <3>1. ASSUME NEW w \in Seq(Nat), CarriesTcp(frame, w)
          PROVE  1 \in 1..Len(w) /\ lo' = w[1] /\ next' = HeaderKind(frame, w, 1)
      <4>1. Len(w) \in Nat /\ Len(w) >= 1 /\ w[1] = first
        BY <3>1, ChainLength DEF CarriesTcp
      <4> QED
        BY <2>1, <2>2, <4>1
    <3> QED
      BY <2>1, <3>1 DEF CompleteInv, Follows
  <2> QED
    BY <2>6, <2>7, <2>8 DEF WireInv
<1>3. CASE ~(Left >= 40)
  <2>1. ~CarriesIp(frame)
    BY <1>1, <1>3 DEF CarriesIp, Left
  <2> QED
    BY <1>3, <2>1, GivenUp DEF ParseIpv6, CarriesTcp
<1> QED
  BY <1>2, <1>3

\* An extension header ends where its length field says.
LEMMA ExtensionRead ==
    ASSUME SliceInv, pc # "idle", Left >= 8
    PROVE  /\ ExtensionEnd(frame, next, lo) = lo + ExtensionHeaderLen(next)
           /\ Octet(frame, lo) = At(0)
           /\ ExtensionHeaderLen(next) \in Nat /\ lo \in Nat /\ hi \in Nat
<1>1. lo \in Nat /\ hi \in Nat /\ At(1) \in Byte
  BY AtIsByte DEF Left, SliceInv
<1>2. At(0) = Octet(frame, lo + 0) /\ At(1) = Octet(frame, lo + 1)
  BY ReadsOfFrame
<1>3. Octet(frame, lo) = At(0)
  <2>1. lo + 0 = lo
    BY <1>1
  <2> QED
    BY <1>2, <2>1
<1>4. At(1) \in Nat
  BY <1>1 DEF Byte
<1>5. ExtensionEnd(frame, next, lo) = lo + ExtensionHeaderLen(next)
  <2> DEFINE a == At(1)
  <2>1. Octet(frame, lo + 1) = a
    BY <1>2
  <2> HIDE DEF a
  <2>2. a \in Nat
    BY <1>4 DEF a
  <2>3. /\ 4 * (a + 2) = (a + 2) * 4
        /\ 8 * (a + 1) = (a + 1) * 8
    BY <2>2
  <2>4. ExtensionHeaderLen(next) =
          IF next = FRAGMENT THEN 8 ELSE IF next = AH THEN (a + 2) * 4 ELSE (a + 1) * 8
    BY DEF ExtensionHeaderLen, a
  <2> QED
    BY <2>1, <2>3, <2>4 DEF ExtensionEnd, FRAGMENT, AH
<1>6. ExtensionHeaderLen(next) \in Nat
  BY ExtensionIsLong
<1> QED
  BY <1>1, <1>3, <1>5, <1>6

\* TCP is no extension header.
LEMMA TcpEndsChain == ~IsExtensionHeader(TCP)
  BY DEF IsExtensionHeader, TCP, FRAGMENT, AH

\* The next header of a frame's chain is where the walk goes.
LEMMA NextHeader ==
    ASSUME SliceInv, CompleteInv, pc = "extension", WalksOn,
           NEW w \in Seq(Nat), CarriesTcp(frame, w)
    PROVE  \E i \in 1..Len(w) :
              w[i] = lo + ExtensionHeaderLen(next) /\ At(0) = HeaderKind(frame, w, i)
<1>1. PICK i \in 1..Len(w) : lo = w[i] /\ next = HeaderKind(frame, w, i)
  BY DEF CompleteInv, Follows
<1>2. Chain(frame, w) /\ HeaderKind(frame, w, Len(w)) = TCP
  BY DEF CarriesTcp
<1>3. Len(w) \in Nat /\ i # Len(w)
  BY <1>1, <1>2, TcpEndsChain DEF WalksOn
<1>4. i \in 1..Len(w) - 1 /\ i + 1 \in 1..Len(w) /\ i + 1 > 1 /\ (i + 1) - 1 = i
  BY <1>3
<1>5. w[i + 1] = ExtensionEnd(frame, next, lo)
  BY <1>1, <1>2, <1>4 DEF Chain
<1>6. HeaderKind(frame, w, i + 1) = Octet(frame, lo)
  BY <1>1, <1>4 DEF HeaderKind
<1> QED
  BY <1>4, <1>5, <1>6, ExtensionRead DEF WalksOn

\* A chain goes on with the header after the last.
LEMMA ChainGoesOn ==
    ASSUME NEW f, NEW w \in Seq(Nat), NEW to \in Nat, Chain(f, w), Version(f) = 6,
           IsExtensionHeader(HeaderKind(f, w, Len(w))),
           to = ExtensionEnd(f, HeaderKind(f, w, Len(w)), TcpAt(w))
    PROVE  \E v \in Seq(Nat) :
              /\ Chain(f, v) /\ Len(v) = Len(w) + 1 /\ TcpAt(v) = to
              /\ HeaderKind(f, v, Len(v)) = Octet(f, TcpAt(w))
              /\ \A i \in 1..Len(w) : v[i] = w[i]
<1>1. Len(w) \in Nat /\ Len(w) >= 1 /\ w[1] = FirstHeader(f)
  BY ChainLength
<1>2. PICK v \in Seq(Nat) : /\ Len(v) = Len(w) + 1 /\ v[Len(w) + 1] = to
                            /\ \A i \in 1..Len(w) : v[i] = w[i]
  <2>1. /\ Append(w, to) \in Seq(Nat) /\ Len(Append(w, to)) = Len(w) + 1
        /\ Append(w, to)[Len(w) + 1] = to
        /\ \A i \in 1..Len(w) : Append(w, to)[i] = w[i]
    BY <1>1
  <2> QED
    BY <2>1
<1>3. v # << >>
  BY <1>1, <1>2
<1>4. \A i \in 1..Len(w) : HeaderKind(f, v, i) = HeaderKind(f, w, i)
  <2> TAKE i \in 1..Len(w)
  <2>1. i > 1 => v[i - 1] = w[i - 1]
    <3>1. i > 1 => i - 1 \in 1..Len(w)
      BY <1>1
    <3> QED
      BY <1>2, <3>1
  <2> QED
    BY <2>1 DEF HeaderKind
<1>5. HeaderKind(f, v, Len(v)) = Octet(f, TcpAt(w))
  <2>1. Len(w) + 1 > 1 /\ (Len(w) + 1) - 1 = Len(w) /\ Len(w) \in 1..Len(w)
    BY <1>1
  <2> QED
    BY <1>2, <2>1 DEF HeaderKind, TcpAt
<1>6. ASSUME NEW i \in 1..Len(v) - 1
      PROVE  /\ IsExtensionHeader(HeaderKind(f, v, i))
             /\ v[i + 1] = ExtensionEnd(f, HeaderKind(f, v, i), v[i])
  <2>1. i \in 1..Len(w) /\ v[i] = w[i]
    BY <1>1, <1>2
  <2>2. HeaderKind(f, v, i) = HeaderKind(f, w, i)
    BY <1>4, <2>1
  <2>3. CASE i = Len(w)
    BY <1>2, <2>1, <2>2, <2>3 DEF TcpAt
  <2>4. CASE i # Len(w)
    <3>1. i \in 1..Len(w) - 1 /\ i + 1 \in 1..Len(w)
      <4>1. \A n \in Nat : \A j \in 1..n : j # n => j \in 1..n - 1 /\ j + 1 \in 1..n
        OBVIOUS
      <4> QED
        BY <1>1, <2>1, <2>4, <4>1
    <3>2. v[i + 1] = w[i + 1]
      BY <1>2, <3>1
    <3> QED
      BY <2>1, <2>2, <3>1, <3>2 DEF Chain
  <2> QED
    BY <2>3, <2>4
<1>7. Chain(f, v)
  <2>1. v[1] = FirstHeader(f)
    <3>1. 1 \in 1..Len(w)
      BY <1>1
    <3> QED
      BY <1>1, <1>2, <3>1
  <2> QED
    BY <1>3, <1>6, <2>1 DEF Chain
<1> QED
  BY <1>2, <1>5, <1>7 DEF TcpAt

\* A turn of the loop over the extension headers reaches the next of the chain.
LEMMA WalkExtensionWire ==
    ASSUME SliceInv, PlaceInv, SoundInv, CompleteInv, WalkExtension
    PROVE  WireInv'
<1> DEFINE to == lo + ExtensionHeaderLen(next)
<1>1. /\ pc = "extension" /\ WalksOn /\ pc # "idle"
      /\ PastIp(frame, hi, addr) /\ Version(frame) = 6
  BY DEF WalkExtension, PlaceInv
<1>2. /\ ExtensionEnd(frame, next, lo) = to /\ Octet(frame, lo) = At(0)
      /\ to \in Nat /\ lo \in Nat /\ hi \in Nat /\ lo <= to
  <2>1. ExtensionHeaderLen(next) \in Nat /\ lo \in Nat
    BY <1>1, ExtensionRead DEF WalksOn
  <2> QED
    BY <1>1, <2>1, ExtensionRead DEF WalksOn
<1>3. CASE ExtensionHeaderLen(next) <= Left
  <2>1. /\ pc' = "extension" /\ lo' = to /\ hi' = hi /\ frame' = frame
        /\ next' = At(0) /\ addr' = addr
    BY <1>3 DEF WalkExtension, Continue
  <2> HIDE DEF to
  <2>2. PlaceInv'
    <3>1. Version(frame)' = 6
      BY <1>1, <2>1 DEF Version, Octet, IpAt
    <3> QED
      BY <1>1, <2>1, <3>1 DEF PlaceInv
  <2>3. SoundInv'
    <3>1. PICK w \in Seq(Nat) : Reached(w, next)
      BY <1>1 DEF SoundInv
    <3>2. /\ Chain(frame, w) /\ lo = TcpAt(w) /\ HeaderKind(frame, w, Len(w)) = next
          /\ \A i \in 1..Len(w) : w[i] <= lo
      BY <3>1 DEF Reached
    <3>3. PICK v \in Seq(Nat) :
             /\ Chain(frame, v) /\ Len(v) = Len(w) + 1 /\ TcpAt(v) = to
             /\ HeaderKind(frame, v, Len(v)) = Octet(frame, TcpAt(w))
             /\ \A i \in 1..Len(w) : v[i] = w[i]
      BY <1>1, <1>2, <3>2, ChainGoesOn DEF WalksOn
    <3>4. \A i \in 1..Len(v) : v[i] <= to
      <4> TAKE i \in 1..Len(v)
      <4>1. Len(w) \in Nat
        OBVIOUS
      <4>2. CASE i \in 1..Len(w)
        <5>1. w[i] \in Nat
          BY <4>2
        <5>2. w[i] <= lo /\ v[i] = w[i]
          BY <3>2, <3>3, <4>2
        <5> QED
          BY <1>2, <5>1, <5>2
      <4>3. CASE i \notin 1..Len(w)
        <5>1. i = Len(v)
          BY <3>3, <4>1, <4>3
        <5> QED
          BY <1>2, <3>3, <5>1 DEF TcpAt
      <4> QED
        BY <4>2, <4>3
    <3>5. Reached(v, next)'
      BY <1>2, <2>1, <3>2, <3>3, <3>4 DEF Reached
    <3> QED
      BY <2>1, <3>5 DEF SoundInv
  <2>4. CompleteInv'
    <3>1. ASSUME NEW w \in Seq(Nat), CarriesTcp(frame, w)
          PROVE  \E i \in 1..Len(w) : lo' = w[i] /\ next' = HeaderKind(frame, w, i)
      BY <1>1, <2>1, <3>1, NextHeader DEF to
    <3> QED
      BY <2>1, <3>1 DEF CompleteInv, Follows
  <2> QED
    BY <2>2, <2>3, <2>4 DEF WireInv
<1>4. CASE ~(ExtensionHeaderLen(next) <= Left)
  <2>1. ASSUME NEW w \in Seq(Nat), CarriesTcp(frame, w) PROVE FALSE
    <3>1. \E i \in 1..Len(w) : w[i] = to
      BY <1>1, <2>1, NextHeader
    <3>2. to + 20 <= hi
      BY <1>1, <2>1, <3>1 DEF CarriesTcp, PastIp
    <3>3. ExtensionHeaderLen(next) \in Nat
      BY <1>1, ExtensionRead DEF WalksOn
    <3> QED
      BY <1>2, <1>4, <3>2, <3>3 DEF Left
  <2> QED
    BY <1>4, <2>1, GivenUp DEF WalkExtension
<1> QED
  BY <1>3, <1>4

\* After the walk the parser is at the last header of the chain.
LEMMA LastOfChain ==
    ASSUME SliceInv, PlaceInv, CompleteInv, pc = "extension", ~WalksOn,
           NEW w \in Seq(Nat), CarriesTcp(frame, w)
    PROVE  lo = TcpAt(w) /\ next = TCP
<1>1. PICK i \in 1..Len(w) : lo = w[i] /\ next = HeaderKind(frame, w, i)
  BY DEF CompleteInv, Follows
<1>2. Chain(frame, w) /\ HeaderKind(frame, w, Len(w)) = TCP /\ w[i] + 20 <= PacketEnd(frame)
  BY DEF CarriesTcp
<1>3. Left >= 8
  BY <1>1, <1>2 DEF PlaceInv, PastIp, SliceInv, Left
<1>4. ~IsExtensionHeader(next)
  BY <1>3 DEF WalksOn
<1>5. i = Len(w)
  <2>1. i \notin 1..Len(w) - 1
    BY <1>1, <1>2, <1>4 DEF Chain
  <2> QED
    BY <1>1, <2>1
<1> QED
  BY <1>1, <1>2, <1>5 DEF TcpAt

\* The loop ends at the TCP header, or at what is none.
LEMMA LastHeaderWire ==
    ASSUME SliceInv, PlaceInv, SoundInv, CompleteInv, LastHeader
    PROVE  WireInv'
<1>1. pc = "extension" /\ ~WalksOn /\ PastIp(frame, hi, addr)
  BY DEF LastHeader, PlaceInv
<1>2. CASE next = TCP
  <2>1. pc' = "tcp" /\ lo' = lo /\ hi' = hi /\ frame' = frame /\ addr' = addr
    BY <1>2 DEF LastHeader, Continue
  <2>2. PlaceInv'
    BY <1>1, <2>1 DEF PlaceInv
  <2>3. SoundInv'
    <3>1. PICK w \in Seq(Nat) : Reached(w, TCP)
      BY <1>1, <1>2 DEF SoundInv
    <3>2. Reached(w, TCP)'
      BY <2>1, <3>1 DEF Reached
    <3> QED
      BY <2>1, <3>2 DEF SoundInv
  <2>4. CompleteInv'
    BY <1>1, <2>1, LastOfChain DEF CompleteInv, Follows
  <2> QED
    BY <2>2, <2>3, <2>4 DEF WireInv
<1>3. CASE next # TCP
  <2>1. \A w \in Seq(Nat) : ~CarriesTcp(frame, w)
    BY <1>1, <1>3, LastOfChain
  <2> QED
    BY <1>3, <2>1, GivenUp DEF LastHeader
<1> QED
  BY <1>2, <1>3

\* The segment that the parser reads at a TCP header.
ReadHere ==
    [src |-> <<addr[1], U16(0)>>, dst |-> <<addr[2], U16(2)>>,
     seq |-> Field(4, 4), ack |-> Field(8, 4),
     fin |-> Flag(1), syn |-> Flag(2), rst |-> Flag(4),
     payload |-> Field(DataOffset, Left - DataOffset)]

\* Where the TCP header's fields are read.
LEMMA TcpHeaderRead ==
    ASSUME SliceInv, pc # "idle", Left >= 20, NEW w, lo = TcpAt(w)
    PROVE  /\ DataOffset = TcpHeader(frame, w) /\ DataOffset \in Nat
           /\ \A b : Flag(b) <=> TcpFlag(frame, w, b)
<1>1. At(12) = Octet(frame, TcpAt(w) + 12) /\ At(13) = Octet(frame, TcpAt(w) + 13)
  <2>1. At(12) = Octet(frame, lo + 12) /\ At(13) = Octet(frame, lo + 13)
    BY ReadsOfFrame
  <2> QED
    BY <2>1
<1>2. DataOffset = TcpHeader(frame, w)
  BY <1>1 DEF DataOffset, TcpHeader
<1>3. DataOffset \in Nat
  <2>1. At(12) \in Byte
    BY AtIsByte DEF Left, SliceInv
  <2>2. \A x \in Byte : 4 * (x \div 16) \in Nat
    BY DEF Byte
  <2> QED
    BY <2>1, <2>2 DEF DataOffset
<1>4. \A b : Flag(b) <=> TcpFlag(frame, w, b)
  BY <1>1 DEF Flag, TcpFlag
<1> QED
  BY <1>2, <1>3, <1>4

\* It is the one the frame carries there.
LEMMA ReadIsCarried ==
    ASSUME SliceInv, pc # "idle", PastIp(frame, hi, addr), Left >= 20, NEW w, lo = TcpAt(w)
    PROVE  ReadHere = SegmentAt(frame, w)
<1> DEFINE n == IF Version(frame) = 4 THEN 4 ELSE 16
           a == IpAt(frame) + (IF Version(frame) = 4 THEN 12 ELSE 8)
           t == TcpAt(w)
           h == TcpHeader(frame, w)
           last == PacketEnd(frame)
<1>1. /\ h \in Nat /\ DataOffset = h /\ t \in Nat /\ lo = t
      /\ hi \in Nat /\ hi = last
  BY TcpHeaderRead DEF SliceInv, PastIp
<1>2. addr[1] = Octets(frame, a, n) /\ addr[2] = Octets(frame, a + n, n)
  BY DEF PastIp
<1>3. U16(0) = Pair(frame, t) /\ U16(2) = Pair(frame, t + 2)
  <2>1. U16(0) = Pair(frame, lo + 0) /\ U16(2) = Pair(frame, lo + 2)
    BY ReadsOfFrame
  <2>2. lo + 0 = t
    BY <1>1
  <2> QED
    BY <2>1, <2>2
<1>4. Field(4, 4) = Octets(frame, t + 4, 4) /\ Field(8, 4) = Octets(frame, t + 8, 4)
  BY ReadsOfFrame
<1>5. Flag(1) = TcpFlag(frame, w, 1) /\ Flag(2) = TcpFlag(frame, w, 2) /\ Flag(4) = TcpFlag(frame, w, 4)
  <2>1. \A b : Flag(b) \in BOOLEAN /\ TcpFlag(frame, w, b) \in BOOLEAN
    BY DEF Flag, TcpFlag
  <2> QED
    BY <2>1, TcpHeaderRead
<1>6. Field(DataOffset, Left - DataOffset) = Octets(frame, t + h, last - (t + h))
  <2>1. Left - DataOffset = last - (t + h)
    BY <1>1 DEF Left
  <2>2. Field(h, last - (t + h)) = Octets(frame, lo + h, last - (t + h))
    BY <1>1, ReadsOfFrame
  <2> QED
    BY <1>1, <2>1, <2>2
<1>7. SegmentAt(frame, w) =
        [src |-> <<Octets(frame, a, n), Pair(frame, t)>>,
         dst |-> <<Octets(frame, a + n, n), Pair(frame, t + 2)>>,
         seq |-> Octets(frame, t + 4, 4), ack |-> Octets(frame, t + 8, 4),
         fin |-> TcpFlag(frame, w, 1), syn |-> TcpFlag(frame, w, 2), rst |-> TcpFlag(frame, w, 4),
         payload |-> Octets(frame, t + h, last - (t + h))]
  BY DEF SegmentAt
<1> HIDE DEF n, a, t, h, last
<1> QED
  BY <1>2, <1>3, <1>4, <1>5, <1>6, <1>7 DEF ReadHere

\* The segment is read where the frame carries it, and nowhere else.
LEMMA ParseTcpWire ==
    ASSUME SliceInv, PlaceInv, SoundInv, CompleteInv, ParseTcp
    PROVE  WireInv'
<1> DEFINE found == Left >= 20 /\ DataOffset >= 20 /\ Left >= DataOffset
<1>1. pc = "tcp" /\ pc # "idle" /\ PastIp(frame, hi, addr) /\ lo \in Nat /\ hi \in Nat
  BY DEF ParseTcp, PlaceInv, SliceInv
<1>2. pc' = "done" /\ frame' = frame /\ Return(IF found THEN ReadHere ELSE NoSegment)
  BY DEF ParseTcp, Return, ReadHere
<1>3. \A w \in Seq(Nat) : CarriesTcp(frame, w) => lo = TcpAt(w)
  BY <1>1 DEF CompleteInv, Follows
<1>4. CASE found
  <2>1. seg' = ReadHere
    BY <1>2, <1>4 DEF Return
  <2>2. PlaceInv'
    BY <1>2 DEF PlaceInv
  <2>3. SoundInv'
    <3>1. PICK w \in Seq(Nat) : Reached(w, TCP)
      BY <1>1 DEF SoundInv
    <3>2. lo = TcpAt(w) /\ Chain(frame, w) /\ HeaderKind(frame, w, Len(w)) = TCP
      BY <3>1 DEF Reached
    <3>3. \A i \in 1..Len(w) : w[i] + 20 <= PacketEnd(frame)
      <4> TAKE i \in 1..Len(w)
      <4>1. w[i] \in Nat /\ w[i] <= lo
        BY <3>1 DEF Reached
      <4>2. hi = PacketEnd(frame) /\ hi - lo >= 20
        BY <1>1, <1>4 DEF PastIp, Left
      <4> QED
        BY <1>1, <4>1, <4>2
    <3>4. TcpHeader(frame, w) >= 20 /\ TcpAt(w) + TcpHeader(frame, w) <= PacketEnd(frame)
      <4>1. DataOffset = TcpHeader(frame, w) /\ DataOffset \in Nat
        BY <1>1, <1>4, <3>2, TcpHeaderRead
      <4>2. hi = PacketEnd(frame) /\ hi - lo >= DataOffset
        BY <1>1, <1>4 DEF PastIp, Left
      <4>3. lo + DataOffset <= PacketEnd(frame)
        BY <1>1, <4>1, <4>2
      <4> QED
        BY <1>4, <3>2, <4>1, <4>3
    <3>5. CarriesTcp(frame, w)
      BY <1>1, <3>2, <3>3, <3>4 DEF CarriesTcp, PastIp
    <3> QED
      BY <1>2, <3>5 DEF SoundInv
  <2>4. CompleteInv'
    <3>1. ASSUME NEW w \in Seq(Nat), CarriesTcp(frame, w) PROVE seg' = SegmentAt(frame, w)
      BY <1>1, <1>3, <1>4, <2>1, <3>1, ReadIsCarried
    <3> QED
      BY <1>2, <3>1 DEF CompleteInv, Follows
  <2> QED
    BY <2>2, <2>3, <2>4 DEF WireInv
<1>5. CASE ~found
  <2>1. ASSUME NEW w \in Seq(Nat), CarriesTcp(frame, w) PROVE FALSE
    <3>1. lo = TcpAt(w) /\ hi = PacketEnd(frame) /\ Chain(frame, w)
      BY <1>1, <1>3, <2>1 DEF PastIp, CarriesTcp
    <3>2. Left >= 20
      <4>1. Len(w) \in 1..Len(w)
        BY <3>1, ChainLength
      <4>2. lo + 20 <= hi
        BY <2>1, <3>1, <4>1 DEF CarriesTcp, TcpAt
      <4> QED
        BY <1>1, <4>2 DEF Left
    <3>3. DataOffset = TcpHeader(frame, w) /\ DataOffset \in Nat
      BY <1>1, <3>1, <3>2, TcpHeaderRead
    <3>4. DataOffset >= 20 /\ lo + DataOffset <= hi
      BY <2>1, <3>1, <3>3 DEF CarriesTcp
    <3>5. Left >= DataOffset
      BY <1>1, <3>3, <3>4 DEF Left
    <3> QED
      BY <1>5, <3>2, <3>4, <3>5
  <2> QED
    BY <1>2, <1>5, <2>1, GivenUp
<1> QED
  BY <1>4, <1>5

-----------------------------------------------------------------------------
\* Nothing is read before the first frame, nor after a result is taken.
LEMMA IdleWire == pc = "idle" => WireInv
  BY DEF WireInv, PlaceInv, SoundInv, CompleteInv, Follows

\* A frame starts with the whole of it as the slice.
LEMMA ReceiveWire ==
    ASSUME NEW f \in Frames, Receive(f)
    PROVE  WireInv'
<1>1. PlaceInv'
  BY DEF Receive, PlaceInv
<1> QED
  BY <1>1, PlacedOnly DEF Receive

\* The caller takes the result.
LEMMA ForgetWire == Forget => WireInv'
  BY DEF Forget, WireInv, PlaceInv, SoundInv, CompleteInv, Follows

\* Every step of the parser keeps to the frame's headers.
LEMMA ParseStepWire ==
    ASSUME WireIsCarried, SliceInv, WireInv, ParseStep
    PROVE  WireInv'
<1>1. PlaceInv /\ SoundInv /\ CompleteInv
  BY DEF WireInv
<1>2. CASE StripLink \/ SkipTag \/ Ethertype
  BY <1>1, <1>2, StripLinkWire, SkipTagWire, EthertypeWire
<1>3. CASE ParseIp \/ ParseIpv4 \/ ParseIpv6
  BY <1>1, <1>3, ParseIpWire, ParseIpv4Wire, ParseIpv6Wire
<1>4. CASE WalkExtension \/ LastHeader \/ ParseTcp
  BY <1>1, <1>4, WalkExtensionWire, LastHeaderWire, ParseTcpWire
<1> QED
  BY <1>2, <1>3, <1>4 DEF ParseStep

\* So does a step of something else.
LEMMA StutterWire == WireInv /\ UNCHANGED frameVars => WireInv'
  BY DEF WireInv, PlaceInv, SoundInv, CompleteInv, Follows, Reached, AtIp, LinkIsKnown, frameVars

\* What the parser returns is what was sent.
LEMMA WireInvParses ==
    ASSUME WireIsCarried, SliceInv, WireInv
    PROVE  ParsesWire
<1> SUFFICES ASSUME pc = "done" PROVE seg = frame.wire
  BY DEF ParsesWire
<1>1. frame \in Frames
  BY DEF SliceInv
<1>2. CASE frame.wire # NoSegment
  BY <1>1, <1>2 DEF WireIsCarried, WireInv, CompleteInv, Follows
<1>3. CASE frame.wire = NoSegment
  BY <1>1, <1>3 DEF WireIsCarried, WireInv, SoundInv
<1> QED
  BY <1>2, <1>3

-----------------------------------------------------------------------------
(* The capture loop.                                                       *)

\* Every address and port is an endpoint: the code has no other bound on them.
AllEndpoints == AnyEndpoint \subseteq Endpoints

\* The parser's invariant holds while the loop runs.
LEMMA CaptureFrameInv == CaptureSpec => []FrameInv
<1>1. CaptureInit => FrameInv
  BY InitFrameInv DEF CaptureInit
<1>2. FrameInv /\ [CaptureNext]_captureVars => FrameInv'
  <2> SUFFICES ASSUME FrameInv, [CaptureNext]_captureVars PROVE FrameInv'
    OBVIOUS
  <2>1. CASE NextPacket
    BY <2>1, ReceiveInv DEF NextPacket
  <2>2. CASE ParseFrame
    BY <2>2, ParseStepInv DEF ParseFrame
  <2>3. CASE HandlePacket \/ Ignore
    BY <2>3, ForgetInv DEF HandlePacket, Ignore
  <2>4. CASE OpenDevice \/ OpenFails \/ CaptureEnds
    BY <2>4, StutterFrameInv DEF OpenDevice, OpenFails, CaptureEnds
  <2>5. CASE UNCHANGED captureVars
    BY <2>5, StutterFrameInv DEF captureVars
  <2> QED
    BY <2>1, <2>2, <2>3, <2>4, <2>5 DEF CaptureNext
<1> QED
  BY <1>1, <1>2, PTL DEF CaptureSpec

\* A step of the loop is a step of the table or leaves it alone.
LEMMA CaptureStep ==
    ASSUME AllEndpoints, FrameInv, [CaptureNext]_captureVars
    PROVE  [Next]_vars
<1>1. CASE HandlePacket
  <2> DEFINE flags == [syn |-> seg.syn, fin |-> seg.fin, rst |-> seg.rst]
  <2>1. seg.src \in Endpoints /\ seg.dst \in Endpoints
    BY <1>1 DEF HandlePacket, FrameInv, ResultInv, AllEndpoints
  <2>2. flags \in Flags
    BY <1>1 DEF HandlePacket, FrameInv, ResultInv, Flags
  <2>3. ForServer(seg.src, seg.dst) \/ ForClient(seg.src, seg.dst)
    BY <1>1 DEF HandlePacket, OnWatchedPort
  <2>4. \/ HandleReset(KeyOf(seg.src, seg.dst), flags)
        \/ HandleFin(KeyOf(seg.src, seg.dst), flags)
        \/ HandleOther(KeyOf(seg.src, seg.dst), flags)
    BY <1>1 DEF HandlePacket, HandleSegment
  <2> HIDE DEF flags
  <2> QED
    BY <2>1, <2>2, <2>3, <2>4 DEF Next
<1>2. CASE OpenDevice \/ OpenFails \/ NextPacket \/ CaptureEnds \/ ParseFrame \/ Ignore
  BY <1>2 DEF OpenDevice, OpenFails, NextPacket, CaptureEnds, ParseFrame, Ignore
<1>3. CASE UNCHANGED captureVars
  BY <1>3 DEF captureVars
<1> QED
  BY <1>1, <1>2, <1>3 DEF CaptureNext

\* run of capture.rs does to the connection table only what segments may do to
\* it: frames that are not TCP, are cut short or are for other ports do nothing.
THEOREM LoopImplementsTable ==
    ASSUME AllEndpoints PROVE CaptureSpec => ImplementsTable
<1>1. CaptureInit => Init
  BY DEF CaptureInit
<1>2. AllEndpoints /\ FrameInv /\ [CaptureNext]_captureVars => [Next]_vars
  BY CaptureStep
<1> QED
  BY <1>1, <1>2, CaptureFrameInv, PTL DEF CaptureSpec, Spec, ImplementsTable

\* No frame makes the parser of a running capture slice out of bounds.
THEOREM CaptureInBounds == CaptureSpec => []SlicesInBounds
<1>1. FrameInv => SlicesInBounds
  BY DEF FrameInv, SliceInv, SlicesInBounds
<1> QED
  BY <1>1, CaptureFrameInv, PTL

\* A segment handed to the table is the one that the captured frame carries, and a
\* frame that carries none, or none whose headers are all captured, hands over nothing:
\* parse_frame and what it calls, over frames without VLAN tags.
THEOREM SegmentsAreThoseSent ==
    ASSUME WireIsCarried PROVE CaptureSpec => []ParsesWire
<1>1. CaptureInit => WireInv
  BY IdleWire DEF CaptureInit, FrameInit
<1>2. FrameInv /\ WireInv /\ [CaptureNext]_captureVars => WireInv'
  <2> SUFFICES ASSUME FrameInv, WireInv, [CaptureNext]_captureVars PROVE WireInv'
    OBVIOUS
  <2>1. CASE NextPacket
    BY <2>1, ReceiveWire DEF NextPacket
  <2>2. CASE ParseFrame
    BY <2>2, ParseStepWire DEF ParseFrame, FrameInv
  <2>3. CASE HandlePacket \/ Ignore
    BY <2>3, ForgetWire DEF HandlePacket, Ignore
  <2>4. CASE OpenDevice \/ OpenFails \/ CaptureEnds
    BY <2>4, StutterWire DEF OpenDevice, OpenFails, CaptureEnds
  <2>5. CASE UNCHANGED captureVars
    BY <2>5, StutterWire DEF captureVars
  <2> QED
    BY <2>1, <2>2, <2>3, <2>4, <2>5 DEF CaptureNext
<1>3. FrameInv /\ WireInv => ParsesWire
  BY WireInvParses DEF FrameInv
<1> QED
  BY <1>1, <1>2, <1>3, CaptureFrameInv, PTL DEF CaptureSpec

\* Whatever frames are captured, no connection record leaks.
THEOREM CaptureLeaksNoRecord ==
    ASSUME AllEndpoints PROVE CaptureSpec => []OpenRecordsHaveEntries
  BY LoopImplementsTable, NoRecordLeaks, PTL DEF ImplementsTable

\* Whatever frames are captured, the live count is exact.
THEOREM CaptureCountsLive ==
    ASSUME AllEndpoints PROVE CaptureSpec => []LiveIsUnclosed
  BY LoopImplementsTable, LiveCountExact, PTL DEF ImplementsTable
================================================================================
