------------------------------- MODULE ConnTable -------------------------------
(***************************************************************************)
(* The connection table of the pcap source: ConnTable::handle of           *)
(* src/flow.rs, with the effect of its calls of open_connection and        *)
(* close_connection on the metrics (their concurrency is module            *)
(* ConnRegistry's subject: here one thread calls them).                    *)
(*                                                                         *)
(* The capture may show any segment at any time: handshakes and closes are *)
(* lost, repeated and reordered as freely as data.  What a segment carries *)
(* is decoded by Connection::handle (module Negotiation).                  *)
(***************************************************************************)
EXTENDS Integers, FiniteSets

CONSTANTS
    Endpoints,      \* (ip, port) pairs
    Watched,        \* the endpoints whose port is the watched port
    MaxRecords      \* bound: connection records opened

ASSUME TableAssumption ==
    /\ IsFiniteSet(Endpoints)
    /\ Watched \subseteq Endpoints
    /\ MaxRecords \in Nat

Keys  == Endpoints \X Endpoints     \* ConnKey: <<client, server>>
Flags == [syn : BOOLEAN, fin : BOOLEAN, rst : BOOLEAN]

VARIABLES
    map,        \* ConnTable.map: key -> [stats, metrics_closed]
    opened,     \* Metrics.conns_opened; record ids are 1..opened
    ended,      \* ids whose lifecycle is Closed
    conns_live, \* Metrics.conns_live
    origin,     \* history: record -> the key and the syn flag it was opened by
    reset       \* history: the keys a RST was handled for

vars == <<map, opened, ended, conns_live, origin, reset>>

-----------------------------------------------------------------------------
\* Which side of a segment is the client: the side that is not watched.
ForServer(src, dst) == dst \in Watched
ForClient(src, dst) == dst \notin Watched /\ src \in Watched

\* The key of a segment.
KeyOf(src, dst) == IF ForServer(src, dst) THEN <<src, dst>> ELSE <<dst, src>>

\* Mutant: a SYN always starts afresh.
OpensOnAnySyn(k, seg) == k \notin DOMAIN map \/ seg.syn

\* Mutant: any segment after the FIN starts afresh.
OpensWhenClosed(k, seg) == k \notin DOMAIN map \/ map[k].metrics_closed

\* An unknown key, or a SYN on a connection whose FIN was seen.
ShouldOpen(k, seg) == k \notin DOMAIN map \/ (seg.syn /\ map[k].metrics_closed)

\* The connection the segment is handled by: a new one, or the one in the map.
Entry(k, seg) ==
    IF ShouldOpen(k, seg) THEN [stats |-> opened + 1, metrics_closed |-> FALSE] ELSE map[k]

\* open_connection, when the segment opens: counted as opened and as live.
Opened(k, seg) == IF ShouldOpen(k, seg) THEN opened + 1 ELSE opened
LiveThen(k, seg) == IF ShouldOpen(k, seg) THEN conns_live + 1 ELSE conns_live
OriginThen(k, seg) ==
    [i \in 1..Opened(k, seg) |->
        IF i \in DOMAIN origin THEN origin[i] ELSE [key |-> k, syn |-> seg.syn]]

\* Mutant: no check that the record is already closed.
CloseAgain(i, live) == ended' = ended \cup {i} /\ conns_live' = live - 1

\* close_connection of record i: nothing happens if it is closed already.
CloseConnection(i, live) ==
    /\ ended' = ended \cup {i}
    /\ conns_live' = IF i \in ended THEN live ELSE live - 1

\* map.insert and map.remove.
Put(k, e) == [j \in DOMAIN map \cup {k} |-> IF j = k THEN e ELSE map[j]]
Drop(k)   == [j \in DOMAIN map \ {k} |-> map[j]]

\* What every handled segment does, its effect on the map and the closes aside.
Handled(k, seg) ==
    /\ Opened(k, seg) <= MaxRecords
    /\ opened' = Opened(k, seg)
    /\ origin' = OriginThen(k, seg)
    /\ reset' = IF seg.rst THEN reset \cup {k} ELSE reset

\* RST: the entry is handled, removed and its record closed.
HandleReset(k, seg) ==
    /\ seg.rst
    /\ Handled(k, seg)
    /\ map' = Drop(k)
    /\ CloseConnection(Entry(k, seg).stats, LiveThen(k, seg))

\* The first FIN: the record is closed, the entry stays to absorb what trails.
HandleFin(k, seg) ==
    /\ ~seg.rst /\ seg.fin /\ ~Entry(k, seg).metrics_closed
    /\ Handled(k, seg)
    /\ map' = Put(k, [stats |-> Entry(k, seg).stats, metrics_closed |-> TRUE])
    /\ CloseConnection(Entry(k, seg).stats, LiveThen(k, seg))

\* Anything else, a further FIN included.
HandleOther(k, seg) ==
    /\ ~seg.rst /\ (seg.fin => Entry(k, seg).metrics_closed)
    /\ Handled(k, seg)
    /\ map' = Put(k, Entry(k, seg))
    /\ conns_live' = LiveThen(k, seg)
    /\ UNCHANGED ended

-----------------------------------------------------------------------------
Init ==
    /\ map = << >>
    /\ opened = 0
    /\ ended = {}
    /\ conns_live = 0
    /\ origin = << >>
    /\ reset = {}

Next ==
    \E src, dst \in Endpoints, seg \in Flags :
        /\ ForServer(src, dst) \/ ForClient(src, dst)
        /\ \/ HandleReset(KeyOf(src, dst), seg)
           \/ HandleFin(KeyOf(src, dst), seg)
           \/ HandleOther(KeyOf(src, dst), seg)

Spec == Init /\ [][Next]_vars

-----------------------------------------------------------------------------
(* Properties.                                                             *)

\* Type invariant; conns_live is a usize and must not be taken below zero.
TypeOK ==
    /\ DOMAIN map \subseteq Keys
    /\ \A k \in DOMAIN map : map[k] \in [stats : 1..opened, metrics_closed : BOOLEAN]
    /\ opened \in Nat
    /\ ended \subseteq 1..opened
    /\ conns_live \in Nat
    /\ origin \in [1..opened -> [key : Keys, syn : BOOLEAN]]
    /\ reset \subseteq Keys

\* The keys of connections whose close was not seen.
Unclosed == {k \in DOMAIN map : ~map[k].metrics_closed}

\* No record leaks: a record is open in the metrics exactly as long as an entry
\* of the map can still close it, whatever handshake segments were lost or
\* repeated.
OpenRecordsHaveEntries ==
    \A i \in 1..opened : i \notin ended <=> \E k \in Unclosed : map[k].stats = i

\* The live count shown is the number of such entries: FIN followed by RST, or
\* a RST on an unknown connection, counts down once.
LiveIsUnclosed == conns_live = Cardinality(Unclosed)

\* A 4-tuple that is reused never has two open records.
OneLiveRecordPerKey ==
    \A i, j \in 1..opened :
        i < j /\ origin[i].key = origin[j].key => i \in ended

\* "A closed entry stays in the map after FIN to absorb the trailing
\* ACK/FIN/ACK packets" (ConnTable::handle): a further record for the same
\* 4-tuple needs a SYN, unless a RST removed the entry.
TrailingAbsorbed ==
    \A i, j \in 1..opened :
        i < j /\ origin[i].key = origin[j].key =>
            origin[j].syn \/ origin[j].key \in reset
===============================================================================
