----------------------------- MODULE ConnRegistry -----------------------------
(***************************************************************************)
(* The connection registry of src/state.rs: Metrics::open_connection,      *)
(* Metrics::close_connection and the part of Metrics::snapshot that lists  *)
(* connections.  Each connection has a source thread (a proxy task, or the *)
(* capture thread) that opens it once and closes it once or twice; the TUI *)
(* thread takes snapshots meanwhile.  Atomic counters and the two kinds of *)
(* mutex (one registry lock, one lifecycle lock per connection) are        *)
(* separate steps, so every interleaving of the threads is explored.       *)
(***************************************************************************)
EXTENDS Integers, Sequences, FiniteSets

CONSTANTS
    Conns,      \* the connections that are opened, one source thread each
    Cap,        \* connection_cap (--conn-history)
    MaxViews    \* bound: snapshots the TUI takes

ASSUME RegistryAssumption ==
    /\ IsFiniteSet(Conns)
    /\ Cap \in Nat
    /\ MaxViews \in Nat

VARIABLES
    next_conn_id,   \* Metrics.next_conn_id
    id,             \* ConnStats.id of each connection; 0 before it is allocated
    lifecycle,      \* ConnStats.lifecycle: "open" or "closed"
    life_lock,      \* TRUE: the mutex of lifecycle is held by the closing thread
    entries,        \* Registry.entries: the retained ids
    closed,         \* Registry.closed: ids in the order they were closed
    registry_lock,  \* holder of the mutex Metrics.conns: "free", "source" or "tui"
    conns_opened,   \* Metrics.conns_opened
    conns_live,     \* Metrics.conns_live
    pc,             \* where the source thread of each connection is
    todo,           \* ids the snapshot still has to copy
    listed,         \* <<id, lifecycle>> pairs the snapshot has copied
    views           \* snapshots finished

viewVars   == <<todo, listed, views>>
sourceVars == <<next_conn_id, id, lifecycle, life_lock, entries, closed,
                conns_opened, conns_live, pc>>
vars == <<sourceVars, registry_lock, viewVars>>

\* Locations of a source thread.
Stages == {"new", "allocated", "inserted", "open", "closing",
           "marked", "uncounted", "closed", "reclosing", "done"}

-----------------------------------------------------------------------------
(* Metrics::open_connection                                                *)

\* `next_conn_id.fetch_add(1)` and the new ConnStats.
AllocId(c) ==
    /\ pc[c] = "new"
    /\ id' = [id EXCEPT ![c] = next_conn_id]
    /\ next_conn_id' = next_conn_id + 1
    /\ pc' = [pc EXCEPT ![c] = "allocated"]
    /\ UNCHANGED <<lifecycle, life_lock, entries, closed, registry_lock,
                   conns_opened, conns_live, viewVars>>

\* Lock the registry, insert, count the connection as opened.
InsertEntry(c) ==
    /\ pc[c] = "allocated"
    /\ registry_lock = "free"
    /\ registry_lock' = "source"
    /\ entries' = entries \cup {id[c]}
    /\ conns_opened' = conns_opened + 1
    /\ pc' = [pc EXCEPT ![c] = "inserted"]
    /\ UNCHANGED <<next_conn_id, id, lifecycle, life_lock, closed, conns_live, viewVars>>

\* Count it as live; the guard of the registry lock is dropped on return.
CountLive(c) ==
    /\ pc[c] = "inserted"
    /\ conns_live' = conns_live + 1
    /\ registry_lock' = "free"
    /\ pc' = [pc EXCEPT ![c] = "open"]
    /\ UNCHANGED <<next_conn_id, id, lifecycle, life_lock, entries, closed,
                   conns_opened, viewVars>>

-----------------------------------------------------------------------------
(* Metrics::close_connection                                               *)

\* Lock the lifecycle.  The pcap source may close a connection twice: on FIN,
\* and again when a RST removes the entry.
LockLifecycle(c) ==
    /\ pc[c] \in {"open", "closed"}
    /\ ~life_lock[c]
    /\ life_lock' = [life_lock EXCEPT ![c] = TRUE]
    /\ pc' = [pc EXCEPT ![c] = IF pc[c] = "open" THEN "closing" ELSE "reclosing"]
    /\ UNCHANGED <<next_conn_id, id, lifecycle, entries, closed, registry_lock,
                   conns_opened, conns_live, viewVars>>

\* Mutant: the lifecycle guard is not dropped before the registry is locked.
MarkClosedHolding(c) ==
    /\ pc[c] = "closing"
    /\ lifecycle[c] = "open"
    /\ lifecycle' = [lifecycle EXCEPT ![c] = "closed"]
    /\ pc' = [pc EXCEPT ![c] = "marked"]
    /\ UNCHANGED <<next_conn_id, id, life_lock, entries, closed, registry_lock,
                   conns_opened, conns_live, viewVars>>

\* Open becomes Closed and the lifecycle lock is dropped.
MarkClosed(c) ==
    /\ pc[c] \in {"closing", "reclosing"}
    /\ lifecycle[c] = "open"
    /\ lifecycle' = [lifecycle EXCEPT ![c] = "closed"]
    /\ life_lock' = [life_lock EXCEPT ![c] = FALSE]
    /\ pc' = [pc EXCEPT ![c] = "marked"]
    /\ UNCHANGED <<next_conn_id, id, entries, closed, registry_lock,
                   conns_opened, conns_live, viewVars>>

\* Mutant: no early return, the second close is carried out.
CloseTwice(c) ==
    /\ pc[c] \in {"closing", "reclosing"}
    /\ lifecycle[c] = "closed"
    /\ life_lock' = [life_lock EXCEPT ![c] = FALSE]
    /\ pc' = [pc EXCEPT ![c] = "marked"]
    /\ UNCHANGED <<next_conn_id, id, lifecycle, entries, closed, registry_lock,
                   conns_opened, conns_live, viewVars>>

\* Already Closed: return.
AlreadyClosed(c) ==
    /\ pc[c] \in {"closing", "reclosing"}
    /\ lifecycle[c] = "closed"
    /\ life_lock' = [life_lock EXCEPT ![c] = FALSE]
    /\ pc' = [pc EXCEPT ![c] = "done"]
    /\ UNCHANGED <<next_conn_id, id, lifecycle, entries, closed, registry_lock,
                   conns_opened, conns_live, viewVars>>

\* `conns_live.fetch_sub(1)`.
UncountLive(c) ==
    /\ pc[c] = "marked"
    /\ conns_live' = conns_live - 1
    /\ pc' = [pc EXCEPT ![c] = "uncounted"]
    /\ UNCHANGED <<next_conn_id, id, lifecycle, life_lock, entries, closed,
                   registry_lock, conns_opened, viewVars>>

\* The k oldest ids of a queue.
Oldest(q, k) == {q[i] : i \in 1..k}

\* The eviction loop pops k ids of queue q: it runs while more than Cap entries
\* are retained, and breaks when the queue is empty.
Evicts(q, k) ==
    /\ k = Len(q) \/ Cardinality(entries \ Oldest(q, k)) <= Cap
    /\ \A j \in 0..(k - 1) : Cardinality(entries \ Oldest(q, j)) > Cap

\* Mutant: the oldest entries are evicted, closed or not.
RetireOldestEntries(c) ==
    /\ pc[c] = "uncounted"
    /\ registry_lock = "free"
    /\ closed' = Append(closed, id[c])
    /\ entries' = {e \in entries : Cardinality({f \in entries : f > e}) < Cap}
    /\ pc' = [pc EXCEPT ![c] = "closed"]
    /\ UNCHANGED <<next_conn_id, id, lifecycle, life_lock, registry_lock,
                   conns_opened, conns_live, viewVars>>

\* Mutant: the eviction loop is missing.
RetireNoEviction(c) ==
    /\ pc[c] = "uncounted"
    /\ registry_lock = "free"
    /\ closed' = Append(closed, id[c])
    /\ pc' = [pc EXCEPT ![c] = "closed"]
    /\ UNCHANGED <<next_conn_id, id, lifecycle, life_lock, entries, registry_lock,
                   conns_opened, conns_live, viewVars>>

\* Lock the registry, queue the id, evict the oldest closed entries over Cap.
Retire(c) ==
    /\ pc[c] = "uncounted"
    /\ registry_lock = "free"
    /\ LET q == Append(closed, id[c])
       IN  \E k \in 0..Len(q) :
              /\ Evicts(q, k)
              /\ closed' = SubSeq(q, k + 1, Len(q))
              /\ entries' = entries \ Oldest(q, k)
    /\ pc' = [pc EXCEPT ![c] = "closed"]
    /\ UNCHANGED <<next_conn_id, id, lifecycle, life_lock, registry_lock,
                   conns_opened, conns_live, viewVars>>

-----------------------------------------------------------------------------
(* Metrics::snapshot                                                       *)

\* The registry is locked for the whole listing.
StartListing ==
    /\ views < MaxViews
    /\ registry_lock = "free"
    /\ registry_lock' = "tui"
    /\ todo' = entries
    /\ listed' = {}
    /\ UNCHANGED <<sourceVars, views>>

\* One entry is copied; its lifecycle lock is taken for the copy.
ListEntry(c) ==
    /\ id[c] \in todo
    /\ ~life_lock[c]
    /\ todo' = todo \ {id[c]}
    /\ listed' = listed \cup {<<id[c], lifecycle[c]>>}
    /\ UNCHANGED <<sourceVars, registry_lock, views>>

\* `drop(registry)`; the snapshot is returned.
EndListing ==
    /\ registry_lock = "tui"
    /\ todo = {}
    /\ registry_lock' = "free"
    /\ views' = views + 1
    /\ UNCHANGED <<sourceVars, todo, listed>>

-----------------------------------------------------------------------------
Init ==
    /\ next_conn_id = 1
    /\ id = [c \in Conns |-> 0]
    /\ lifecycle = [c \in Conns |-> "open"]
    /\ life_lock = [c \in Conns |-> FALSE]
    /\ entries = {}
    /\ closed = << >>
    /\ registry_lock = "free"
    /\ conns_opened = 0
    /\ conns_live = 0
    /\ pc = [c \in Conns |-> "new"]
    /\ todo = {}
    /\ listed = {}
    /\ views = 0

\* What the source thread of c does on its own once it has begun to open or
\* to close; when it closes is up to the traffic.
Opening(c) == InsertEntry(c) \/ CountLive(c)
Closing(c) == MarkClosed(c) \/ AlreadyClosed(c) \/ UncountLive(c) \/ Retire(c)
Listing    == (\E c \in Conns : ListEntry(c)) \/ EndListing

Next ==
    \/ \E c \in Conns : AllocId(c) \/ Opening(c) \/ LockLifecycle(c) \/ Closing(c)
    \/ StartListing
    \/ Listing

Spec == Init /\ [][Next]_vars

\* Every thread that has begun an operation keeps running.
FairSpec ==
    /\ Spec
    /\ \A c \in Conns : WF_vars(Opening(c)) /\ WF_vars(Closing(c))
    /\ WF_vars(Listing)

-----------------------------------------------------------------------------
(* Properties.                                                             *)

\* Type invariant; conns_live is a usize and must not be taken below zero.
TypeOK ==
    /\ next_conn_id \in Nat \ {0}
    /\ id \in [Conns -> Nat]
    /\ lifecycle \in [Conns -> {"open", "closed"}]
    /\ life_lock \in [Conns -> BOOLEAN]
    /\ entries \in SUBSET Nat
    /\ closed \in Seq(Nat)
    /\ registry_lock \in {"free", "source", "tui"}
    /\ conns_opened \in Nat
    /\ conns_live \in Nat
    /\ pc \in [Conns -> Stages]
    /\ todo \in SUBSET Nat
    /\ listed \in SUBSET (Nat \X {"open", "closed"})
    /\ views \in Nat

\* The connections counted by conns_live: from CountLive to UncountLive.
CountedLive == {c \in Conns : pc[c] \in {"open", "closing", "marked"}}

\* conns_live is exactly the number of connections between their count-up and
\* their count-down: closing twice (FIN, then RST) subtracts once.
LiveCount == conns_live = Cardinality(CountedLive)

\* "Open connections are never evicted" (src/cli.rs:78): whatever the other
\* connections do, a connection that is not closed keeps its record.
OpenNeverEvicted ==
    \A c \in Conns :
        pc[c] \in {"inserted", "open", "closing", "marked", "uncounted"} =>
            id[c] \in entries

\* The eviction queue holds each closed and retained connection once, so that
\* popping it always frees a record, and at most Cap of them, however many come
\* and go.
ClosedQueue ==
    /\ \A i, j \in 1..Len(closed) : closed[i] = closed[j] => i = j
    /\ \A i \in 1..Len(closed) :
          /\ closed[i] \in entries
          /\ \E c \in Conns : id[c] = closed[i] /\ lifecycle[c] = "closed"
    /\ Len(closed) <= Cap

\* The registry lock (held by a snapshot that waits for lifecycle locks) and the
\* lifecycle locks are never waited for in a circle: a close that took the
\* lifecycle lock returns, and a snapshot that locked the registry releases it.
OperationsReturn ==
    /\ \A c \in Conns : pc[c] = "closing" ~> pc[c] = "closed"
    /\ registry_lock = "tui" ~> registry_lock = "free"
===============================================================================
