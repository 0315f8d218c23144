------------------------------- MODULE Counters -------------------------------
(***************************************************************************)
(* The traffic counters of src/state.rs: Metrics::record_messages called   *)
(* by the pumps (one per connection and direction), the rate sampler       *)
(* thread (sample_rates, spawn_rate_sampler, Drop for RateSampler) and the *)
(* counters a snapshot loads of the connections the registry retains then. *)
(* Every fetch_add and every load of a relaxed atomic is a step of its     *)
(* own.  Counters are u64 in the code; they do not reach their limit here. *)
(* Of the registry, whose own module is ConnRegistry, it only matters here *)
(* which connections it retains.                                           *)
(***************************************************************************)
EXTENDS Integers, Sequences, FiniteSetsExt, Functions

CONSTANTS
    Conns,          \* connections
    Dirs,           \* traffic directions that carry messages
    Batches,        \* what a drain may report: records [msgs, bytes]
    MaxRecords,     \* bound: batches recorded
    RateHistory,    \* rate_history (--rate-history)
    MaxReads        \* bound: samples and snapshots taken

Fields == {"msgs", "bytes"}
Cells  == Dirs \X Fields        \* msgs_in, bytes_in, msgs_out, bytes_out
Pumps  == Conns \X Dirs

\* A drain reads a bounded buffer, so there is a largest batch of each kind.
ASSUME CountersAssumption ==
    /\ IsFiniteSet(Conns)
    /\ Dirs # {} /\ Batches # {} /\ RateHistory \in Nat \ {0}
    /\ MaxRecords \in Nat /\ MaxReads \in Nat
    /\ Batches \subseteq [msgs : Nat \ {0}, bytes : Nat]
    /\ \A f \in Fields : \E b \in Batches : \A o \in Batches : b[f] >= o[f]

VARIABLES
    registry,   \* a connection is "new", "retained" or "evicted"
    total,      \* Metrics.msgs_in ..: cell -> count
    stat,       \* ConnStats.msgs_in ..: connection -> cell -> count
    pump,       \* per pump: the batch being recorded and the fetch_adds done
    recorded,   \* batches begun
    sampler,    \* the sampler thread: "waiting", "loading", "exited"
    loaded,     \* what totals() has loaded so far in the sampler
    previous,   \* RateHistory.previous
    samples,    \* RateHistory.samples
    sampled,    \* history: sum of every sample ever taken, trimmed ones included
    ticks,      \* samples taken
    guard,      \* the RateSampler value: "held", "stopping" (in drop), "joined"
    view,       \* snapshot(): stage "idle", "summed", "listing" (it holds the
                \* registry lock); totals loaded; entries listed; their counters
    views       \* snapshots begun

recVars  == <<total, stat, pump, recorded>>
rateVars == <<sampler, loaded, previous, samples, sampled, ticks, guard>>
viewVars == <<view, views>>
vars == <<registry, recVars, rateVars, viewVars>>

Zero == [x \in Cells |-> 0]
NoBatch == [msgs |-> 0, bytes |-> 0]
NoView == [stage |-> "idle", total |-> Zero, list |-> {}, stat |-> << >>]

-----------------------------------------------------------------------------
(* The registry                                                            *)

\* Metrics::snapshot holds the lock while it walks the entries.
RegistryFree == view.stage # "listing"

\* open_connection inserts a record whose counters are zero.
OpenConn(c) ==
    /\ registry[c] = "new"
    /\ RegistryFree
    /\ registry' = [registry EXCEPT ![c] = "retained"]
    /\ UNCHANGED <<recVars, rateVars, viewVars>>

\* close_connection removes an entry.  It is that of a closed connection, not
\* always of its own, and open as well as closed ones are retained until then:
\* which one goes, and when, is the subject of ConnRegistry; here it may be any.
EvictConn(c) ==
    /\ registry[c] = "retained"
    /\ RegistryFree
    /\ registry' = [registry EXCEPT ![c] = "evicted"]
    /\ UNCHANGED <<recVars, rateVars, viewVars>>

-----------------------------------------------------------------------------
(* Metrics::record_messages                                                *)

\* A drain decoded messages and the pump calls record_messages.  It holds the
\* record itself: what trails a close is counted as well, evicted or not.
BeginRecord(p, b) ==
    /\ registry[p[1]] # "new"
    /\ pump[p].step = 0
    /\ recorded < MaxRecords
    /\ pump' = [pump EXCEPT ![p] = [step |-> 1, batch |-> b]]
    /\ recorded' = recorded + 1
    /\ UNCHANGED <<registry, total, stat, rateVars, viewVars>>

\* Mutant: the byte total is counted under the other field.
AddTotalMixed(p) ==
    LET c == p[1]  d == p[2]  b == pump[p].batch
    IN  /\ pump[p].step \in {1, 2}
        /\ total' = [total EXCEPT ![<<d, "msgs">>] =
                        @ + b[IF pump[p].step = 1 THEN "msgs" ELSE "bytes"]]
        /\ pump' = [pump EXCEPT ![p].step = @ + 1]
        /\ UNCHANGED <<registry, stat, recorded, rateVars, viewVars>>

\* The first two fetch_adds: the aggregate messages, then the aggregate bytes.
AddTotal(p) ==
    LET d == p[2]
        f == IF pump[p].step = 1 THEN "msgs" ELSE "bytes"
    IN  /\ pump[p].step \in {1, 2}
        /\ total' = [total EXCEPT ![<<d, f>>] = @ + pump[p].batch[f]]
        /\ pump' = [pump EXCEPT ![p].step = @ + 1]
        /\ UNCHANGED <<registry, stat, recorded, rateVars, viewVars>>

\* Mutant: the connection's bytes are not counted.
AddStatMsgsOnly(p) ==
    LET f == "msgs"
    IN  /\ pump[p].step \in {3, 4}
        /\ stat' = IF pump[p].step = 3
                   THEN [stat EXCEPT ![p[1]][<<p[2], f>>] = @ + pump[p].batch[f]] ELSE stat
        /\ pump' = [pump EXCEPT ![p] =
                       IF @.step = 3 THEN [@ EXCEPT !.step = 4]
                       ELSE [step |-> 0, batch |-> NoBatch]]
        /\ UNCHANGED <<registry, total, recorded, rateVars, viewVars>>

\* The last two: the connection's messages, then its bytes; then return.
AddStat(p) ==
    LET c == p[1]
        d == p[2]
        f == IF pump[p].step = 3 THEN "msgs" ELSE "bytes"
    IN  /\ pump[p].step \in {3, 4}
        /\ stat' = [stat EXCEPT ![c][<<d, f>>] = @ + pump[p].batch[f]]
        /\ pump' = [pump EXCEPT ![p] =
                       IF @.step = 3 THEN [@ EXCEPT !.step = 4]
                       ELSE [step |-> 0, batch |-> NoBatch]]
        /\ UNCHANGED <<registry, total, recorded, rateVars, viewVars>>

-----------------------------------------------------------------------------
(* The rate sampler thread                                                 *)

\* recv_timeout times out: sample_rates is called.
Tick ==
    /\ sampler = "waiting"
    /\ guard = "held"
    /\ ticks + views < MaxReads
    /\ sampler' = "loading"
    /\ ticks' = ticks + 1
    /\ loaded' = << >>
    /\ UNCHANGED <<registry, recVars, previous, samples, sampled, guard, viewVars>>

\* One load of totals(); relaxed loads of different atomics are not ordered.
LoadCell(x) ==
    /\ sampler = "loading"
    /\ x \notin DOMAIN loaded
    /\ loaded' = [y \in DOMAIN loaded \cup {x} |-> IF y = x THEN total[x] ELSE loaded[y]]
    /\ UNCHANGED <<registry, recVars, sampler, previous, samples, sampled, ticks, guard, viewVars>>

\* u64::saturating_sub.
SaturatingSub(a, b) == IF a >= b THEN a - b ELSE 0

\* `while samples.len() > rate_history { pop_front }`.
Trim(s) == IF Len(s) > RateHistory THEN SubSeq(s, Len(s) - RateHistory + 1, Len(s)) ELSE s

\* Mutant: previous is not updated.
CommitStale ==
    LET sample == [x \in Cells |-> SaturatingSub(loaded[x], previous[x])]
    IN  /\ sampler = "loading" /\ DOMAIN loaded = Cells
        /\ samples' = Trim(Append(samples, sample))
        /\ sampled' = [x \in Cells |-> sampled[x] + sample[x]]
        /\ sampler' = "waiting"
        /\ UNCHANGED <<registry, recVars, loaded, previous, ticks, guard, viewVars>>

\* Under the rates lock: the sample is the distance from the previous totals,
\* previous moves on, the history is trimmed.
Commit ==
    LET sample == [x \in Cells |-> SaturatingSub(loaded[x], previous[x])]
    IN  /\ sampler = "loading" /\ DOMAIN loaded = Cells
        /\ previous' = loaded
        /\ samples' = Trim(Append(samples, sample))
        /\ sampled' = [x \in Cells |-> sampled[x] + sample[x]]
        /\ sampler' = "waiting"
        /\ UNCHANGED <<registry, recVars, loaded, ticks, guard, viewVars>>

\* Drop for RateSampler: the stop sender is dropped, then the thread is joined.
DropGuard ==
    /\ guard = "held"
    /\ guard' = "stopping"
    /\ UNCHANGED <<registry, recVars, sampler, loaded, previous, samples, sampled, ticks, viewVars>>

\* Mutant: the thread only looks at the channel when it is not disconnected.
SamplerIgnoresStop ==
    /\ sampler = "waiting"
    /\ guard = "never"
    /\ sampler' = "exited"
    /\ UNCHANGED <<registry, recVars, loaded, previous, samples, sampled, ticks, guard, viewVars>>

\* recv_timeout reports the disconnected channel: the loop ends.
SamplerExits ==
    /\ sampler = "waiting"
    /\ guard = "stopping"
    /\ sampler' = "exited"
    /\ UNCHANGED <<registry, recVars, loaded, previous, samples, sampled, ticks, guard, viewVars>>

\* `thread.join()` returns.
Join ==
    /\ guard = "stopping"
    /\ sampler = "exited"
    /\ guard' = "joined"
    /\ UNCHANGED <<registry, recVars, sampler, loaded, previous, samples, sampled, ticks, viewVars>>

-----------------------------------------------------------------------------
(* Metrics::snapshot                                                       *)

\* summary(): the aggregate cells are loaded first.  The loads of a step are
\* one by one in the code; no property relates two cells of a snapshot.
ViewTotals ==
    /\ ticks + views < MaxReads
    /\ view.stage = "idle"
    /\ view' = [view EXCEPT !.stage = "summed", !.total = total]
    /\ views' = views + 1
    /\ UNCHANGED <<registry, recVars, rateVars>>

\* Then the registry is locked, and only the connections in it are listed.
ViewLock ==
    /\ view.stage = "summed"
    /\ view' = [view EXCEPT !.stage = "listing",
                            !.list = {c \in Conns : registry[c] = "retained"}]
    /\ UNCHANGED <<registry, recVars, rateVars, views>>

\* Mutant: the aggregates are loaded after the connections.
ViewStatFirst(c) ==
    /\ view.stage = "listing"
    /\ c \in view.list \ DOMAIN view.stat
    /\ view' = [view EXCEPT !.stat =
                   [e \in DOMAIN @ \cup {c} |-> IF e = c THEN stat[c] ELSE @[e]],
                            !.total = total]
    /\ UNCHANGED <<registry, recVars, rateVars, views>>

\* Listed connection by listed connection, their counters are loaded.
ViewStat(c) ==
    /\ view.stage = "listing"
    /\ c \in view.list \ DOMAIN view.stat
    /\ view' = [view EXCEPT !.stat =
                   [e \in DOMAIN @ \cup {c} |-> IF e = c THEN stat[c] ELSE @[e]]]
    /\ UNCHANGED <<registry, recVars, rateVars, views>>

\* The lock is released and the snapshot is shown.
ViewShown ==
    /\ view.stage = "listing" /\ DOMAIN view.stat = view.list
    /\ view' = NoView
    /\ UNCHANGED <<registry, recVars, rateVars, views>>

-----------------------------------------------------------------------------
Init ==
    /\ registry = [c \in Conns |-> "new"]
    /\ total = Zero
    /\ stat = [c \in Conns |-> Zero]
    /\ pump = [p \in Pumps |-> [step |-> 0, batch |-> NoBatch]]
    /\ recorded = 0
    /\ sampler = "waiting"
    /\ loaded = << >>
    /\ previous = Zero
    /\ samples = << >>
    /\ sampled = Zero
    /\ ticks = 0
    /\ guard = "held"
    /\ view = NoView
    /\ views = 0

Sampling == (\E x \in Cells : LoadCell(x)) \/ Commit \/ SamplerExits

Next ==
    \/ \E c \in Conns : OpenConn(c) \/ EvictConn(c)
    \/ \E p \in Pumps : (\E b \in Batches : BeginRecord(p, b)) \/ AddTotal(p) \/ AddStat(p)
    \/ Tick
    \/ Sampling
    \/ DropGuard
    \/ Join
    \/ ViewTotals
    \/ ViewLock
    \/ \E c \in Conns : ViewStat(c)
    \/ ViewShown

Spec == Init /\ [][Next]_vars

\* The sampler thread and the thread that drops its guard keep running.
FairSpec == Spec /\ WF_vars(Sampling) /\ WF_vars(Join)

-----------------------------------------------------------------------------
(* Properties.                                                             *)

\* The part of pump p's batch that is in the aggregate but not yet in the
\* connection's counter.
InFlight(p, f) ==
    LET added == IF f = "msgs" THEN {2, 3} ELSE {3, 4}
    IN  IF pump[p].step \in added THEN pump[p].batch[f] ELSE 0

\* Nothing is counted twice, lost, or under the wrong direction: every
\* aggregate counter is the sum of the connections' counters plus exactly what
\* record_messages calls in progress still owe.
TotalsAccountForConns ==
    \A d \in Dirs, f \in Fields :
        total[<<d, f>>] =
            SumFunction([c \in Conns |-> stat[c][<<d, f>>] + InFlight(<<c, d>>, f)])

\* The rate samples add up: although the totals are loaded one by one before
\* the lock is taken, every message recorded up to the previous totals is in
\* exactly one sample, and none is in a sample before it is in the totals.  No
\* more than RateHistory samples are kept.
SamplesAddUp ==
    /\ \A x \in Cells : sampled[x] = previous[x] /\ previous[x] <= total[x]
    /\ Len(samples) <= RateHistory

\* "Dropping the returned guard stops and joins the thread": drop returns even
\* when a sample is being taken.
DropJoins == guard = "stopping" ~> guard = "joined"

\* The most that one record_messages call adds to a counter.
LargestBatch(f) == Max({b[f] : b \in Batches})

\* What a complete snapshot has to show of connection c for its totals to be
\* accounted for: a listed connection with the one batch that may not have
\* reached it, and an evicted one, which is not shown, with all it has counted.
Accounted(c, x) ==
    IF c \in view.list THEN view.stat[c][x] + LargestBatch(x[2])
    ELSE IF registry[c] = "evicted" THEN stat[c][x] + InFlight(<<c, x[1]>>, x[2])
    ELSE 0

\* The aggregates of a snapshot are never ahead of the connections by more than
\* what evicted connections counted and one batch per pump of a listed one,
\* however many batches are recorded, and connections opened, closed and
\* evicted, while it is taken: it loads the aggregates first and lists the
\* registry under its lock, so no connection that counts is missed.
SnapshotNearlyAgrees ==
    view.stage = "listing" /\ DOMAIN view.stat = view.list =>
        \A x \in Cells : view.total[x] <= SumFunction([c \in Conns |-> Accounted(c, x)])
===============================================================================
