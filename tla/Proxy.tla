--------------------------------- MODULE Proxy ---------------------------------
(***************************************************************************)
(* One connection of the MITM proxy (src/proxy.rs): handle_connection from *)
(* accept to return, the two pump tasks it spawns, selects on and aborts,  *)
(* and raw_relay.  The client and the upstream server are external: they   *)
(* send, answer, close and fail whenever their protocol lets them.         *)
(*                                                                         *)
(* What a side sends is a sequence of units, and a unit on its way is its  *)
(* position in that sequence, so that what was decoded and what was        *)
(* written tell which bytes they are.  The client's first unit is the      *)
(* 8-byte head that handle_connection reads before it decides anything.    *)
(* Units are plaintext.  On a TLS leg a unit that the stream has accepted  *)
(* may stay in the session's buffer until more is written or the stream is *)
(* shut down: nothing in the code flushes.                                 *)
(***************************************************************************)
EXTENDS Integers, Sequences

CONSTANTS
    Scripts,        \* what the client may send: sequences of units
    Upstream,       \* units the server sends at most
    ReplyBytes,     \* the server's answers to the TLS probe: "S", "N", "E", "eof"
    NoUpstreamTls,  \* the settings of opts.no_upstream_tls
    MaxRead,        \* units a read returns at most
    TlsBuffer       \* units a TLS session holds back at most

Heads == {"cancel", "ssl", "gss", "startup"}

ASSUME ProxyAssumption ==
    /\ \A s \in Scripts : s # << >> /\ s[1] \in Heads
    /\ Upstream \in Nat \ {0} /\ MaxRead \in Nat \ {0} /\ TlsBuffer \in Nat
    /\ ReplyBytes \subseteq {"S", "N", "E", "eof"}
    /\ NoUpstreamTls \subseteq BOOLEAN

Pumps == {"to_server", "to_client"}
Other(p) == IF p = "to_server" THEN "to_client" ELSE "to_server"

VARIABLES
    script,     \* what the client wants to send
    pc,         \* where handle_connection is
    record,     \* the registry record of the connection: "open", "closed"
    server_tls, \* the upstream leg is a TLS stream
    lost,       \* history: units of the server that were taken for the answer to the probe
    sent,       \* pump -> units its source has sent
    read,       \* pump -> units read from its source, by the handler or the pump
    eof,        \* pump -> its source closed
    stalled,    \* pump -> the peer behind its sink has stopped reading, for good
    pump,       \* pump -> "idle", "reading", "writing", "closing", "done", "cancelled"
    chunk,      \* pump -> units read and not yet written
    decoded,    \* pump -> units given to its decoder
    written,    \* pump -> units its sink has accepted
    flushed,    \* pump -> how many of those are on their way to the peer
    shut        \* pump -> the sink was shut down

envVars  == <<script, sent, eof, stalled>>
sinkVars == <<written, flushed>>
pumpVars == <<pump, chunk, decoded, shut>>
vars == <<script, pc, record, server_tls, lost, sent, read, eof, stalled, pump, chunk,
          decoded, written, flushed, shut>>

Head1 == script[1]

\* The legs that are TLS, and the units a leg may hold back.
Tls(p) == IF p = "to_server" THEN server_tls ELSE Head1 = "ssl"
Window(p) == IF Tls(p) THEN TlsBuffer ELSE 0

\* poll_write of a stream that will then have accepted n units: it takes them when
\* the session has room, and passes on as many as the socket takes, none if the
\* peer has stopped reading.
Accepts(p, n) ==
    \E m \in flushed[p]..n :
        /\ n - m <= Window(p)
        /\ stalled[p] => m = flushed[p]
        /\ flushed' = [flushed EXCEPT ![p] = m]

-----------------------------------------------------------------------------
(* The client and the server (external).                                   *)

\* A client waits for the answer to its request.
MaySend(n) ==
    CASE n = 1 -> TRUE
      [] n = 2 /\ Head1 = "ssl" -> pc \notin {"head", "accept_tls"}
      [] n = 2 /\ Head1 = "gss" -> pc # "head"
      [] OTHER -> TRUE

ClientSends ==
    /\ ~eof.to_server
    /\ sent.to_server < Len(script)
    /\ MaySend(sent.to_server + 1)
    /\ sent' = [sent EXCEPT !.to_server = @ + 1]
    /\ UNCHANGED <<script, pc, record, server_tls, lost, read, eof, stalled, pumpVars,
                   sinkVars>>

\* The client closes, at any time.
ClientCloses ==
    /\ ~eof.to_server
    /\ eof' = [eof EXCEPT !.to_server = TRUE]
    /\ UNCHANGED <<script, pc, record, server_tls, lost, sent, read, stalled, pumpVars,
                   sinkVars>>

ServerSends ==
    /\ pc = "pumping"
    /\ ~eof.to_client
    /\ sent.to_client < Upstream
    /\ sent' = [sent EXCEPT !.to_client = @ + 1]
    /\ UNCHANGED <<script, pc, record, server_tls, lost, read, eof, stalled, pumpVars,
                   sinkVars>>

ServerCloses ==
    /\ pc \in {"pumping", "relay"}
    /\ ~eof.to_client
    /\ eof' = [eof EXCEPT !.to_client = TRUE]
    /\ UNCHANGED <<script, pc, record, server_tls, lost, sent, read, stalled, pumpVars,
                   sinkVars>>

\* The peer that pump p writes to stops reading, for good: the socket is full.
StopsReading(p) ==
    /\ pc \in {"pumping", "relay"}
    /\ ~stalled[p]
    /\ stalled' = [stalled EXCEPT ![p] = TRUE]
    /\ UNCHANGED <<script, pc, record, server_tls, lost, sent, read, eof, pumpVars, sinkVars>>

-----------------------------------------------------------------------------
(* handle_connection                                                       *)

\* Return, with or without an error: the ConnectionGuard is dropped, which
\* calls close_connection.
Return == pc' = "returned" /\ record' = "closed"

\* The 8 bytes are read; an SSL or GSS request is answered, and consumed.
ReadHead ==
    /\ pc = "head"
    /\ sent.to_server > 0
    /\ read' = [read EXCEPT !.to_server = 1]
    /\ \/ /\ pc' = CASE Head1 = "cancel" -> "connect_cancel"
                     [] Head1 = "ssl" -> "accept_tls"
                     [] OTHER -> "connect"
          /\ UNCHANGED record
       \/ Head1 \in {"ssl", "gss"} /\ eof.to_server /\ Return     \* the answer cannot be written
    /\ UNCHANGED <<envVars, server_tls, lost, pumpVars, sinkVars>>

\* Fewer than 8 bytes before the end: nothing to tap.
HeadMissing ==
    /\ pc = "head"
    /\ sent.to_server = 0 /\ eof.to_server
    /\ Return
    /\ UNCHANGED <<envVars, server_tls, lost, read, pumpVars, sinkVars>>

\* A cancel request: connect, write the head, relay.
ConnectCancel ==
    /\ pc = "connect_cancel"
    /\ \/ /\ pc' = "relay"
          /\ written' = [written EXCEPT !.to_server = <<1>>]
          /\ Accepts("to_server", 1)
          /\ pump' = [p \in Pumps |-> "reading"]
          /\ UNCHANGED record
       \/ Return /\ UNCHANGED <<sinkVars, pump>>
    /\ UNCHANGED <<envVars, server_tls, lost, read, chunk, decoded, shut>>

\* The TLS handshake with the client.
AcceptTls ==
    /\ pc = "accept_tls"
    /\ (pc' = "connect" /\ UNCHANGED record) \/ Return
    /\ UNCHANGED <<envVars, server_tls, lost, read, pumpVars, sinkVars>>

\* Connect upstream and, unless told not to, send the TLS probe.
ConnectUpstream ==
    /\ pc = "connect"
    /\ \/ /\ \E no_tls \in NoUpstreamTls : pc' = IF no_tls THEN "initial" ELSE "probe"
          /\ UNCHANGED record
       \/ Return
    /\ UNCHANGED <<envVars, server_tls, lost, read, pumpVars, sinkVars>>

\* The one-byte answer.  'S': a TLS handshake follows.  Anything else, the end
\* of the stream included: stay in cleartext; the byte read is gone.  The 'E'
\* of an error message is the first unit of what the server sends.
ProbeReply(b) ==
    /\ pc = "probe"
    /\ pc' = IF b = "S" THEN "connect_tls" ELSE "initial"
    /\ sent' = [sent EXCEPT !.to_client = IF b = "E" THEN 1 ELSE @]
    /\ read' = [read EXCEPT !.to_client = IF b = "E" THEN 1 ELSE @]
    /\ lost' = IF b = "E" THEN 1 ELSE 0
    /\ eof' = [eof EXCEPT !.to_client = (b = "eof")]
    /\ UNCHANGED <<script, record, server_tls, stalled, pumpVars, sinkVars>>

ConnectTls ==
    /\ pc = "connect_tls"
    /\ \/ pc' = "initial" /\ server_tls' = TRUE /\ UNCHANGED record
       \/ Return /\ UNCHANGED server_tls
    /\ UNCHANGED <<envVars, lost, read, pumpVars, sinkVars>>

\* `initial`: the head, unless it was a request that was answered here.
Initial == IF Head1 = "startup" THEN <<1>> ELSE << >>

\* Mutant: the head is decoded and not forwarded.
StartPumpsUnforwarded ==
    /\ pc = "initial"
    /\ \/ /\ pc' = "pumping"
          /\ decoded' = [decoded EXCEPT !.to_server = Initial]
          /\ pump' = [p \in Pumps |-> "reading"]
          /\ UNCHANGED <<record, sinkVars>>
       \/ Initial # << >> /\ Return /\ UNCHANGED <<sinkVars, pump, decoded>>
    /\ UNCHANGED <<envVars, server_tls, lost, read, chunk, shut>>

\* The head is written upstream, then both pumps are spawned; the client's
\* pump starts with the head in its decoder.
StartPumps ==
    /\ pc = "initial"
    /\ \/ /\ pc' = "pumping"
          /\ written' = [written EXCEPT !.to_server = Initial]
          /\ Accepts("to_server", Len(Initial))
          /\ decoded' = [decoded EXCEPT !.to_server = Initial]
          /\ pump' = [p \in Pumps |-> "reading"]
          /\ UNCHANGED record
       \/ Initial # << >> /\ Return /\ UNCHANGED <<sinkVars, pump, decoded>>
    /\ UNCHANGED <<envVars, server_tls, lost, read, chunk, shut>>

-----------------------------------------------------------------------------
(* pump                                                                    *)

\* Pumps are tasks: once spawned they run until they finish or stop aborted.
Pumping == pc # "relay"

\* n units are read, decoded and counted.
PumpReads(p, n) ==
    LET got == [i \in 1..n |-> read[p] + i]
    IN  /\ Pumping /\ pump[p] = "reading"
        /\ read[p] + n <= sent[p]
        /\ read' = [read EXCEPT ![p] = @ + n]
        /\ decoded' = [decoded EXCEPT ![p] = @ \o got]
        /\ chunk' = [chunk EXCEPT ![p] = got]
        /\ pump' = [pump EXCEPT ![p] = "writing"]
        /\ UNCHANGED <<envVars, pc, record, server_tls, lost, sinkVars, shut>>

\* Mutant: after the first write everything decoded so far is written again.
PumpWritesAll(p) ==
    /\ Pumping /\ pump[p] = "writing"
    /\ written' = [written EXCEPT ![p] = @ \o decoded[p]]
    /\ Accepts(p, Len(written'[p]))
    /\ pump' = [pump EXCEPT ![p] = "reading"]
    /\ chunk' = [chunk EXCEPT ![p] = << >>]
    /\ UNCHANGED <<envVars, pc, record, server_tls, lost, read, decoded, shut>>

\* write_all hands over the units, as many at a time as the sink takes (here one),
\* and the loop reads on after the last, without a flush; it waits while the sink
\* takes none, and if the sink's peer is gone, it may fail.
PumpWrites(p) ==
    /\ Pumping /\ pump[p] = "writing"
    /\ \/ /\ written' = [written EXCEPT ![p] = Append(@, Head(chunk[p]))]
          /\ Accepts(p, Len(written[p]) + 1)
          /\ chunk' = [chunk EXCEPT ![p] = Tail(@)]
          /\ pump' = [pump EXCEPT ![p] = IF Len(chunk[p]) = 1 THEN "reading" ELSE @]
       \/ /\ eof[Other(p)]
          /\ chunk' = [chunk EXCEPT ![p] = << >>]
          /\ pump' = [pump EXCEPT ![p] = "done"]
          /\ UNCHANGED sinkVars
    /\ UNCHANGED <<envVars, pc, record, server_tls, lost, read, decoded, shut>>

\* The source went away with an error: `?` returns, the sink is not shut down.
PumpReadFails(p) ==
    /\ Pumping /\ pump[p] = "reading"
    /\ eof[p]
    /\ pump' = [pump EXCEPT ![p] = "done"]
    /\ UNCHANGED <<envVars, pc, record, server_tls, lost, read, chunk, decoded, sinkVars, shut>>

\* The source ended.
PumpEof(p) ==
    /\ Pumping /\ pump[p] = "reading"
    /\ eof[p] /\ read[p] = sent[p]
    /\ pump' = [pump EXCEPT ![p] = "closing"]
    /\ UNCHANGED <<envVars, pc, record, server_tls, lost, read, chunk, decoded, sinkVars, shut>>

\* Mutant: the sink is dropped, not shut down.
PumpDropsSink(p) ==
    /\ Pumping /\ pump[p] = "closing"
    /\ pump' = [pump EXCEPT ![p] = "done"]
    /\ UNCHANGED <<envVars, pc, record, server_tls, lost, read, chunk, decoded, sinkVars, shut>>

\* The sink is shut down, and the pump finishes.  A TLS session first writes what
\* it holds, and waits while the socket takes none; an error is ignored.
PumpShutsDown(p) ==
    /\ Pumping /\ pump[p] = "closing"
    /\ \/ /\ Tls(p) => ~stalled[p]
          /\ flushed' = [flushed EXCEPT ![p] = Len(written[p])]
          /\ shut' = [shut EXCEPT ![p] = TRUE]
       \/ eof[Other(p)] /\ UNCHANGED <<flushed, shut>>
    /\ pump' = [pump EXCEPT ![p] = "done"]
    /\ UNCHANGED <<envVars, pc, record, server_tls, lost, read, chunk, decoded, written>>

\* Mutant: the handler waits for both pumps.
SelectBoth ==
    /\ pc = "pumping"
    /\ \A p \in Pumps : pump[p] = "done"
    /\ pc' = "aborting"
    /\ UNCHANGED <<envVars, record, server_tls, lost, read, pumpVars, sinkVars>>

\* select!: one pump has finished; the other one is told to abort.
SelectFirst ==
    /\ pc = "pumping"
    /\ \E p \in Pumps : pump[p] = "done"
    /\ pc' = "aborting"
    /\ UNCHANGED <<envVars, record, server_tls, lost, read, pumpVars, sinkVars>>

\* The aborted pump stops at its await, whatever it holds.
PumpCancelled(p) ==
    /\ pc \in {"aborting", "returned"}
    /\ pump[p] \in {"reading", "writing", "closing"}
    /\ pump' = [pump EXCEPT ![p] = "cancelled"]
    /\ UNCHANGED <<envVars, pc, record, server_tls, lost, read, chunk, decoded, sinkVars, shut>>

\* Mutant: return without awaiting the aborted pump.
FinishAtOnce ==
    /\ pc = "aborting"
    /\ Return
    /\ UNCHANGED <<envVars, server_tls, lost, read, pumpVars, sinkVars>>

\* The aborted pump was awaited: return.
Finish ==
    /\ pc = "aborting"
    /\ \A p \in Pumps : pump[p] \in {"done", "cancelled"}
    /\ Return
    /\ UNCHANGED <<envVars, server_tls, lost, read, pumpVars, sinkVars>>

-----------------------------------------------------------------------------
(* raw_relay: two copies without decoding, neither shuts its sink down.    *)

CopyMoves(p) ==
    /\ pc = "relay" /\ pump[p] = "reading"
    /\ read[p] < sent[p] /\ ~stalled[p]
    /\ read' = [read EXCEPT ![p] = @ + 1]
    /\ written' = [written EXCEPT ![p] = Append(@, read[p] + 1)]
    /\ flushed' = [flushed EXCEPT ![p] = @ + 1]
    /\ UNCHANGED <<envVars, pc, record, server_tls, lost, pumpVars>>

CopyEof(p) ==
    /\ pc = "relay" /\ pump[p] = "reading"
    /\ eof[p] /\ read[p] = sent[p]
    /\ pump' = [pump EXCEPT ![p] = "done"]
    /\ UNCHANGED <<envVars, pc, record, server_tls, lost, read, chunk, decoded, sinkVars, shut>>

\* try_join!: both copies ended.
RelayEnds ==
    /\ pc = "relay"
    /\ \A p \in Pumps : pump[p] = "done"
    /\ Return
    /\ UNCHANGED <<envVars, server_tls, lost, read, pumpVars, sinkVars>>

\* try_join!: a copy failed (its source was reset, or the peer of its sink is
\* gone when a unit is written), and the other one is dropped.
RelayFails(p) ==
    /\ pc = "relay" /\ pump[p] = "reading"
    /\ eof[p] \/ (read[p] < sent[p] /\ eof[Other(p)])
    /\ Return
    /\ pump' = [q \in Pumps |-> "done"]
    /\ UNCHANGED <<envVars, server_tls, lost, read, chunk, decoded, sinkVars, shut>>

-----------------------------------------------------------------------------
Init ==
    /\ script \in Scripts
    /\ pc = "head"
    /\ record = "open"
    /\ server_tls = FALSE
    /\ lost = 0
    /\ sent = [p \in Pumps |-> 0]
    /\ read = [p \in Pumps |-> 0]
    /\ eof = [p \in Pumps |-> FALSE]
    /\ stalled = [p \in Pumps |-> FALSE]
    /\ pump = [p \in Pumps |-> "idle"]
    /\ chunk = [p \in Pumps |-> << >>]
    /\ decoded = [p \in Pumps |-> << >>]
    /\ written = [p \in Pumps |-> << >>]
    /\ flushed = [p \in Pumps |-> 0]
    /\ shut = [p \in Pumps |-> FALSE]

Handler ==
    \/ ReadHead \/ HeadMissing \/ ConnectCancel \/ AcceptTls \/ ConnectUpstream
    \/ ConnectTls \/ StartPumps \/ SelectFirst \/ Finish \/ RelayEnds

Probe == \E b \in ReplyBytes : ProbeReply(b)

Pump(p) ==
    (\E n \in 1..MaxRead : PumpReads(p, n)) \/ PumpWrites(p) \/ PumpEof(p)
    \/ PumpShutsDown(p) \/ PumpReadFails(p) \/ PumpCancelled(p)

Copy(p) == CopyMoves(p) \/ CopyEof(p) \/ RelayFails(p)

Next ==
    \/ ClientSends \/ ClientCloses \/ ServerSends \/ ServerCloses
    \/ Handler \/ Probe
    \/ \E p \in Pumps : StopsReading(p) \/ Pump(p) \/ Copy(p)

Spec == Init /\ [][Next]_vars

\* The runtime polls every task that can make progress, a write included whose
\* peer reads.  The server answers the probe and completes the TLS handshake, and
\* closes a connection that cancels.
FairSpec ==
    /\ Spec
    /\ WF_vars(Handler)
    /\ WF_vars(Probe)
    /\ \A p \in Pumps : WF_vars(Pump(p)) /\ WF_vars(Copy(p))
    /\ WF_vars(ServerCloses /\ Head1 = "cancel")

-----------------------------------------------------------------------------
(* Properties.                                                             *)

\* The first unit of a stream that is the peer's business: a request the proxy
\* answers itself is not, nor is what was taken for the answer to the probe.
First(p) ==
    CASE p = "to_server" -> IF Head1 \in {"ssl", "gss"} THEN 2 ELSE 1
      [] p = "to_client" -> lost + 1

\* s is a gap-free, repetition-free beginning of what was meant for the peer.
Beginning(s, p) == \A i \in 1..Len(s) : s[i] = First(p) + i - 1

\* "Forward the bytes untouched" and "those bytes were already forwarded ..
\* decoded here but not re-written" (pump): for all ways the connection starts,
\* both what the sink was given and what is decoded is a beginning of the stream of
\* the sender, and, cancel requests aside, nothing is given to the sink that the tap
\* did not decode first.  What has left for the peer is the first flushed[p] of it.
Untouched ==
    /\ \A p \in Pumps : Beginning(written[p], p) /\ Beginning(decoded[p], p)
    /\ Head1 # "cancel" /\ pump.to_server # "idle" =>
          \A p \in Pumps : Len(written[p]) + Len(chunk[p]) <= Len(decoded[p])

\* Nothing is decoded, counted or forwarded for a connection whose record is
\* closed, although pumps are tasks of their own.
QuietAfterClose == [][record = "closed" => UNCHANGED <<decoded, sinkVars>>]_vars

\* "Ensures accepted connections are closed in the registry on every return
\* path" (ConnectionGuard), and a return is reached: once the client has gone,
\* its record is closed, also while the server keeps its side open and while the
\* client's own side takes nothing more.  It is not when the server has stopped
\* reading: the pump then waits in write_all, or in the shutdown of a TLS session.
ClosedWhenClientGone == eof.to_server ~> record = "closed" \/ stalled.to_server

\* What becomes of the client's bytes while the server reads.  Every unit is given
\* to the stream to the server or the connection ends; on a cleartext leg it has
\* then left, on a TLS leg the last ones may wait in the session as long as the
\* client sends no more.  If the client closes they leave as well, unless the
\* server closed or the handler returned first.
ClientHeard ==
    /\ \A n \in UNION {1..Len(s) : s \in Scripts} :
          sent.to_server = n ~>
              \/ /\ Len(written.to_server) + First("to_server") > n
                 /\ server_tls \/ flushed.to_server + First("to_server") > n
              \/ pc = "returned" \/ stalled.to_server
    /\ pump.to_server = "closing" ~>
          \/ flushed.to_server = Len(written.to_server)
          \/ eof.to_client \/ pump.to_server = "cancelled" \/ stalled.to_server
===============================================================================
