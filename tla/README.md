# Verification of tapgres

TLA+ models of [tapgres](../src/README.md), a tool that taps PostgreSQL
connections (by packet capture or as a TLS-terminating proxy), decodes them and
shows, records and replays what was said. The models are translated from the
Rust sources, checked with TLC on small instances, and the safety properties of
all but the filter language are proved with TLAPS for every value of their
constants. `PROJECT.json` maps every definition to the lines it models and lists runs, mutants, findings, hazards and
theorems.

    tlc -workers 2 -config Capture.cfg MCCapture    # a run
    tlapm CaptureProofs.tla                         # a proof

## The system

| Component | State | Operations | Interacts with |
|---|---|---|---|
| Capture source, `capture.rs` | the device, its datalink type | resolve and open a device, the packet loop | libpcap hands it frames; calls the parser and the table |
| Packet parsing, `net.rs` | none between frames | `parse_frame`: link layer, IPv4, IPv6 with extension headers, TCP | called per frame by the capture loop |
| TCP reassembly, `flow.rs` `Direction::feed` | `next_seq`, `ooo` (segments that came early), `rxbuf` | feed a segment | called per packet by `Connection::handle`; its `rxbuf` is drained by the decoder |
| Connection decoding, `flow.rs` `Connection::handle`, `decode.rs` `drain_direction` | the two buffers, pgwire's context flags, the cached row description, `encrypted` | drain a direction; SSL/GSS negotiation; decode error | emits records through `deliver`, counts messages in `Metrics` |
| Connection table, `flow.rs` `ConnTable` | map from 4-tuple to connection | handle a segment: open, FIN, RST | opens and closes records in the registry |
| Connection registry, `state.rs` | retained records, queue of closed ids, live and opened counts, two kinds of lock | `open_connection`, `close_connection`, `snapshot` | shared by the source threads and the TUI |
| Traffic counters and rate sampler, `state.rs` | relaxed atomics, per connection and in total; rate history | `record_messages`, `sample_rates`, guard drop | pumps write, the sampler thread and the TUI read |
| Proxy connection, `proxy.rs` | the two streams, two pump tasks, the connection's record | accept, TLS or GSS answer, upstream probe, pump, raw relay | decodes through `decode.rs`, one task per connection |
| Output and recording, `decode.rs` `deliver`, `main.rs` `run_stdout`, `session.rs` | one unbounded channel, the printer thread, the session file | deliver, print, record, close and join, replay | many producers, one consumer |
| TUI, `tui.rs` | history, visible positions, scroll, filter, recorder, splash | the main loop and its keys, `:save`, `:open` | consumes the channel; reads and writes session files |
| Display filter language, `filter.rs` | a compiled filter | lex, parse, match | used by stdout and the TUI, which parses with every key |
| Message formatting; TLS material; command line | none, or files | | |

What is hard here, and hard to test: frames whose headers claim lengths they do
not have; segments that arrive reordered, repeated
and cut anew, with sequence numbers that wrap; two directions of a conversation
that the capture shows out of step; close seen twice, or not at all, on a
4-tuple that is reused; two locks taken in different orders; counters read while
they are written; a pump that is cancelled between its read and its write; a
process that is stopped in the middle of a record; a history that is trimmed
under a view that points into it; filters whose lexemes touch and whose
connectives mix. `PROJECT.json` lists these hazards with their
lines and the properties that would catch them going wrong.

## Modules

| Module | Models | Abstraction |
|---|---|---|
| `Reassembly` | `Direction::feed`; the capture is the environment | a byte is its position in the stream; sequence numbers are modulo `SeqMod` (2^32 in the code) |
| `ByteStream` | what `feed` promises: contiguous runs, in order, never revised | abstract specification, refined by `Reassembly` |
| `Negotiation` | `Connection::handle`, `drain_direction`, `handle_frontend`, `handle_backend`, `decode_error` | a message is one or more units, a negotiation reply one; pgwire's decoders are external and have every outcome on bytes read out of step |
| `NetParse` | `parse_frame` and all it calls | every byte is kept; a slice is a pair of offsets, a turn of a loop is a step; what a frame carries is also said by offsets alone (`CarriesTcp`, `SegmentAt`) |
| `ConnTable` | `ConnTable::handle` and its calls of the registry | a segment is its endpoints and flags |
| `Capture` | `run` and `resolve_device` of `capture.rs`, composed of `NetParse` and `ConnTable` | which device libpcap opens shows only in its datalink type |
| `ConnRegistry` | `open_connection`, `close_connection`, the listing part of `snapshot` | one action per atomic operation or lock |
| `Counters` | `record_messages`, `sample_rates`, the sampler thread and `Drop for RateSampler`, the counters of `snapshot`, and which connections it lists | of the registry only that a connection is new, retained or evicted; one action per `fetch_add` and per load of the sampler; a snapshot loads the cells of the totals, and of each connection, in one step (no property relates two of them) |
| `Proxy` | `handle_connection`, `pump`, `raw_relay`, `ConnectionGuard` | what a side sends is a sequence of units; a TLS leg accepts up to `TlsBuffer` units more than it passes on, and nothing flushes it but more writes and the shutdown |
| `Recording` | `deliver`, `close_output`, `run_stdout`, `SessionWriter` over its `LineWriter`, `read_with` | a record is written to the file in `JsonPieces` pieces and a newline, and offered to stdout whole; what stdout takes of it is its own affair |
| `TuiApp` | `App`, `app_loop`, `handle_key`, `view_window`, `run_replay`, `read_tail` | a record is its source, place and kind; a filter text parses as a whole or not at all |
| `Filter` | `lex`, `Parser`, the evaluation of a filter, and a reference grammar with its meaning | a run of letters and digits is one character; regular expressions and the parsing of addresses and ports are external |
| `MC...` | instances for TLC | |
| `ReassemblyProofs`, `NegotiationProofs`, `CaptureProofs` (with those of `ConnTable` and `NetParse`), `ConnRegistryProofs`, `CountersProofs`, `ProxyProofs`, `RecordingProofs`, `TuiAppProofs` | theorems | |

The modules meet at their interfaces. `Capture` extends `NetParse` and
`ConnTable`: a frame is parsed step by step, and the segment that comes out is
what the table handles; that this does nothing to the table that `ConnTable`
does not allow is checked, and proved, as a refinement. `Reassembly` shows that the decoder of
`Negotiation` gets each direction in order, which is what `Negotiation` assumes
of its input. `ConnTable` calls open and close one after the other, as the
capture thread does; `ConnRegistry` shows what those calls do when many threads
make them. `Negotiation` and `Proxy` hand batches to `record_messages`, the
subject of `Counters`. What is delivered is consumed in `Recording` (stdout) or
in `TuiApp`, each with a filter whose text, tree and meaning are the subject of
`Filter`. The two consumers differ in the granularity of a write: in
`Recording` a record reaches the file in pieces, in `TuiApp` it is written in
one step or fails.

State and actions keep the names of the code where TLA+ allows it. A variable
marked *history* in a module does not exist in the code; it remembers what the
properties speak of. Operators whose comment begins with *Mutant* are not part
of a model: each is a plausible error in the definition after it, and
`PROJECT.json` says which property detects it.

## Runs

One run per component, except where a disagreement between the code and its
documentation has a run of its own (marked ✗, see Findings). Bounds are chosen
so that every case of the code occurs.

| Run | Instance, and why it is enough | Checks |
|---|---|---|
| `Reassembly` | 8 bytes in five segments, the first two also retransmitted as one, in any order any number of times, with or without the SYN; the numbers wrap inside the stream (`SeqMod` 18, `Isn` 13). The stream is just under half the space, the longest for which the signed distance is unambiguous | `NothingHeldBack`, the refinement `DeliversStream` |
| ✗ `ReassemblyOverlap` | 4 bytes, cut in all ways into overlapping segments | `NothingHeldBack` |
| `Negotiation` | all conversations with at most one negotiation in the order they were held, in chunks of up to 4 units; messages are two units long, rows three, so that a chunk may hold two messages, end inside one or carry only a part of one; three of them with one direction captured up to 4 messages ahead | `Faithful` (each message printed once, in order, as soon as it is complete, up to an accepted request) and `RowsLabelled` (a row has the columns of the statement it is a row of) for captures in order; `CountsMessages`, `OpaqueIsFinal` for all |
| ✗ `NegotiationTwice` | GSS refused, then SSL on the same connection | `Faithful` |
| `Capture` | first a frame of any kind: every link type, IPv4 options, four stacks of IPv6 extension headers, TCP options, padding, two packets cut at every length, other protocols, and length fields that are too small or too large; then any sequence of plain frames of two clients with any flags, four records: a 4-tuple is reused twice while the other is open | `SlicesInBounds`, `ParsesWire` (what is handed over is what was sent, and nothing else is), `ParseReturns`; `OpenRecordsHaveEntries` (no record leaks), `LiveIsUnclosed`, `TrailingAbsorbed`; the refinement `ImplementsTable` |
| ✗ `CaptureVlan` | a frame with one or two 802.1Q tags | `ParsesWire` |
| `ConnRegistry` | three connections, each closed once or twice, a cap of one, a snapshot: the third close evicts while the second is between its locks | `LiveCount`, `OpenNeverEvicted`, `ClosedQueue`, `OperationsReturn` |
| `Counters` | two connections are opened and evicted at any point; their pumps, one direction each (the proof covers both), record three batches while the readers make two passes: two samples, a sample and a snapshot, or two snapshots; a rate history of one | `TotalsAccountForConns`, `SamplesAddUp`, `SnapshotNearlyAgrees`, `DropJoins` |
| `Proxy` | every kind of start (cancel, SSL, GSS, plain), with and without upstream TLS, each answer to the probe, up to three units per direction, reads of up to two, TLS sessions that hold back up to two units, either side closing, failing or no longer reading at any point | `Untouched`, `QuietAfterClose`, `ClosedWhenClientGone`, `ClientHeard` |
| `Recording` | two producers with two records each, one hidden by the filter, failing writes to the file and to stdout, Ctrl-C at any point, then a replay of the file; two pieces per record are enough to tear one before, in and after its JSON text | `PrintedIsSaved`, `OkIsComplete`, `ReplayRestores`, `SourceEndsRun` |
| `Tui` | a history of two, trimmed in chunks of two. Half of the setups are about the view: records of one and of two rows, views of one and of three, scrolling, display modes, clear and the filter editor, so that the fourth record forces a trim inside a drain and an event may be taller than the view or fill it with another. The other half are about sessions: live traffic or a replay, `--save`, `:save` and `:open` over two files, one of them two records longer than the history, clear and quit, writes that fail, and a filter that hides the records | `VisibleIsFiltered`, `FramesFillView` (no frame is out of bounds), `PausedViewStays`; `OneTimeline`, `RecordingFollows`, `DroppedIsExact`, `ChannelDrains`; `TypeOK`, which bounds the history |
| `Filter` | every text of three single lexemes, right or wrong; of four predicates, brackets and connectives in each spelling; filters and sets of up to seven lexemes that go on as long as more text can make them right, which is enough for `(a or b) and c` and a set of three; typed with spaces, or with them only where two lexemes would merge; directions in lower case (see where the properties stop); evaluated on twelve messages | `LexesAsMeant`, `ParsesAsWritten`, `TypeOK` (a filter is well typed) |

The type invariants of `Reassembly`, `ConnTable`, `ConnRegistry` and `TuiApp` are
proved. That of `TuiApp` bounds the history as well, and that of `Filter` says
that a filter is well typed; both are also checked in their runs.
The keys of the TUI are split over its setups: sessions do not look at the view,
and the view does not look at files.

Most runs are checked without deadlock detection, because the programs they
model do end: connections close, threads exit, the user quits. Reassembly runs
with it: a segment can always be captured again.

## Fairness

Liveness is stated under weak fairness of the threads and tasks themselves,
never of the environment, with these exceptions, each of which the code relies
on as well:

* `ConnRegistry`, `Counters`: a thread that has begun an operation keeps running
  (it holds no lock across a wait).
* `Capture`: the parser keeps running; frames come as they like.
* `Proxy`: the handler and the pumps are tokio tasks, which run when they can.
  The upstream server answers the TLS probe, completes the TLS handshake (there
  is no timeout for either, see the hazard) and closes a connection that asked
  for a cancel, as PostgreSQL does. That a peer reads is not assumed: either may
  stop for good (`StopsReading`), and the two liveness properties say what then
  is not promised.
* `Recording`: the printer and the main thread keep running; the source may run
  for ever.
* `TuiApp`: the main thread keeps looping, and keys do not arrive without pause
  (`handle_key` is called in a loop until no key is ready).

## What is proved

All proofs are by an inductive invariant; the theorems hold for every value of
the constants that satisfies the assumption named in the module.

**`ReassemblyProofs`** (from `OrderlyCapture`: a SYN comes before data and
carries none, the stream is shorter than half the sequence space):
`TypeCorrect`, `DeliveredInOrder`, `ImplementsByteStream`. `InOrder` is not
inductive: whether a segment may be appended is decided on wrapping numbers. The
lemmas `SeqOfAdd`, `DiffIsDistance` and `SeqOfInjective` carry the arithmetic
over to stream positions, and `IInv` adds that `next_seq` (inside the drain loop
`adv`) is the number of the position at which `rxbuf` ends (`CurIsEnd`), that
every segment in `ooo` lies where its key says (`InPlace`), and that nothing is
buffered before the direction is anchored (`Quiet`). `CaptureDataStep` and
`DrainOneStep` then show that a step appends exactly the bytes that follow, from
which both the invariant and the refinement follow.

`NothingHeldBackWhenCut` says when every captured byte whose predecessors were
captured is delivered: under `KeepsCuts`, that is when no segment begins inside
another and ends beyond it, and two that begin with the same byte are equally
long. The run `ReassemblyOverlap` refutes it for cuts that are not so, which
makes the hypothesis the boundary of the finding. The proof (`HeldInv`) keeps
track of what a captured segment has become: it is in the buffer, or it waits in
`ooo` under its own key with its own length, and in an idle direction no segment
waits at the end of the buffer.

**`NegotiationProofs`** (any conversations, messages of any number of units, any
chunks): `TypeCorrect`, `MessagesCounted` and `EncryptedIsSilent`, which hold
also of captures out of step and of what is misread; and, if `OneNegotiationEach`,
`DecodedAsHeld` and, if `RowsFollowDescription` as well, `RowsAreLabelled`. `OneNegotiationEach` says that the
conversations captured in order are each a `Conversation`: messages are sent
whole and in order, and either nothing belongs to a negotiation, or the client
begins with one request, the server answers it with one byte before the client
goes on, and after a refusal nothing else belongs to one. Of what follows an
acceptance only the turns matter. `MCNegotiation` assumes that the conversations
of the run `Negotiation` are such, and that those of `NegotiationTwice` are not, which
TLC evaluates: the hypothesis is not vacuous, and the finding lies outside of it.
`RowsFollowDescription` says that the server sends a row only of the statement it
described last. What a row is a row of is part of the dialogue (`row`), not
computed from the cache, so the theorem compares the cache with the truth; the
ASSUME `TwoStatementsExcluded` has a dialogue in which they differ.

The invariant (`IInv`) says of each direction where the decoder stands
(`Stands`): at the end of a message, with the units captured since in the buffer
and one line printed for each message before. `FlagsInv` gives pgwire's four
context flags and the outcome of the drain as functions of those two places, and
`TurnsInv` that the captures take turns as the conversation does: the reply is
not captured before the request was decoded, nor what follows before the reply
was. Together they leave `Frontend` and `Backend` one outcome, the next message
or nothing yet (`ClientFinds`, `ServerFinds`), and rule out every misread one
(`NothingMisread`). For the rows, the cache is the last description among the
messages decoded (`NextDescription`), and as messages are numbered in the order
they are sent, that is the last one sent before the next (`InForceIsCurrent`),
which the hypothesis turns into the one of the statement it is a row of.

**`CaptureProofs`**, on the table (finitely many endpoints): `TypeCorrect`, `NoRecordLeaks`,
`LiveCountExact`, `OneLiveRecord`, `TrailingSegmentsAbsorbed`. `IInv` adds that
two entries never share a record (`StatsUnique`), that the record of an entry is
the latest of its key (`StatsOfKey`) and that a key that lost its entry was
reset (`GoneWereReset`); without them a close could end the record of another
connection, or a reused key could leave an earlier record open.

On the parser (a frame is a sequence of bytes, no more):
`SlicesStayInBounds` and `LoopsUseUpTheFrame`. That the slice lies in the frame
is inductive with the type of what was read: a length is a number because the
bytes it is computed from are inside the slice (`AtIsByte`, `U16IsPort`), and
every check of the code then bounds the next slice (`EndInSlice`,
`ExtensionIsLong`). The second theorem is the safety half of `ParseReturns`:
each turn of a loop moves the start of the slice, and the first keeps it below
the end.

`SegmentsAreThoseSent` is `ParsesWire` for every set of frames, chain of extension
headers and payload. Its hypothesis `WireIsCarried` says what a frame
carries without the parser's steps: by offsets in the frame as the RFCs lay them
out, TCP following a chain `w` of headers, each begun where the one before ends.
It leaves out VLAN tags, which `CaptureVlan` shows to be misread (`TagHarmless`:
two bytes of a tag do not look like an ethertype of IP). `CarriedAsSent` in
`MCCapture` evaluates the hypothesis on every frame of the run `Capture`, with
chains of at most two extension headers. The invariant `WireInv` says where each step
finds the slice (`PlaceInv`), that the headers walked form a chain (`SoundInv`:
no segment comes of a frame that carries none), and that of a frame which
carries TCP the parser is on its chain (`CompleteInv`: the segment is found, and
is that one). The two meet in `ChainGoesOn` and `NextHeader`: a turn of the loop
extends the chain by what the length field says.

On the whole loop (from `AllEndpoints`: every address and port is an
endpoint): `LoopImplementsTable`, and from it and the theorems about the table
`CaptureLeaksNoRecord` and `CaptureCountsLive`; `CaptureInBounds`. The parser's
invariant gives that a segment has endpoints and flags, so that handling it is a
step of the table; every other step leaves the table alone.

**`ConnRegistryProofs`** (finitely many connections, any cap): `TypeCorrect`
(`conns_live` never goes below zero), `LiveCountInvariant`,
`OpenNeverEvictedInvariant`, `ClosedQueueInvariant`. An evicted id is the head of
the queue of closed ids; that it is not the id of an open connection needs that
ids are unique (`FreshIds`, `UniqueIds`), that the lifecycle follows the stage of
the thread (`LifecycleByStage`) and that only retired connections are queued
(`QueuedAreRetired`). That the queue has no id twice, and only ids of records
that are retained, needs in addition that a thread queues its id once, in the
stage after which its record was marked closed (`QueueInv`).

**`CountersProofs`** (finitely many connections; batches have a largest
number of messages and of bytes, as the buffers are bounded): `TotalsAccount`, `SamplesAddUpInvariant`,
`SnapshotAgrees`, which are all of the module's safety properties, for both
directions of each connection. A total is
the sum over the connections of what their own counters say and what the running
`record_messages` still owes them (`SumInv`); what the sampler has loaded so far
lies between the previous sample and the total (`RateInv`). A snapshot that has
loaded the totals is compared with a sum in which a connection it has loaded
counts with one batch more, and any other with what is in its counters and owed
to it by now, which only grows (`ViewInv`). That no connection that counts is
missed when the registry is listed needs that a connection which is not
registered yet has counted nothing, and that one which is retained after the
listing was listed (`RegistryInv`).
The sums are folds over finite sets. The library's induction theorems take an
operator as a parameter and cannot be used; `LeastNat`, a consequence of
`WFMin`, gives the same by a least counterexample: `FoldExists`, `SumIsFold` and
`SumChange` (changing one summand changes the sum by as much) rest on it.

**`ProxyProofs`** (any script, read size, TLS buffer and server): `ForwardsUntouched` and
`QuietOnceClosed`. Neither property is inductive, since a pump is cancelled
between its read and its write. `IInv` judges a pump by the position its source
was read up to: what it decoded are the units from the first one that is the
peer's business to that position, what it wrote is the same less the chunk it
holds. What has left for the peer is a beginning of what was written, whatever
the TLS session holds back. Which head the client sent, and so which units are the peer's business,
is remembered by the place `handle_connection` is at (`Course`, `Lifetime`).

**`RecordingProofs`** (any number of producers, records and pieces per record):
`ShownWasSaved`, `OkMeansComplete`, `ReplayIsFaithful`, from
`TranscriptInvariant`. The file and the buffer of the `LineWriter` together are
the lines of the records that were taken from the channel, cut off somewhere;
while recording works their length is known (`FileInv`). A replay reads whole
lines of that transcript, so the records it returns are the first ones, and it
can fail only at a last line that was cut off (`ReplayInv`). What stdout took is
only known to have been offered to it (`PrintedWasOffered`). The lemmas about
`Pos` and `Lines` say which line and piece a place in the file is.

**`TuiAppProofs`** (any cap, chunk, session files and setups): `TypeCorrect`
(with it, the history stays under the cap and the chunk, and no frame panics),
`ViewIsFiltered`, `HistoryIsTimeline`, `DroppedCountExact`,
`RecordingIsTimeline`, `PausedViewHolds`, `FramesFill`. The retained events and
the file that is recorded are both ends of one timeline, so it is enough to
relate lengths (`TimeInv`, `RecordInv`). `RecordingFollows` had to be
strengthened to be inductive: the file itself has to be an end of the timeline,
and the writer to stand at its end. `VisibleOf` lists positions by rank; that a
push extends the list and a trim may rebuild it follows from the cardinality of
initial parts (`RankFacts`, `ListedGrows`). `FramesFill` needs what the loops of
`Fill` and `Total` compute: `FoldByExists` shows that such a fold has steps,
`Counting` (again a least counterexample) that what the steps preserve holds at
the end, and `FillFacts` that the items taken fit and one more would not;
`TotalReversed` turns this around for a view that follows. Every record shown
has a height because nothing unreadable enters the timeline (`SourceInv`).

Only model-checked: all liveness (the prover has no fairness and no `ENABLED`);
`Filter`, whose operators are recursive.

## Findings

Each is a run that TLC refutes; `PROJECT.json` quotes the sentence and the lines.

| Run | What the code does |
|---|---|
| `ReassemblyOverlap` | a retransmission cut differently carries the stream past the start of a buffered segment, whose tail is then never delivered |
| `NegotiationTwice` | a client that is refused GSS and then asks for SSL, as libpq does, is misread from there on |
| `CaptureVlan` | after a VLAN tag the ethertype is read from the wrong two bytes of the tag, and the frame is dropped |

### Where the properties stop

The properties and assumptions of the models draw the line where the code stops
keeping a promise. What lies beyond, and the constant that shows it:

* `Reassembly`: payload on a SYN (`SynData = {0, 1}`) is taken to start at `seq`
  instead of `seq + 1`; a SYN captured after data (`LateSyn = TRUE`) moves
  `next_seq` back, and bytes are delivered twice; an overtaken segment stays in
  `ooo` and is spliced in once the numbers have wrapped (`StreamLen` greater
  than `SeqMod`). `OrderlyCapture` excludes the three.
* `NetParse`: `ParsesWire` speaks of packets that are whole IP packets. Fragments
  are parsed as if they were, an IPv4 packet whose length field is 0 (as segmentation
  offload may leave it) is dropped, and the protocol field of a cooked header is
  not looked at. A packet cut by the snap length yields a shorter payload, which
  is a hole in the stream of `Reassembly` that nothing fills.
* `Negotiation`: in a capture out of step (`skew`), bytes that follow the
  accepting byte in the same buffer are decoded before `encrypted` is looked at,
  so `Faithful` is stated for captures in order only. The cache keeps one
  description per direction, though a comment at `decode.rs:506` says that "a
  statement/portal is described once but may be executed across many ReadyForQuery
  cycles": if two statements are described and the first is executed again, its
  rows get the columns of the second. The dialogue `TwoStatements` of
  `MCNegotiation` is such a one; `OneStatementAtATime` excludes it, and with it
  among the dialogues the run violates `RowsLabelled`.
* `ConnTable`: with both ends on a watched port (both in `Watched`) a connection
  has two entries.
* `ConnRegistry`: only a close evicts, so an open on a full registry exceeds the
  documented cap until the next close; `ClosedQueue` bounds the closed records.
* `Counters`: totals and connection are updated in four separate additions,
  which a comment calls atomic; `SnapshotNearlyAgrees` states how far a snapshot
  can be off. A connection that was evicted is not listed, while what it counted
  stays in the totals, so the sum of what is shown falls behind them without
  bound; the property counts it in.
* `Proxy`: if the server answers the probe with an error message, its first byte
  is lost (the variable `lost`, which `Untouched` allows for). A client that
  half-closes gets nothing more: the first pump to finish ends the other, on
  purpose. Neither copy of `raw_relay` shuts its sink down when its source ends,
  so a cancelling client that waits for the server's close, as libpq does, and
  the relay wait for each other; the clients of the model close of their own
  accord. `write_all` is never followed by a flush, so on a TLS leg whose socket
  was full the last bytes wait in the session until more is written or the stream
  is shut down, even if the peer reads again: `ClientHeard` promises that bytes
  leave at once only of a cleartext upstream leg. A server that stops reading
  holds the pump, and the record, for as long as it likes (`stalled`, which
  `ClosedWhenClientGone` and `ClientHeard` except). A second negotiation request is pumped upstream and what follows is
  opaque to the tap.
* `Recording`: Ctrl-C inside a record leaves a torn last line, which a replay
  refuses after the lines before it; `ReplayRestores` states that it is the last.
  The results of writing and flushing stdout and stderr are ignored
  (`main.rs:118,121,124,131-132`), so with a closed pipe or a full disk
  `run_stdout` succeeds although records were never printed: `OkIsComplete` says
  of them that they were saved and offered. A stdout that blocks for ever, and
  with it the printer and the join, is not modelled.
* `TuiApp`: a replay hands over only the newest `HISTORY_CAP` records, so `--save`
  does not see the earlier ones, although `cli.rs:49-51` promises "every live or
  replayed output record", recorded "before the TUI history cap is applied"; the
  session file `a` of the run `Tui` is such a one. In the same replay the notice
  and the records are one more than the cap, the first frame trims the notice,
  and `:save` says "1 earlier events were outside history" (`tui.rs:142-149, 341,
  423`) however many `read_tail` left out. `RecordingFollows` and
  `DroppedIsExact` speak of what was handed to the view (`Timeline`). A `:save` that fails onto the file being
  recorded truncates it under the active recorder (the variable `clobbered`,
  which `RecordingFollows` excludes); a trim moves a paused view to the oldest
  event, on every trim of a full history (excluded by `PausedViewStays`); records in the channel when the user
  quits are neither shown nor recorded. The source sends a bounded number of
  records (`records`), so that one which is faster than `try_recv` for ever, and
  keeps the drain loop from ending, is outside `ChannelDrains`.
* `Filter`: `man/sections.md:66-67` says that "String and direction comparisons are
  case-sensitive", but `parse_direction` (`filter.rs:663-665`) takes `"F2B"` for
  `"f2b"`. The reference knows the two directions of the manual only, and the
  run types them in lower case; with `Quoted(<<"F2B">>)` among its lexemes it
  violates `ParsesAsWritten`.

## Not modelled

* Message text (`decode.rs`), widgets and colours (`tui.rs`), argument
  definitions (`cli.rs`): layout.
* TLS material (`proxy.rs`): one-shot file I/O and calls into libraries.
* pgwire, libpcap, the regular expressions, the client and the server are
  external: modelled from how the code
  uses them, and marked so in the map.
* The traffic counters are unbounded (the code's are `u64`); sequence numbers keep their
  width as `SeqMod`. Relaxed atomics are modelled as sequentially consistent per
  cell; cells are read and written separately, which shows the reorderings that
  matter to the properties.

## Plan

Done, in this order: `Reassembly` with `ByteStream`; `ConnRegistry`; `ConnTable`;
`Counters`; `Negotiation`; `Proxy`; `Recording`; `TuiApp`; `NetParse`; `Capture`
over `NetParse` and `ConnTable`; `Filter`; proofs of all of them but `Filter`.

Next: the composition of `Reassembly` and `Negotiation` on one connection, in
which the chunks of the second are the runs that the first delivers.
